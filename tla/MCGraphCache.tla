----------------------------- MODULE MCGraphCache -----------------------------
(* GraphCache for a project spelled two ways, whose two spellings share a key,*)
(* and the same project with its test files, which is another key.  The keys *)
(* and the analyses are the ones module CacheKey computes.                   *)
EXTENDS GraphCache, TLC

CONSTANTS NilBag, NilList

\* Two requests: without and with the test files.
MCSpelling == {"./shop", "/src/shop"}
ZeroBag == [folders |-> NilList, tests |-> FALSE, tags |-> << >>, ignored |-> {}, scopes |-> << >>]
K == INSTANCE CacheKey WITH
  Spelling <- MCSpelling,
  ResolvedRoot <- [s \in MCSpelling |-> "shop"],
  DefaultFolders <- <<2, 1>>,
  PassedOver <- {3},
  FolderLists <- {NilList},
  TagLists <- {<< >>},
  KindSets <- {{}},
  ScopeLists <- {<< >>},
  left <- disk, right <- disk

Bare == [root |-> "./shop", options |-> NilBag]
Spelled == [root |-> "/src/shop", options |-> ZeroBag]
WithTests == [root |-> "./shop", options |-> [ZeroBag EXCEPT !.tests = TRUE]]

TwoKeys == {Bare, WithTests}
OneKey == {Bare, Spelled}
OneRequest == {Bare}

MCKeyOf == [q \in Request |-> K!GraphCacheKey(q)]
MCAnalysisOf == [q \in Request |-> K!AnalysisMeant(q)]
MCKey == {MCKeyOf[q] : q \in Request}
MCAnalysis == {MCAnalysisOf[q] : q \in Request}

Checks == Permutations(Proc)
=============================================================================
