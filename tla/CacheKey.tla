------------------------------- MODULE CacheKey -------------------------------
(***************************************************************************)
(* graphCacheKey of common/extraction/graph_cache.go: the key one graph is *)
(* kept under, against what ExtractGraph reads out of the same inputs.     *)
(*                                                                         *)
(* A request is a spelling of the project root and an options bag.  A list *)
(* of names is a sequence, names are numbers so that they can be sorted,   *)
(* and the nil bag and the nil list are told apart from empty ones because *)
(* WithDefaults does.  The key's text quotes every string, so it can be    *)
(* read back; it is modelled by the record of what it quotes.              *)
(***************************************************************************)
EXTENDS Integers, Sequences, FiniteSets, SequencesExt

CONSTANTS
  Spelling,       \* ways of writing a project root
  ResolvedRoot,   \* the directory resolveProjectRoot resolves a spelling to
  DefaultFolders, \* DefaultExcludedFolders(), a sequence of names
  PassedOver,     \* the names ignoredByToolchain answers yes to
  FolderLists,    \* the exclusion lists a caller may write, NilList among them
  TagLists,       \* the build tag lists a caller may write
  KindSets,       \* the sets of import kinds a caller may ignore
  ScopeLists,     \* the ignore scopes a caller may answer to
  NilBag,         \* a nil *SourceOptions
  NilList         \* a nil []string, where nil differs from empty

\* A list holds names, only one of folders is told apart when it is nil, and
\* DefaultExcludedFolders names no folder twice and none the toolchain ignores.
ASSUME KeyAssumption ==
  /\ DefaultFolders \in Seq(Int) /\ IsInjective(DefaultFolders)
  /\ Range(DefaultFolders) \cap PassedOver = {}
  /\ FolderLists \ {NilList} \subseteq Seq(Int)
  /\ TagLists \cup ScopeLists \subseteq Seq(Int)
  /\ NilList \notin TagLists \cup ScopeLists

VARIABLES left, right   \* two requests of one process

Bag ==
  [folders : FolderLists, tests : BOOLEAN, tags : TagLists,
   ignored : KindSets, scopes : ScopeLists]

Requests == [root : Spelling, options : Bag \cup {NilBag}]

\* SourceOptions.WithDefaults.
WithDefaults(o) ==
  IF o = NilBag
  THEN [folders |-> DefaultFolders, tests |-> FALSE, tags |-> << >>,
        ignored |-> {}, scopes |-> << >>]
  ELSE [o EXCEPT !.folders = IF @ = NilList THEN DefaultFolders ELSE @]

\* slices.Sorted.
Sorted(list) ==
  LET order == CHOOSE p \in Bijection(DOMAIN list, DOMAIN list) :
                 \A i, j \in DOMAIN list : i < j => list[p[i]] <= list[p[j]]
  IN  [i \in DOMAIN list |-> list[order[i]]]

\* Mutant of GraphCacheKey: the ignore scopes are forgotten.
KeyWithoutScopes(q) ==
  LET resolved == WithDefaults(q.options)
  IN  [root |-> ResolvedRoot[q.root],
       folders |-> Sorted(resolved.folders),
       tests |-> resolved.tests,
       tags |-> Sorted(resolved.tags),
       ignored |-> resolved.ignored]

GraphCacheKey(q) ==
  LET resolved == WithDefaults(q.options)
  IN  [root |-> ResolvedRoot[q.root],
       folders |-> Sorted(resolved.folders),
       tests |-> resolved.tests,
       tags |-> Sorted(resolved.tags),
       ignored |-> resolved.ignored,
       scopes |-> Sorted(resolved.scopes)]

(***************************************************************************)
(* What the extraction asks of its inputs: which folders ExcludesFolder    *)
(* answers yes to, which build the -tags flag selects, which imports       *)
(* IgnoresImport drops.  Each is a question about membership.              *)
(***************************************************************************)
ExcludedFolders(o) ==
  PassedOver \cup (IF o = NilBag \/ o.folders = NilList
                  THEN Range(DefaultFolders) ELSE Range(o.folders))

AnalysisMeant(q) ==
  LET o == q.options
  IN  [root |-> ResolvedRoot[q.root],
       excluded |-> ExcludedFolders(o),
       tests |-> o # NilBag /\ o.tests,
       build |-> IF o = NilBag THEN {} ELSE Range(o.tags),
       dropped |-> IF o = NilBag THEN {} ELSE o.ignored,
       answers |-> IF o = NilBag THEN {} ELSE Range(o.scopes)]

\* No list names something twice, or a folder that is passed over in any case.
NoIdleNames(o) ==
  /\ \A list \in IF o = NilBag THEN {} ELSE {o.folders, o.tags, o.scopes} :
        list = NilList \/ (list # NilList /\ IsInjective(list))
  /\ o = NilBag \/ o.folders = NilList \/ Range(o.folders) \cap PassedOver = {}

-----------------------------------------------------------------------------
KeysInit == left \in Requests /\ right \in {[root |-> r, options |-> NilBag] : r \in Spelling}

\* The process asks again, about the same project or another, any way it likes.
AskAgain ==
  /\ right' \in Requests
  /\ right.options = NilBag   \* one further request is enough for a pair
  /\ UNCHANGED left

KeysSpec == KeysInit /\ [][AskAgain]_<<left, right>>

-----------------------------------------------------------------------------
\* Two requests under one key are one analysis: no check is handed the graph
\* of a different analysis of the project.  And one analysis is extracted once
\* however it is spelled: a relative or linked root, a nil or a zero bag, a list
\* in another order; only a list that names something twice, or a folder the walk
\* never goes into, is kept apart (graph_cache.go, graphCacheKey).
KeysAreAnalyses ==
  /\ GraphCacheKey(left) = GraphCacheKey(right) => AnalysisMeant(left) = AnalysisMeant(right)
  /\ NoIdleNames(left.options) /\ NoIdleNames(right.options) =>
       (AnalysisMeant(left) = AnalysisMeant(right) => GraphCacheKey(left) = GraphCacheKey(right))

=============================================================================
