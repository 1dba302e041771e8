------------------------------ MODULE GraphCache ------------------------------
(***************************************************************************)
(* The process-wide graph cache of common/extraction/graph_cache.go and    *)
(* the one door checks reach it through, CheckOptions.ExtractGraph of      *)
(* common/fluentapi/check_options.go, run by checks in parallel.           *)
(*                                                                         *)
(* The mutex of graphCache is held by lookup, store and clear and by       *)
(* nothing else, so each of the three is one atomic step; the steps of an  *)
(* extraction interleave with everything, which is what the comment on     *)
(* graphCache.graph announces.                                             *)
(*                                                                         *)
(* A Graph is a slice: what is shared or copied is its backing array.  An  *)
(* array is a member of Ref, its content is heap[r]; slices.Clone takes an *)
(* unused array and copies the content.  An array nobody refers to is      *)
(* garbage collected, so that Ref can be small.                            *)
(***************************************************************************)
EXTENDS Integers, FiniteSets

CONSTANTS
  Proc,       \* goroutines that run a check
  Request,    \* what a check may ask for: a locator and its options
  Analysis,   \* the analyses of source those requests mean
  Key,        \* cache keys
  KeyOf,      \* the key graphCacheKey builds for a request
  AnalysisOf, \* the analysis a request means to ExtractGraph
  Ref,        \* backing arrays
  NoRef,      \* the nil slice, and an absent map entry
  MaxEdits    \* bound on the number of edits of the source

ASSUME KeyOfType == KeyOf \in [Request -> Key]
ASSUME AnalysisOfType == AnalysisOf \in [Request -> Analysis]
ASSUME NoRefAssumption == NoRef \notin Ref
ASSUME MaxEditsAssumption == MaxEdits \in Nat

(***************************************************************************)
(* The one assumption about graphCacheKey: requests it gives one key mean  *)
(* one analysis.  Module CacheKey is where it is checked.                  *)
(***************************************************************************)
ASSUME KeyNamesAnalysis ==
  \A q1, q2 \in Request : KeyOf[q1] = KeyOf[q2] => AnalysisOf[q1] = AnalysisOf[q2]

VARIABLES
  disk,    \* version of the source on disk
  cache,   \* graphCache.graphs: cache[k] is the array kept under k
  heap,    \* content of the backing arrays
  pc,      \* the step each goroutine is about to take
  call,    \* call[p]: the request, and whether CheckOptions.ClearCache is set
  walked,  \* walked[p]: version ExtractSourceFiles saw
  held,    \* held[p]: the array of the Graph value p has
  began,   \* history: version on disk when the check of p began
  floor,   \* history: version on disk at the last clear
  crossed  \* history: keys being extracted when the last clear ran

vars == <<disk, cache, heap, pc, call, walked, held, began, floor, crossed>>

Version == 0 .. MaxEdits
Graph == [of : Analysis, first : Version, last : Version]
Garbage == [garbage |-> TRUE]
Scribbled(p) == [scribbledBy |-> p]
Content == Graph \cup {Garbage} \cup {Scribbled(p) : p \in Proc}

Call == [request : Request, clear : BOOLEAN]
NoCall == [none |-> TRUE]

\* The steps of CheckOptions.ExtractGraph, in order; "idle" is outside it.
Extracting == {"walk", "load", "parse", "store"}
Step == {"idle", "clear", "locate", "lookup", "done", "failed"} \cup Extracting

KeyOfCall(p) == KeyOf[call[p].request]

\* The arrays some map entry or some goroutine refers to.
Live(c, h) == {r \in Ref : (\E k \in Key : c[k] = r) \/ (\E p \in Proc : h[p] = r)}
Unused == Ref \ Live(cache, held)
Fresh == CHOOSE r \in Ref : r \in Unused
Collected(content, live) ==
  [r \in Ref |-> IF r \in live THEN content[r] ELSE Garbage]

Init ==
  /\ disk = 0
  /\ cache = [k \in Key |-> NoRef]
  /\ heap = [r \in Ref |-> Garbage]
  /\ pc = [p \in Proc |-> "idle"]
  /\ call = [p \in Proc |-> NoCall]
  /\ walked = [p \in Proc |-> 0]
  /\ held = [p \in Proc |-> NoRef]
  /\ began = [p \in Proc |-> 0]
  /\ floor = 0
  /\ crossed = {}

-----------------------------------------------------------------------------
\* The world outside the library.

EditSource ==
  /\ disk < MaxEdits
  /\ disk' = disk + 1
  /\ UNCHANGED <<cache, heap, pc, call, walked, held, began, floor, crossed>>

-----------------------------------------------------------------------------
\* Clearing: graphCache.clear drops the whole map under the mutex.

Clear ==
  /\ cache' = [k \in Key |-> NoRef]
  /\ heap' = Collected(heap, Live(cache', held))
  /\ floor' = disk
  /\ crossed' = {KeyOfCall(p) : p \in {q \in Proc : pc[q] \in Extracting}}

\* ClearGraphCache, called by a goroutine that is not inside a check.
ClearGraphCache ==
  /\ Clear
  /\ UNCHANGED <<disk, pc, call, walked, held, began>>

-----------------------------------------------------------------------------
\* CheckOptions.ExtractGraph, step by step.

Goto(p, step) == pc' = [pc EXCEPT ![p] = step]

Begin(p, q, clear) ==
  /\ pc[p] = "idle"
  /\ Goto(p, IF clear THEN "clear" ELSE "locate")
  /\ call' = [call EXCEPT ![p] = [request |-> q, clear |-> clear]]
  /\ began' = [began EXCEPT ![p] = disk]
  /\ UNCHANGED <<disk, cache, heap, walked, held, floor, crossed>>

\* Mutant of ClearCache: only the entry the check is about to ask for is dropped.
ClearOwnEntry(p) ==
  /\ pc[p] = "clear"
  /\ cache' = [cache EXCEPT ![KeyOfCall(p)] = NoRef]
  /\ heap' = Collected(heap, Live(cache', held))
  /\ floor' = disk
  /\ crossed' = {KeyOfCall(q) : q \in {r \in Proc : pc[r] \in Extracting}}
  /\ Goto(p, "locate")
  /\ UNCHANGED <<disk, call, walked, held, began>>

ClearCache(p) ==
  /\ pc[p] = "clear"
  /\ Clear
  /\ Goto(p, "locate")
  /\ UNCHANGED <<disk, call, walked, held, began>>

LocateProject(p) ==
  /\ pc[p] = "locate"
  /\ Goto(p, "lookup")
  /\ UNCHANGED <<disk, cache, heap, call, walked, held, began, floor, crossed>>

\* Mutant of LookupHit: the cached array itself is handed out.
LookupHitShared(p) ==
  /\ pc[p] = "lookup"
  /\ cache[KeyOfCall(p)] # NoRef
  /\ held' = [held EXCEPT ![p] = cache[KeyOfCall(p)]]
  /\ Goto(p, "done")
  /\ UNCHANGED <<disk, cache, heap, call, walked, began, floor, crossed>>

\* The hit hands out a clone made under the mutex.
LookupHit(p) ==
  /\ pc[p] = "lookup"
  /\ cache[KeyOfCall(p)] # NoRef
  /\ Unused # {}
  /\ heap' = [heap EXCEPT ![Fresh] = heap[cache[KeyOfCall(p)]]]
  /\ held' = [held EXCEPT ![p] = Fresh]
  /\ Goto(p, "done")
  /\ UNCHANGED <<disk, cache, call, walked, began, floor, crossed>>

LookupMiss(p) ==
  /\ pc[p] = "lookup"
  /\ cache[KeyOfCall(p)] = NoRef
  /\ Goto(p, "walk")
  /\ UNCHANGED <<disk, cache, heap, call, walked, held, began, floor, crossed>>

\* NewGraph: the extraction's own array, which the caller will be handed.
Build(p, first) ==
  /\ Unused # {}
  /\ heap' = [heap EXCEPT ![Fresh] =
                [of |-> AnalysisOf[call[p].request], first |-> first, last |-> disk]]
  /\ held' = [held EXCEPT ![p] = Fresh]
  /\ Goto(p, "store")

\* Mutant of WalkEmptyProject: an empty graph is returned without being stored.
WalkEmptyUncached(p) ==
  /\ pc[p] = "walk"
  /\ Unused # {}
  /\ heap' = [heap EXCEPT ![Fresh] =
                [of |-> AnalysisOf[call[p].request], first |-> disk, last |-> disk]]
  /\ held' = [held EXCEPT ![p] = Fresh]
  /\ Goto(p, "done")
  /\ UNCHANGED <<disk, cache, call, walked, began, floor, crossed>>

\* ExtractSourceFiles enumerates; an empty project never reaches the toolchain.
WalkSources(p) ==
  /\ pc[p] = "walk"
  /\ walked' = [walked EXCEPT ![p] = disk]
  /\ Goto(p, "load")
  /\ UNCHANGED <<disk, cache, heap, call, held, began, floor, crossed>>

WalkEmptyProject(p) ==
  /\ pc[p] = "walk"
  /\ walked' = [walked EXCEPT ![p] = disk]
  /\ Build(p, disk)
  /\ UNCHANGED <<disk, cache, call, began, floor, crossed>>

LoadProjectBuild(p) ==
  /\ pc[p] = "load"
  /\ Goto(p, "parse")
  /\ UNCHANGED <<disk, cache, heap, call, walked, held, began, floor, crossed>>

ParseImports(p) ==
  /\ pc[p] = "parse"
  /\ Build(p, walked[p])
  /\ UNCHANGED <<disk, cache, call, walked, began, floor, crossed>>

\* Mutant of Store: the caller's own array is kept.
StoreUncopied(p) ==
  /\ pc[p] = "store"
  /\ cache' = [cache EXCEPT ![KeyOfCall(p)] = held[p]]
  /\ heap' = Collected(heap, Live(cache', held))
  /\ Goto(p, "done")
  /\ UNCHANGED <<disk, call, walked, held, began, floor, crossed>>

\* Mutant of Store: the stored graph is looked up again instead of returned.
StoreThenLookup(p) ==
  /\ pc[p] = "store"
  /\ Unused # {}
  /\ cache' = [cache EXCEPT ![KeyOfCall(p)] = Fresh]
  /\ held' = [held EXCEPT ![p] = NoRef]
  /\ heap' = Collected([heap EXCEPT ![Fresh] = heap[held[p]]], Live(cache', held'))
  /\ Goto(p, "lookup")
  /\ UNCHANGED <<disk, call, walked, began, floor, crossed>>

\* store keeps a clone made under the mutex and replaces what was there.
Store(p) ==
  /\ pc[p] = "store"
  /\ Unused # {}
  /\ cache' = [cache EXCEPT ![KeyOfCall(p)] = Fresh]
  /\ heap' = Collected([heap EXCEPT ![Fresh] = heap[held[p]]], Live(cache', held))
  /\ Goto(p, "done")
  /\ UNCHANGED <<disk, call, walked, held, began, floor, crossed>>

\* Mutant of Fail: the error of an extraction is noticed after the graph is stored.
FailAfterStore(p) ==
  /\ pc[p] \in {"locate", "lookup", "walk", "load", "parse"}
  /\ Goto(p, IF pc[p] \in Extracting THEN "store" ELSE "failed")
  /\ UNCHANGED <<disk, cache, heap, call, walked, held, began, floor, crossed>>

\* LocateProject, resolveProjectRoot, the walk, the toolchain and the parse
\* may each fail, and the failure is returned at once.
Fail(p) ==
  /\ pc[p] \in {"locate", "lookup", "walk", "load", "parse"}
  /\ Goto(p, "failed")
  /\ UNCHANGED <<disk, cache, heap, call, walked, held, began, floor, crossed>>

-----------------------------------------------------------------------------
\* What a caller does with the graph it was handed.  Return drops it, and the
\* locals of the call with it.

ScribbleOwn(p) ==
  /\ pc[p] = "done"
  /\ heap' = [heap EXCEPT ![held[p]] = Scribbled(p)]
  /\ UNCHANGED <<disk, cache, pc, call, walked, held, began, floor, crossed>>

Return(p) ==
  /\ pc[p] \in {"done", "failed"}
  /\ Goto(p, "idle")
  /\ held' = [held EXCEPT ![p] = NoRef]
  /\ heap' = Collected(heap, Live(cache, held'))
  /\ call' = [call EXCEPT ![p] = NoCall]
  /\ walked' = [walked EXCEPT ![p] = 0]
  /\ began' = [began EXCEPT ![p] = 0]
  /\ UNCHANGED <<disk, cache, floor, crossed>>

-----------------------------------------------------------------------------
\* The code of a check, as far as it never waits for its caller.
Progress(p) ==
  \/ ClearCache(p)
  \/ LocateProject(p)
  \/ LookupHit(p)
  \/ LookupMiss(p)
  \/ WalkSources(p)
  \/ WalkEmptyProject(p)
  \/ LoadProjectBuild(p)
  \/ ParseImports(p)
  \/ Store(p)
  \/ Fail(p)

Next ==
  \/ EditSource
  \/ ClearGraphCache
  \/ \E p \in Proc :
       \/ \E q \in Request, clear \in BOOLEAN : Begin(p, q, clear)
       \/ Progress(p)
       \/ ScribbleOwn(p)
       \/ Return(p)

Spec == Init /\ [][Next]_vars

\* A check is synchronous code: the Go scheduler runs it to its end.
FairSpec == Spec /\ \A p \in Proc : WF_vars(Progress(p))

-----------------------------------------------------------------------------
\* Every variable has its type, and the locals of a call exist while it runs.
TypeOK ==
  /\ disk \in Version
  /\ cache \in [Key -> Ref \cup {NoRef}]
  /\ heap \in [Ref -> Content]
  /\ pc \in [Proc -> Step]
  /\ call \in [Proc -> Call \cup {NoCall}]
  /\ walked \in [Proc -> Version]
  /\ held \in [Proc -> Ref \cup {NoRef}]
  /\ began \in [Proc -> Version]
  /\ floor \in Version
  /\ crossed \in SUBSET Key
  /\ \A p \in Proc : pc[p] # "idle" => call[p] \in Call
  /\ \A p \in Proc : pc[p] \in {"store", "done"} => held[p] \in Ref

\* The cache keeps its copy and hands out others: an array it keeps is kept
\* under one key, no goroutine has it, and nobody wrote through it.
CopyIsolation ==
  \A k \in Key : cache[k] # NoRef =>
    /\ \A p \in Proc : held[p] # cache[k]
    /\ \A j \in Key : cache[j] = cache[k] => j = k
    /\ heap[cache[k]] \in Graph

\* A check that was handed a graph has the graph of the analysis it asked for,
\* read at one of the versions on disk so far, unless it wrote through it
\* itself: neither another request's graph nor another caller's writing.
AnswersItsOwnQuestion ==
  \A p \in Proc : pc[p] = "done" =>
    LET g == heap[held[p]]
    IN  \/ g = Scribbled(p)
        \/ /\ g \in Graph
           /\ g.of = AnalysisOf[call[p].request]
           /\ g.first <= g.last
           /\ g.last <= disk

\* After a clear the cache serves nothing read before it, except under the
\* keys that were being extracted while the clear ran: ClearGraphCache does
\* not reach those, because the lock is not held across an extraction.
OnlyCrossedKeysAreStale ==
  \A k \in Key : cache[k] # NoRef /\ k \notin crossed => heap[cache[k]].first >= floor

\* "makes the check extract the project from source again instead of reusing a
\* graph an earlier check produced" (check_options.go:37-38): what a check with
\* ClearCache is handed was read after the check began.
ClearCacheExtractsAgain ==
  \A p \in Proc :
    pc[p] = "done" /\ heap[held[p]] \in Graph /\ call[p].clear
    => heap[held[p]].first >= began[p]

\* Every check comes back, whatever the others clear, store or edit meanwhile:
\* no check waits for another one's extraction.
EveryCheckReturns ==
  \A p \in Proc : pc[p] # "idle" ~> pc[p] \in {"done", "failed"}

-----------------------------------------------------------------------------
\* The cache implements the memo table: buffers, locks and the steps of an
\* extraction are hidden, an entry is what its array holds.
Nothing == [none |-> TRUE]

MemoPhase(p) == IF pc[p] \in {"idle", "done", "failed"} THEN pc[p] ELSE "asked"

Memo == INSTANCE GraphMemo WITH
  memo <- [k \in Key |-> IF cache[k] = NoRef THEN Nothing ELSE heap[cache[k]]],
  phase <- [p \in Proc |-> MemoPhase(p)],
  asked <- [p \in Proc |-> IF pc[p] = "idle" THEN Nothing
                            ELSE [request |-> call[p].request, at |-> began[p]]],
  answer <- [p \in Proc |-> IF pc[p] = "done" THEN heap[held[p]] ELSE Nothing]

\* GraphCache's steps are GraphMemo's, or change nothing GraphMemo speaks of.
ImplementsMemo == Memo!MemoSpec

=============================================================================
