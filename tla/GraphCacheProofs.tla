--------------------------- MODULE GraphCacheProofs ---------------------------
(***************************************************************************)
(* Proofs about GraphCache, for any number of checks, requests, keys and   *)
(* edits.  They come in layers, each using the ones before it: types, who  *)
(* owns which array, what the arrays hold.  Then the keys of CacheKey: what *)
(* sorting does to a list of any length, that a key is one analysis and an *)
(* analysis one key, and so what GraphCache assumes of its keys.           *)
(***************************************************************************)
EXTENDS GraphCache, CacheKey, DigraphProofs

\* An array Fresh names is one that no map entry and no goroutine refers to.
LEMMA FreshIsUnused ==
  ASSUME Unused # {}
  PROVE  /\ Fresh \in Ref
         /\ \A k \in Key : cache[k] # Fresh
         /\ \A p \in Proc : held[p] # Fresh
<1>1. \E r \in Ref : r \in Unused
  BY DEF Unused
<1>2. Fresh \in Ref /\ Fresh \in Unused
  BY <1>1 DEF Fresh
<1>3. QED
  BY <1>2 DEF Unused, Live

\* Collecting garbage keeps the type of the heap and what live arrays hold.
LEMMA CollectedContent ==
  ASSUME NEW content \in [Ref -> Content], NEW live
  PROVE  /\ Collected(content, live) \in [Ref -> Content]
         /\ \A r \in Ref : r \in live => Collected(content, live)[r] = content[r]
BY DEF Collected, Content

-----------------------------------------------------------------------------
LEMMA InitTypeOK == Init => TypeOK
BY MaxEditsAssumption
   DEF Init, TypeOK, Version, Content, Step, Extracting

LEMMA ClearTypeOK == TypeOK /\ Clear => /\ cache' \in [Key -> Ref \cup {NoRef}]
                                        /\ heap' \in [Ref -> Content]
                                        /\ floor' \in Version
                                        /\ crossed' \in SUBSET Key
<1> SUFFICES ASSUME TypeOK, Clear
             PROVE  /\ cache' \in [Key -> Ref \cup {NoRef}]
                    /\ heap' \in [Ref -> Content]
                    /\ floor' \in Version
                    /\ crossed' \in SUBSET Key
  OBVIOUS
<1>1. cache' \in [Key -> Ref \cup {NoRef}] /\ floor' \in Version
  BY DEF Clear, TypeOK
<1>2. heap' \in [Ref -> Content]
  BY CollectedContent DEF Clear, TypeOK
<1>3. ASSUME NEW q \in Proc, pc[q] \in Extracting
      PROVE  KeyOfCall(q) \in Key
  BY <1>3, KeyOfType DEF TypeOK, Extracting, KeyOfCall, Call
<1>4. crossed' \in SUBSET Key
  BY <1>3 DEF Clear
<1>5. QED
  BY <1>1, <1>2, <1>4

LEMMA BuildTypeOK ==
  ASSUME TypeOK, NEW p \in Proc, NEW first \in Version, pc[p] = "walk" \/ pc[p] = "parse",
         Build(p, first)
  PROVE  /\ heap' \in [Ref -> Content]
         /\ held' \in [Proc -> Ref \cup {NoRef}]
         /\ pc' \in [Proc -> Step]
         /\ \A q \in Proc : pc'[q] # "idle" => call[q] \in Call
         /\ \A q \in Proc : pc'[q] \in {"store", "done"} => held'[q] \in Ref
<1>1. call[p] \in Call
  BY DEF TypeOK
<1>2. [of |-> AnalysisOf[call[p].request], first |-> first, last |-> disk] \in Content
  BY <1>1, AnalysisOfType DEF Content, Graph, Call, TypeOK
<1>3. Fresh \in Ref
  BY FreshIsUnused DEF Build
<1>4. QED
  BY <1>1, <1>2, <1>3 DEF Build, TypeOK, Goto, Step, Extracting

LEMMA NextTypeOK == TypeOK /\ [Next]_vars => TypeOK'
<1> SUFFICES ASSUME TypeOK, [Next]_vars PROVE TypeOK'
  OBVIOUS
<1> USE DEF Step, Extracting
<1>1. CASE EditSource
  BY <1>1, MaxEditsAssumption DEF EditSource, TypeOK, Version
<1>2. CASE ClearGraphCache
  BY <1>2, ClearTypeOK DEF ClearGraphCache, TypeOK
<1>3. ASSUME NEW p \in Proc, NEW q \in Request, NEW clear \in BOOLEAN, Begin(p, q, clear)
      PROVE  TypeOK'
  BY <1>3 DEF Begin, TypeOK, Goto, Call
<1>4. ASSUME NEW p \in Proc, ClearCache(p) PROVE TypeOK'
  BY <1>4, ClearTypeOK DEF ClearCache, TypeOK, Goto
<1>5. ASSUME NEW p \in Proc, LocateProject(p) PROVE TypeOK'
  BY <1>5 DEF LocateProject, TypeOK, Goto
<1>6. ASSUME NEW p \in Proc, LookupHit(p) PROVE TypeOK'
  <2>1. cache[KeyOfCall(p)] \in Ref /\ Fresh \in Ref
    BY <1>6, KeyOfType, FreshIsUnused DEF LookupHit, TypeOK, KeyOfCall, Call
  <2>2. QED
    BY <1>6, <2>1 DEF LookupHit, TypeOK, Goto
<1>7. ASSUME NEW p \in Proc, LookupMiss(p) PROVE TypeOK'
  BY <1>7 DEF LookupMiss, TypeOK, Goto
<1>8. ASSUME NEW p \in Proc, WalkSources(p) PROVE TypeOK'
  BY <1>8 DEF WalkSources, TypeOK, Goto
<1>9. ASSUME NEW p \in Proc, WalkEmptyProject(p) PROVE TypeOK'
  <2>1. disk \in Version
    BY DEF TypeOK
  <2>2. QED
    BY <1>9, <2>1, BuildTypeOK DEF WalkEmptyProject, TypeOK
<1>10. ASSUME NEW p \in Proc, LoadProjectBuild(p) PROVE TypeOK'
  BY <1>10 DEF LoadProjectBuild, TypeOK, Goto
<1>11. ASSUME NEW p \in Proc, ParseImports(p) PROVE TypeOK'
  <2>1. walked[p] \in Version
    BY DEF TypeOK
  <2>2. QED
    BY <1>11, <2>1, BuildTypeOK DEF ParseImports, TypeOK
<1>12. ASSUME NEW p \in Proc, Store(p) PROVE TypeOK'
  <2>1. Fresh \in Ref /\ KeyOfCall(p) \in Key
    BY <1>12, KeyOfType, FreshIsUnused DEF Store, TypeOK, KeyOfCall, Call
  <2>2. heap[held[p]] \in Content
    BY <1>12 DEF Store, TypeOK
  <2>3. QED
    BY <1>12, <2>1, <2>2, CollectedContent DEF Store, TypeOK, Goto
<1>13. ASSUME NEW p \in Proc, Fail(p) PROVE TypeOK'
  BY <1>13 DEF Fail, TypeOK, Goto
<1>14. ASSUME NEW p \in Proc, ScribbleOwn(p) PROVE TypeOK'
  BY <1>14 DEF ScribbleOwn, TypeOK, Content
<1>15. ASSUME NEW p \in Proc, Return(p) PROVE TypeOK'
  BY <1>15, CollectedContent, MaxEditsAssumption DEF Return, TypeOK, Goto, Version
<1>16. CASE UNCHANGED vars
  BY <1>16 DEF vars, TypeOK
<1>17. QED
  BY <1>1, <1>2, <1>3, <1>4, <1>5, <1>6, <1>7, <1>8, <1>9, <1>10, <1>11, <1>12,
     <1>13, <1>14, <1>15, <1>16 DEF Next, Progress

\* Every variable keeps its type.
THEOREM TypeCorrect == Spec => []TypeOK
BY InitTypeOK, NextTypeOK, PTL DEF Spec

-----------------------------------------------------------------------------
(***************************************************************************)
(* Ownership: every array has one owner, a map entry or a goroutine.       *)
(***************************************************************************)
Owned ==
  /\ \A k \in Key : cache[k] # NoRef => \A p \in Proc : held[p] # cache[k]
  /\ \A j, k \in Key : cache[k] # NoRef /\ cache[j] = cache[k] => j = k
  /\ \A p, q \in Proc : held[p] # NoRef /\ held[p] = held[q] => p = q

LEMMA InitOwned == Init => Owned
BY DEF Init, Owned

\* Handing a fresh array to a goroutine keeps every array owned once.
LEMMA HandOutOwned ==
  ASSUME TypeOK, Owned, NEW p \in Proc, Unused # {},
         held' = [held EXCEPT ![p] = Fresh], UNCHANGED cache
  PROVE  Owned'
BY FreshIsUnused, NoRefAssumption DEF Owned, TypeOK

LEMMA ClearOwned == TypeOK /\ Owned /\ Clear /\ UNCHANGED held => Owned'
BY DEF Clear, Owned, TypeOK

LEMMA NextOwned == TypeOK /\ Owned /\ [Next]_vars => Owned'
<1> SUFFICES ASSUME TypeOK, Owned, [Next]_vars PROVE Owned'
  OBVIOUS
<1>1. CASE UNCHANGED <<cache, held>>
  BY <1>1 DEF Owned
<1>2. CASE ClearGraphCache
  BY <1>2, ClearOwned DEF ClearGraphCache
<1>3. ASSUME NEW p \in Proc, ClearCache(p) PROVE Owned'
  BY <1>3, ClearOwned DEF ClearCache
<1>4. ASSUME NEW p \in Proc, LookupHit(p) PROVE Owned'
  BY <1>4, HandOutOwned DEF LookupHit
<1>5. ASSUME NEW p \in Proc, WalkEmptyProject(p) PROVE Owned'
  BY <1>5, HandOutOwned DEF WalkEmptyProject, Build
<1>6. ASSUME NEW p \in Proc, ParseImports(p) PROVE Owned'
  BY <1>6, HandOutOwned DEF ParseImports, Build
<1>7. ASSUME NEW p \in Proc, Store(p) PROVE Owned'
  <2>1. KeyOfCall(p) \in Key
    BY <1>7, KeyOfType DEF Store, TypeOK, KeyOfCall, Call
  <2>2. /\ Fresh \in Ref
        /\ \A k \in Key : cache[k] # Fresh
        /\ \A q \in Proc : held[q] # Fresh
    BY <1>7, FreshIsUnused DEF Store
  <2>3. cache' = [cache EXCEPT ![KeyOfCall(p)] = Fresh] /\ held' = held
    BY <1>7 DEF Store
  <2>4. QED
    BY <2>1, <2>2, <2>3 DEF Owned, TypeOK
<1>8. ASSUME NEW p \in Proc, Return(p) PROVE Owned'
  BY <1>8, NoRefAssumption DEF Return, Owned, TypeOK
<1>9. QED
  BY <1>1, <1>2, <1>3, <1>4, <1>5, <1>6, <1>7, <1>8
     DEF Next, Progress, vars, EditSource, Begin, LocateProject, LookupMiss,
         WalkSources, LoadProjectBuild, Fail, ScribbleOwn

THEOREM Ownership == Spec => []Owned
<1>1. Init => Owned
  BY InitOwned
<1>2. QED
  BY <1>1, NextOwned, TypeCorrect, PTL DEF Spec

-----------------------------------------------------------------------------
(***************************************************************************)
(* Frames: only Store writes an entry, and a goroutine's array is written  *)
(* by its owner alone.                                                     *)
(***************************************************************************)
EntriesKept ==
  \A k \in Key : cache'[k] # NoRef =>
    cache'[k] = cache[k] /\ heap'[cache'[k]] = heap[cache[k]]

GraphsKept ==
  \A p \in Proc : held[p] # NoRef /\ held'[p] = held[p] =>
    heap'[held[p]] = heap[held[p]]

LEMMA ClearFrame ==
  ASSUME TypeOK, Clear, UNCHANGED held
  PROVE  EntriesKept /\ GraphsKept
BY CollectedContent DEF Clear, EntriesKept, GraphsKept, TypeOK, Live

LEMMA HandOutFrame ==
  ASSUME TypeOK, Owned, Unused # {}, NEW content,
         heap' = [heap EXCEPT ![Fresh] = content], UNCHANGED cache
  PROVE  EntriesKept /\ GraphsKept
BY FreshIsUnused DEF EntriesKept, GraphsKept, TypeOK

LEMMA StoreFrame ==
  ASSUME TypeOK, Owned, NEW p \in Proc, Store(p)
  PROVE  /\ \A k \in Key \ {KeyOfCall(p)} : cache'[k] # NoRef =>
              cache'[k] = cache[k] /\ heap'[cache'[k]] = heap[cache[k]]
         /\ KeyOfCall(p) \in Key
         /\ cache'[KeyOfCall(p)] \in Ref
         /\ heap'[cache'[KeyOfCall(p)]] = heap[held[p]]
         /\ GraphsKept
<1>1. /\ Fresh \in Ref
      /\ \A k \in Key : cache[k] # Fresh
      /\ \A q \in Proc : held[q] # Fresh
  BY FreshIsUnused DEF Store
<1>2. KeyOfCall(p) \in Key
  BY KeyOfType DEF Store, TypeOK, KeyOfCall, Call
<1>3. held[p] \in Ref /\ heap[held[p]] \in Content
  BY DEF Store, TypeOK
<1> DEFINE written == [heap EXCEPT ![Fresh] = heap[held[p]]]
<1>4. written \in [Ref -> Content]
  BY <1>3 DEF TypeOK
<1>5. \A r \in Ref : r \in Live(cache', held) => heap'[r] = written[r]
  BY <1>4, CollectedContent DEF Store
<1>6. /\ \A k \in Key : cache'[k] \in Ref => cache'[k] \in Live(cache', held)
      /\ \A q \in Proc : held[q] \in Ref => held[q] \in Live(cache', held)
  BY DEF Live
<1>7. cache' = [cache EXCEPT ![KeyOfCall(p)] = Fresh] /\ UNCHANGED held
  BY DEF Store
<1> HIDE DEF written
<1>8. \A r \in Ref : written[r] = IF r = Fresh THEN heap[held[p]] ELSE heap[r]
  BY <1>1 DEF TypeOK, written
<1>9. GraphsKept
  BY <1>1, <1>5, <1>6, <1>7, <1>8 DEF TypeOK, GraphsKept
<1>10. cache'[KeyOfCall(p)] = Fresh /\ heap'[Fresh] = heap[held[p]]
  BY <1>1, <1>2, <1>5, <1>6, <1>7, <1>8 DEF TypeOK
<1>11. ASSUME NEW k \in Key, k # KeyOfCall(p), cache'[k] # NoRef
       PROVE  cache'[k] = cache[k] /\ heap'[cache'[k]] = heap[cache[k]]
  BY <1>1, <1>5, <1>6, <1>7, <1>8, <1>11 DEF TypeOK
<1>12. QED
  BY <1>1, <1>2, <1>9, <1>10, <1>11

LEMMA ReturnFrame ==
  ASSUME TypeOK, NEW p \in Proc, Return(p)
  PROVE  EntriesKept /\ GraphsKept
BY CollectedContent DEF Return, EntriesKept, GraphsKept, TypeOK, Live

LEMMA ScribbleFrame ==
  ASSUME TypeOK, Owned, NEW p \in Proc, ScribbleOwn(p)
  PROVE  /\ EntriesKept
         /\ \A q \in Proc \ {p} : held[q] # NoRef => heap'[held[q]] = heap[held[q]]
         /\ heap'[held[p]] = Scribbled(p)
BY DEF ScribbleOwn, Owned, TypeOK, EntriesKept

-----------------------------------------------------------------------------
(***************************************************************************)
(* Contents: an entry describes the analysis of a request its key is the   *)
(* key of; a goroutine's graph the analysis it asked about.                *)
(***************************************************************************)
Describes(g, q, now) ==
  /\ g \in Graph
  /\ g.of = AnalysisOf[q]
  /\ g.first <= g.last
  /\ g.last <= now

EntriesFaithful ==
  \A k \in Key : cache[k] # NoRef =>
    \E q \in Request : KeyOf[q] = k /\ Describes(heap[cache[k]], q, disk)

GraphsFaithful ==
  \A p \in Proc :
    /\ pc[p] \in {"load", "parse"} => walked[p] <= disk
    /\ pc[p] = "store" => Describes(heap[held[p]], call[p].request, disk)
    /\ pc[p] = "done" => \/ heap[held[p]] = Scribbled(p)
                         \/ Describes(heap[held[p]], call[p].request, disk)

Faithful == EntriesFaithful /\ GraphsFaithful

LEMMA InitFaithful == Init => Faithful
BY DEF Init, Faithful, EntriesFaithful, GraphsFaithful

LEMMA EntriesStay ==
  ASSUME TypeOK, Owned, Faithful, EntriesKept, UNCHANGED disk
  PROVE  EntriesFaithful'
BY DEF Faithful, EntriesFaithful, EntriesKept

LEMMA GraphsStay ==
  ASSUME TypeOK, Owned, Faithful, GraphsKept, UNCHANGED disk, NEW p \in Proc,
         \A q \in Proc \ {p} : /\ pc'[q] = pc[q] /\ held'[q] = held[q]
                               /\ call'[q] = call[q] /\ walked'[q] = walked[q],
         /\ pc'[p] \in {"load", "parse"} => walked'[p] <= disk
         /\ pc'[p] = "store" => Describes(heap'[held'[p]], call'[p].request, disk)
         /\ pc'[p] = "done" => \/ heap'[held'[p]] = Scribbled(p)
                               \/ Describes(heap'[held'[p]], call'[p].request, disk)
  PROVE  GraphsFaithful'
<1> SUFFICES ASSUME NEW q \in Proc, q # p
             PROVE  /\ pc'[q] \in {"load", "parse"} => walked'[q] <= disk
                    /\ pc'[q] = "store" => Describes(heap'[held'[q]], call'[q].request, disk)
                    /\ pc'[q] = "done" => \/ heap'[held'[q]] = Scribbled(q)
                                          \/ Describes(heap'[held'[q]], call'[q].request, disk)
  BY DEF GraphsFaithful
<1>1. pc[q] \in {"store", "done"} => held[q] # NoRef
  BY NoRefAssumption DEF TypeOK
<1>2. pc[q] \in {"store", "done"} => heap'[held'[q]] = heap[held[q]]
  BY <1>1 DEF GraphsKept
<1>3. QED
  BY <1>2 DEF Faithful, GraphsFaithful

\* What Build leaves in the goroutine's hands describes what it asked about.
LEMMA BuildDescribes ==
  ASSUME TypeOK, NEW p \in Proc, NEW first \in Version, first <= disk,
         pc[p] \in Extracting, Build(p, first)
  PROVE  Describes(heap'[held'[p]], call[p].request, disk)
<1>1. Fresh \in Ref
  BY FreshIsUnused DEF Build
<1>2. call[p].request \in Request
  BY DEF TypeOK, Extracting, Call
<1>3. heap'[held'[p]] = [of |-> AnalysisOf[call[p].request], first |-> first, last |-> disk]
  BY <1>1 DEF Build, TypeOK
<1>4. QED
  BY <1>2, <1>3, AnalysisOfType DEF Describes, Graph, TypeOK, Version

LEMMA BuildFaithful ==
  ASSUME TypeOK, Owned, Faithful, NEW p \in Proc, NEW first \in Version, first <= disk,
         pc[p] \in Extracting, Build(p, first), UNCHANGED <<disk, cache, call>>,
         \A q \in Proc \ {p} : walked'[q] = walked[q]
  PROVE  Faithful'
<1>1. EntriesKept /\ GraphsKept
  BY HandOutFrame DEF Build
<1>2. Describes(heap'[held'[p]], call'[p].request, disk)
  BY BuildDescribes
<1>3. EntriesFaithful'
  BY <1>1, EntriesStay
<1>4. GraphsFaithful'
  BY <1>1, <1>2, GraphsStay DEF Build, Goto, TypeOK
<1>5. QED
  BY <1>3, <1>4 DEF Faithful

LEMMA EditFaithful == TypeOK /\ Faithful /\ EditSource => Faithful'
<1> SUFFICES ASSUME TypeOK, Faithful, EditSource PROVE Faithful'
  OBVIOUS
<1>1. ASSUME NEW g, NEW q, Describes(g, q, disk)
      PROVE  Describes(g, q, disk')
  BY <1>1 DEF Describes, Graph, Version, TypeOK, EditSource
<1>2. \A p \in Proc : walked[p] <= disk => walked[p] <= disk'
  BY DEF Version, TypeOK, EditSource
<1>3. EntriesFaithful'
  BY <1>1 DEF EditSource, Faithful, EntriesFaithful
<1>4. GraphsFaithful'
  BY <1>1, <1>2 DEF EditSource, Faithful, GraphsFaithful
<1>5. QED
  BY <1>3, <1>4 DEF Faithful

LEMMA HitFaithful ==
  ASSUME TypeOK, Owned, Faithful, NEW p \in Proc, LookupHit(p)
  PROVE  Faithful'
<1>1. EntriesKept /\ GraphsKept
  BY HandOutFrame DEF LookupHit
<1>2. call[p] \in Call /\ KeyOfCall(p) \in Key
  BY KeyOfType DEF LookupHit, TypeOK, Call, KeyOfCall
<1>3. PICK q \in Request : /\ KeyOf[q] = KeyOfCall(p)
                           /\ Describes(heap[cache[KeyOfCall(p)]], q, disk)
  BY <1>2 DEF LookupHit, Faithful, EntriesFaithful
<1>4. AnalysisOf[q] = AnalysisOf[call[p].request]
  BY <1>2, <1>3, KeyNamesAnalysis DEF KeyOfCall, Call
<1>5. heap'[held'[p]] = heap[cache[KeyOfCall(p)]]
  BY FreshIsUnused DEF LookupHit, TypeOK
<1>6. Describes(heap'[held'[p]], call'[p].request, disk)
  BY <1>3, <1>4, <1>5 DEF Describes, LookupHit
<1>7. EntriesFaithful'
  BY <1>1, EntriesStay DEF LookupHit
<1>8. GraphsFaithful'
  BY <1>1, <1>6, GraphsStay DEF LookupHit, Goto, TypeOK
<1>9. QED
  BY <1>7, <1>8 DEF Faithful

LEMMA StoreFaithful ==
  ASSUME TypeOK, Owned, Faithful, NEW p \in Proc, Store(p)
  PROVE  Faithful'
<1>1. call[p].request \in Request
  BY DEF Store, TypeOK, Call
<1>2. Describes(heap[held[p]], call[p].request, disk)
  BY DEF Store, Faithful, GraphsFaithful
<1>3. EntriesFaithful'
  <2> SUFFICES ASSUME NEW k \in Key, cache'[k] # NoRef
               PROVE  \E q \in Request : KeyOf[q] = k /\ Describes(heap'[cache'[k]], q, disk)
    BY DEF EntriesFaithful, Store
  <2>1. CASE k = KeyOfCall(p)
    BY <1>1, <1>2, <2>1, StoreFrame DEF KeyOfCall
  <2>2. CASE k # KeyOfCall(p)
    BY <2>2, StoreFrame DEF Faithful, EntriesFaithful
  <2>3. QED
    BY <2>1, <2>2
<1>4. held[p] # NoRef /\ held'[p] = held[p]
  BY NoRefAssumption DEF Store, TypeOK
<1>5. heap'[held'[p]] = heap[held[p]]
  BY <1>4, StoreFrame DEF GraphsKept
<1>6. GraphsFaithful'
  BY <1>2, <1>5, StoreFrame, GraphsStay DEF Store, Goto, TypeOK
<1>7. QED
  BY <1>3, <1>6 DEF Faithful

LEMMA NextFaithful == TypeOK /\ Owned /\ Faithful /\ [Next]_vars => Faithful'
<1> SUFFICES ASSUME TypeOK, Owned, Faithful, [Next]_vars PROVE Faithful'
  OBVIOUS
<1> USE DEF Goto
<1>1. CASE EditSource
  BY <1>1, EditFaithful
<1>2. CASE ClearGraphCache
  <2>1. EntriesKept /\ GraphsKept
    BY <1>2, ClearFrame DEF ClearGraphCache
  <2>2. EntriesFaithful'
    BY <1>2, <2>1, EntriesStay DEF ClearGraphCache
  <2>3. \A p \in Proc : pc[p] \in {"store", "done"} => heap'[held[p]] = heap[held[p]]
    BY <1>2, <2>1, NoRefAssumption DEF ClearGraphCache, GraphsKept, TypeOK
  <2>4. GraphsFaithful'
    BY <1>2, <2>3 DEF ClearGraphCache, Faithful, GraphsFaithful
  <2>5. QED
    BY <2>2, <2>4 DEF Faithful
<1>3. ASSUME NEW p \in Proc, NEW q \in Request, NEW clear \in BOOLEAN, Begin(p, q, clear)
      PROVE  Faithful'
  BY <1>3 DEF Begin, TypeOK, Faithful, EntriesFaithful, GraphsFaithful
<1>4. ASSUME NEW p \in Proc, ClearCache(p) PROVE Faithful'
  BY <1>4, ClearFrame, EntriesStay, GraphsStay DEF ClearCache, TypeOK, Faithful
<1>5. ASSUME NEW p \in Proc, LocateProject(p) \/ LookupMiss(p) \/ Fail(p) PROVE Faithful'
  BY <1>5 DEF LocateProject, LookupMiss, Fail, TypeOK, Faithful, EntriesFaithful,
     GraphsFaithful
<1>6. ASSUME NEW p \in Proc, LookupHit(p) PROVE Faithful'
  BY <1>6, HitFaithful
<1>7. ASSUME NEW p \in Proc, WalkSources(p) PROVE Faithful'
  BY <1>7 DEF WalkSources, TypeOK, Version, Faithful, EntriesFaithful, GraphsFaithful
<1>8. ASSUME NEW p \in Proc, WalkEmptyProject(p) PROVE Faithful'
  BY <1>8, BuildFaithful DEF WalkEmptyProject, TypeOK, Version, Extracting
<1>9. ASSUME NEW p \in Proc, LoadProjectBuild(p) PROVE Faithful'
  BY <1>9 DEF LoadProjectBuild, TypeOK, Faithful, EntriesFaithful, GraphsFaithful
<1>10. ASSUME NEW p \in Proc, ParseImports(p) PROVE Faithful'
  <2>1. walked[p] \in Version /\ walked[p] <= disk
    BY <1>10 DEF ParseImports, TypeOK, Faithful, GraphsFaithful
  <2>2. QED
    BY <1>10, <2>1, BuildFaithful DEF ParseImports, Extracting
<1>11. ASSUME NEW p \in Proc, Store(p) PROVE Faithful'
  BY <1>11, StoreFaithful
<1>12. ASSUME NEW p \in Proc, ScribbleOwn(p) PROVE Faithful'
  <2>1. \A q \in Proc : pc[q] \in {"store", "done"} => held[q] # NoRef
    BY NoRefAssumption DEF TypeOK
  <2>2. EntriesFaithful'
    BY <1>12, ScribbleFrame, EntriesStay DEF ScribbleOwn
  <2>3. GraphsFaithful'
    BY <1>12, <2>1, ScribbleFrame DEF ScribbleOwn, Faithful, GraphsFaithful
  <2>4. QED
    BY <2>2, <2>3 DEF Faithful
<1>13. ASSUME NEW p \in Proc, Return(p) PROVE Faithful'
  BY <1>13, ReturnFrame, EntriesStay, GraphsStay DEF Return, TypeOK, Faithful
<1>14. CASE UNCHANGED vars
  BY <1>14 DEF vars, Faithful, EntriesFaithful, GraphsFaithful
<1>15. QED
  BY <1>1, <1>2, <1>3, <1>4, <1>5, <1>6, <1>7, <1>8, <1>9, <1>10, <1>11, <1>12,
     <1>13, <1>14 DEF Next, Progress

THEOREM Fidelity == Spec => []Faithful
BY InitFaithful, NextFaithful, TypeCorrect, Ownership, PTL DEF Spec

\* The cache keeps copies of its own.
THEOREM IsolationHolds == Spec => []CopyIsolation
<1>1. Owned /\ Faithful => CopyIsolation
  BY DEF Owned, Faithful, EntriesFaithful, Describes, CopyIsolation
<1>2. QED
  BY <1>1, Ownership, Fidelity, PTL

\* A check is handed the graph of its own analysis, or what it made of it.
THEOREM AnswersHold == Spec => []AnswersItsOwnQuestion
<1>1. Faithful => AnswersItsOwnQuestion
  BY DEF Faithful, GraphsFaithful, Describes, AnswersItsOwnQuestion
<1>2. QED
  BY <1>1, Fidelity, PTL

-----------------------------------------------------------------------------
(***************************************************************************)
(* Freshness: outside the keys being extracted when the last clear ran,    *)
(* everything kept and everything on its way into the cache was read after *)
(* that clear.                                                             *)
(***************************************************************************)
Settled(p) ==
  /\ pc[p] \in {"load", "parse"} => walked[p] >= floor
  /\ pc[p] = "store" => heap[held[p]].first >= floor

FreshOutsideCrossed ==
  /\ floor <= disk
  /\ OnlyCrossedKeysAreStale
  /\ \A p \in Proc : pc[p] \in Extracting /\ KeyOfCall(p) \notin crossed => Settled(p)

LEMMA InitFresh == Init => FreshOutsideCrossed
BY DEF Init, FreshOutsideCrossed, OnlyCrossedKeysAreStale, Extracting

\* A step that keeps entries, clears nothing and lets p alone move.
LEMMA OneMovesFresh ==
  ASSUME TypeOK, FreshOutsideCrossed, EntriesKept, GraphsKept,
         UNCHANGED <<disk, floor, crossed>>, NEW p \in Proc,
         \A q \in Proc \ {p} : /\ pc'[q] = pc[q] /\ held'[q] = held[q]
                               /\ call'[q] = call[q] /\ walked'[q] = walked[q],
         pc'[p] \in Extracting /\ KeyOfCall(p)' \notin crossed => Settled(p)'
  PROVE  FreshOutsideCrossed'
<1>1. OnlyCrossedKeysAreStale'
  BY DEF FreshOutsideCrossed, OnlyCrossedKeysAreStale, EntriesKept
<1>2. ASSUME NEW q \in Proc, q # p, pc'[q] \in Extracting, KeyOfCall(q)' \notin crossed
      PROVE  Settled(q)'
  <2>1. Settled(q)
    BY <1>2 DEF FreshOutsideCrossed, KeyOfCall
  <2>2. pc[q] = "store" => heap'[held'[q]] = heap[held[q]]
    BY <1>2, NoRefAssumption DEF GraphsKept, TypeOK
  <2>3. QED
    BY <1>2, <2>1, <2>2 DEF Settled
<1>3. QED
  BY <1>1, <1>2 DEF FreshOutsideCrossed

\* A clear leaves no entry, and every extraction under way is one it crossed.
LEMMA ClearFresh ==
  ASSUME TypeOK, Clear, UNCHANGED <<disk, call, held, walked>>,
         \A p \in Proc : pc'[p] = pc[p] \/ pc'[p] \notin Extracting
  PROVE  FreshOutsideCrossed'
<1>1. floor' <= disk'
  BY DEF Clear, TypeOK, Version
<1>2. OnlyCrossedKeysAreStale'
  BY DEF Clear, OnlyCrossedKeysAreStale
<1>3. \A p \in Proc : pc'[p] \in Extracting => KeyOfCall(p)' \in crossed'
  BY DEF Clear, KeyOfCall
<1>4. QED
  BY <1>1, <1>2, <1>3 DEF FreshOutsideCrossed

LEMMA StoreFresh ==
  ASSUME TypeOK, Owned, FreshOutsideCrossed, NEW p \in Proc, Store(p)
  PROVE  FreshOutsideCrossed'
<1>1. OnlyCrossedKeysAreStale'
  <2> SUFFICES ASSUME NEW k \in Key, cache'[k] # NoRef, k \notin crossed
               PROVE  heap'[cache'[k]].first >= floor
    BY DEF OnlyCrossedKeysAreStale, Store
  <2>1. CASE k = KeyOfCall(p)
    <3>1. heap[held[p]].first >= floor
      BY <2>1 DEF Store, FreshOutsideCrossed, Settled, Extracting
    <3>2. QED
      BY <2>1, <3>1, StoreFrame
  <2>2. CASE k # KeyOfCall(p)
    BY <2>2, StoreFrame DEF FreshOutsideCrossed, OnlyCrossedKeysAreStale
  <2>3. QED
    BY <2>1, <2>2
<1>2. ASSUME NEW q \in Proc, pc'[q] \in Extracting, KeyOfCall(q)' \notin crossed'
      PROVE  Settled(q)'
  <2>1. q # p /\ pc'[q] = pc[q]
    BY <1>2 DEF Store, Goto, TypeOK, Extracting
  <2>2. Settled(q)
    BY <1>2, <2>1 DEF Store, FreshOutsideCrossed, KeyOfCall
  <2>3. pc[q] = "store" => heap'[held[q]] = heap[held[q]]
    BY NoRefAssumption, StoreFrame DEF GraphsKept, TypeOK, Store
  <2>4. QED
    BY <2>1, <2>2, <2>3 DEF Settled, Store
<1>3. floor' <= disk'
  BY DEF Store, FreshOutsideCrossed
<1>4. QED
  BY <1>1, <1>2, <1>3 DEF FreshOutsideCrossed

LEMMA NextFresh == TypeOK /\ Owned /\ Faithful /\ FreshOutsideCrossed /\ [Next]_vars
                     => FreshOutsideCrossed'
<1> SUFFICES ASSUME TypeOK, Owned, Faithful, FreshOutsideCrossed, [Next]_vars
             PROVE  FreshOutsideCrossed'
  OBVIOUS
<1> USE DEF Goto, Extracting
<1>1. CASE EditSource
  BY <1>1 DEF EditSource, TypeOK, Version, FreshOutsideCrossed, OnlyCrossedKeysAreStale,
     Settled, KeyOfCall
<1>2. CASE ClearGraphCache
  BY <1>2, ClearFresh DEF ClearGraphCache
<1>3. ASSUME NEW p \in Proc, NEW q \in Request, NEW clear \in BOOLEAN, Begin(p, q, clear)
      PROVE  FreshOutsideCrossed'
  <2>1. EntriesKept /\ GraphsKept
    BY <1>3 DEF Begin, EntriesKept, GraphsKept
  <2>2. QED
    BY <1>3, <2>1, OneMovesFresh DEF Begin, TypeOK
<1>4. ASSUME NEW p \in Proc, ClearCache(p) PROVE FreshOutsideCrossed'
  BY <1>4, ClearFresh DEF ClearCache, TypeOK
<1>5. ASSUME NEW p \in Proc, LocateProject(p) \/ LookupMiss(p) \/ WalkSources(p)
                              \/ LoadProjectBuild(p) \/ Fail(p)
      PROVE  FreshOutsideCrossed'
  <2>1. EntriesKept /\ GraphsKept
    BY <1>5 DEF LocateProject, LookupMiss, WalkSources, LoadProjectBuild, Fail,
       EntriesKept, GraphsKept
  <2>2. pc'[p] \in Extracting /\ KeyOfCall(p)' \notin crossed => Settled(p)'
    BY <1>5 DEF LocateProject, LookupMiss, WalkSources, LoadProjectBuild, Fail,
       FreshOutsideCrossed, Settled, KeyOfCall, TypeOK, Version
  <2>3. QED
    BY <1>5, <2>1, <2>2, OneMovesFresh
       DEF LocateProject, LookupMiss, WalkSources, LoadProjectBuild, Fail, TypeOK
<1>6. ASSUME NEW p \in Proc, LookupHit(p) PROVE FreshOutsideCrossed'
  <2>1. EntriesKept /\ GraphsKept
    BY <1>6, HandOutFrame DEF LookupHit
  <2>2. QED
    BY <1>6, <2>1, OneMovesFresh DEF LookupHit, TypeOK
<1>7. ASSUME NEW p \in Proc, WalkEmptyProject(p) PROVE FreshOutsideCrossed'
  <2>1. EntriesKept /\ GraphsKept
    BY <1>7, HandOutFrame DEF WalkEmptyProject, Build
  <2>2. heap'[held'[p]].first = disk
    BY <1>7, FreshIsUnused DEF WalkEmptyProject, Build, TypeOK
  <2>3. pc'[p] \in Extracting /\ KeyOfCall(p)' \notin crossed => Settled(p)'
    BY <1>7, <2>2 DEF WalkEmptyProject, Build, FreshOutsideCrossed, Settled, TypeOK, Version
  <2>4. QED
    BY <1>7, <2>1, <2>3, OneMovesFresh DEF WalkEmptyProject, Build, TypeOK
<1>8. ASSUME NEW p \in Proc, ParseImports(p) PROVE FreshOutsideCrossed'
  <2>1. EntriesKept /\ GraphsKept
    BY <1>8, HandOutFrame DEF ParseImports, Build
  <2>2. heap'[held'[p]].first = walked[p]
    BY <1>8, FreshIsUnused DEF ParseImports, Build, TypeOK
  <2>3. pc'[p] \in Extracting /\ KeyOfCall(p)' \notin crossed => Settled(p)'
    BY <1>8, <2>2 DEF ParseImports, Build, FreshOutsideCrossed, Settled, KeyOfCall, TypeOK
  <2>4. QED
    BY <1>8, <2>1, <2>3, OneMovesFresh DEF ParseImports, Build, TypeOK
<1>9. ASSUME NEW p \in Proc, Store(p) PROVE FreshOutsideCrossed'
  BY <1>9, StoreFresh
<1>10. ASSUME NEW p \in Proc, ScribbleOwn(p) PROVE FreshOutsideCrossed'
  <2>1. \A q \in Proc : pc[q] = "store" => q # p /\ heap'[held[q]] = heap[held[q]]
    BY <1>10, ScribbleFrame, NoRefAssumption DEF ScribbleOwn, TypeOK
  <2>2. QED
    BY <1>10, <2>1, ScribbleFrame DEF ScribbleOwn, FreshOutsideCrossed, EntriesKept,
       OnlyCrossedKeysAreStale, Settled, KeyOfCall
<1>11. ASSUME NEW p \in Proc, Return(p) PROVE FreshOutsideCrossed'
  BY <1>11, ReturnFrame, OneMovesFresh DEF Return, TypeOK
<1>12. CASE UNCHANGED vars
  BY <1>12 DEF vars, FreshOutsideCrossed, OnlyCrossedKeysAreStale, Settled, KeyOfCall
<1>13. QED
  BY <1>1, <1>2, <1>3, <1>4, <1>5, <1>6, <1>7, <1>8, <1>9, <1>10, <1>11, <1>12
     DEF Next, Progress

\* After a clear only the keys it crossed can hold something older.
THEOREM ClearReaches == Spec => []OnlyCrossedKeysAreStale
<1>1. FreshOutsideCrossed => OnlyCrossedKeysAreStale
  BY DEF FreshOutsideCrossed
<1>2. QED
  BY <1>1, InitFresh, NextFresh, TypeCorrect, Ownership, Fidelity, PTL DEF Spec

-----------------------------------------------------------------------------
(***************************************************************************)
(* Refinement: the cache implements GraphMemo.  Learn asks for one thing   *)
(* more than Faithful: what an extraction read, it read after its check    *)
(* began.                                                                  *)
(***************************************************************************)
ReadSinceBegun ==
  \A p \in Proc :
    /\ began[p] <= disk
    /\ pc[p] \in {"load", "parse"} => began[p] <= walked[p]
    /\ pc[p] = "store" => began[p] <= heap[held[p]].first

LEMMA InitReadSinceBegun == Init => ReadSinceBegun
BY DEF Init, ReadSinceBegun

LEMMA NextReadSinceBegun ==
  TypeOK /\ Owned /\ ReadSinceBegun /\ [Next]_vars => ReadSinceBegun'
<1> SUFFICES ASSUME TypeOK, Owned, ReadSinceBegun, [Next]_vars
             PROVE  ReadSinceBegun'
  OBVIOUS
<1> USE DEF Goto
<1>1. \A p \in Proc : pc[p] = "store" => held[p] # NoRef
  BY NoRefAssumption DEF TypeOK
<1>2. CASE EditSource
  BY <1>2 DEF EditSource, ReadSinceBegun, TypeOK, Version
<1>3. CASE ClearGraphCache
  <2>1. GraphsKept
    BY <1>3, ClearFrame DEF ClearGraphCache
  <2>2. QED
    BY <1>1, <1>3, <2>1 DEF ClearGraphCache, ReadSinceBegun, GraphsKept
<1>4. ASSUME NEW p \in Proc, NEW q \in Request, NEW clear \in BOOLEAN, Begin(p, q, clear)
      PROVE  ReadSinceBegun'
  BY <1>4 DEF Begin, ReadSinceBegun, TypeOK, Version
<1>5. ASSUME NEW p \in Proc, ClearCache(p) PROVE ReadSinceBegun'
  <2>1. GraphsKept
    BY <1>5, ClearFrame DEF ClearCache
  <2>2. QED
    BY <1>1, <1>5, <2>1 DEF ClearCache, ReadSinceBegun, GraphsKept, TypeOK
<1>6. ASSUME NEW p \in Proc, LocateProject(p) \/ LookupMiss(p) \/ WalkSources(p)
                              \/ LoadProjectBuild(p) \/ Fail(p)
      PROVE  ReadSinceBegun'
  BY <1>6 DEF LocateProject, LookupMiss, WalkSources, LoadProjectBuild, Fail,
     ReadSinceBegun, TypeOK, Version
<1>7. ASSUME NEW p \in Proc, LookupHit(p) PROVE ReadSinceBegun'
  <2>1. GraphsKept
    BY <1>7, HandOutFrame DEF LookupHit
  <2>2. QED
    BY <1>1, <1>7, <2>1 DEF LookupHit, ReadSinceBegun, GraphsKept, TypeOK
<1>8. ASSUME NEW p \in Proc, WalkEmptyProject(p) PROVE ReadSinceBegun'
  <2>1. GraphsKept
    BY <1>8, HandOutFrame DEF WalkEmptyProject, Build
  <2>2. heap'[held'[p]].first = disk
    BY <1>8, FreshIsUnused DEF WalkEmptyProject, Build, TypeOK
  <2>3. QED
    BY <1>1, <1>8, <2>1, <2>2
       DEF WalkEmptyProject, Build, ReadSinceBegun, GraphsKept, TypeOK
<1>9. ASSUME NEW p \in Proc, ParseImports(p) PROVE ReadSinceBegun'
  <2>1. GraphsKept
    BY <1>9, HandOutFrame DEF ParseImports, Build
  <2>2. heap'[held'[p]].first = walked[p]
    BY <1>9, FreshIsUnused DEF ParseImports, Build, TypeOK
  <2>3. QED
    BY <1>1, <1>9, <2>1, <2>2
       DEF ParseImports, Build, ReadSinceBegun, GraphsKept, TypeOK
<1>10. ASSUME NEW p \in Proc, Store(p) PROVE ReadSinceBegun'
  <2>1. GraphsKept
    BY <1>10, StoreFrame
  <2>2. QED
    BY <1>1, <1>10, <2>1 DEF Store, ReadSinceBegun, GraphsKept, TypeOK
<1>11. ASSUME NEW p \in Proc, ScribbleOwn(p) PROVE ReadSinceBegun'
  <2>1. \A q \in Proc : pc[q] = "store" => q # p /\ heap'[held[q]] = heap[held[q]]
    BY <1>1, <1>11, ScribbleFrame DEF ScribbleOwn
  <2>2. QED
    BY <1>11, <2>1 DEF ScribbleOwn, ReadSinceBegun
<1>12. ASSUME NEW p \in Proc, Return(p) PROVE ReadSinceBegun'
  <2>1. GraphsKept
    BY <1>12, ReturnFrame
  <2>2. \A q \in Proc : q # p => held'[q] = held[q] /\ pc'[q] = pc[q] /\ began'[q] = began[q]
                                 /\ walked'[q] = walked[q]
    BY <1>12 DEF Return, TypeOK
  <2>3. pc'[p] = "idle" /\ began'[p] = 0 /\ disk' = disk /\ disk \in Nat
    BY <1>12, MaxEditsAssumption DEF Return, TypeOK, Version
  <2>4. \A q \in Proc : q # p /\ pc[q] = "store" => heap'[held'[q]] = heap[held[q]]
    BY <1>1, <2>1, <2>2 DEF GraphsKept
  <2>5. QED
    BY <2>2, <2>3, <2>4 DEF ReadSinceBegun
<1>13. CASE UNCHANGED vars
  BY <1>13 DEF vars, ReadSinceBegun
<1>14. QED
  BY <1>2, <1>3, <1>4, <1>5, <1>6, <1>7, <1>8, <1>9, <1>10, <1>11, <1>12, <1>13
     DEF Next, Progress

-----------------------------------------------------------------------------
LEMMA GraphIsSomething == \A g \in Graph : g # Nothing
<1> SUFFICES ASSUME NEW g \in Graph PROVE g # Nothing
  OBVIOUS
<1>1. "of" \in DOMAIN g
  BY DEF Graph
<1>2. "of" \notin DOMAIN Nothing
  BY DEF Nothing
<1>3. QED
  BY <1>1, <1>2

LEMMA InitRefines == Init => Memo!MemoInit
BY DEF Init, Memo!MemoInit, MemoPhase, Nothing, Memo!NoGraph, Memo!NoQuestion

\* A step that leaves every entry and every answer as it is, and moves no
\* goroutine in or out of its phase, is not seen.
LEMMA Unseen ==
  ASSUME TypeOK, Owned, Faithful, EntriesKept, GraphsKept,
         UNCHANGED <<disk, cache>>,
         \A p \in Proc : /\ MemoPhase(p)' = MemoPhase(p)
                         /\ call'[p] = call[p] /\ began'[p] = began[p]
                         /\ pc[p] = "done" => held'[p] = held[p]
  PROVE  UNCHANGED Memo!mvars
<1>1. \A k \in Key : cache[k] # NoRef => heap'[cache[k]] = heap[cache[k]]
  BY DEF EntriesKept
<1>2. \A p \in Proc : /\ pc'[p] = "done" <=> pc[p] = "done"
                      /\ pc'[p] = "idle" <=> pc[p] = "idle"
  BY DEF MemoPhase
<1>3. \A p \in Proc : pc[p] = "done" => heap'[held'[p]] = heap[held[p]]
  BY NoRefAssumption DEF GraphsKept, TypeOK
<1>4. QED
  BY <1>1, <1>2, <1>3 DEF Memo!mvars

LEMMA ClearRefines ==
  ASSUME TypeOK, Owned, Faithful, Clear, UNCHANGED <<disk, call, held, began>>,
         \A p \in Proc : /\ MemoPhase(p)' = MemoPhase(p)
                         /\ pc'[p] = "done" <=> pc[p] = "done"
                         /\ pc'[p] = "idle" <=> pc[p] = "idle"
  PROVE  Memo!Forget
<1>1. GraphsKept
  BY ClearFrame
<1>2. \A p \in Proc : pc[p] = "done" => heap'[held'[p]] = heap[held[p]]
  BY <1>1, NoRefAssumption DEF GraphsKept, TypeOK
<1>3. \A k \in Key : cache'[k] = NoRef
  BY DEF Clear
<1>4. QED
  BY <1>2, <1>3 DEF Memo!Forget, Memo!NoGraph, Nothing

LEMMA HitRefines ==
  ASSUME TypeOK, Owned, Faithful, NEW p \in Proc, LookupHit(p)
  PROVE  Memo!Recall(p)
<1>1. call[p] \in Call /\ KeyOfCall(p) \in Key /\ KeyOfCall(p) = KeyOf[call[p].request]
  BY KeyOfType DEF LookupHit, TypeOK, Call, KeyOfCall
<1>2. EntriesKept /\ GraphsKept
  BY HandOutFrame DEF LookupHit
<1>3. \A k \in Key : cache'[k] = cache[k] /\ (cache[k] # NoRef => heap'[cache[k]] = heap[cache[k]])
  BY <1>2 DEF LookupHit, EntriesKept
<1>4. \A q \in Proc : q # p => /\ pc'[q] = pc[q] /\ call'[q] = call[q]
                               /\ pc[q] = "done" => heap'[held'[q]] = heap[held[q]]
  BY <1>2, NoRefAssumption DEF LookupHit, Goto, TypeOK, GraphsKept
<1>5. pc'[p] = "done" /\ heap'[held'[p]] = heap[cache[KeyOfCall(p)]]
  BY FreshIsUnused DEF LookupHit, Goto, TypeOK
<1>6. heap[cache[KeyOfCall(p)]] # Nothing
  BY <1>1, GraphIsSomething DEF LookupHit, Faithful, EntriesFaithful, Describes
<1>7. pc[p] = "lookup" /\ cache[KeyOfCall(p)] # NoRef /\ disk' = disk /\ call' = call
      /\ began' = began
  BY DEF LookupHit
<1>8. QED
  BY <1>1, <1>3, <1>4, <1>5, <1>6, <1>7 DEF Memo!Recall, Memo!NoGraph, MemoPhase, Nothing

LEMMA StoreRefines ==
  ASSUME TypeOK, Owned, Faithful, ReadSinceBegun, NEW p \in Proc, Store(p)
  PROVE  \E g \in Graph : Memo!Learn(p, g)
<1>0. heap[held[p]] \in Graph /\ Describes(heap[held[p]], call[p].request, disk)
  BY DEF Store, Faithful, GraphsFaithful, Describes
<1> PICK g \in Graph : g = heap[held[p]]
  BY <1>0
<1>1. Describes(g, call[p].request, disk) /\ g \in Graph /\ began[p] <= g.first
  BY <1>0 DEF Store, ReadSinceBegun
<1>2. KeyOfCall(p) = KeyOf[call[p].request] /\ KeyOfCall(p) \in Key /\ pc[p] = "store"
  BY StoreFrame DEF KeyOfCall, Store
<1>3. held[p] # NoRef /\ held' = held /\ disk' = disk /\ call' = call /\ began' = began
  BY NoRefAssumption DEF Store, TypeOK
<1>4. heap'[held[p]] = g
  BY <1>3, StoreFrame DEF GraphsKept
<1>5. \A q \in Proc : q # p => /\ pc'[q] = pc[q]
                               /\ pc[q] = "done" => heap'[held[q]] = heap[held[q]]
  BY <1>3, StoreFrame, NoRefAssumption DEF Store, Goto, TypeOK, GraphsKept
<1>6. pc'[p] = "done"
  BY DEF Store, Goto, TypeOK
<1>7. \A k \in Key : k # KeyOfCall(p) =>
        /\ cache'[k] = cache[k]
        /\ cache[k] # NoRef => heap'[cache'[k]] = heap[cache[k]]
  BY StoreFrame DEF Store, TypeOK
<1>8. cache'[KeyOfCall(p)] # NoRef /\ heap'[cache'[KeyOfCall(p)]] = g
  BY StoreFrame, NoRefAssumption
<1>9. Memo!Learn(p, g)
  <2>1. \A k \in Key : (IF cache'[k] = NoRef THEN Nothing ELSE heap'[cache'[k]])
           = IF k = KeyOfCall(p) THEN g ELSE IF cache[k] = NoRef THEN Nothing ELSE heap[cache[k]]
    BY <1>7, <1>8
  <2>2. \A q \in Proc : (IF pc'[q] = "done" THEN heap'[held'[q]] ELSE Nothing)
           = IF q = p THEN g ELSE IF pc[q] = "done" THEN heap[held[q]] ELSE Nothing
    BY <1>3, <1>4, <1>5, <1>6
  <2>3. /\ \A q \in Proc : MemoPhase(q)' = IF q = p THEN "done" ELSE MemoPhase(q)
        /\ MemoPhase(p) = "asked"
        /\ \A q \in Proc : pc'[q] = "idle" <=> pc[q] = "idle"
    BY <1>2, <1>5, <1>6 DEF MemoPhase
  <2>4. QED
    BY <1>1, <1>2, <1>3, <2>1, <2>2, <2>3 DEF Memo!Learn, Describes
<1>10. QED
  BY <1>1, <1>9

LEMMA ReturnRefines ==
  ASSUME TypeOK, Owned, Faithful, NEW p \in Proc, Return(p)
  PROVE  Memo!Leave(p)
<1>1. EntriesKept /\ GraphsKept
  BY ReturnFrame
<1>2. \A k \in Key : cache'[k] = cache[k] /\ (cache[k] # NoRef => heap'[cache[k]] = heap[cache[k]])
  BY <1>1 DEF Return, EntriesKept
<1>3. \A q \in Proc : q # p => /\ pc'[q] = pc[q] /\ call'[q] = call[q] /\ began'[q] = began[q]
                               /\ pc[q] = "done" => heap'[held'[q]] = heap[held[q]]
  BY <1>1, NoRefAssumption DEF Return, Goto, TypeOK, GraphsKept
<1>4. pc'[p] = "idle" /\ disk' = disk /\ pc[p] \in {"done", "failed"}
  BY DEF Return, Goto, TypeOK
<1>5. QED
  BY <1>2, <1>3, <1>4 DEF Memo!Leave, Memo!NoGraph, Memo!NoQuestion, MemoPhase, Nothing

LEMMA ScribbleRefines ==
  ASSUME TypeOK, Owned, Faithful, NEW p \in Proc, ScribbleOwn(p)
  PROVE  Memo!Scribble(p)
<1>1. \A k \in Key : cache[k] # NoRef => heap'[cache[k]] = heap[cache[k]]
  BY ScribbleFrame DEF EntriesKept, ScribbleOwn
<1>2. \A q \in Proc : q # p /\ pc[q] = "done" => heap'[held[q]] = heap[held[q]]
  BY ScribbleFrame, NoRefAssumption DEF TypeOK
<1>3. heap'[held[p]] = Scribbled(p)
  BY ScribbleFrame
<1>4. QED
  BY <1>1, <1>2, <1>3
     DEF ScribbleOwn, Memo!Scribble, Memo!Scribbled, Scribbled, MemoPhase

\* Every step of the cache is a step of the memo table, or none.
LEMMA StepRefines ==
  TypeOK /\ Owned /\ Faithful /\ ReadSinceBegun /\ [Next]_vars
    => [Memo!MemoNext]_(Memo!mvars)
<1> SUFFICES ASSUME TypeOK, Owned, Faithful, ReadSinceBegun, [Next]_vars
             PROVE  Memo!MemoNext \/ UNCHANGED Memo!mvars
  OBVIOUS
<1>1. CASE EditSource
  <2>1. Memo!Edit
    BY <1>1 DEF EditSource, Memo!Edit, MemoPhase
  <2>2. QED
    BY <2>1 DEF Memo!MemoNext
<1>2. CASE ClearGraphCache
  <2>1. Memo!Forget
    BY <1>2, ClearRefines DEF ClearGraphCache, MemoPhase
  <2>2. QED
    BY <2>1 DEF Memo!MemoNext
<1>3. ASSUME NEW p \in Proc, NEW q \in Request, NEW clear \in BOOLEAN, Begin(p, q, clear)
      PROVE  Memo!MemoNext
  <2>1. Memo!Ask(p, q)
    BY <1>3 DEF Begin, Goto, TypeOK, Memo!Ask, MemoPhase
  <2>2. QED
    BY <2>1 DEF Memo!MemoNext
<1>4. ASSUME NEW p \in Proc, ClearCache(p) PROVE Memo!MemoNext
  <2>1. Memo!Forget
    BY <1>4, ClearRefines DEF ClearCache, Goto, TypeOK, MemoPhase
  <2>2. QED
    BY <2>1 DEF Memo!MemoNext
<1>5. ASSUME NEW p \in Proc, LocateProject(p) \/ LookupMiss(p) \/ WalkSources(p)
                              \/ LoadProjectBuild(p)
      PROVE  UNCHANGED Memo!mvars
  <2>1. EntriesKept /\ GraphsKept
    BY <1>5 DEF LocateProject, LookupMiss, WalkSources, LoadProjectBuild, EntriesKept,
       GraphsKept
  <2>2. QED
    BY <1>5, <2>1, Unseen
       DEF LocateProject, LookupMiss, WalkSources, LoadProjectBuild, Goto, TypeOK, MemoPhase
<1>6. ASSUME NEW p \in Proc, NEW first, pc[p] \in {"walk", "parse"}, Build(p, first),
             UNCHANGED <<disk, cache, call, began>>
      PROVE  UNCHANGED Memo!mvars
  <2>1. EntriesKept /\ GraphsKept
    BY <1>6, HandOutFrame DEF Build
  <2>2. QED
    BY <1>6, <2>1, Unseen DEF Build, Goto, TypeOK, MemoPhase
<1>7. ASSUME NEW p \in Proc, LookupHit(p) PROVE Memo!MemoNext
  BY <1>7, HitRefines DEF Memo!MemoNext
<1>8. ASSUME NEW p \in Proc, Store(p) PROVE Memo!MemoNext
  BY <1>8, StoreRefines DEF Memo!MemoNext, Graph, Memo!Graph, Version, Memo!Version
<1>9. ASSUME NEW p \in Proc, Fail(p) PROVE Memo!MemoNext
  <2>1. Memo!Refuse(p)
    BY <1>9 DEF Fail, Goto, TypeOK, Memo!Refuse, MemoPhase
  <2>2. QED
    BY <2>1 DEF Memo!MemoNext
<1>10. ASSUME NEW p \in Proc, ScribbleOwn(p) PROVE Memo!MemoNext
  BY <1>10, ScribbleRefines DEF Memo!MemoNext
<1>11. ASSUME NEW p \in Proc, Return(p) PROVE Memo!MemoNext
  BY <1>11, ReturnRefines DEF Memo!MemoNext
<1>12. CASE UNCHANGED vars
  BY <1>12 DEF vars, Memo!mvars, MemoPhase
<1>13. QED
  BY <1>1, <1>2, <1>3, <1>4, <1>5, <1>6, <1>7, <1>8, <1>9, <1>10, <1>11, <1>12
     DEF Next, Progress, WalkEmptyProject, ParseImports

\* The cache, run by any number of checks, is a memo in front of the extraction.
THEOREM Refinement == Spec => ImplementsMemo
BY InitRefines, StepRefines, InitReadSinceBegun, NextReadSinceBegun, TypeCorrect,
   Ownership, Fidelity, PTL DEF Spec, ImplementsMemo, Memo!MemoSpec

-----------------------------------------------------------------------------
\* A rearrangement of n turns that puts a list in order.
Turns(n) == Bijection(1 .. n, 1 .. n)
Orders(list, p, n) == \A i, j \in 1 .. n : i < j => list[p[i]] <= list[p[j]]

LEMMA TurnsAre ==
  ASSUME NEW n \in Nat, NEW p
  PROVE  p \in Turns(n) <=> /\ p \in [1 .. n -> 1 .. n]
                            /\ \A i, j \in 1 .. n : p[i] = p[j] => i = j
                            /\ \A k \in 1 .. n : \E i \in 1 .. n : p[i] = k
BY DEF Turns, Bijection, Injection, Surjection, IsInjective

\* One more name goes before the first one that is greater.
LEMMA OneMoreIsSorted ==
  ASSUME NEW n \in Nat, NEW list \in [1 .. n + 1 -> Int], NEW p \in Turns(n), Orders(list, p, n)
  PROVE  \E q \in Turns(n + 1) : Orders(list, q, n + 1)
<1> DEFINE greater == {i \in 1 .. n + 1 : i = n + 1 \/ list[n + 1] < list[p[i]]}
<1>1. greater \in SUBSET Nat /\ greater # {}
  OBVIOUS
<1>2. \E k \in greater : \A m \in greater : k <= m
  BY <1>1, LeastNat
<1>3. PICK k \in greater : \A m \in greater : k <= m
  BY <1>2
<1>4. /\ k \in 1 .. n + 1
      /\ k = n + 1 \/ list[n + 1] < list[p[k]]
      /\ \A i \in 1 .. n : i < k => ~(list[n + 1] < list[p[i]])
  BY <1>3
<1> HIDE DEF greater
<1>5. /\ p \in [1 .. n -> 1 .. n]
      /\ \A i, j \in 1 .. n : p[i] = p[j] => i = j
      /\ \A m \in 1 .. n : \E i \in 1 .. n : p[i] = m
  BY TurnsAre
<1> DEFINE q == [i \in 1 .. n + 1 |-> IF i < k THEN p[i] ELSE IF i = k THEN n + 1 ELSE p[i - 1]]
<1>6. \A i \in 1 .. n + 1 : i < k => i \in 1 .. n /\ q[i] = p[i]
  BY <1>4
<1>7. \A i \in 1 .. n + 1 : k < i => i - 1 \in 1 .. n /\ k <= i - 1 /\ q[i] = p[i - 1]
  BY <1>4
<1>8. q[k] = n + 1 /\ k \in Nat /\ DOMAIN q = 1 .. n + 1
  BY <1>4
<1> HIDE DEF q
<1>9. \A i \in 1 .. n + 1 : q[i] \in 1 .. n + 1
  <2> TAKE i \in 1 .. n + 1
  <2>1. CASE i < k
    <3>1. i \in 1 .. n /\ q[i] = p[i] /\ p[i] \in 1 .. n
      BY <2>1, <1>5, <1>6
    <3>2. QED
      BY <3>1
  <2>2. CASE i = k
    BY <2>2, <1>8
  <2>3. CASE k < i
    <3>1. i - 1 \in 1 .. n /\ q[i] = p[i - 1] /\ p[i - 1] \in 1 .. n
      BY <2>3, <1>5, <1>7
    <3>2. QED
      BY <3>1
  <2>4. QED
    BY <2>1, <2>2, <2>3, <1>8
<1>10. \A i, j \in 1 .. n + 1 : q[i] = q[j] => i = j
  <2> SUFFICES ASSUME NEW i \in 1 .. n + 1, NEW j \in 1 .. n + 1, i < j, q[i] = q[j] PROVE FALSE
    OBVIOUS
  <2>1. CASE j < k
    <3>1. i < k
      BY <2>1, <1>8
    <3>2. i \in 1 .. n /\ j \in 1 .. n /\ p[i] = p[j]
      BY <2>1, <3>1, <1>6
    <3>3. QED
      BY <3>2, <1>5
  <2>2. CASE j = k
    BY <2>2, <1>5, <1>6, <1>8
  <2>3. CASE k < j /\ i < k
    BY <2>3, <1>4, <1>5, <1>6, <1>7
  <2>4. CASE k < j /\ i = k
    <3>1. j - 1 \in 1 .. n /\ q[j] = p[j - 1] /\ q[j] = n + 1
      BY <2>4, <1>7, <1>8
    <3>2. p[j - 1] \in 1 .. n
      BY <3>1, <1>5
    <3>3. QED
      BY <3>1, <3>2
  <2>5. CASE k < j /\ k < i
    <3>1. p[i - 1] = p[j - 1] /\ i - 1 \in 1 .. n /\ j - 1 \in 1 .. n
      BY <2>5, <1>7
    <3>2. i - 1 = j - 1
      BY <3>1, <1>5
    <3>3. QED
      BY <3>2
  <2>6. QED
    BY <2>1, <2>2, <2>3, <2>4, <2>5, <1>8
<1>11. \A m \in 1 .. n + 1 : \E i \in 1 .. n + 1 : q[i] = m
  <2> TAKE m \in 1 .. n + 1
  <2>1. CASE m = n + 1
    BY <2>1, <1>4, <1>8
  <2>2. CASE m \in 1 .. n
    <3>1. PICK i \in 1 .. n : p[i] = m
      BY <2>2, <1>5
    <3>2. CASE i < k
      BY <3>1, <3>2, <1>6
    <3>3. CASE k <= i
      <4>1. i + 1 \in 1 .. n + 1 /\ k < i + 1 /\ (i + 1) - 1 = i
        BY <3>3, <1>4
      <4>2. q[i + 1] = p[i]
        BY <4>1, <1>7
      <4>3. QED
        BY <3>1, <4>1, <4>2
    <3>4. QED
      BY <3>2, <3>3, <1>4
  <2>3. QED
    BY <2>1, <2>2
<1>12. q \in [1 .. n + 1 -> 1 .. n + 1]
  BY <1>9 DEF q
<1>13. q \in Turns(n + 1)
  <2>1. n + 1 \in Nat
    OBVIOUS
  <2>2. QED
    BY <1>10, <1>11, <1>12, <2>1, TurnsAre
<1>14. Orders(list, q, n + 1)
  <2> SUFFICES ASSUME NEW i \in 1 .. n + 1, NEW j \in 1 .. n + 1, i < j
               PROVE  list[q[i]] <= list[q[j]]
    BY DEF Orders
  <2>1. \A m \in 1 .. n : list[p[m]] \in Int /\ list[n + 1] \in Int
    BY <1>5
  <2>2. CASE j < k
    BY <2>2, <1>6, <1>8 DEF Orders
  <2>3. CASE j = k
    BY <2>1, <2>3, <1>4, <1>6, <1>8
  <2>4. CASE k < j /\ i < k
    <3>1. i \in 1 .. n /\ j - 1 \in 1 .. n /\ i < j - 1 /\ q[i] = p[i] /\ q[j] = p[j - 1]
      BY <2>4, <1>6, <1>7, <1>8
    <3>2. QED
      BY <3>1 DEF Orders
  <2>5. CASE k < j /\ i = k
    <3>1. j - 1 \in 1 .. n /\ k <= j - 1 /\ q[j] = p[j - 1] /\ k \in 1 .. n
      BY <2>5, <1>7, <1>8
    <3>2. list[n + 1] < list[p[k]]
      BY <3>1, <1>4
    <3>3. list[p[k]] <= list[p[j - 1]]
      BY <2>1, <3>1 DEF Orders
    <3>4. QED
      BY <2>1, <2>5, <3>1, <3>2, <3>3, <1>8
  <2>6. CASE k < i
    <3>1. /\ i - 1 \in 1 .. n /\ j - 1 \in 1 .. n /\ i - 1 < j - 1
          /\ q[i] = p[i - 1] /\ q[j] = p[j - 1]
      BY <2>6, <1>7, <1>8
    <3>2. QED
      BY <3>1 DEF Orders
  <2>7. QED
    BY <2>2, <2>3, <2>4, <2>5, <2>6, <1>8
<1>15. QED
  BY <1>13, <1>14

\* Every list can be sorted, and what is sorted has the same names in order.
LEMMA SortingExists ==
  ASSUME NEW n \in Nat, NEW list \in [1 .. n -> Int]
  PROVE  \E p \in Turns(n) : Orders(list, p, n)
<1> DEFINE S == {m \in Nat : \A l \in [1 .. m -> Int] : \E p \in Turns(m) : Orders(l, p, m)}
<1>1. 0 \in S
  <2> SUFFICES ASSUME NEW l \in [1 .. 0 -> Int] PROVE \E p \in Turns(0) : Orders(l, p, 0)
    OBVIOUS
  <2> DEFINE p == [i \in 1 .. 0 |-> i]
  <2>1. p \in Turns(0)
    BY TurnsAre
  <2>2. Orders(l, p, 0)
    BY DEF Orders
  <2>3. QED
    BY <2>1, <2>2
<1>2. \A m \in Nat : m \in S => m + 1 \in S
  <2> SUFFICES ASSUME NEW m \in Nat, m \in S PROVE m + 1 \in S
    OBVIOUS
  <2> SUFFICES ASSUME NEW l \in [1 .. m + 1 -> Int]
               PROVE  \E p \in Turns(m + 1) : Orders(l, p, m + 1)
    OBVIOUS
  <2> DEFINE front == [i \in 1 .. m |-> l[i]]
  <2>1. front \in [1 .. m -> Int]
    OBVIOUS
  <2>2. PICK p \in Turns(m) : Orders(front, p, m)
    BY <2>1
  <2>3. \A i \in 1 .. m : p[i] \in 1 .. m
    BY TurnsAre
  <2>4. Orders(l, p, m)
    BY <2>2, <2>3 DEF Orders
  <2>5. QED
    BY <2>4, OneMoreIsSorted
<1> HIDE DEF S
<1>3. n \in S
  BY <1>1, <1>2, NatsByInduction
<1>4. QED
  BY <1>3 DEF S

LEMMA SortedWorks ==
  ASSUME NEW list \in Seq(Int)
  PROVE  /\ Sorted(list) \in Seq(Int) /\ Len(Sorted(list)) = Len(list)
         /\ Range(Sorted(list)) = Range(list)
         /\ \A i, j \in 1 .. Len(list) : i < j => Sorted(list)[i] <= Sorted(list)[j]
         /\ IsInjective(list) => IsInjective(Sorted(list))
<1> DEFINE n == Len(list)
           order == CHOOSE p \in Bijection(DOMAIN list, DOMAIN list) :
                      \A i, j \in DOMAIN list : i < j => list[p[i]] <= list[p[j]]
<1>1. n \in Nat /\ DOMAIN list = 1 .. n /\ list \in [1 .. n -> Int]
  OBVIOUS
<1> HIDE DEF n
<1>2. order \in Turns(n) /\ Orders(list, order, n)
  <2>1. PICK p \in Turns(n) : Orders(list, p, n)
    BY <1>1, SortingExists
  <2>2. /\ p \in Bijection(DOMAIN list, DOMAIN list)
        /\ \A i, j \in DOMAIN list : i < j => list[p[i]] <= list[p[j]]
    BY <2>1, <1>1, Zenon DEF Turns, Orders
  <2>3. /\ order \in Bijection(DOMAIN list, DOMAIN list)
        /\ \A i, j \in DOMAIN list : i < j => list[order[i]] <= list[order[j]]
    BY <2>2, Zenon
  <2> HIDE DEF order
  <2>4. QED
    BY <2>3, <1>1, Zenon DEF Turns, Orders
<1>3. Sorted(list) = [i \in 1 .. n |-> list[order[i]]]
  <2>1. Sorted(list) = [i \in DOMAIN list |-> list[order[i]]]
    BY Zenon DEF Sorted
  <2>2. QED
    BY <2>1, <1>1, Zenon
<1> HIDE DEF order
<1>4. /\ order \in [1 .. n -> 1 .. n]
      /\ \A i, j \in 1 .. n : order[i] = order[j] => i = j
      /\ \A k \in 1 .. n : \E i \in 1 .. n : order[i] = k
  BY <1>1, <1>2, TurnsAre
<1>5. Sorted(list) \in Seq(Int) /\ Len(Sorted(list)) = n /\ DOMAIN Sorted(list) = 1 .. n
  BY <1>1, <1>3, <1>4
<1>6. Range(Sorted(list)) = Range(list)
  <2>1. \A i \in 1 .. n : Sorted(list)[i] = list[order[i]] /\ order[i] \in 1 .. n
    BY <1>3, <1>4
  <2>2. \A i \in 1 .. n : Sorted(list)[i] \in Range(list)
    BY <2>1, <1>1, Zenon DEF Range
  <2>3. \A k \in 1 .. n : list[k] \in Range(Sorted(list))
    <3> TAKE k \in 1 .. n
    <3>1. PICK i \in 1 .. n : order[i] = k
      BY <1>4, Zenon
    <3>2. Sorted(list)[i] = list[k]
      BY <2>1, <3>1, Zenon
    <3>3. QED
      BY <3>2, <1>5, Zenon DEF Range
  <2>4. QED
    BY <2>2, <2>3, <1>1, <1>5, Zenon DEF Range
<1>7. \A i, j \in 1 .. n : i < j => Sorted(list)[i] <= Sorted(list)[j]
  BY <1>2, <1>3 DEF Orders
<1>8. IsInjective(list) => IsInjective(Sorted(list))
  <2> SUFFICES ASSUME \A i, j \in 1 .. n : list[i] = list[j] => i = j,
                      NEW i \in 1 .. n, NEW j \in 1 .. n, Sorted(list)[i] = Sorted(list)[j]
               PROVE  i = j
    BY <1>1, <1>5, Zenon DEF IsInjective
  <2>1. list[order[i]] = list[order[j]]
    BY <1>3, Zenon
  <2>2. order[i] \in 1 .. n /\ order[j] \in 1 .. n
    BY <1>4, Zenon
  <2>3. order[i] = order[j]
    BY <2>1, <2>2, Zenon
  <2>4. QED
    BY <2>3, <1>4, Zenon
<1>9. QED
  BY <1>5, <1>6, <1>7, <1>8 DEF n

\* Two lists in strict order that hold the same names are one list, name by name.
LEMMA OrderIsUnique ==
  ASSUME NEW a \in Seq(Int), NEW b \in Seq(Int), Range(a) = Range(b),
         \A i, j \in 1 .. Len(a) : i < j => a[i] < a[j],
         \A i, j \in 1 .. Len(b) : i < j => b[i] < b[j]
  PROVE  a = b
<1> DEFINE S == {n \in Nat : \A i \in 1 .. n : /\ i <= Len(a) <=> i <= Len(b)
                                               /\ i <= Len(a) => a[i] = b[i]}
<1>1. Len(a) \in Nat /\ Len(b) \in Nat /\ DOMAIN a = 1 .. Len(a) /\ DOMAIN b = 1 .. Len(b)
  OBVIOUS
<1>2. 0 \in S
  OBVIOUS
<1>3. ASSUME NEW s \in Seq(Int), NEW t \in Seq(Int), Range(s) = Range(t),
             \A i, j \in 1 .. Len(s) : i < j => s[i] < s[j],
             NEW n \in Nat, \A i \in 1 .. n : i <= Len(s) => i <= Len(t) /\ s[i] = t[i],
             n + 1 <= Len(s), \A i, j \in 1 .. Len(t) : i < j => t[i] < t[j]
      PROVE  n + 1 <= Len(t) /\ t[n + 1] <= s[n + 1]
  <2>1. /\ n + 1 \in 1 .. Len(s) /\ s[n + 1] \in Int
        /\ \A i \in 1 .. n : i \in 1 .. Len(s) /\ i < n + 1
    BY <1>3
  <2>2. PICK k \in 1 .. Len(t) : t[k] = s[n + 1]
    <3>1. s[n + 1] \in Range(s) /\ DOMAIN t = 1 .. Len(t)
      BY <2>1 DEF Range
    <3>2. s[n + 1] \in Range(t)
      BY <3>1, <1>3
    <3>3. QED
      BY <3>1, <3>2 DEF Range
  <2>3. ~(k \in 1 .. n)
    <3>1. SUFFICES ASSUME k \in 1 .. n PROVE FALSE
      OBVIOUS
    <3>2. s[k] = t[k] /\ s[k] < s[n + 1]
      BY <3>1, <2>1, <1>3
    <3>3. QED
      BY <3>2, <2>1, <2>2
  <2>4. k = n + 1 \/ n + 1 < k
    BY <2>2, <2>3
  <2>5. n + 1 \in 1 .. Len(t) /\ t[n + 1] \in Int
    BY <2>4
  <2>6. QED
    BY <2>1, <2>2, <2>4, <2>5, <1>3
<1>4. \A n \in Nat : n \in S => n + 1 \in S
  <2> SUFFICES ASSUME NEW n \in Nat, n \in S PROVE n + 1 \in S
    OBVIOUS
  <2>1. \A i \in 1 .. n : (i <= Len(a) <=> i <= Len(b)) /\ (i <= Len(a) => a[i] = b[i])
    OBVIOUS
  <2> HIDE DEF S
  <2>2. n + 1 <= Len(a) => n + 1 <= Len(b) /\ b[n + 1] <= a[n + 1]
    BY <2>1, <1>3
  <2>3. n + 1 <= Len(b) => n + 1 <= Len(a) /\ a[n + 1] <= b[n + 1]
    BY <2>1, <1>3
  <2>4. n + 1 <= Len(a) => a[n + 1] \in Int /\ b[n + 1] \in Int
    BY <2>2, <1>1
  <2>5. /\ n + 1 <= Len(a) <=> n + 1 <= Len(b)
        /\ n + 1 <= Len(a) => a[n + 1] = b[n + 1]
    BY <2>2, <2>3, <2>4
  <2>6. \A i \in 1 .. n + 1 : i \in 1 .. n \/ i = n + 1
    OBVIOUS
  <2>7. QED
    BY <2>1, <2>5, <2>6 DEF S
<1> HIDE DEF S
<1>5. Len(a) \in S /\ Len(b) \in S
  BY <1>1, <1>2, <1>4, NatsByInduction
<1>6. Len(a) <= Len(b) /\ Len(b) <= Len(a)
  BY <1>1, <1>5 DEF S
<1>7. \A i \in 1 .. Len(a) : a[i] = b[i]
  BY <1>1, <1>5 DEF S
<1>8. QED
  BY <1>1, <1>6, <1>7

\* So a list without repetitions is sorted into what its names alone decide.
LEMMA SortedByNames ==
  ASSUME NEW a \in Seq(Int), NEW b \in Seq(Int),
         IsInjective(a), IsInjective(b), Range(a) = Range(b)
  PROVE  Sorted(a) = Sorted(b)
<1>1. ASSUME NEW list \in Seq(Int), IsInjective(list)
      PROVE  /\ Sorted(list) \in Seq(Int) /\ Range(Sorted(list)) = Range(list)
             /\ \A i, j \in 1 .. Len(Sorted(list)) : i < j => Sorted(list)[i] < Sorted(list)[j]
  <2> DEFINE s == Sorted(list)
  <2>1. /\ s \in Seq(Int) /\ Len(s) = Len(list) /\ Range(s) = Range(list) /\ IsInjective(s)
        /\ \A i, j \in 1 .. Len(list) : i < j => s[i] <= s[j]
    BY <1>1, SortedWorks
  <2> HIDE DEF s
  <2>2. \A i, j \in 1 .. Len(s) : i < j => s[i] < s[j]
    BY <2>1 DEF IsInjective
  <2>3. QED
    BY <2>1, <2>2 DEF s
<1>2. Range(Sorted(a)) = Range(Sorted(b))
  BY <1>1
<1>3. QED
  BY <1>1, <1>2, OrderIsUnique

-----------------------------------------------------------------------------
\* A bag that is written: its nil list of folders is filled in, the rest is kept.
LEMMA WrittenBag ==
  ASSUME NEW o \in Bag, o # NilBag
  PROVE  /\ WithDefaults(o).folders = (IF o.folders = NilList THEN DefaultFolders ELSE o.folders)
         /\ WithDefaults(o).tests = o.tests /\ WithDefaults(o).tags = o.tags
         /\ WithDefaults(o).ignored = o.ignored /\ WithDefaults(o).scopes = o.scopes
<1> DEFINE filled == IF o.folders = NilList THEN DefaultFolders ELSE o.folders
<1>1. WithDefaults(o) = [o EXCEPT !.folders = filled]
  BY Zenon DEF WithDefaults
<1> HIDE DEF filled
<1>2. o = [folders |-> o.folders, tests |-> o.tests, tags |-> o.tags,
           ignored |-> o.ignored, scopes |-> o.scopes]
  BY DEF Bag
<1>3. [o EXCEPT !.folders = filled] =
      [folders |-> filled, tests |-> o.tests, tags |-> o.tags,
       ignored |-> o.ignored, scopes |-> o.scopes]
  BY <1>2
<1>4. QED
  BY <1>1, <1>3 DEF filled

\* An options bag, nil or not, is resolved to lists of names, and what the
\* extraction asks about is which names they hold.
LEMMA ResolvedLists ==
  ASSUME NEW o \in Bag \cup {NilBag}
  PROVE  /\ WithDefaults(o).folders \in Seq(Int)
         /\ WithDefaults(o).tags \in Seq(Int)
         /\ WithDefaults(o).scopes \in Seq(Int)
         /\ ExcludedFolders(o) = PassedOver \cup Range(WithDefaults(o).folders)
         /\ (o # NilBag /\ o.tests) = WithDefaults(o).tests
         /\ (IF o = NilBag THEN {} ELSE Range(o.tags)) = Range(WithDefaults(o).tags)
         /\ (IF o = NilBag THEN {} ELSE o.ignored) = WithDefaults(o).ignored
         /\ (IF o = NilBag THEN {} ELSE Range(o.scopes)) = Range(WithDefaults(o).scopes)
<1>1. CASE o = NilBag
  <2>1. WithDefaults(o) = [folders |-> DefaultFolders, tests |-> FALSE, tags |-> << >>,
                           ignored |-> {}, scopes |-> << >>]
    BY <1>1 DEF WithDefaults
  <2>2. Range(<< >>) = {} /\ << >> \in Seq(Int)
    BY DEF Range
  <2>3. /\ WithDefaults(o).folders = DefaultFolders /\ WithDefaults(o).tests = FALSE
        /\ WithDefaults(o).tags = << >> /\ WithDefaults(o).ignored = {}
        /\ WithDefaults(o).scopes = << >>
    BY <2>1
  <2>4. (o # NilBag /\ o.tests) = FALSE
    BY <1>1, Zenon
  <2>5. /\ ExcludedFolders(o) = PassedOver \cup Range(DefaultFolders)
        /\ (IF o = NilBag THEN {} ELSE Range(o.tags)) = {}
        /\ (IF o = NilBag THEN {} ELSE o.ignored) = {}
        /\ (IF o = NilBag THEN {} ELSE Range(o.scopes)) = {}
    BY <1>1, Zenon DEF ExcludedFolders
  <2>6. QED
    BY <2>2, <2>3, <2>4, <2>5, KeyAssumption, Zenon
<1>2. CASE o # NilBag
  <2>1. /\ o.folders \in FolderLists /\ o.tests \in BOOLEAN /\ o.tags \in TagLists
        /\ o.scopes \in ScopeLists
    BY <1>2 DEF Bag
  <2>2. /\ WithDefaults(o).folders = IF o.folders = NilList THEN DefaultFolders ELSE o.folders
        /\ WithDefaults(o).tests = o.tests /\ WithDefaults(o).tags = o.tags
        /\ WithDefaults(o).ignored = o.ignored /\ WithDefaults(o).scopes = o.scopes
    BY <1>2, WrittenBag, Zenon
  <2>3. (o # NilBag /\ o.tests) = WithDefaults(o).tests
    BY <1>2, <2>1, <2>2
  <2>4. QED
    BY <1>2, <2>1, <2>2, <2>3, KeyAssumption DEF ExcludedFolders
<1>3. QED
  BY <1>1, <1>2

\* And where the caller names nothing twice, and no folder that is passed over
\* anyway, neither do they.
LEMMA ResolvedOnce ==
  ASSUME NEW o \in Bag \cup {NilBag}, NoIdleNames(o)
  PROVE  /\ IsInjective(WithDefaults(o).folders)
         /\ IsInjective(WithDefaults(o).tags)
         /\ IsInjective(WithDefaults(o).scopes)
         /\ Range(WithDefaults(o).folders) \cap PassedOver = {}
<1>1. CASE o = NilBag
  <2>1. WithDefaults(o) = [folders |-> DefaultFolders, tests |-> FALSE, tags |-> << >>,
                           ignored |-> {}, scopes |-> << >>]
    BY <1>1 DEF WithDefaults
  <2>2. IsInjective(<< >>)
    BY DEF IsInjective
  <2>3. QED
    BY <2>1, <2>2, KeyAssumption
<1>2. CASE o # NilBag
  <2>1. o.folders \in FolderLists /\ o.tags \in TagLists /\ o.scopes \in ScopeLists
    BY <1>2 DEF Bag
  <2>2. /\ WithDefaults(o).folders = IF o.folders = NilList THEN DefaultFolders ELSE o.folders
        /\ WithDefaults(o).tags = o.tags /\ WithDefaults(o).scopes = o.scopes
    BY <1>2, WrittenBag, Zenon
  <2>3. /\ o.folders = NilList \/ IsInjective(o.folders)
        /\ o.tags = NilList \/ IsInjective(o.tags)
        /\ o.scopes = NilList \/ IsInjective(o.scopes)
        /\ o.folders = NilList \/ Range(o.folders) \cap PassedOver = {}
    BY <1>2, Zenon DEF NoIdleNames
  <2>4. QED
    BY <2>1, <2>2, <2>3, KeyAssumption
<1>3. QED
  BY <1>1, <1>2

\* What extraction is asked, said with the resolved options, as the key is.
LEMMA MeaningResolved ==
  ASSUME NEW q \in Requests
  PROVE  AnalysisMeant(q) = [root |-> ResolvedRoot[q.root],
                             excluded |-> PassedOver \cup Range(WithDefaults(q.options).folders),
                             tests |-> WithDefaults(q.options).tests,
                             build |-> Range(WithDefaults(q.options).tags),
                             dropped |-> WithDefaults(q.options).ignored,
                             answers |-> Range(WithDefaults(q.options).scopes)]
<1> DEFINE o == q.options
<1>1. o \in Bag \cup {NilBag}
  BY DEF Requests
<1>2. AnalysisMeant(q) = [root |-> ResolvedRoot[q.root],
                          excluded |-> ExcludedFolders(o),
                          tests |-> o # NilBag /\ o.tests,
                          build |-> IF o = NilBag THEN {} ELSE Range(o.tags),
                          dropped |-> IF o = NilBag THEN {} ELSE o.ignored,
                          answers |-> IF o = NilBag THEN {} ELSE Range(o.scopes)]
  BY Zenon DEF AnalysisMeant
<1> HIDE DEF o
<1>3. /\ ExcludedFolders(o) = PassedOver \cup Range(WithDefaults(o).folders)
      /\ (o # NilBag /\ o.tests) = WithDefaults(o).tests
      /\ (IF o = NilBag THEN {} ELSE Range(o.tags)) = Range(WithDefaults(o).tags)
      /\ (IF o = NilBag THEN {} ELSE o.ignored) = WithDefaults(o).ignored
      /\ (IF o = NilBag THEN {} ELSE Range(o.scopes)) = Range(WithDefaults(o).scopes)
  BY <1>1, ResolvedLists, Zenon
<1>4. QED
  BY <1>2, <1>3, Zenon DEF o

\* One key, one analysis.
LEMMA KeyIsOneAnalysis ==
  ASSUME NEW q \in Requests, NEW r \in Requests, GraphCacheKey(q) = GraphCacheKey(r)
  PROVE  AnalysisMeant(q) = AnalysisMeant(r)
<1> DEFINE u == WithDefaults(q.options)
           v == WithDefaults(r.options)
<1>1. u.folders \in Seq(Int) /\ u.tags \in Seq(Int) /\ u.scopes \in Seq(Int)
  BY ResolvedLists DEF Requests
<1>2. v.folders \in Seq(Int) /\ v.tags \in Seq(Int) /\ v.scopes \in Seq(Int)
  BY ResolvedLists DEF Requests
<1> HIDE DEF u, v
<1>3. /\ ResolvedRoot[q.root] = ResolvedRoot[r.root]
      /\ Sorted(u.folders) = Sorted(v.folders) /\ u.tests = v.tests
      /\ Sorted(u.tags) = Sorted(v.tags) /\ u.ignored = v.ignored
      /\ Sorted(u.scopes) = Sorted(v.scopes)
  BY DEF GraphCacheKey, u, v
<1>4. /\ Range(u.folders) = Range(v.folders)
      /\ Range(u.tags) = Range(v.tags)
      /\ Range(u.scopes) = Range(v.scopes)
  BY <1>1, <1>2, <1>3, SortedWorks
<1>5. QED
  BY <1>3, <1>4, MeaningResolved, Zenon DEF u, v

\* One analysis, one key, when no list names something twice or for nothing.
LEMMA AnalysisIsOneKey ==
  ASSUME NEW q \in Requests, NEW r \in Requests,
         NoIdleNames(q.options), NoIdleNames(r.options), AnalysisMeant(q) = AnalysisMeant(r)
  PROVE  GraphCacheKey(q) = GraphCacheKey(r)
<1> DEFINE u == WithDefaults(q.options)
           v == WithDefaults(r.options)
<1>1. /\ u.folders \in Seq(Int) /\ u.tags \in Seq(Int) /\ u.scopes \in Seq(Int)
      /\ IsInjective(u.folders) /\ IsInjective(u.tags) /\ IsInjective(u.scopes)
      /\ Range(u.folders) \cap PassedOver = {}
  BY ResolvedLists, ResolvedOnce DEF Requests
<1>2. /\ v.folders \in Seq(Int) /\ v.tags \in Seq(Int) /\ v.scopes \in Seq(Int)
      /\ IsInjective(v.folders) /\ IsInjective(v.tags) /\ IsInjective(v.scopes)
      /\ Range(v.folders) \cap PassedOver = {}
  BY ResolvedLists, ResolvedOnce DEF Requests
<1>3. [root |-> ResolvedRoot[q.root], excluded |-> PassedOver \cup Range(u.folders), tests |-> u.tests,
       build |-> Range(u.tags), dropped |-> u.ignored, answers |-> Range(u.scopes)]
    = [root |-> ResolvedRoot[r.root], excluded |-> PassedOver \cup Range(v.folders), tests |-> v.tests,
       build |-> Range(v.tags), dropped |-> v.ignored, answers |-> Range(v.scopes)]
  BY MeaningResolved, Zenon
<1> HIDE DEF u, v
<1>4. /\ ResolvedRoot[q.root] = ResolvedRoot[r.root]
      /\ PassedOver \cup Range(u.folders) = PassedOver \cup Range(v.folders) /\ u.tests = v.tests
      /\ Range(u.tags) = Range(v.tags) /\ u.ignored = v.ignored
      /\ Range(u.scopes) = Range(v.scopes)
  BY <1>3
<1>5. Range(u.folders) = Range(v.folders)
  BY <1>1, <1>2, <1>4
<1>6. /\ Sorted(u.folders) = Sorted(v.folders)
      /\ Sorted(u.tags) = Sorted(v.tags)
      /\ Sorted(u.scopes) = Sorted(v.scopes)
  BY <1>1, <1>2, <1>4, <1>5, SortedByNames
<1>7. QED
  BY <1>4, <1>6, Zenon DEF GraphCacheKey, u, v

\* For any spellings, options and lists of names of any length: two requests
\* share a key only if they are one analysis, and requests that are one
\* analysis share it unless a list names something twice, or a folder that is
\* passed over in any case.
THEOREM OneKeyOneAnalysis == KeysSpec => []KeysAreAnalyses
<1> DEFINE Asked == left \in Requests /\ right \in Requests
<1>1. KeysInit => Asked
  BY DEF KeysInit, Requests
<1>2. Asked /\ [AskAgain]_<<left, right>> => Asked'
  BY DEF AskAgain
<1>3. Asked => KeysAreAnalyses
  BY KeyIsOneAnalysis, AnalysisIsOneKey, Zenon DEF KeysAreAnalyses
<1>4. QED
  BY <1>1, <1>2, <1>3, PTL DEF KeysSpec

\* What GraphCache assumes of its keys is so of the keys the code builds.
THEOREM CodeKeysNameAnalyses ==
  ASSUME Request \subseteq Requests,
         KeyOf = [q \in Request |-> GraphCacheKey(q)],
         AnalysisOf = [q \in Request |-> AnalysisMeant(q)]
  PROVE  \A q1, q2 \in Request : KeyOf[q1] = KeyOf[q2] => AnalysisOf[q1] = AnalysisOf[q2]
<1> SUFFICES ASSUME NEW q1 \in Request, NEW q2 \in Request, KeyOf[q1] = KeyOf[q2]
             PROVE  AnalysisOf[q1] = AnalysisOf[q2]
  OBVIOUS
<1>1. q1 \in Requests /\ q2 \in Requests
  OBVIOUS
<1>2. GraphCacheKey(q1) = GraphCacheKey(q2)
  OBVIOUS
<1>3. AnalysisMeant(q1) = AnalysisMeant(q2)
  BY <1>1, <1>2, KeyIsOneAnalysis
<1>4. QED
  BY <1>3

=============================================================================
