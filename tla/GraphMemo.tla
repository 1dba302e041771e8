------------------------------ MODULE GraphMemo ------------------------------
(***************************************************************************)
(* What the graph cache promises, with no buffers, locks or extraction     *)
(* steps in it: a table of graphs by cache key, and checks that ask a      *)
(* question and are handed a graph or an error.                            *)
(*                                                                         *)
(*   - an answer learnt by extracting was read entirely after the question *)
(*     was asked, and describes the analysis that was asked about;         *)
(*   - an answer recalled is what the table holds under the key of the     *)
(*     question at that moment;                                            *)
(*   - nothing but an extraction writes an entry, nothing but forgetting   *)
(*     removes one, and forgetting removes all of them;                    *)
(*   - what a check does to the graph it was handed changes nothing else.  *)
(*                                                                         *)
(* The promise says nothing about how old a recalled graph is: the source  *)
(* is not watched (common/extraction/graph_cache.go).                      *)
(***************************************************************************)
EXTENDS Integers

CONSTANTS
  Proc,       \* checks (goroutines) that may run at the same time
  Request,    \* what a check may ask for: a locator and its options
  Analysis,   \* the analyses of source those requests mean
  Key,        \* cache keys
  KeyOf,      \* the key graphCacheKey builds for a request
  AnalysisOf, \* the analysis a request means
  MaxEdits    \* bound on the number of edits of the source

VARIABLES
  disk,       \* version of the source on disk
  memo,       \* memo[k]: the graph kept under k, or NoGraph
  phase,      \* phase[p]: where the check p is
  asked,      \* asked[p]: the request of p and the version it was asked at
  answer      \* answer[p]: what p was handed

mvars == <<disk, memo, phase, asked, answer>>

(***************************************************************************)
(* A graph is told apart by the analysis it is of and by the versions of   *)
(* the source its first and its last read saw.  An extraction reads the    *)
(* source several times, so the two may differ.                            *)
(***************************************************************************)
Version == 0 .. MaxEdits
Graph == [of : Analysis, first : Version, last : Version]

NoGraph == [none |-> TRUE]
NoQuestion == [none |-> TRUE]
Scribbled(p) == [scribbledBy |-> p]   \* p wrote through the graph it owns

MemoInit ==
  /\ disk = 0
  /\ memo = [k \in Key |-> NoGraph]
  /\ phase = [p \in Proc |-> "idle"]
  /\ asked = [p \in Proc |-> NoQuestion]
  /\ answer = [p \in Proc |-> NoGraph]

Edit ==
  /\ disk < MaxEdits
  /\ disk' = disk + 1
  /\ UNCHANGED <<memo, phase, asked, answer>>

Ask(p, q) ==
  /\ phase[p] = "idle"
  /\ phase' = [phase EXCEPT ![p] = "asked"]
  /\ asked' = [asked EXCEPT ![p] = [request |-> q, at |-> disk]]
  /\ UNCHANGED <<disk, memo, answer>>

Forget ==
  /\ memo' = [k \in Key |-> NoGraph]
  /\ UNCHANGED <<disk, phase, asked, answer>>

Recall(p) ==
  /\ phase[p] = "asked"
  /\ memo[KeyOf[asked[p].request]] # NoGraph
  /\ phase' = [phase EXCEPT ![p] = "done"]
  /\ answer' = [answer EXCEPT ![p] = memo[KeyOf[asked[p].request]]]
  /\ UNCHANGED <<disk, memo, asked>>

Learn(p, g) ==
  /\ phase[p] = "asked"
  /\ g.of = AnalysisOf[asked[p].request]
  /\ asked[p].at <= g.first
  /\ g.first <= g.last
  /\ g.last <= disk
  /\ memo' = [memo EXCEPT ![KeyOf[asked[p].request]] = g]
  /\ phase' = [phase EXCEPT ![p] = "done"]
  /\ answer' = [answer EXCEPT ![p] = g]
  /\ UNCHANGED <<disk, asked>>

Refuse(p) ==
  /\ phase[p] = "asked"
  /\ phase' = [phase EXCEPT ![p] = "failed"]
  /\ UNCHANGED <<disk, memo, asked, answer>>

Scribble(p) ==
  /\ phase[p] = "done"
  /\ answer' = [answer EXCEPT ![p] = Scribbled(p)]
  /\ UNCHANGED <<disk, memo, phase, asked>>

Leave(p) ==
  /\ phase[p] \in {"done", "failed"}
  /\ phase' = [phase EXCEPT ![p] = "idle"]
  /\ asked' = [asked EXCEPT ![p] = NoQuestion]
  /\ answer' = [answer EXCEPT ![p] = NoGraph]
  /\ UNCHANGED <<disk, memo>>

MemoNext ==
  \/ Edit
  \/ Forget
  \/ \E p \in Proc :
       \/ \E q \in Request : Ask(p, q)
       \/ Recall(p)
       \/ \E g \in Graph : Learn(p, g)
       \/ Refuse(p)
       \/ Scribble(p)
       \/ Leave(p)

MemoSpec == MemoInit /\ [][MemoNext]_mvars

=============================================================================
