----------------------------- MODULE CircuitList ------------------------------
(***************************************************************************)
(* What ProjectCircuits of common/projection/cycles/project_circuits.go    *)
(* promises, without saying how the circuits are found: they are reported  *)
(* one at a time, each once, until either none is left and the report is   *)
(* complete, or the limit is reached with at least one left over.          *)
(***************************************************************************)
EXTENDS Digraphs

CONSTANTS
  Projections,        \* the projections a report may be asked of
  Limits,             \* what CircuitOptions.MaxCircuits may hold
  DefaultMaxCircuits  \* what zero means

VARIABLES
  edges,     \* the projection
  limit,     \* MaxCircuits as the caller wrote it
  listed,    \* the circuits reported so far
  verdict    \* "searching", "complete" or "cut off"

lvars == <<edges, limit, listed, verdict>>

\* Zero is the default, and a negative limit is no limit at all.
Allowance == IF limit = 0 THEN DefaultMaxCircuits ELSE limit
Unlimited == Allowance < 0

ListInit ==
  /\ edges \in Projections
  /\ limit \in Limits
  /\ listed = {}
  /\ verdict = "searching"

List(c) ==
  /\ verdict = "searching"
  /\ Unlimited \/ Cardinality(listed) < Allowance
  /\ IsElementaryCircuit(edges, c)
  /\ c \notin listed
  /\ listed' = listed \cup {c}
  /\ UNCHANGED <<edges, limit, verdict>>

FinishWhole ==
  /\ verdict = "searching"
  /\ listed = ElementaryCircuits(edges)
  /\ verdict' = "complete"
  /\ UNCHANGED <<edges, limit, listed>>

CutOff ==
  /\ verdict = "searching"
  /\ ~Unlimited /\ Cardinality(listed) = Allowance
  /\ listed # ElementaryCircuits(edges)
  /\ verdict' = "cut off"
  /\ UNCHANGED <<edges, limit, listed>>

ListNext ==
  \/ \E c \in ElementaryCircuits(edges) : List(c)
  \/ FinishWhole
  \/ CutOff

ListSpec == ListInit /\ [][ListNext]_lvars

=============================================================================
