----------------------------- MODULE CycleReports ------------------------------
(***************************************************************************)
(* ProjectCircuits as it is called: tarjanSCC searches the projection, the *)
(* components of two labels or more are handed to Johnson's search, and    *)
(* the report is what that search makes of them.  ProjectCycles stops      *)
(* after the first half.                                                   *)
(***************************************************************************)
EXTENDS JohnsonCircuits

VARIABLE handed   \* the cyclic components have been handed over

vars == <<tarjan_vars, handed, johnson_vars>>

Init ==
  /\ TarjanInit
  /\ handed = FALSE
  /\ JohnsonInit

SearchComponents == ~Done /\ TarjanNext /\ UNCHANGED <<handed, johnson_vars>>

HandOver ==
  /\ Done /\ ~handed
  /\ handed' = TRUE
  /\ todo' = CyclicComponents
  /\ UNCHANGED <<tarjan_vars, limit, search, remaining, complete, circuits, verdict>>

SearchCircuits == handed /\ JohnsonNext /\ UNCHANGED <<tarjan_vars, handed>>

Next == SearchComponents \/ HandOver \/ SearchCircuits

\* The call is made and runs on: nothing in it waits.
Spec == Init /\ [][Next]_vars /\ WF_vars(Next)

-----------------------------------------------------------------------------
\* Both recursions return and all loops run out.
Terminates == <>(verdict # "searching")
=============================================================================
