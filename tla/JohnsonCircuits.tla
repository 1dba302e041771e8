--------------------------- MODULE JohnsonCircuits ----------------------------
(***************************************************************************)
(* ProjectCircuits of common/projection/cycles/project_circuits.go and the *)
(* search it runs inside each cyclic component, johnsonCircuits of         *)
(* johnson_circuits.go, one step of its recursion at a time.               *)
(*                                                                         *)
(* Module CycleReports runs tarjanSCC first and hands it the cyclic        *)
(* components, as ProjectCircuits does.  Inside a component, those of      *)
(* strongComponentOf are taken from their definition.  The Go call stack   *)
(* is the sequence frames; the stack of the search is always the labels of *)
(* its frames, and is not kept twice.                                      *)
(***************************************************************************)
EXTENDS TarjanSCC

CONSTANTS
  Limits,             \* what CircuitOptions.MaxCircuits may hold
  DefaultMaxCircuits  \* what zero means

ASSUME LimitsAssumption == Limits \subseteq Int /\ DefaultMaxCircuits \in Int

VARIABLES
  limit,      \* MaxCircuits as the caller wrote it
  todo,       \* cyclic components not searched yet
  component,  \* the component being searched, {} between two searches
  starts,     \* its labels no circuit has been started at yet
  start,      \* the label whose circuits are being searched
  scope,      \* the edges begin induced for that start
  blocked,    \* the labels the search will not enter
  blockedOn,  \* blockedOn[l]: the labels that gave up because l was blocked
  frames,     \* the calls of circuit that have not returned, outermost first
  found,      \* the circuits of this component
  truncated,  \* the limit stopped this search
  remaining,  \* what is left of the limit
  complete,
  circuits,   \* the report
  verdict     \* "searching" until ProjectCircuits returns

search == <<component, starts, start, scope, blocked, blockedOn, frames, found, truncated>>
johnson_vars == <<limit, todo, search, remaining, complete, circuits, verdict>>

Here == frames[Len(frames)]
Onward == Min(Here.left)   \* successors are walked in ascending order
Path == [i \in DOMAIN frames |-> frames[i].label]

\* CircuitOptions.WithDefaults.
MaxCircuits == IF limit = 0 THEN DefaultMaxCircuits ELSE limit
Unlimited == MaxCircuits < 0

JohnsonInit ==
  /\ limit \in Limits
  /\ todo = {}
  /\ component = {} /\ starts = {} /\ start = 0 /\ scope = {}
  /\ blocked = {} /\ blockedOn = << >>
  /\ frames = << >> /\ found = << >> /\ truncated = FALSE
  /\ remaining = MaxCircuits
  /\ complete = TRUE
  /\ circuits = << >>
  /\ verdict = "searching"

-----------------------------------------------------------------------------
\* The loop over the cyclic components, by their first labels.
NextComponent ==
  /\ component = {} /\ todo # {}
  /\ component' = CHOOSE c \in todo : \A d \in todo : Min(c) <= Min(d)
  /\ todo' = todo \ {component'}
  /\ starts' = component'
  /\ found' = << >>
  /\ truncated' = FALSE
  /\ UNCHANGED <<limit, start, scope, blocked, blockedOn, frames,
                 remaining, complete, circuits, verdict>>

\* The head of circuit: a label joins the path and is blocked.
Join(label, calls, within) ==
  /\ frames' = Append(calls, [label |-> label, left |-> Targets(within, label), closed |-> FALSE])
  /\ blocked' = IF calls = << >> THEN {label} ELSE blocked \cup {label}

\* Mutant of StartAt: each start is searched in the whole component.
StartAnywhere ==
  /\ component # {} /\ frames = << >> /\ ~truncated /\ starts # {}
  /\ start' = Min(starts)
  /\ starts' = starts \ {Min(starts)}
  /\ scope' = Induced(edges, component)
  /\ Join(start', << >>, scope')
  /\ blockedOn' = [l \in Labels(scope') |-> {}]
  /\ UNCHANGED <<limit, todo, component, found, truncated,
                 remaining, complete, circuits, verdict>>

\* The loop of johnsonCircuits: from each label in turn, the circuits among
\* it and the labels after it.  begin forgets the blocking of the last start.
StartAt ==
  /\ component # {} /\ frames = << >> /\ ~truncated /\ starts # {}
  /\ start' = Min(starts)
  /\ starts' = starts \ {Min(starts)}
  /\ scope' = Induced(edges, StrongComponentOf(edges, starts, Min(starts)))
  /\ IF Cardinality(StrongComponentOf(edges, starts, Min(starts))) < 2
     THEN UNCHANGED <<blocked, blockedOn, frames>>
     ELSE /\ Join(start', << >>, scope')
          /\ blockedOn' = [l \in Labels(scope') |-> {}]
  /\ UNCHANGED <<limit, todo, component, found, truncated,
                 remaining, complete, circuits, verdict>>

Walking == frames # << >> /\ Here.left # {} /\ ~truncated
Exhausted == frames # << >> /\ (Here.left = {} \/ truncated)
Advanced(closed) ==
  [frames EXCEPT ![Len(frames)].left = @ \ {Onward}, ![Len(frames)].closed = closed]

\* Mutant of Emit: the limit is noticed one circuit too late.
EmitOneMore ==
  /\ Walking
  /\ Onward = start
  /\ IF remaining >= 0 /\ Len(found) > remaining
     THEN truncated' = TRUE /\ UNCHANGED found
     ELSE found' = Append(found, Path) /\ UNCHANGED truncated
  /\ frames' = Advanced(TRUE)
  /\ UNCHANGED <<limit, todo, component, starts, start, scope, blocked, blockedOn,
                 remaining, complete, circuits, verdict>>

\* emit: the path is a circuit, unless the limit says that it is one too many.
Emit ==
  /\ Walking
  /\ Onward = start
  /\ IF remaining >= 0 /\ Len(found) >= remaining
     THEN truncated' = TRUE /\ UNCHANGED found
     ELSE found' = Append(found, Path) /\ UNCHANGED truncated
  /\ frames' = Advanced(TRUE)
  /\ UNCHANGED <<limit, todo, component, starts, start, scope, blocked, blockedOn,
                 remaining, complete, circuits, verdict>>

Deepen ==
  /\ Walking
  /\ Onward # start /\ Onward \notin blocked
  /\ Join(Onward, Advanced(Here.closed), scope)
  /\ UNCHANGED <<limit, todo, component, starts, start, scope, blockedOn, found, truncated,
                 remaining, complete, circuits, verdict>>

\* Mutant of SkipBlocked: the loop does not move on.
SkipNothing ==
  /\ Walking
  /\ Onward # start /\ Onward \in blocked
  /\ UNCHANGED johnson_vars

SkipBlocked ==
  /\ Walking
  /\ Onward # start /\ Onward \in blocked
  /\ frames' = Advanced(Here.closed)
  /\ UNCHANGED <<limit, todo, component, starts, start, scope, blocked, blockedOn,
                 found, truncated, remaining, complete, circuits, verdict>>

\* circuit returns, and a caller whose successor closed a circuit closed one.
Resume(closed) ==
  LET callers == Front(frames)
  IN  frames' = IF callers = << >> THEN callers
                ELSE [callers EXCEPT ![Len(callers)].closed = @ \/ closed]

\* Mutant of Released: what blocked on the label is not released with it.
ReleasedAlone(label) == {label}

\* unblock: the label, and transitively every blocked label that blocked on it.
Waiting == {w \in (DOMAIN blockedOn) \X blocked : w[2] \in blockedOn[w[1]]}
Released(label) == ReachedFrom(Waiting, label)

LeaveClosed ==
  /\ Exhausted /\ Here.closed
  /\ blocked' = blocked \ Released(Here.label)
  /\ blockedOn' = [l \in DOMAIN blockedOn |-> IF l \in Released(Here.label) THEN {} ELSE blockedOn[l]]
  /\ Resume(TRUE)
  /\ UNCHANGED <<limit, todo, component, starts, start, scope, found, truncated,
                 remaining, complete, circuits, verdict>>

\* A dead end stays blocked, and is recorded against every label it led to.
LeaveBlocked ==
  /\ Exhausted /\ ~Here.closed
  /\ blockedOn' = [l \in DOMAIN blockedOn |->
                     IF l \in Targets(scope, Here.label) THEN blockedOn[l] \cup {Here.label}
                     ELSE blockedOn[l]]
  /\ Resume(FALSE)
  /\ UNCHANGED <<limit, todo, component, starts, start, scope, blocked, found, truncated,
                 remaining, complete, circuits, verdict>>

\* What the component's circuits leave of the limit is the next one's to spend.
EndComponent ==
  /\ component # {} /\ frames = << >> /\ (starts = {} \/ truncated)
  /\ circuits' = circuits \o found
  /\ remaining' = IF Unlimited THEN remaining ELSE remaining - Len(found)
  /\ complete' = ~truncated
  /\ todo' = IF truncated THEN {} ELSE todo
  /\ component' = {} /\ starts' = {}
  /\ found' = << >>
  /\ UNCHANGED <<limit, start, scope, blocked, blockedOn, frames, truncated, verdict>>

\* compareCircuits: the shortest first, then by labels.
Before(c, d) ==
  \/ Len(c) < Len(d)
  \/ /\ Len(c) = Len(d)
     /\ \E i \in 1 .. Len(c) : c[i] < d[i] /\ \A j \in 1 .. i - 1 : c[j] = d[j]

\* The order is total, so every circuit has its place in the sorted report.
Place(s, i) == Cardinality({j \in DOMAIN s : Before(s[j], s[i]) \/ (s[j] = s[i] /\ j <= i)})
Sorted(s) == [k \in DOMAIN s |-> s[CHOOSE i \in DOMAIN s : Place(s, i) = k]]

Finish ==
  /\ verdict = "searching" /\ component = {} /\ todo = {}
  /\ circuits' = Sorted(circuits)
  /\ verdict' = IF complete THEN "complete" ELSE "cut off"
  /\ UNCHANGED <<limit, todo, search, remaining, complete>>

JohnsonNext ==
  \/ NextComponent \/ StartAt \/ Emit \/ Deepen \/ SkipBlocked
  \/ LeaveClosed \/ LeaveBlocked \/ EndComponent \/ Finish

-----------------------------------------------------------------------------
\* What the search will not enter, it need not enter.  No label of the path can
\* be entered a second time, so what emit records is elementary; releasing a
\* label when the search leaves it never unblocks one the path still stands on,
\* however long ago that was recorded; and a blocked label off the path really
\* is a dead end, which cannot get back to the start except through the path.
DeadEndsAreDead ==
  LET around == {e \in scope : e[1] \notin Range(Path) /\ e[2] \notin Range(Path) \ {start}}
  IN  /\ IsInjective(Path) /\ Range(Path) \subseteq blocked
      /\ \A i, j \in DOMAIN frames : i < j => Path[i] \notin Released(Path[j])
      /\ frames # << >> =>
           \A l \in blocked \ Range(Path) : start \notin ReachedFrom(around, l)

-----------------------------------------------------------------------------
\* The report is CircuitList's: every elementary circuit once, or as many as
\* the limit allows and word that there are more.
List == INSTANCE CircuitList WITH listed <- Range(circuits) \cup Range(found)

ImplementsCircuitList == List!ListSpec

EdgesAlong(c) == {<<c[i], c[(i % Len(c)) + 1]>> : i \in DOMAIN c}

\* No circuit is recorded twice, whatever label it was found from: two entries
\* of the report never run along the same edges.
EachCircuitOnce ==
  LET report == circuits \o found
  IN  \A i, j \in DOMAIN report : EdgesAlong(report[i]) = EdgesAlong(report[j]) => i = j

=============================================================================
