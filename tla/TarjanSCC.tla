------------------------------ MODULE TarjanSCC -------------------------------
(***************************************************************************)
(* tarjanSCC of common/projection/cycles/tarjan_scc.go, one step of its    *)
(* recursion at a time, and what ProjectCycles makes of the components.    *)
(* The Go call stack is the sequence visits; a visit remembers its label   *)
(* and which of its successors it has yet to walk.                         *)
(***************************************************************************)
EXTENDS Digraphs, FiniteSetsExt

CONSTANT Projections   \* the projections a report may be asked of: sets of edges

\* A projection is of finitely many files, and its labels can be compared.
ASSUME ProjectionsAssumption ==
  \A p \in Projections : p \in SUBSET (Int \X Int) /\ IsFiniteSet(p)

VARIABLES
  edges,      \* the projection
  index,      \* index[l]: the number l was given; only visited labels have one
  lowLink,
  onStack,
  stack,
  visits,     \* the calls of visit that have not returned, outermost first
  next,
  components  \* closed components, in the order they were popped

tarjan_vars == <<edges, index, lowLink, onStack, stack, visits, next, components>>

Visited(label) == label \in DOMAIN index
Unvisited == {label \in Labels(edges) : ~Visited(label)}
Top == visits[Len(visits)]
Walked == Top.left = {}
Successor == Min(Top.left)   \* successors are walked in ascending order
Extended(f, label, value) == [l \in DOMAIN f \cup {label} |-> IF l = label THEN value ELSE f[l]]
Less(a, b) == IF a < b THEN a ELSE b

TarjanInit ==
  /\ edges \in Projections
  /\ index = << >>
  /\ lowLink = << >>
  /\ onStack = {}
  /\ stack = << >>
  /\ visits = << >>
  /\ next = 0
  /\ components = << >>

-----------------------------------------------------------------------------
\* The head of visit: a label is numbered and put on the stack.
Enter(label, calls) ==
  /\ index' = Extended(index, label, next)
  /\ lowLink' = Extended(lowLink, label, next)
  /\ next' = next + 1
  /\ stack' = Append(stack, label)
  /\ onStack' = onStack \cup {label}
  /\ visits' = Append(calls, [label |-> label, left |-> Targets(edges, label)])
  /\ UNCHANGED <<edges, components>>

\* The loop of tarjanSCC: the labels in order, those not visited yet.
VisitNext ==
  /\ visits = << >>
  /\ Unvisited # {}
  /\ Enter(Min(Unvisited), << >>)

WithTopWalked == [visits EXCEPT ![Len(visits)].left = @ \ {Successor}]

Descend ==
  /\ visits # << >> /\ ~Walked
  /\ ~Visited(Successor)
  /\ Enter(Successor, WithTopWalked)

\* Mutant of LookBack: the lowest number a successor can reach is taken from
\* it even though it is still being visited or was closed long ago.
LookBackAnywhere ==
  /\ visits # << >> /\ ~Walked
  /\ Visited(Successor)
  /\ lowLink' = [lowLink EXCEPT ![Top.label] = Less(@, index[Successor])]
  /\ visits' = WithTopWalked
  /\ UNCHANGED <<edges, index, onStack, stack, next, components>>

LookBack ==
  /\ visits # << >> /\ ~Walked
  /\ Visited(Successor) /\ Successor \in onStack
  /\ lowLink' = [lowLink EXCEPT ![Top.label] = Less(@, index[Successor])]
  /\ visits' = WithTopWalked
  /\ UNCHANGED <<edges, index, onStack, stack, next, components>>

\* A successor of a component already closed says nothing about this one.
PassOver ==
  /\ visits # << >> /\ ~Walked
  /\ Visited(Successor) /\ Successor \notin onStack
  /\ visits' = WithTopWalked
  /\ UNCHANGED <<edges, index, lowLink, onStack, stack, next, components>>

\* visit returns, and the caller's loop takes over what it learnt.
Leave ==
  LET callers == Front(visits)
  IN  /\ visits' = callers
      /\ lowLink' = IF callers = << >> THEN lowLink
                    ELSE [lowLink EXCEPT ![Last(callers).label] = Less(@, lowLink[Top.label])]

Return ==
  /\ visits # << >> /\ Walked
  /\ lowLink[Top.label] # index[Top.label]
  /\ Leave
  /\ UNCHANGED <<edges, index, onStack, stack, next, components>>

\* popComponent: everything above the root comes off the stack, root included.
Close ==
  /\ visits # << >> /\ Walked
  /\ lowLink[Top.label] = index[Top.label]
  /\ LET root == SelectInSeq(stack, LAMBDA label : label = Top.label)
         popped == Range(SubSeq(stack, root, Len(stack)))
     IN  /\ stack' = SubSeq(stack, 1, root - 1)
         /\ onStack' = onStack \ popped
         /\ components' = Append(components, popped)
  /\ Leave
  /\ UNCHANGED <<edges, index, next>>

TarjanNext == VisitNext \/ Descend \/ LookBack \/ PassOver \/ Return \/ Close

Done == visits = << >> /\ Unvisited = {}

-----------------------------------------------------------------------------
\* cyclicComponents and edgesWithin: what ProjectCycles reports.
CyclicComponents == {c \in Range(components) : Cardinality(c) >= 2}
\* Mutant of EdgesWithin: an edge that leaves the component counts.
EdgesFrom(component) == {e \in edges : e[1] # e[2] /\ e[1] \in component}

EdgesWithin(component) ==
  {e \in edges : e[1] # e[2] /\ e[1] \in component /\ e[2] \in component}
ProjectCycles == {EdgesWithin(c) : c \in CyclicComponents}

-----------------------------------------------------------------------------
\* Every component popped, from the first on, is a strongly connected component
\* of the whole graph: none is popped early, none is merged.  "The components
\* come out in reverse topological order": an edge that leaves a closed
\* component leads to one that was closed before it.
ClosedIsStrong ==
  \A i \in DOMAIN components :
     /\ components[i] \in StrongComponents(edges)
     /\ \A e \in edges : e[1] \in components[i] => \E j \in 1 .. i : e[2] \in components[j]

\* ProjectCycles names exactly the edges that are part of some cycle, each in
\* one component ("every edge returned inside one is part of some cycle").
CyclesAreTheCyclicEdges ==
  Done => /\ UNION ProjectCycles = CyclicEdges(edges)
          /\ \A c, d \in ProjectCycles : c # d => c \cap d = {}

=============================================================================
