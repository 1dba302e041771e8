-------------------------- MODULE CycleReportsProofs ---------------------------
(***************************************************************************)
(* Proofs about ProjectCircuits, for any finite projections, limits and    *)
(* default: Tarjan's components are the strong ones, ProjectCycles reports *)
(* the edges that are on a cycle, Johnson's blocking only ever keeps the   *)
(* search from dead ends, and the report is every elementary circuit once, *)
(* or as many as the limit allows and word that there are more.            *)
(*                                                                         *)
(* The first half is about tarjanSCC: the invariant that makes one pass    *)
(* over the graph enough.  Numbers are given in the order of the visits, a *)
(* low link names a label on the stack that really is reached, everything  *)
(* put on the stack above a label is reached from it, and every successor  *)
(* walked has been heard of.  So what popComponent takes off above a label *)
(* that never reached lower is a whole component.                          *)
(*                                                                         *)
(* The second half follows Johnson's search.  PathHolds to ReleasesAreSafe *)
(* say what the blocking knows; NothingMissed and NothingTwice say that    *)
(* every circuit is either listed or still ahead, never both: a circuit is *)
(* ahead until the search walks it or ends the start it belongs to, and by *)
(* then what was blocked was a dead end, so it has not been passed by.     *)
(***************************************************************************)
EXTENDS CycleReports, DigraphProofs

-----------------------------------------------------------------------------
\* The components (tarjanSCC).

NumberOf(i) == index[visits[i].label]
Reach(label) == ReachedFrom(edges, label)

\* What every variable holds.
Typed ==
  /\ edges \in Projections
  /\ index \in [DOMAIN index -> Nat] /\ DOMAIN index \subseteq Labels(edges)
  /\ lowLink \in [DOMAIN index -> Nat]
  /\ next \in Nat
  /\ stack \in Seq(Labels(edges))
  /\ visits \in Seq([label : Labels(edges), left : SUBSET Labels(edges)])
  /\ components \in Seq(SUBSET Labels(edges))

\* Labels are numbered in the order they are visited, and none reaches back
\* further than it has been.
Numbered ==
  /\ \A l \in DOMAIN index : index[l] < next /\ lowLink[l] <= index[l]
  /\ \A l, m \in DOMAIN index : index[l] = index[m] => l = m

\* The stack is in the order of the numbers, and so is the path of visits on it;
\* there is nothing below the first visit.
Stacked ==
  /\ onStack = Range(stack) /\ onStack \subseteq DOMAIN index
  /\ \A i, j \in DOMAIN stack : i < j => index[stack[i]] < index[stack[j]]
  /\ \A i \in DOMAIN visits : visits[i].label \in onStack
  /\ \A i, j \in DOMAIN visits : i < j => NumberOf(i) < NumberOf(j)
  /\ visits = << >> => stack = << >>
  /\ visits # << >> => \A l \in onStack : NumberOf(1) <= index[l]

\* Every label visited is on the stack or closed, never both.
Accounted ==
  \A l \in Labels(edges) :
     /\ l \in DOMAIN index <=> l \in onStack \/ \E k \in DOMAIN components : l \in components[k]
     /\ ~(l \in onStack /\ \E k \in DOMAIN components : l \in components[k])

\* A visit reaches everything that was put on the stack after it.
VisitsReach ==
  \A i \in DOMAIN visits, l \in onStack : NumberOf(i) <= index[l] => l \in Reach(visits[i].label)

\* lowLink[l] numbers a label on the stack that l reaches; one lower than l's
\* own, unless l is still being visited.
LowLinksReach ==
  \A l \in onStack :
     /\ \E m \in onStack : index[m] = lowLink[l] /\ m \in Reach(l)
     /\ (\A i \in DOMAIN visits : visits[i].label # l) => lowLink[l] < index[l]

\* The visit under which a label was put on the stack knows what the label knows.
LowLinksAreHeard ==
  \A i \in DOMAIN visits, l \in onStack :
     /\ NumberOf(i) <= index[l]
     /\ \A j \in DOMAIN visits : i < j => index[l] < NumberOf(j)
     => lowLink[visits[i].label] <= lowLink[l]

\* The successors a visit has yet to walk are successors, and the others have
\* been visited and, if still on the stack, been heard of.
SuccessorsAreHeard ==
  /\ \A i \in DOMAIN visits : visits[i].left \subseteq Targets(edges, visits[i].label)
  /\ \A l \in onStack : \A m \in Targets(edges, l) :
        \/ \E i \in DOMAIN visits : visits[i].label = l /\ m \in visits[i].left
        \/ m \in DOMAIN index /\ (m \in onStack => lowLink[l] <= index[m])

\* What was popped is a component, and its edges lead into those popped so far.
ComponentsAreClosed ==
  \A k \in DOMAIN components :
     /\ components[k] \in StrongComponents(edges)
     /\ \A l \in components[k] : \A m \in Targets(edges, l) : \E j \in 1 .. k : m \in components[j]

TarjanInv ==
  /\ Typed /\ Numbered /\ Stacked /\ Accounted
  /\ VisitsReach /\ LowLinksReach /\ LowLinksAreHeard
  /\ SuccessorsAreHeard /\ ComponentsAreClosed

-----------------------------------------------------------------------------
\* A projection is a graph of finitely many comparable labels.
LEMMA ProjectionIsGraph ==
  ASSUME edges \in Projections
  PROVE  /\ IsGraph(edges)
         /\ Labels(edges) \in SUBSET Int /\ IsFiniteSet(Labels(edges))
<1>1. IsGraph(edges)
  BY ProjectionsAssumption DEF IsGraph
<1> QED
  BY <1>1, GraphWorks

\* Appending to a sequence.
LEMMA AppendWorks ==
  ASSUME NEW S, NEW s \in Seq(S), NEW e \in S
  PROVE  /\ Append(s, e) \in Seq(S)
         /\ Len(s) \in Nat /\ DOMAIN s = 1 .. Len(s)
         /\ DOMAIN Append(s, e) = 1 .. Len(s) + 1
         /\ Append(s, e)[Len(s) + 1] = e
         /\ \A i \in 1 .. Len(s) : Append(s, e)[i] = s[i]
OBVIOUS

\* The first n entries of a sequence.
LEMMA SubSeqWorks ==
  ASSUME NEW S, NEW s \in Seq(S), NEW n \in 0 .. Len(s)
  PROVE  /\ SubSeq(s, 1, n) \in Seq(S)
         /\ DOMAIN s = 1 .. Len(s) /\ Len(s) \in Nat
         /\ DOMAIN SubSeq(s, 1, n) = 1 .. n
         /\ Len(SubSeq(s, 1, n)) = n
         /\ \A i \in 1 .. n : SubSeq(s, 1, n)[i] = s[i]
OBVIOUS

\* The innermost visit, and the successor its loop has come to.
Depth == Len(visits)

\* The innermost visit is one of the labels on the stack.
LEMMA TopWorks ==
  ASSUME TarjanInv, visits # << >>
  PROVE  /\ Depth \in Nat \ {0} /\ DOMAIN visits = 1 .. Depth
         /\ Top = visits[Depth]
         /\ visits[Depth].label \in onStack
         /\ visits[Depth].label \in Labels(edges)
         /\ \A i \in 1 .. Depth : NumberOf(i) <= NumberOf(Depth)
<1>1. Depth \in Nat \ {0} /\ DOMAIN visits = 1 .. Depth
  BY DEF TarjanInv, Typed, Depth
<1>2. Top = visits[Depth]
  BY DEF Top, Depth
<1>3. \A i \in 1 .. Depth : visits[i].label \in onStack /\ NumberOf(i) \in Nat
  BY <1>1 DEF TarjanInv, Stacked, Typed, NumberOf
<1>4. ASSUME NEW i \in 1 .. Depth PROVE NumberOf(i) <= NumberOf(Depth)
  <2>1. i < Depth => NumberOf(i) < NumberOf(Depth)
    BY <1>1 DEF TarjanInv, Stacked
  <2> QED
    BY <1>1, <1>3, <2>1
<1> QED
  BY <1>1, <1>2, <1>3, <1>4 DEF TarjanInv, Stacked, Typed

\* Its next successor is a label of the projection that the visit reaches.
LEMMA SuccessorWorks ==
  ASSUME TarjanInv, visits # << >>, ~Walked
  PROVE  /\ Successor \in visits[Depth].left
         /\ visits[Depth].left \subseteq Targets(edges, visits[Depth].label)
         /\ Successor \in Labels(edges)
         /\ Successor \in Targets(edges, visits[Depth].label)
         /\ <<visits[Depth].label, Successor>> \in edges
         /\ Successor \in Reach(visits[Depth].label)
         /\ WithTopWalked = [visits EXCEPT ![Depth].left = @ \ {Successor}]
<1> DEFINE left == visits[Depth].left
<1>1. Depth \in 1 .. Depth /\ DOMAIN visits = 1 .. Depth /\ Top = visits[Depth]
  BY TopWorks
<1>2. IsGraph(edges) /\ Labels(edges) \in SUBSET Int /\ IsFiniteSet(Labels(edges))
  BY ProjectionIsGraph DEF TarjanInv, Typed
<1>3. left \subseteq Targets(edges, visits[Depth].label) /\ left # {}
  BY <1>1 DEF TarjanInv, SuccessorsAreHeard, Walked
<1>4. left \subseteq Labels(edges)
  BY <1>2, <1>3, GraphWorks
<1>5. Min(left) \in left
  BY <1>2, <1>3, <1>4, FS_Subset, MinWorks
<1>6. Successor = Min(left)
  BY <1>1 DEF Successor
<1>7. <<visits[Depth].label, Successor>> \in edges
  BY <1>2, <1>3, <1>5, <1>6, GraphWorks
<1>8. WithTopWalked = [visits EXCEPT ![Depth].left = @ \ {Successor}]
  BY DEF WithTopWalked, Depth
<1> QED
  BY <1>2, <1>3, <1>4, <1>5, <1>6, <1>7, <1>8, EdgeIsReach DEF Reach

\* A visit that walked one more successor is the same visit.
LEMMA WalkedWorks ==
  ASSUME TarjanInv, visits # << >>, ~Walked
  PROVE  /\ WithTopWalked \in Seq([label : Labels(edges), left : SUBSET Labels(edges)])
         /\ DOMAIN WithTopWalked = 1 .. Depth /\ Len(WithTopWalked) = Depth
         /\ \A i \in 1 .. Depth : WithTopWalked[i].label = visits[i].label
         /\ \A i \in 1 .. Depth : i # Depth => WithTopWalked[i].left = visits[i].left
         /\ WithTopWalked[Depth].left = visits[Depth].left \ {Successor}
<1> DEFINE Visit == [label : Labels(edges), left : SUBSET Labels(edges)]
           top == [visits[Depth] EXCEPT !.left = @ \ {Successor}]
<1>1. WithTopWalked = [visits EXCEPT ![Depth] = top]
  BY SuccessorWorks
<1>2. Depth \in 1 .. Depth /\ DOMAIN visits = 1 .. Depth /\ Depth \in Nat
  BY TopWorks
<1>3. visits \in Seq(Visit) /\ visits[Depth] \in Visit
  <2>1. visits \in Seq(Visit)
    BY DEF TarjanInv, Typed
  <2> HIDE DEF Visit
  <2> QED
    BY <1>2, <2>1
<1>4. top \in Visit /\ top.label = visits[Depth].label /\ top.left = visits[Depth].left \ {Successor}
  BY <1>3
<1> HIDE DEF Visit, top
<1>5. WithTopWalked \in Seq(Visit) /\ DOMAIN WithTopWalked = 1 .. Depth /\ Len(WithTopWalked) = Depth
  BY <1>1, <1>2, <1>3, <1>4 DEF Depth
<1>6. /\ WithTopWalked[Depth] = top
      /\ \A i \in 1 .. Depth : i # Depth => WithTopWalked[i] = visits[i]
  BY <1>1, <1>2
<1> QED
  BY <1>4, <1>5, <1>6 DEF Visit

-----------------------------------------------------------------------------
\* tarjanSCC starts with nothing visited.
LEMMA InitTarjanInv == TarjanInit => TarjanInv
<1> SUFFICES ASSUME TarjanInit PROVE TarjanInv
  OBVIOUS
<1>1. /\ edges \in Projections /\ index = << >> /\ lowLink = << >> /\ onStack = {}
      /\ stack = << >> /\ visits = << >> /\ next = 0 /\ components = << >>
  BY DEF TarjanInit
<1>2. DOMAIN index = {} /\ DOMAIN stack = {} /\ DOMAIN visits = {} /\ DOMAIN components = {}
  BY <1>1
<1>3. Typed
  BY <1>1, <1>2 DEF Typed
<1>4. Numbered /\ Accounted /\ VisitsReach /\ LowLinksReach /\ LowLinksAreHeard
  BY <1>1, <1>2 DEF Numbered, Accounted, VisitsReach, LowLinksReach, LowLinksAreHeard
<1>5. Stacked
  BY <1>1, <1>2 DEF Stacked, Range
<1>6. SuccessorsAreHeard /\ ComponentsAreClosed
  BY <1>1, <1>2 DEF SuccessorsAreHeard, ComponentsAreClosed
<1> QED
  BY <1>3, <1>4, <1>5, <1>6 DEF TarjanInv

-----------------------------------------------------------------------------
\* A successor walked without a new visit: the visit's lowLink may have dropped to
\* a number l that is heard of, at least as low as that of a successor on the
\* stack.
LEMMA LookBackKeeps ==
  ASSUME TarjanInv, LookBack \/ PassOver
  PROVE  TarjanInv'
<1> DEFINE top == visits[Depth].label
<1>1. visits # << >> /\ ~Walked /\ Successor \in DOMAIN index
  BY DEF LookBack, PassOver, Visited
<1>2. /\ UNCHANGED <<edges, index, onStack, stack, next, components>>
      /\ visits' = WithTopWalked
  BY DEF LookBack, PassOver
<1>3. /\ DOMAIN visits = 1 .. Depth /\ Depth \in Nat \ {0} /\ Depth \in 1 .. Depth
      /\ top \in onStack /\ top \in DOMAIN index
      /\ \A i \in 1 .. Depth : NumberOf(i) <= NumberOf(Depth)
  BY <1>1, TopWorks DEF TarjanInv, Stacked
<1>4. /\ visits' \in Seq([label : Labels(edges), left : SUBSET Labels(edges)])
      /\ DOMAIN visits' = 1 .. Depth
      /\ visits' # << >>
      /\ \A i \in 1 .. Depth : visits'[i].label = visits[i].label
      /\ \A i \in 1 .. Depth : visits'[i].left \subseteq visits[i].left
      /\ \A i \in 1 .. Depth : i # Depth => visits'[i].left = visits[i].left
      /\ visits'[Depth].left = visits[Depth].left \ {Successor}
  BY <1>1, <1>2, <1>3, WalkedWorks
<1>5. /\ \A i \in 1 .. Depth : NumberOf(i)' = NumberOf(i)
      /\ \A i \in 1 .. Depth : NumberOf(i) \in Nat
      /\ \A l : Reach(l)' = Reach(l)
  BY <1>2, <1>3, <1>4 DEF NumberOf, Reach, TarjanInv, Typed, Stacked
<1>6. index \in [DOMAIN index -> Nat] /\ lowLink \in [DOMAIN index -> Nat] /\ onStack \subseteq DOMAIN index
  BY DEF TarjanInv, Typed, Stacked
\* What happens to the lowLinks.
<1>7. /\ lowLink' \in [DOMAIN index -> Nat]
      /\ \A l \in DOMAIN index : l # top => lowLink'[l] = lowLink[l]
      /\ lowLink'[top] <= lowLink[top]
      /\ \/ lowLink'[top] = lowLink[top]
         \/ lowLink'[top] = index[Successor] /\ Successor \in onStack
      /\ Successor \in onStack => lowLink'[top] <= index[Successor]
  <2>1. CASE LookBack
    <3>1. lowLink' = [lowLink EXCEPT ![top] = Less(@, index[Successor])] /\ Successor \in onStack
      BY <1>1, <2>1, TopWorks DEF LookBack
    <3>2. lowLink[top] \in Nat /\ index[Successor] \in Nat
      BY <1>1, <1>3, <1>6
    <3>3. /\ Less(lowLink[top], index[Successor]) \in Nat
          /\ Less(lowLink[top], index[Successor]) <= lowLink[top]
          /\ Less(lowLink[top], index[Successor]) <= index[Successor]
          /\ Less(lowLink[top], index[Successor]) \in {lowLink[top], index[Successor]}
      BY <3>2 DEF Less
    <3> QED
      BY <1>3, <1>6, <3>1, <3>3
  <2>2. CASE PassOver
    <3>1. lowLink' = lowLink /\ Successor \notin onStack
      BY <2>2 DEF PassOver
    <3> QED
      BY <1>3, <1>6, <3>1
  <2> QED
    BY <2>1, <2>2
<1>8. \A l \in DOMAIN index : lowLink'[l] \in Nat /\ lowLink'[l] <= lowLink[l] /\ lowLink[l] \in Nat
  BY <1>3, <1>6, <1>7
<1>9. Typed'
  BY <1>2, <1>4, <1>7 DEF TarjanInv, Typed
<1>10. Numbered'
  <2>1. \A l \in DOMAIN index : lowLink[l] <= index[l] /\ index[l] \in Nat
    BY <1>6 DEF TarjanInv, Numbered
  <2>2. \A l \in DOMAIN index : lowLink'[l] <= index[l]
    BY <1>8, <2>1
  <2> QED
    BY <1>2, <2>2 DEF TarjanInv, Numbered
<1>11. Stacked'
  <2>1. 1 \in 1 .. Depth
    BY <1>3
  <2> QED
    BY <1>1, <1>2, <1>3, <1>4, <1>5, <2>1 DEF TarjanInv, Stacked
<1>12. Accounted'
  BY <1>2 DEF TarjanInv, Accounted
<1>13. VisitsReach'
  BY <1>2, <1>3, <1>4, <1>5 DEF TarjanInv, VisitsReach
<1>14. LowLinksReach'
  <2> SUFFICES ASSUME NEW l \in onStack
               PROVE  /\ \E m \in onStack : index[m] = lowLink'[l] /\ m \in Reach(l)
                      /\ (\A i \in 1 .. Depth : visits[i].label # l) => lowLink'[l] < index[l]
    BY <1>2, <1>4, <1>5 DEF LowLinksReach
  <2>1. /\ \E m \in onStack : index[m] = lowLink[l] /\ m \in Reach(l)
        /\ (\A i \in 1 .. Depth : visits[i].label # l) => lowLink[l] < index[l]
    BY <1>3 DEF TarjanInv, LowLinksReach
  <2>2. Successor \in Reach(top)
    BY <1>1, SuccessorWorks
  <2>3. CASE lowLink'[l] = lowLink[l]
    BY <2>1, <2>3
  <2>4. CASE lowLink'[l] # lowLink[l]
    <3>1. l = top /\ lowLink'[l] = index[Successor] /\ Successor \in onStack
      BY <1>6, <1>7, <2>4
    <3> QED
      BY <1>3, <2>2, <3>1
  <2> QED
    BY <2>3, <2>4
<1>15. LowLinksAreHeard'
  <2> SUFFICES ASSUME NEW i \in 1 .. Depth, NEW l \in onStack,
                      NumberOf(i) <= index[l],
                      \A j \in 1 .. Depth : i < j => index[l] < NumberOf(j)
               PROVE  lowLink'[visits[i].label] <= lowLink'[l]
    BY <1>2, <1>4, <1>5 DEF LowLinksAreHeard
  <2>1. lowLink[visits[i].label] <= lowLink[l]
    BY <1>3 DEF TarjanInv, LowLinksAreHeard
  <2>2. visits[i].label \in DOMAIN index /\ l \in DOMAIN index
    BY <1>3, <1>6 DEF TarjanInv, Stacked
  <2>3. CASE l = top
    <3>1. i = Depth
      <4>1. NumberOf(Depth) = index[l] /\ NumberOf(Depth) \in Nat
        BY <1>3, <1>5, <2>3 DEF NumberOf
      <4>2. ~(i < Depth)
        BY <1>3, <4>1
      <4> QED
        BY <1>3, <4>2
    <3> QED
      BY <1>8, <2>2, <2>3, <3>1
  <2>4. CASE l # top
    BY <1>7, <1>8, <2>1, <2>2, <2>4
  <2> QED
    BY <2>3, <2>4
<1>16. SuccessorsAreHeard'
  <2>1. \A i \in 1 .. Depth : visits'[i].left \subseteq Targets(edges, visits[i].label)
    BY <1>3, <1>4 DEF TarjanInv, SuccessorsAreHeard
  <2>2. ASSUME NEW l \in onStack, NEW m \in Targets(edges, l)
        PROVE  \/ \E i \in 1 .. Depth : visits[i].label = l /\ m \in visits'[i].left
               \/ m \in DOMAIN index /\ (m \in onStack => lowLink'[l] <= index[m])
    <3>1. CASE m \in DOMAIN index /\ (m \in onStack => lowLink[l] <= index[m])
      <4>1. l \in DOMAIN index
        BY <1>6
      <4>2. lowLink'[l] \in Nat /\ lowLink[l] \in Nat /\ lowLink'[l] <= lowLink[l] /\ index[m] \in Nat
        BY <1>6, <1>8, <3>1, <4>1
      <4> QED
        BY <3>1, <4>2
    <3>2. CASE \E i \in 1 .. Depth : visits[i].label = l /\ m \in visits[i].left
      <4>1. PICK i \in 1 .. Depth : visits[i].label = l /\ m \in visits[i].left
        BY <3>2
      <4>2. CASE m \in visits'[i].left
        BY <4>1, <4>2
      <4>3. CASE m \notin visits'[i].left
        <5>1. i = Depth /\ m = Successor
          BY <1>4, <4>1, <4>3
        <5> QED
          BY <1>1, <1>7, <4>1, <5>1
      <4> QED
        BY <4>2, <4>3
    <3> QED
      BY <1>3, <3>1, <3>2 DEF TarjanInv, SuccessorsAreHeard
  <2> QED
    BY <1>2, <1>4, <2>1, <2>2 DEF SuccessorsAreHeard
<1>17. ComponentsAreClosed'
  BY <1>2 DEF TarjanInv, ComponentsAreClosed
<1> QED
  BY <1>9, <1>10, <1>11, <1>12, <1>13, <1>14, <1>15, <1>16, <1>17 DEF TarjanInv

-----------------------------------------------------------------------------
\* A label is numbered and put on the stack, under the visits that remain.
Visit == [label : Labels(edges), left : SUBSET Labels(edges)]

\* A visit begins: the new label is on top of the stack with the highest number.
LEMMA EnterKeeps ==
  ASSUME TarjanInv, NEW label \in Labels(edges) \ DOMAIN index,
         NEW calls \in Seq(Visit), Len(calls) = Depth,
         \A i \in 1 .. Depth : /\ calls[i].label = visits[i].label
                               /\ calls[i].left \subseteq visits[i].left
                               /\ \A m \in visits[i].left : m \in calls[i].left \/ m = label,
         Depth # 0 => label \in Reach(visits[Depth].label),
         Enter(label, calls)
  PROVE  TarjanInv'
<1> DEFINE d == Depth
           entered == [label |-> label, left |-> Targets(edges, label)]
<1>0. IsGraph(edges)
  BY ProjectionIsGraph DEF TarjanInv, Typed
<1>1. /\ index' = Extended(index, label, next) /\ lowLink' = Extended(lowLink, label, next)
      /\ next' = next + 1 /\ stack' = Append(stack, label) /\ onStack' = onStack \cup {label}
      /\ visits' = Append(calls, entered)
      /\ edges' = edges /\ components' = components
  BY DEF Enter
<1>2. /\ index \in [DOMAIN index -> Nat] /\ lowLink \in [DOMAIN index -> Nat]
      /\ onStack = Range(stack) /\ onStack \subseteq DOMAIN index
      /\ DOMAIN index \subseteq Labels(edges) /\ next \in Nat
      /\ stack \in Seq(Labels(edges)) /\ DOMAIN visits = 1 .. d /\ d \in Nat
  BY DEF TarjanInv, Typed, Stacked, Depth
<1>3. /\ DOMAIN index' = DOMAIN index \cup {label} /\ DOMAIN lowLink' = DOMAIN index \cup {label}
      /\ index'[label] = next /\ lowLink'[label] = next
      /\ \A l \in DOMAIN index : index'[l] = index[l] /\ lowLink'[l] = lowLink[l]
      /\ index' \in [DOMAIN index' -> Nat] /\ lowLink' \in [DOMAIN index' -> Nat]
  BY <1>1, <1>2 DEF Extended
<1>4. \A l \in DOMAIN index : index[l] \in Nat /\ lowLink[l] \in Nat /\ index[l] < next /\ lowLink[l] <= index[l]
  BY <1>2 DEF TarjanInv, Numbered
<1>5. entered \in Visit /\ entered.label = label /\ entered.left = Targets(edges, label)
  BY <1>0, GraphWorks DEF Visit
<1>6. /\ visits' \in Seq(Visit) /\ DOMAIN visits' = 1 .. d + 1 /\ visits' # << >>
      /\ visits'[d + 1] = entered
      /\ \A i \in 1 .. d : visits'[i] = calls[i]
  <2> HIDE DEF entered
  <2>1. Len(calls) = d
    OBVIOUS
  <2>2. /\ visits' \in Seq(Visit) /\ DOMAIN visits' = 1 .. d + 1
        /\ visits'[d + 1] = entered
        /\ \A i \in 1 .. d : visits'[i] = calls[i]
    BY <1>1, <1>5, <2>1, AppendWorks
  <2>3. DOMAIN visits' # {}
    BY <1>2, <2>2
  <2> QED
    BY <2>2, <2>3
<1>7. /\ stack' \in Seq(Labels(edges)) /\ DOMAIN stack' = DOMAIN stack \cup {Len(stack) + 1}
      /\ DOMAIN stack = 1 .. Len(stack) /\ Len(stack) \in Nat
      /\ stack'[Len(stack) + 1] = label
      /\ \A i \in DOMAIN stack : stack'[i] = stack[i]
  BY <1>1, <1>2, AppendWorks
<1> HIDE DEF entered
<1>8. /\ \A i \in 1 .. d : /\ visits[i].label \in onStack /\ visits[i].label \in DOMAIN index
                           /\ visits'[i].label = visits[i].label
                           /\ NumberOf(i)' = NumberOf(i) /\ NumberOf(i) \in Nat /\ NumberOf(i) < next
      /\ visits'[d + 1].label = label /\ visits'[d + 1].left = Targets(edges, label)
      /\ \A i \in 1 .. d + 1 : i = d + 1 => NumberOf(i)' = next
  <2>1. ASSUME NEW i \in 1 .. d
        PROVE  /\ visits[i].label \in onStack /\ visits[i].label \in DOMAIN index
               /\ visits'[i].label = visits[i].label
    BY <1>2, <1>6 DEF TarjanInv, Stacked
  <2>2. ASSUME NEW i \in 1 .. d
        PROVE  /\ NumberOf(i)' = NumberOf(i) /\ NumberOf(i) \in Nat /\ NumberOf(i) < next
    BY <1>3, <1>4, <2>1 DEF NumberOf
  <2>3. visits'[d + 1].label = label /\ visits'[d + 1].left = Targets(edges, label)
    BY <1>5, <1>6
  <2>4. \A i \in 1 .. d + 1 : i = d + 1 => NumberOf(i)' = next
    BY <1>3, <2>3 DEF NumberOf
  <2> QED
    BY <2>1, <2>2, <2>3, <2>4
<1>9. /\ \A i \in 1 .. d : i \in 1 .. d + 1
      /\ d + 1 \in 1 .. d + 1
      /\ \A i \in 1 .. d + 1 : i = d + 1 \/ i \in 1 .. d
      /\ \A l : Reach(l)' = Reach(l)
      /\ label \notin onStack /\ label \notin DOMAIN index
  BY <1>1, <1>2 DEF Reach
<1>10. Typed'
  BY <1>1, <1>2, <1>3, <1>6, <1>7 DEF TarjanInv, Typed, Visit
<1>11. Numbered'
  <2>1. \A l \in DOMAIN index' : index'[l] < next' /\ lowLink'[l] <= index'[l]
    BY <1>1, <1>2, <1>3, <1>4
  <2>2. \A l, m \in DOMAIN index' : index'[l] = index'[m] => l = m
    <3>1. \A l, m \in DOMAIN index : index[l] = index[m] => l = m
      BY DEF TarjanInv, Numbered
    <3>2. \A l \in DOMAIN index : index[l] # next
      BY <1>2, <1>4
    <3> QED
      BY <1>3, <3>1, <3>2
  <2> QED
    BY <2>1, <2>2 DEF Numbered
<1>12. Stacked'
  <2>1. onStack' = Range(stack')
    BY <1>1, <1>2, <1>7 DEF Range
  <2>2. onStack' \subseteq DOMAIN index'
    BY <1>1, <1>2, <1>3
  <2>3. ASSUME NEW i \in DOMAIN stack', NEW j \in DOMAIN stack', i < j
        PROVE  index'[stack'[i]] < index'[stack'[j]]
    <3>1. i \in DOMAIN stack
      BY <1>7, <2>3
    <3>2. stack'[i] = stack[i] /\ stack[i] \in DOMAIN index
      BY <1>2, <1>7, <3>1 DEF Range
    <3>3. CASE j \in DOMAIN stack
      <4>1. stack'[j] = stack[j] /\ stack[j] \in DOMAIN index
        BY <1>2, <1>7, <3>3 DEF Range
      <4> QED
        BY <1>3, <2>3, <3>1, <3>2, <3>3, <4>1 DEF TarjanInv, Stacked
    <3>4. CASE j = Len(stack) + 1
      BY <1>3, <1>4, <1>7, <3>2, <3>4
    <3> QED
      BY <1>7, <3>3, <3>4
  <2>4. \A i \in DOMAIN visits' : visits'[i].label \in onStack'
    BY <1>1, <1>6, <1>8, <1>9
  <2>5. \A i, j \in DOMAIN visits' : i < j => NumberOf(i)' < NumberOf(j)'
    <3>1. ASSUME NEW i \in 1 .. d + 1, NEW j \in 1 .. d + 1, i < j
          PROVE  NumberOf(i)' < NumberOf(j)'
      <4>1. i \in 1 .. d
        BY <1>2, <3>1
      <4>2. CASE j \in 1 .. d
        BY <1>2, <1>8, <3>1, <4>1, <4>2 DEF TarjanInv, Stacked
      <4>3. CASE j = d + 1
        BY <1>8, <4>1, <4>3
      <4> QED
        BY <1>9, <4>2, <4>3
    <3> QED
      BY <1>6, <3>1
  <2>6. \A l \in onStack' : NumberOf(1)' <= index'[l]
    <3>1. CASE d = 0
      <4>1. DOMAIN visits = {}
        BY <1>2, <3>1
      <4>2. visits = << >> /\ stack = << >>
        BY <4>1 DEF TarjanInv, Typed, Stacked
      <4>3. onStack = {}
        BY <1>2, <4>2 DEF Range
      <4>4. 1 \in 1 .. d + 1 /\ 1 = d + 1
        BY <3>1
      <4>5. NumberOf(1)' = next
        BY <1>8, <4>4
      <4> QED
        BY <1>1, <1>2, <1>3, <4>3, <4>5
    <3>2. CASE d # 0
      <4>1. 1 \in 1 .. d /\ visits # << >>
        BY <1>2, <3>2
      <4>2. \A l \in onStack : NumberOf(1) <= index[l]
        BY <4>1 DEF TarjanInv, Stacked
      <4> QED
        BY <1>1, <1>2, <1>3, <1>8, <4>1, <4>2
    <3> QED
      BY <3>1, <3>2
  <2> QED
    BY <1>6, <2>1, <2>2, <2>3, <2>4, <2>5, <2>6 DEF Stacked
<1>13. Accounted'
  BY <1>1, <1>3, <1>9 DEF TarjanInv, Accounted
<1>14. VisitsReach'
  <2> SUFFICES ASSUME NEW i \in 1 .. d + 1, NEW l \in onStack', NumberOf(i)' <= index'[l]
               PROVE  l \in Reach(visits'[i].label)
    BY <1>6, <1>9 DEF VisitsReach
  <2>1. CASE i = d + 1
    <3>1. l = label
      BY <1>1, <1>2, <1>3, <1>4, <1>8, <2>1
    <3> QED
      BY <1>0, <1>8, <2>1, <3>1, ReachIsClosed DEF Reach
  <2>2. CASE i \in 1 .. d /\ l \in onStack
    BY <1>2, <1>3, <1>8, <2>2 DEF TarjanInv, VisitsReach
  <2>3. CASE i \in 1 .. d /\ l = label
    <3>1. d \in 1 .. d /\ visits # << >>
      BY <1>2, <2>3
    <3>2. NumberOf(i) <= NumberOf(d)
      BY <2>3, <3>1, TopWorks
    <3>3. visits[d].label \in Reach(visits[i].label)
      BY <1>2, <1>8, <2>3, <3>1, <3>2 DEF TarjanInv, VisitsReach, NumberOf
    <3>4. label \in Reach(visits[d].label)
      BY <1>2, <2>3
    <3> QED
      BY <1>0, <1>8, <2>3, <3>3, <3>4, ReachIsTransitive DEF Reach
  <2> QED
    BY <1>1, <1>9, <2>1, <2>2, <2>3
<1>15. LowLinksReach'
  <2> SUFFICES ASSUME NEW l \in onStack'
               PROVE  /\ \E m \in onStack' : index'[m] = lowLink'[l] /\ m \in Reach(l)
                      /\ (\A i \in 1 .. d + 1 : visits'[i].label # l) => lowLink'[l] < index'[l]
    BY <1>6, <1>9 DEF LowLinksReach
  <2>1. CASE l = label
    BY <1>0, <1>1, <1>3, <1>8, <1>9, <2>1, ReachIsClosed DEF Reach
  <2>2. CASE l \in onStack
    <3>1. /\ \E m \in onStack : index[m] = lowLink[l] /\ m \in Reach(l)
          /\ (\A i \in 1 .. d : visits[i].label # l) => lowLink[l] < index[l]
      BY <1>2, <2>2 DEF TarjanInv, LowLinksReach
    <3>2. (\A i \in 1 .. d + 1 : visits'[i].label # l) => \A i \in 1 .. d : visits[i].label # l
      BY <1>8, <1>9
    <3> QED
      BY <1>1, <1>2, <1>3, <2>2, <3>1, <3>2
  <2> QED
    BY <1>1, <2>1, <2>2
<1>16. LowLinksAreHeard'
  <2> SUFFICES ASSUME NEW i \in 1 .. d + 1, NEW l \in onStack',
                      NumberOf(i)' <= index'[l],
                      \A j \in 1 .. d + 1 : i < j => index'[l] < NumberOf(j)'
               PROVE  lowLink'[visits'[i].label] <= lowLink'[l]
    BY <1>6 DEF LowLinksAreHeard
  <2>1. CASE i = d + 1
    <3>1. l = label
      BY <1>1, <1>2, <1>3, <1>4, <1>8, <2>1
    <3> QED
      BY <1>2, <1>3, <1>8, <2>1, <3>1
  <2>2. CASE i \in 1 .. d /\ l \in onStack
    <3>1. /\ NumberOf(i) <= index[l]
          /\ \A j \in 1 .. d : i < j => index[l] < NumberOf(j)
      BY <1>2, <1>3, <1>8, <1>9, <2>2
    <3>2. lowLink[visits[i].label] <= lowLink[l]
      BY <1>2, <2>2, <3>1 DEF TarjanInv, LowLinksAreHeard
    <3> QED
      BY <1>2, <1>3, <1>8, <2>2, <3>2
  <2>3. CASE i \in 1 .. d /\ l = label
    <3>1. i < d + 1 /\ ~(next < next)
      BY <1>2, <2>3
    <3> QED
      BY <1>3, <1>8, <1>9, <2>3, <3>1
  <2> QED
    BY <1>1, <1>9, <2>1, <2>2, <2>3
<1>17. SuccessorsAreHeard'
  <2>1. \A i \in 1 .. d + 1 : visits'[i].left \subseteq Targets(edges, visits'[i].label)
    <3>1. \A i \in 1 .. d : visits[i].left \subseteq Targets(edges, visits[i].label)
      BY <1>2 DEF TarjanInv, SuccessorsAreHeard
    <3> QED
      BY <1>6, <1>8, <1>9, <3>1
  <2>2. ASSUME NEW l \in onStack', NEW m \in Targets(edges, l)
        PROVE  \/ \E i \in 1 .. d + 1 : visits'[i].label = l /\ m \in visits'[i].left
               \/ m \in DOMAIN index' /\ (m \in onStack' => lowLink'[l] <= index'[m])
    <3>1. CASE l = label
      BY <1>8, <1>9, <2>2, <3>1
    <3>2. CASE l \in onStack /\ m = label
      BY <1>2, <1>3, <1>4, <3>2
    <3>3. CASE l \in onStack /\ m # label
      <4>1. CASE \E i \in 1 .. d : visits[i].label = l /\ m \in visits[i].left
        <5>1. PICK i \in 1 .. d : visits[i].label = l /\ m \in visits[i].left
          BY <4>1
        <5>2. visits'[i].label = l /\ m \in visits'[i].left /\ i \in 1 .. d + 1
          BY <1>6, <1>8, <1>9, <3>3, <5>1
        <5> QED
          BY <5>2
      <4>2. CASE m \in DOMAIN index /\ (m \in onStack => lowLink[l] <= index[m])
        BY <1>1, <1>2, <1>3, <3>3, <4>2
      <4> QED
        BY <1>2, <2>2, <3>3, <4>1, <4>2 DEF TarjanInv, SuccessorsAreHeard
    <3> QED
      BY <1>1, <3>1, <3>2, <3>3
  <2> QED
    BY <1>1, <1>6, <2>1, <2>2 DEF SuccessorsAreHeard
<1>18. ComponentsAreClosed'
  BY <1>1 DEF TarjanInv, ComponentsAreClosed
<1> QED
  BY <1>10, <1>11, <1>12, <1>13, <1>14, <1>15, <1>16, <1>17, <1>18 DEF TarjanInv

\* The outer loop begins a visit when the stack is empty.
LEMMA VisitNextKeeps == TarjanInv /\ VisitNext => TarjanInv'
<1> SUFFICES ASSUME TarjanInv, VisitNext PROVE TarjanInv'
  OBVIOUS
<1>1. visits = << >> /\ Unvisited # {} /\ Enter(Min(Unvisited), << >>) /\ Depth = 0
  BY DEF VisitNext, Depth
<1>2. IsGraph(edges) /\ Labels(edges) \in SUBSET Int /\ IsFiniteSet(Labels(edges))
  BY ProjectionIsGraph DEF TarjanInv, Typed
<1>3. Unvisited \subseteq Labels(edges) \ DOMAIN index
  BY DEF Unvisited, Visited
<1>4. Min(Unvisited) \in Labels(edges) \ DOMAIN index
  BY <1>1, <1>2, <1>3, FS_Subset, MinWorks
<1>5. << >> \in Seq(Visit) /\ Len(<< >>) = 0 /\ 1 .. 0 = {}
  OBVIOUS
<1> QED
  BY <1>1, <1>4, <1>5, EnterKeeps

\* A visit goes on to a successor not visited yet.
LEMMA DescendKeeps == TarjanInv /\ Descend => TarjanInv'
<1> SUFFICES ASSUME TarjanInv, Descend PROVE TarjanInv'
  OBVIOUS
<1>1. visits # << >> /\ ~Walked /\ Successor \notin DOMAIN index /\ Enter(Successor, WithTopWalked)
  BY DEF Descend, Visited
<1>2. Successor \in Labels(edges) \ DOMAIN index /\ Successor \in Reach(visits[Depth].label)
  BY <1>1, SuccessorWorks
<1>3. /\ WithTopWalked \in Seq(Visit) /\ Len(WithTopWalked) = Depth
      /\ \A i \in 1 .. Depth : /\ WithTopWalked[i].label = visits[i].label
                               /\ WithTopWalked[i].left \subseteq visits[i].left
                               /\ \A m \in visits[i].left : m \in WithTopWalked[i].left \/ m = Successor
  BY <1>1, WalkedWorks DEF Visit
<1> QED
  BY <1>1, <1>2, <1>3, EnterKeeps

-----------------------------------------------------------------------------
\* The visits that remain when the innermost returns.
LEMMA LeaveWorks ==
  ASSUME TarjanInv, visits # << >>, Leave
  PROVE  /\ visits' \in Seq([label : Labels(edges), left : SUBSET Labels(edges)])
         /\ DOMAIN visits' = 1 .. Depth - 1
         /\ \A i \in 1 .. Depth - 1 : visits'[i] = visits[i] /\ i \in 1 .. Depth
         /\ Depth = 1 => visits' = << >> /\ lowLink' = lowLink
         /\ Depth # 1 =>
              /\ visits' # << >> /\ Depth - 1 \in 1 .. Depth - 1 /\ Depth - 1 \in 1 .. Depth
              /\ lowLink' = [lowLink EXCEPT ![visits[Depth - 1].label]
                                        = Less(@, lowLink[visits[Depth].label])]
<1>1. Depth \in Nat \ {0} /\ DOMAIN visits = 1 .. Depth /\ Top = visits[Depth]
  BY TopWorks
<1> DEFINE callers == Front(visits)
<1>2. visits \in Seq(Visit) /\ Depth - 1 \in 0 .. Len(visits) /\ Len(visits) = Depth
  BY <1>1 DEF TarjanInv, Typed, Visit, Depth
<1>3. callers = SubSeq(visits, 1, Depth - 1)
  BY DEF Front, Depth
<1>4. /\ callers \in Seq(Visit) /\ DOMAIN callers = 1 .. Depth - 1 /\ Len(callers) = Depth - 1
      /\ \A i \in 1 .. Depth - 1 : callers[i] = visits[i]
  BY <1>2, <1>3, SubSeqWorks
<1>5. /\ visits' = callers
      /\ lowLink' = IF callers = << >> THEN lowLink
                    ELSE [lowLink EXCEPT ![Last(callers).label] = Less(@, lowLink[Top.label])]
  BY DEF Leave
<1> HIDE DEF callers
<1>6. CASE Depth = 1
  <2>1. callers = << >>
    BY <1>4, <1>6
  <2> QED
    BY <1>1, <1>4, <1>5, <1>6, <2>1 DEF Visit
<1>7. CASE Depth # 1
  <2>1. callers # << >> /\ Depth - 1 \in 1 .. Depth - 1 /\ Depth - 1 \in 1 .. Depth
    BY <1>1, <1>4, <1>7
  <2>2. Last(callers) = visits[Depth - 1]
    BY <1>4, <2>1 DEF Last
  <2> QED
    BY <1>1, <1>4, <1>5, <1>7, <2>1, <2>2 DEF Visit
<1> QED
  BY <1>6, <1>7

\* A visit that reached lower than itself hands what it learnt to its caller.
LEMMA ReturnKeeps == TarjanInv /\ Return => TarjanInv'
<1> SUFFICES ASSUME TarjanInv, Return PROVE TarjanInv'
  OBVIOUS
<1> DEFINE d == Depth
           top == visits[d].label
           caller == visits[d - 1].label
<1>1. visits # << >> /\ Walked /\ lowLink[Top.label] # index[Top.label] /\ Leave
  BY DEF Return
<1>2. UNCHANGED <<edges, index, onStack, stack, next, components>>
  BY DEF Return
<1>3. /\ d \in Nat \ {0} /\ DOMAIN visits = 1 .. d /\ Top = visits[d] /\ d \in 1 .. d
      /\ top \in onStack /\ visits[d].left = {}
  BY <1>1, TopWorks DEF Walked
<1>4. /\ index \in [DOMAIN index -> Nat] /\ lowLink \in [DOMAIN index -> Nat]
      /\ onStack \subseteq DOMAIN index
      /\ \A l \in DOMAIN index : index[l] \in Nat /\ lowLink[l] \in Nat /\ lowLink[l] <= index[l]
  BY DEF TarjanInv, Typed, Stacked, Numbered
<1>5. lowLink[top] < index[top]
  BY <1>1, <1>3, <1>4
\* The first visit has nothing below it to reach.
<1>6. d # 1
  <2> SUFFICES ASSUME d = 1 PROVE FALSE
    OBVIOUS
  <2>1. PICK m \in onStack : index[m] = lowLink[top]
    BY <1>3 DEF TarjanInv, LowLinksReach
  <2>2. NumberOf(1) <= index[m]
    BY <1>1 DEF TarjanInv, Stacked
  <2>3. index[top] <= index[m]
    BY <2>2 DEF NumberOf
  <2> QED
    BY <1>3, <1>4, <1>5, <2>1, <2>3
<1>7. /\ visits' \in Seq([label : Labels(edges), left : SUBSET Labels(edges)])
      /\ DOMAIN visits' = 1 .. d - 1 /\ visits' # << >>
      /\ \A i \in 1 .. d - 1 : visits'[i] = visits[i] /\ i \in 1 .. d
      /\ d - 1 \in 1 .. d - 1 /\ d - 1 \in 1 .. d
      /\ lowLink' = [lowLink EXCEPT ![caller] = Less(@, lowLink[top])]
  BY <1>1, <1>6, LeaveWorks
<1>8. /\ \A i \in 1 .. d : visits[i].label \in onStack /\ NumberOf(i) \in Nat
      /\ \A i, j \in 1 .. d : i < j => NumberOf(i) < NumberOf(j)
      /\ \A i \in 1 .. d - 1 : NumberOf(i)' = NumberOf(i)
      /\ \A l : Reach(l)' = Reach(l)
  BY <1>2, <1>3, <1>4, <1>7 DEF TarjanInv, Stacked, NumberOf, Reach
<1>9. /\ NumberOf(d - 1) < NumberOf(d) /\ NumberOf(d) = index[top] /\ NumberOf(d - 1) = index[caller]
      /\ caller \in onStack /\ caller # top
  <2>1. NumberOf(d - 1) < NumberOf(d)
    BY <1>3, <1>7, <1>8
  <2>2. NumberOf(d) = index[top] /\ NumberOf(d - 1) = index[caller]
    BY DEF NumberOf
  <2>3. caller \in onStack
    BY <1>7, <1>8
  <2> QED
    BY <1>3, <1>4, <2>1, <2>2, <2>3
<1>10. /\ lowLink' \in [DOMAIN index -> Nat]
       /\ \A l \in DOMAIN index : l # caller => lowLink'[l] = lowLink[l]
       /\ lowLink'[caller] <= lowLink[caller] /\ lowLink'[caller] <= lowLink[top]
       /\ lowLink'[caller] \in {lowLink[caller], lowLink[top]}
  <2>1. lowLink[caller] \in Nat /\ lowLink[top] \in Nat
    BY <1>3, <1>4, <1>9
  <2>2. /\ Less(lowLink[caller], lowLink[top]) \in Nat
        /\ Less(lowLink[caller], lowLink[top]) <= lowLink[caller]
        /\ Less(lowLink[caller], lowLink[top]) <= lowLink[top]
        /\ Less(lowLink[caller], lowLink[top]) \in {lowLink[caller], lowLink[top]}
    BY <2>1 DEF Less
  <2> QED
    BY <1>4, <1>7, <1>9, <2>2
<1>11. \A l \in DOMAIN index : lowLink'[l] \in Nat /\ lowLink'[l] <= lowLink[l]
  BY <1>4, <1>9, <1>10
<1>12. Typed'
  BY <1>2, <1>7, <1>10 DEF TarjanInv, Typed
<1>13. Numbered'
  <2>1. \A l \in DOMAIN index : lowLink'[l] <= index[l]
    BY <1>4, <1>11
  <2> QED
    BY <1>2, <2>1 DEF TarjanInv, Numbered
<1>14. Stacked'
  <2>1. /\ onStack' = Range(stack') /\ onStack' \subseteq DOMAIN index'
        /\ \A i, j \in DOMAIN stack' : i < j => index'[stack'[i]] < index'[stack'[j]]
    BY <1>2 DEF TarjanInv, Stacked
  <2>2. \A i \in 1 .. d - 1 : visits'[i].label \in onStack'
    BY <1>2, <1>7, <1>8
  <2>3. \A i, j \in 1 .. d - 1 : i < j => NumberOf(i)' < NumberOf(j)'
    BY <1>7, <1>8
  <2>4. \A l \in onStack' : NumberOf(1)' <= index'[l]
    <3>1. \A l \in onStack : NumberOf(1) <= index[l]
      BY <1>1 DEF TarjanInv, Stacked
    <3>2. 1 \in 1 .. d - 1
      BY <1>3, <1>6
    <3> QED
      BY <1>2, <1>8, <3>1, <3>2
  <2> QED
    BY <1>7, <2>1, <2>2, <2>3, <2>4 DEF Stacked
<1>15. Accounted'
  BY <1>2 DEF TarjanInv, Accounted
<1>16. VisitsReach'
  BY <1>2, <1>3, <1>7, <1>8 DEF TarjanInv, VisitsReach
<1>17. top \in Reach(caller)
  BY <1>3, <1>4, <1>7, <1>8, <1>9 DEF TarjanInv, VisitsReach
<1>18. LowLinksReach'
  <2> SUFFICES ASSUME NEW l \in onStack
               PROVE  /\ \E m \in onStack : index[m] = lowLink'[l] /\ m \in Reach(l)
                      /\ (\A i \in 1 .. d - 1 : visits[i].label # l) => lowLink'[l] < index[l]
    BY <1>2, <1>7, <1>8 DEF LowLinksReach
  <2>1. \A k \in onStack : /\ \E m \in onStack : index[m] = lowLink[k] /\ m \in Reach(k)
                           /\ (\A i \in 1 .. d : visits[i].label # k) => lowLink[k] < index[k]
    BY <1>3 DEF TarjanInv, LowLinksReach
  <2>2. \E m \in onStack : index[m] = lowLink'[l] /\ m \in Reach(l)
    <3>1. CASE lowLink'[l] = lowLink[l]
      BY <2>1, <3>1
    <3>2. CASE lowLink'[l] # lowLink[l]
      <4>1. l = caller /\ lowLink'[l] = lowLink[top]
        BY <1>4, <1>10, <3>2
      <4>2. PICK m \in onStack : index[m] = lowLink[top] /\ m \in Reach(top)
        BY <1>3, <2>1
      <4>3. IsGraph(edges)
        BY ProjectionIsGraph DEF TarjanInv, Typed
      <4>4. m \in Reach(caller)
        BY <1>17, <4>2, <4>3, ReachIsTransitive DEF Reach
      <4> QED
        BY <4>1, <4>2, <4>4
    <3> QED
      BY <3>1, <3>2
  <2>3. ASSUME \A i \in 1 .. d - 1 : visits[i].label # l PROVE lowLink'[l] < index[l]
    <3>1. l \in DOMAIN index /\ lowLink'[l] <= lowLink[l] /\ lowLink'[l] \in Nat
      BY <1>4, <1>11
    <3>2. CASE l = top
      BY <1>4, <1>5, <3>1, <3>2
    <3>3. CASE l # top
      <4>1. \A i \in 1 .. d : i = d \/ i \in 1 .. d - 1
        BY <1>3
      <4>2. lowLink[l] < index[l]
        BY <2>1, <2>3, <3>3, <4>1
      <4> QED
        BY <1>4, <3>1, <4>2
    <3> QED
      BY <3>2, <3>3
  <2> QED
    BY <2>2, <2>3
<1>19. LowLinksAreHeard'
  <2> SUFFICES ASSUME NEW i \in 1 .. d - 1, NEW l \in onStack,
                      NumberOf(i) <= index[l],
                      \A j \in 1 .. d - 1 : i < j => index[l] < NumberOf(j)
               PROVE  lowLink'[visits[i].label] <= lowLink'[l]
    BY <1>2, <1>7, <1>8 DEF LowLinksAreHeard
  <2>1. /\ visits[i].label \in DOMAIN index /\ l \in DOMAIN index /\ i \in 1 .. d
        /\ index[l] \in Nat
    BY <1>4, <1>7, <1>8
  <2>2. \A k \in 1 .. d : /\ NumberOf(k) <= index[l]
                          /\ \A j \in 1 .. d : k < j => index[l] < NumberOf(j)
                          => lowLink[visits[k].label] <= lowLink[l]
    BY <1>3 DEF TarjanInv, LowLinksAreHeard
  <2>3. \A j \in 1 .. d : j = d \/ j \in 1 .. d - 1
    BY <1>3
  <2>4. CASE i < d - 1
    <3>1. index[l] < NumberOf(d - 1)
      BY <1>7, <2>4
    <3>2. l # caller
      BY <1>4, <1>9, <3>1
    <3>3. index[l] < NumberOf(d)
      BY <1>3, <1>7, <1>8, <1>9, <2>1, <3>1
    <3>4. lowLink[visits[i].label] <= lowLink[l]
      BY <2>1, <2>2, <2>3, <3>3
    <3> QED
      BY <1>4, <1>10, <1>11, <2>1, <3>2, <3>4
  <2>5. CASE i = d - 1
    <3>1. CASE l = caller
      BY <1>11, <2>1, <2>5, <3>1
    <3>2. CASE l # caller /\ index[l] < NumberOf(d)
      <4>1. lowLink[visits[i].label] <= lowLink[l]
        BY <2>1, <2>2, <2>3, <3>2
      <4> QED
        BY <1>4, <1>10, <1>11, <2>1, <3>2, <4>1
    <3>3. CASE l # caller /\ NumberOf(d) <= index[l]
      <4>1. \A j \in 1 .. d : ~(d < j)
        BY <1>3
      <4>2. lowLink[top] <= lowLink[l]
        BY <1>3, <2>2, <3>3, <4>1
      <4>3. lowLink[top] \in Nat /\ lowLink[l] \in Nat /\ lowLink'[caller] \in Nat
        BY <1>3, <1>4, <1>9, <1>11, <2>1
      <4> QED
        BY <1>10, <2>1, <2>5, <3>3, <4>2, <4>3
    <3> QED
      BY <1>3, <1>8, <2>1, <3>1, <3>2, <3>3
  <2> QED
    BY <1>3, <2>4, <2>5
<1>20. SuccessorsAreHeard'
  <2>1. \A i \in 1 .. d - 1 : visits[i].left \subseteq Targets(edges, visits[i].label)
    BY <1>3, <1>7 DEF TarjanInv, SuccessorsAreHeard
  <2>2. ASSUME NEW l \in onStack, NEW m \in Targets(edges, l)
        PROVE  \/ \E i \in 1 .. d - 1 : visits[i].label = l /\ m \in visits[i].left
               \/ m \in DOMAIN index /\ (m \in onStack => lowLink'[l] <= index[m])
    <3>1. CASE m \in DOMAIN index /\ (m \in onStack => lowLink[l] <= index[m])
      <4>1. lowLink'[l] \in Nat /\ lowLink[l] \in Nat /\ lowLink'[l] <= lowLink[l] /\ index[m] \in Nat
        BY <1>4, <1>11, <3>1
      <4> QED
        BY <3>1, <4>1
    <3>2. CASE \E i \in 1 .. d : visits[i].label = l /\ m \in visits[i].left
      <4>1. PICK i \in 1 .. d : visits[i].label = l /\ m \in visits[i].left
        BY <3>2
      <4>2. i \in 1 .. d - 1
        BY <1>3, <4>1
      <4> QED
        BY <4>1, <4>2
    <3> QED
      BY <1>3, <3>1, <3>2 DEF TarjanInv, SuccessorsAreHeard
  <2> QED
    BY <1>2, <1>7, <2>1, <2>2 DEF SuccessorsAreHeard
<1>21. ComponentsAreClosed'
  BY <1>2 DEF TarjanInv, ComponentsAreClosed
<1> QED
  BY <1>12, <1>13, <1>14, <1>15, <1>16, <1>18, <1>19, <1>20, <1>21 DEF TarjanInv

-----------------------------------------------------------------------------
\* popComponent takes the labels numbered from the root's on off the stack.
Popped == {l \in onStack : index[visits[Depth].label] <= index[l]}

\* What popComponent takes off, and what it leaves on the stack.
LEMMA PoppedWorks ==
  ASSUME TarjanInv, Close
  PROVE  /\ stack' \in Seq(Labels(edges)) /\ onStack' = Range(stack')
         /\ onStack' = onStack \ Popped
         /\ components' = Append(components, Popped)
         /\ \A i \in DOMAIN stack' : i \in DOMAIN stack /\ stack'[i] = stack[i]
<1> DEFINE top == visits[Depth].label
           I == {i \in 1 .. Len(stack) : stack[i] = Top.label}
           root == SelectInSeq(stack, LAMBDA label : label = Top.label)
           popped == Range(SubSeq(stack, root, Len(stack)))
<1>1. Top.label = top /\ top \in onStack
  BY TopWorks DEF Close
<1>2. /\ stack \in Seq(Labels(edges)) /\ DOMAIN stack = 1 .. Len(stack) /\ Len(stack) \in Nat
      /\ onStack = {stack[i] : i \in 1 .. Len(stack)}
      /\ onStack \subseteq DOMAIN index /\ index \in [DOMAIN index -> Nat]
      /\ \A i, j \in 1 .. Len(stack) : i < j => index[stack[i]] < index[stack[j]]
  <2>1. stack \in Seq(Labels(edges)) /\ onStack = Range(stack)
    BY DEF TarjanInv, Typed, Stacked
  <2>2. DOMAIN stack = 1 .. Len(stack) /\ Len(stack) \in Nat
    BY <2>1
  <2>3. /\ onStack \subseteq DOMAIN index /\ index \in [DOMAIN index -> Nat]
        /\ \A i, j \in DOMAIN stack : i < j => index[stack[i]] < index[stack[j]]
    BY DEF TarjanInv, Typed, Stacked
  <2> QED
    BY <2>1, <2>2, <2>3 DEF Range
<1>3. PICK r \in 1 .. Len(stack) : stack[r] = top
  BY <1>1, <1>2
<1>4. \A i \in 1 .. Len(stack) : index[stack[i]] \in Nat
  BY <1>2
<1>5. I = {r}
  <2>1. ASSUME NEW i \in 1 .. Len(stack), stack[i] = top PROVE i = r
    <3>1. ~(i < r) /\ ~(r < i)
      BY <1>2, <1>3, <1>4, <2>1
    <3> QED
      BY <3>1
  <2> QED
    BY <1>1, <1>3, <2>1
<1>6. root = r
  <2>1. Min({r}) = r
    BY DEF Min
  <2>2. root = IF I # {} THEN Min(I) ELSE 0
    BY DEF SelectInSeq
  <2> QED
    BY <1>5, <2>1, <2>2
<1>7. /\ stack' = SubSeq(stack, 1, root - 1)
      /\ onStack' = onStack \ popped
      /\ components' = Append(components, popped)
  BY DEF Close
<1> HIDE DEF root
<1>8. popped = {stack[i] : i \in r .. Len(stack)}
  <2> DEFINE tail == SubSeq(stack, r, Len(stack))
  <2>1. DOMAIN tail = 1 .. (Len(stack) + 1) - r /\ \A i \in 1 .. (Len(stack) + 1) - r : tail[i] = stack[(r + i) - 1]
    BY <1>2, <1>3
  <2>2. \A i \in 1 .. (Len(stack) + 1) - r : (r + i) - 1 \in r .. Len(stack)
    BY <1>2
  <2>3. \A i \in r .. Len(stack) : (i + 1) - r \in 1 .. (Len(stack) + 1) - r /\ (r + ((i + 1) - r)) - 1 = i
    BY <1>2
  <2> HIDE DEF tail
  <2>4. Range(tail) = {stack[i] : i \in r .. Len(stack)}
    <3>1. Range(tail) \subseteq {stack[i] : i \in r .. Len(stack)}
      BY <2>1, <2>2 DEF Range
    <3>2. ASSUME NEW i \in r .. Len(stack) PROVE stack[i] \in Range(tail)
      <4>1. tail[(i + 1) - r] = stack[i] /\ (i + 1) - r \in DOMAIN tail
        BY <2>1, <2>3
      <4> QED
        BY <4>1 DEF Range
    <3> QED
      BY <3>1, <3>2
  <2> QED
    BY <1>6, <2>4 DEF tail
<1> HIDE DEF popped
<1>9. \A i \in 1 .. Len(stack) : index[top] <= index[stack[i]] <=> i \in r .. Len(stack)
  <2> SUFFICES ASSUME NEW i \in 1 .. Len(stack)
               PROVE  index[top] <= index[stack[i]] <=> i \in r .. Len(stack)
    OBVIOUS
  <2>1. i < r => index[stack[i]] < index[top]
    BY <1>2, <1>3
  <2>2. r < i => index[top] < index[stack[i]]
    BY <1>2, <1>3
  <2>3. index[stack[i]] \in Nat /\ index[top] \in Nat
    BY <1>3, <1>4
  <2> QED
    BY <1>3, <2>1, <2>2, <2>3
<1>10. popped = Popped
  <2>1. Popped \subseteq popped
    BY <1>2, <1>8, <1>9 DEF Popped
  <2>2. popped \subseteq Popped
    <3>1. \A i \in r .. Len(stack) : i \in 1 .. Len(stack)
      OBVIOUS
    <3> QED
      BY <1>2, <1>8, <1>9, <3>1 DEF Popped
  <2> QED
    BY <2>1, <2>2
<1>11. /\ stack' \in Seq(Labels(edges)) /\ DOMAIN stack' = 1 .. r - 1
       /\ \A i \in 1 .. r - 1 : stack'[i] = stack[i] /\ i \in 1 .. Len(stack)
  <2>1. r - 1 \in 0 .. Len(stack)
    OBVIOUS
  <2>2. stack' = SubSeq(stack, 1, r - 1)
    BY <1>6, <1>7
  <2> QED
    BY <1>2, <2>1, <2>2, SubSeqWorks
<1>12. onStack \ Popped = Range(stack')
  <2>1. ASSUME NEW l \in onStack \ Popped PROVE l \in Range(stack')
    <3>1. PICK i \in 1 .. Len(stack) : l = stack[i]
      BY <1>2
    <3>2. i \in 1 .. r - 1
      BY <1>2, <1>9, <2>1, <3>1 DEF Popped
    <3> QED
      BY <1>11, <3>1, <3>2 DEF Range
  <2>2. ASSUME NEW i \in 1 .. r - 1 PROVE stack'[i] \in onStack \ Popped
    <3>1. stack'[i] = stack[i] /\ i \in 1 .. Len(stack) /\ i \notin r .. Len(stack)
      BY <1>11
    <3> QED
      BY <1>2, <1>9, <3>1 DEF Popped
  <2> QED
    BY <1>11, <2>1, <2>2 DEF Range
<1> QED
  BY <1>2, <1>7, <1>10, <1>11, <1>12

\* What is popped is the root's component: all of it reaches back to the root, and
\* nothing else does.
LEMMA PoppedIsStrong ==
  ASSUME TarjanInv, Close
  PROVE  /\ Popped \in StrongComponents(edges)
         /\ \A l \in Popped : \A m \in Targets(edges, l) :
               m \in Popped \/ \E j \in DOMAIN components : m \in components[j]
<1> DEFINE d == Depth
           top == visits[d].label
           Closed == UNION {components[j] : j \in DOMAIN components}
<1>1. visits # << >> /\ Walked /\ lowLink[Top.label] = index[Top.label]
  BY DEF Close
<1>2. /\ d \in Nat \ {0} /\ DOMAIN visits = 1 .. d /\ Top = visits[d] /\ d \in 1 .. d
      /\ top \in onStack /\ visits[d].left = {} /\ lowLink[top] = index[top]
      /\ \A i \in 1 .. d : NumberOf(i) <= NumberOf(d)
  BY <1>1, TopWorks DEF Walked
<1>3. /\ index \in [DOMAIN index -> Nat] /\ lowLink \in [DOMAIN index -> Nat]
      /\ onStack \subseteq DOMAIN index /\ DOMAIN index \subseteq Labels(edges)
      /\ \A l \in DOMAIN index : index[l] \in Nat /\ lowLink[l] \in Nat /\ lowLink[l] <= index[l]
      /\ \A l, m \in DOMAIN index : index[l] = index[m] => l = m
  BY DEF TarjanInv, Typed, Stacked, Numbered
<1>4. IsGraph(edges)
  BY ProjectionIsGraph DEF TarjanInv, Typed
<1>5. Popped \subseteq onStack /\ top \in Popped
  BY <1>2, <1>3 DEF Popped
<1>6. \A l \in Popped : index[top] <= lowLink[l]
  <2> SUFFICES ASSUME NEW l \in Popped PROVE index[top] <= lowLink[l]
    OBVIOUS
  <2>1. NumberOf(d) <= index[l] /\ \A j \in 1 .. d : ~(d < j)
    BY <1>2 DEF Popped, NumberOf
  <2>2. l \in onStack
    BY <1>5
  <2> QED
    BY <1>2, <2>1, <2>2 DEF TarjanInv, LowLinksAreHeard
<1>7. \A l \in Popped : l # top => \A i \in DOMAIN visits : visits[i].label # l
  <2> SUFFICES ASSUME NEW l \in Popped, NEW i \in 1 .. d, visits[i].label = l PROVE l = top
    BY <1>2
  <2>1. index[l] <= index[top] /\ index[top] <= index[l]
    BY <1>2 DEF NumberOf, Popped
  <2> QED
    BY <1>2, <1>3, <1>5, <2>1
\* By induction on the number of a label: what it reaches is numbered lower, until
\* that is the root.
<1>8. \A l \in Popped : top \in Reach(l)
  <2> DEFINE Stuck == {index[l] : l \in {m \in Popped : top \notin Reach(m)}}
  <2> SUFFICES ASSUME Stuck # {} PROVE FALSE
    OBVIOUS
  <2>1. Stuck \in SUBSET Nat
    BY <1>3, <1>5
  <2> HIDE DEF Stuck
  <2>2. PICK n \in Stuck : \A m \in Stuck : n <= m
    BY <2>1, LeastNat
  <2>3. PICK l \in Popped : top \notin Reach(l) /\ index[l] = n
    BY <2>2 DEF Stuck
  <2>4. l # top
    BY <1>4, <2>3, ReachIsClosed DEF Reach
  <2>5. lowLink[l] < index[l]
    BY <1>5, <1>7, <2>4 DEF TarjanInv, LowLinksReach
  <2>6. PICK m \in onStack : index[m] = lowLink[l] /\ m \in Reach(l)
    BY <1>5 DEF TarjanInv, LowLinksReach
  <2>7. m \in Popped
    BY <1>6, <2>6 DEF Popped
  <2>8. top \notin Reach(m)
    BY <1>4, <2>3, <2>6, ReachIsTransitive DEF Reach
  <2>9. index[m] \in Stuck
    BY <2>7, <2>8 DEF Stuck
  <2>10. n <= index[m] /\ index[m] < n /\ n \in Nat /\ index[m] \in Nat
    BY <2>1, <2>2, <2>3, <2>5, <2>6, <2>9
  <2> QED
    BY <2>10
<1>9. \A l \in Popped : l \in Reach(top)
  BY <1>2 DEF Popped, TarjanInv, VisitsReach, NumberOf
<1>10. ASSUME NEW l \in Popped, NEW m \in Targets(edges, l) PROVE m \in Popped \/ m \in Closed
  <2>1. ~\E i \in DOMAIN visits : visits[i].label = l /\ m \in visits[i].left
    <3>1. CASE l = top
      <4>1. ASSUME NEW i \in 1 .. d, visits[i].label = top PROVE i = d
        <5>1. i < d => NumberOf(i) < NumberOf(d)
          BY <1>2 DEF TarjanInv, Stacked
        <5>2. NumberOf(i) = NumberOf(d) /\ NumberOf(d) \in Nat
          BY <1>2, <1>3, <4>1 DEF NumberOf
        <5> QED
          BY <1>2, <5>1, <5>2
      <4> QED
        BY <1>2, <3>1, <4>1
    <3>2. CASE l # top
      BY <1>7, <3>2
    <3> QED
      BY <3>1, <3>2
  <2>2. m \in DOMAIN index /\ (m \in onStack => lowLink[l] <= index[m])
    BY <1>5, <1>10, <2>1 DEF TarjanInv, SuccessorsAreHeard
  <2>3. CASE m \in onStack
    <3>1. index[top] <= lowLink[l] /\ lowLink[l] <= index[m]
      BY <1>6, <2>2, <2>3
    <3>2. index[top] \in Nat /\ lowLink[l] \in Nat /\ index[m] \in Nat
      BY <1>2, <1>3, <1>5, <2>2
    <3>3. index[top] <= index[m]
      BY <3>1, <3>2
    <3> QED
      BY <2>3, <3>3 DEF Popped
  <2>4. CASE m \notin onStack
    <3>1. m \in Labels(edges)
      BY <1>3, <2>2
    <3>2. \E k \in DOMAIN components : m \in components[k]
      BY <2>2, <2>4, <3>1 DEF TarjanInv, Accounted
    <3> QED
      BY <3>2
  <2> QED
    BY <2>3, <2>4
<1>11. \A l \in Closed : Targets(edges, l) \subseteq Closed
  <2> SUFFICES ASSUME NEW k \in DOMAIN components, NEW l \in components[k], NEW m \in Targets(edges, l)
               PROVE  m \in Closed
    OBVIOUS
  <2>1. PICK j \in 1 .. k : m \in components[j]
    BY DEF TarjanInv, ComponentsAreClosed
  <2>2. j \in DOMAIN components
    BY DEF TarjanInv, Typed
  <2> QED
    BY <2>1, <2>2
<1>12. top \notin Closed
  BY <1>2, <1>3 DEF TarjanInv, Accounted
<1>13. \A j \in DOMAIN components : components[j] \subseteq Closed
  OBVIOUS
<1>14. \A m \in Closed : \E j \in DOMAIN components : m \in components[j]
  OBVIOUS
<1> HIDE DEF Closed
<1>15. Reach(top) \subseteq Popped \cup Closed
  <2>1. \A l \in Popped \cup Closed : Targets(edges, l) \subseteq Popped \cup Closed
    BY <1>10, <1>11
  <2> QED
    BY <1>4, <1>5, <2>1, ReachIsLeast DEF Reach
<1>16. ASSUME NEW m, m \in Reach(top), top \in Reach(m) PROVE m \in Popped
  <2> SUFFICES ASSUME m \in Closed PROVE FALSE
    BY <1>15, <1>16
  <2>1. Reach(m) \subseteq Closed
    BY <1>4, <1>11, ReachIsLeast DEF Reach
  <2> QED
    BY <1>12, <1>16, <2>1
<1>17. \A m : m \in Popped <=> m \in Reach(top) /\ top \in Reach(m)
  BY <1>8, <1>9, <1>16
<1>18. Popped \in StrongComponents(edges)
  <2>1. top \in Labels(edges)
    BY <1>2, <1>3
  <2> QED
    BY <1>4, <1>17, <2>1, StrongIsComponent DEF Reach
<1> QED
  BY <1>10, <1>14, <1>18

\* A visit that reached no lower than itself closes its component.
LEMMA CloseKeeps == TarjanInv /\ Close => TarjanInv'
<1> SUFFICES ASSUME TarjanInv, Close PROVE TarjanInv'
  OBVIOUS
<1> DEFINE d == Depth
           top == visits[d].label
<1>1. visits # << >> /\ Walked /\ lowLink[Top.label] = index[Top.label] /\ Leave
  BY DEF Close
<1>2. UNCHANGED <<edges, index, next>>
  BY DEF Close
<1>3. /\ d \in Nat \ {0} /\ DOMAIN visits = 1 .. d /\ Top = visits[d] /\ d \in 1 .. d
      /\ top \in onStack /\ visits[d].left = {}
  BY <1>1, TopWorks DEF Walked
<1>4. /\ index \in [DOMAIN index -> Nat] /\ lowLink \in [DOMAIN index -> Nat]
      /\ onStack \subseteq DOMAIN index /\ DOMAIN index \subseteq Labels(edges)
      /\ \A l \in DOMAIN index : index[l] \in Nat /\ lowLink[l] \in Nat /\ lowLink[l] <= index[l]
  BY DEF TarjanInv, Typed, Stacked, Numbered
<1>5. /\ stack' \in Seq(Labels(edges)) /\ onStack' = Range(stack')
      /\ onStack' = onStack \ Popped
      /\ components' = Append(components, Popped)
      /\ \A i \in DOMAIN stack' : i \in DOMAIN stack /\ stack'[i] = stack[i]
  BY PoppedWorks
<1>6. onStack' \subseteq onStack /\ \A l \in onStack : l \in Popped <=> index[top] <= index[l]
  BY <1>5 DEF Popped
<1>7. /\ visits' \in Seq([label : Labels(edges), left : SUBSET Labels(edges)])
      /\ DOMAIN visits' = 1 .. d - 1
      /\ \A i \in 1 .. d - 1 : visits'[i] = visits[i] /\ i \in 1 .. d
      /\ d = 1 => visits' = << >> /\ lowLink' = lowLink
      /\ d # 1 => /\ visits' # << >> /\ d - 1 \in 1 .. d - 1 /\ d - 1 \in 1 .. d
                  /\ lowLink' = [lowLink EXCEPT ![visits[d - 1].label] = Less(@, lowLink[top])]
  BY <1>1, LeaveWorks
<1>8. /\ \A i \in 1 .. d : visits[i].label \in onStack /\ NumberOf(i) \in Nat
      /\ \A i, j \in 1 .. d : i < j => NumberOf(i) < NumberOf(j)
      /\ \A i \in 1 .. d - 1 : NumberOf(i)' = NumberOf(i) /\ NumberOf(i) < NumberOf(d) /\ i < d
      /\ NumberOf(d) = index[top]
      /\ \A l : Reach(l)' = Reach(l)
  <2>1. /\ \A i \in 1 .. d : visits[i].label \in onStack
        /\ \A i, j \in 1 .. d : i < j => NumberOf(i) < NumberOf(j)
    BY <1>3 DEF TarjanInv, Stacked
  <2>2. \A i \in 1 .. d : NumberOf(i) \in Nat
    BY <1>4, <2>1 DEF NumberOf
  <2>3. \A i \in 1 .. d - 1 : NumberOf(i)' = NumberOf(i)
    BY <1>2, <1>7 DEF NumberOf
  <2>4. \A i \in 1 .. d - 1 : i < d
    BY <1>3
  <2> QED
    BY <1>2, <1>3, <1>7, <2>1, <2>2, <2>3, <2>4 DEF NumberOf, Reach
\* The root has nothing to tell its caller.
<1>9. lowLink' = lowLink
  <2>1. CASE d = 1
    BY <1>7, <2>1
  <2>2. CASE d # 1
    <3> DEFINE caller == visits[d - 1].label
    <3>1. index[caller] < index[top]
      BY <1>7, <1>8, <2>2 DEF NumberOf
    <3>2. caller \in DOMAIN index /\ top \in DOMAIN index
      BY <1>3, <1>4, <1>7, <1>8, <2>2
    <3>3. lowLink[caller] < lowLink[top]
      BY <1>1, <1>3, <1>4, <3>1, <3>2
    <3>4. Less(lowLink[caller], lowLink[top]) = lowLink[caller]
      BY <3>3 DEF Less
    <3> QED
      BY <1>4, <1>7, <2>2, <3>4
  <2> QED
    BY <2>1, <2>2
<1>10. /\ components \in Seq(SUBSET Labels(edges)) /\ Popped \in SUBSET Labels(edges)
       /\ components' \in Seq(SUBSET Labels(edges))
       /\ DOMAIN components = 1 .. Len(components) /\ Len(components) \in Nat
       /\ DOMAIN components' = 1 .. Len(components) + 1
       /\ components'[Len(components) + 1] = Popped
       /\ \A k \in 1 .. Len(components) : components'[k] = components[k] /\ k \in 1 .. Len(components) + 1
       /\ \A k \in 1 .. Len(components) + 1 : k = Len(components) + 1 \/ k \in 1 .. Len(components)
  <2>1. components \in Seq(SUBSET Labels(edges)) /\ Popped \in SUBSET Labels(edges)
    BY <1>4 DEF TarjanInv, Typed, Popped
  <2>2. Len(components) \in Nat
    BY <2>1
  <2>3. \A k \in 1 .. Len(components) : k \in 1 .. Len(components) + 1
    BY <2>2
  <2>4. \A k \in 1 .. Len(components) + 1 : k = Len(components) + 1 \/ k \in 1 .. Len(components)
    BY <2>2
  <2> QED
    BY <1>5, <2>1, <2>3, <2>4, AppendWorks
<1>11. Typed'
  BY <1>2, <1>5, <1>7, <1>9, <1>10 DEF TarjanInv, Typed
<1>12. Numbered'
  BY <1>2, <1>9 DEF TarjanInv, Numbered
<1>13. Stacked'
  <2>1. onStack' \subseteq DOMAIN index'
    BY <1>2, <1>4, <1>6
  <2>2. \A i, j \in DOMAIN stack' : i < j => index'[stack'[i]] < index'[stack'[j]]
    BY <1>2, <1>5 DEF TarjanInv, Stacked
  <2>3. \A i \in 1 .. d - 1 : visits'[i].label \in onStack'
    <3> SUFFICES ASSUME NEW i \in 1 .. d - 1 PROVE visits[i].label \in onStack \ Popped
      BY <1>5, <1>7
    <3>1. visits[i].label \in onStack /\ index[visits[i].label] < index[top]
      BY <1>7, <1>8 DEF NumberOf
    <3>2. ~(index[top] <= index[visits[i].label])
      BY <1>3, <1>4, <3>1
    <3> QED
      BY <1>6, <3>1, <3>2
  <2>4. \A i, j \in 1 .. d - 1 : i < j => NumberOf(i)' < NumberOf(j)'
    BY <1>7, <1>8
  <2>5. \A l \in onStack : NumberOf(1) <= index[l]
    BY <1>1 DEF TarjanInv, Stacked
  <2>6. visits' = << >> => stack' = << >>
    <3> SUFFICES ASSUME d = 1 PROVE stack' = << >>
      BY <1>7
    <3>1. onStack' = {}
      BY <1>6, <1>5, <1>8, <2>5
    <3>2. DOMAIN stack' = {}
      BY <1>5, <3>1 DEF Range
    <3> QED
      BY <1>5, <3>2
  <2>7. visits' # << >> => \A l \in onStack' : NumberOf(1)' <= index'[l]
    <3> SUFFICES ASSUME d # 1 PROVE \A l \in onStack' : NumberOf(1)' <= index'[l]
      BY <1>7
    <3>1. 1 \in 1 .. d - 1
      BY <1>3
    <3> QED
      BY <1>2, <1>6, <1>8, <2>5, <3>1
  <2> QED
    BY <1>5, <1>7, <2>1, <2>2, <2>3, <2>4, <2>6, <2>7 DEF Stacked
<1>14. Accounted'
  <2>1. ASSUME NEW l PROVE (\E k \in DOMAIN components' : l \in components'[k])
                              <=> l \in Popped \/ \E k \in DOMAIN components : l \in components[k]
    BY <1>10
  <2>2. Popped \subseteq onStack
    BY DEF Popped
  <2> QED
    BY <1>2, <1>5, <2>1, <2>2 DEF TarjanInv, Accounted
<1>15. VisitsReach'
  BY <1>2, <1>3, <1>6, <1>7, <1>8 DEF TarjanInv, VisitsReach
<1>16. LowLinksReach'
  <2> SUFFICES ASSUME NEW l \in onStack'
               PROVE  /\ \E m \in onStack' : index[m] = lowLink[l] /\ m \in Reach(l)
                      /\ (\A i \in 1 .. d - 1 : visits[i].label # l) => lowLink[l] < index[l]
    BY <1>2, <1>7, <1>8, <1>9 DEF LowLinksReach
  <2>1. l \in onStack /\ index[l] < index[top] /\ index[l] \in Nat /\ lowLink[l] <= index[l] /\ lowLink[l] \in Nat
    BY <1>3, <1>4, <1>5, <1>6
  <2>2. PICK m \in onStack : index[m] = lowLink[l] /\ m \in Reach(l)
    BY <2>1 DEF TarjanInv, LowLinksReach
  <2>3. m \in onStack'
    <3>1. ~(index[top] <= index[m])
      BY <1>3, <1>4, <2>1, <2>2
    <3> QED
      BY <1>5, <1>6, <3>1
  <2>4. ASSUME \A i \in 1 .. d - 1 : visits[i].label # l PROVE lowLink[l] < index[l]
    <3>1. l # top
      BY <1>3, <1>4, <2>1
    <3>2. \A i \in 1 .. d : i = d \/ i \in 1 .. d - 1
      BY <1>3
    <3>3. \A i \in DOMAIN visits : visits[i].label # l
      BY <1>3, <2>4, <3>1, <3>2
    <3> QED
      BY <2>1, <3>3 DEF TarjanInv, LowLinksReach
  <2> QED
    BY <2>2, <2>3, <2>4
<1>17. LowLinksAreHeard'
  <2> SUFFICES ASSUME NEW i \in 1 .. d - 1, NEW l \in onStack',
                      NumberOf(i) <= index[l],
                      \A j \in 1 .. d - 1 : i < j => index[l] < NumberOf(j)
               PROVE  lowLink[visits[i].label] <= lowLink[l]
    <3>1. /\ DOMAIN visits' = 1 .. d - 1 /\ index' = index /\ lowLink' = lowLink
          /\ \A i \in 1 .. d - 1 : NumberOf(i)' = NumberOf(i) /\ visits'[i].label = visits[i].label
      BY <1>2, <1>7, <1>8, <1>9
    <3> QED
      BY <3>1 DEF LowLinksAreHeard
  <2>1. l \in onStack /\ index[l] < NumberOf(d)
    BY <1>3, <1>4, <1>5, <1>6, <1>8
  <2>2. \A j \in 1 .. d : j = d \/ j \in 1 .. d - 1
    BY <1>3
  <2>3. \A j \in 1 .. d : i < j => index[l] < NumberOf(j)
    BY <2>1, <2>2
  <2> QED
    BY <1>3, <1>7, <2>1, <2>3 DEF TarjanInv, LowLinksAreHeard
<1>18. SuccessorsAreHeard'
  <2>1. \A i \in 1 .. d - 1 : visits[i].left \subseteq Targets(edges, visits[i].label)
    BY <1>3, <1>7 DEF TarjanInv, SuccessorsAreHeard
  <2>2. ASSUME NEW l \in onStack', NEW m \in Targets(edges, l)
        PROVE  \/ \E i \in 1 .. d - 1 : visits[i].label = l /\ m \in visits[i].left
               \/ m \in DOMAIN index /\ (m \in onStack' => lowLink[l] <= index[m])
    <3>1. CASE m \in DOMAIN index /\ (m \in onStack => lowLink[l] <= index[m])
      BY <1>6, <3>1
    <3>2. CASE \E i \in 1 .. d : visits[i].label = l /\ m \in visits[i].left
      <4>1. PICK i \in 1 .. d : visits[i].label = l /\ m \in visits[i].left
        BY <3>2
      <4>2. i \in 1 .. d - 1
        BY <1>3, <4>1
      <4> QED
        BY <4>1, <4>2
    <3>3. l \in onStack
      BY <1>6
    <3> QED
      BY <1>3, <3>1, <3>2, <3>3 DEF TarjanInv, SuccessorsAreHeard
  <2> QED
    BY <1>2, <1>7, <1>9, <2>1, <2>2 DEF SuccessorsAreHeard
<1>19. ComponentsAreClosed'
  <2> SUFFICES ASSUME NEW k \in DOMAIN components'
               PROVE  /\ components'[k] \in StrongComponents(edges)
                      /\ \A l \in components'[k] : \A m \in Targets(edges, l) :
                            \E j \in 1 .. k : m \in components'[j]
    BY <1>2 DEF ComponentsAreClosed
  <2>1. CASE k \in 1 .. Len(components)
    <3>1. \A j \in 1 .. k : j \in 1 .. Len(components)
      BY <1>10, <2>1
    <3>2. /\ components[k] \in StrongComponents(edges)
          /\ \A l \in components[k] : \A m \in Targets(edges, l) : \E j \in 1 .. k : m \in components[j]
      BY <1>10, <2>1 DEF TarjanInv, ComponentsAreClosed
    <3> QED
      BY <1>10, <2>1, <3>1, <3>2
  <2>2. CASE k = Len(components) + 1
    <3>1. /\ Popped \in StrongComponents(edges)
          /\ \A l \in Popped : \A m \in Targets(edges, l) :
                m \in Popped \/ \E j \in DOMAIN components : m \in components[j]
      BY PoppedIsStrong
    <3>2. \A j \in 1 .. Len(components) : j \in 1 .. k
      BY <2>2
    <3>3. k \in 1 .. k
      BY <1>10, <2>2
    <3>4. ASSUME NEW l \in Popped, NEW m \in Targets(edges, l) PROVE \E j \in 1 .. k : m \in components'[j]
      <4>1. CASE m \in Popped
        BY <1>10, <2>2, <3>3, <4>1
      <4>2. CASE \E j \in DOMAIN components : m \in components[j]
        BY <1>10, <3>2, <4>2
      <4> QED
        BY <3>1, <4>1, <4>2
    <3> QED
      BY <1>10, <2>2, <3>1, <3>4
  <2> QED
    BY <1>10, <2>1, <2>2
<1> QED
  BY <1>11, <1>12, <1>13, <1>14, <1>15, <1>16, <1>17, <1>18, <1>19 DEF TarjanInv

-----------------------------------------------------------------------------
\* The invariant is inductive.
LEMMA NextTarjanInv == TarjanInv /\ [TarjanNext]_tarjan_vars => TarjanInv'
<1> SUFFICES ASSUME TarjanInv, [TarjanNext]_tarjan_vars PROVE TarjanInv'
  OBVIOUS
<1>1. CASE UNCHANGED tarjan_vars
  <2>1. Typed' /\ Numbered' /\ Stacked' /\ Accounted'
    BY <1>1 DEF tarjan_vars, TarjanInv, Typed, Numbered, Stacked, Accounted, NumberOf
  <2>2. VisitsReach' /\ LowLinksReach' /\ LowLinksAreHeard'
    BY <1>1 DEF tarjan_vars, TarjanInv, VisitsReach, LowLinksReach, LowLinksAreHeard, NumberOf, Reach
  <2>3. SuccessorsAreHeard' /\ ComponentsAreClosed'
    BY <1>1 DEF tarjan_vars, TarjanInv, SuccessorsAreHeard, ComponentsAreClosed
  <2> QED
    BY <2>1, <2>2, <2>3 DEF TarjanInv
<1> QED
  BY <1>1, VisitNextKeeps, DescendKeeps, LookBackKeeps, ReturnKeeps, CloseKeeps DEF TarjanNext

\* What it says of closed components.
LEMMA ComponentsAreStrong == TarjanInv => ClosedIsStrong
<1> SUFFICES ASSUME TarjanInv, NEW k \in DOMAIN components
             PROVE  /\ components[k] \in StrongComponents(edges)
                    /\ \A e \in edges : e[1] \in components[k] => \E j \in 1 .. k : e[2] \in components[j]
  BY DEF ClosedIsStrong
<1>1. /\ components[k] \in StrongComponents(edges)
      /\ \A l \in components[k] : \A m \in Targets(edges, l) : \E j \in 1 .. k : m \in components[j]
  BY DEF TarjanInv, ComponentsAreClosed
<1>2. k \in 1 .. k
  BY DEF TarjanInv, Typed
<1>3. ASSUME NEW e \in edges, e[1] \in components[k] PROVE \E j \in 1 .. k : e[2] \in components[j]
  <2>1. e[2] # e[1] => e[2] \in Targets(edges, e[1])
    BY DEF Targets
  <2> QED
    BY <1>1, <1>2, <1>3, <2>1
<1> QED
  BY <1>1, <1>3

\* When the search is done, every label is in a component, and every component is one.
LEMMA DoneComponents ==
  ASSUME TarjanInv, Done
  PROVE  /\ Range(components) \subseteq StrongComponents(edges)
         /\ \A l \in Labels(edges) : \E c \in Range(components) : l \in c
<1>1. Range(components) \subseteq StrongComponents(edges)
  BY DEF TarjanInv, ComponentsAreClosed, Range
<1>2. onStack = {}
  BY DEF Done, TarjanInv, Stacked, Range
<1>3. \A l \in Labels(edges) : l \in DOMAIN index
  BY DEF Done, Unvisited, Visited
<1>4. \A l \in Labels(edges) : \E k \in DOMAIN components : l \in components[k]
  BY <1>2, <1>3 DEF TarjanInv, Accounted
<1> QED
  BY <1>1, <1>4 DEF Range

\* An edge within a component is on a cycle, and an edge on a cycle is within one;
\* components share no label, so the edge sets reported share no edge.
LEMMA CyclesAreCyclic == TarjanInv => CyclesAreTheCyclicEdges
<1> SUFFICES ASSUME TarjanInv, Done
             PROVE  /\ UNION ProjectCycles = CyclicEdges(edges)
                    /\ \A c, d \in ProjectCycles : c # d => c \cap d = {}
  BY DEF CyclesAreTheCyclicEdges
<1>1. /\ Range(components) \subseteq StrongComponents(edges)
      /\ \A l \in Labels(edges) : \E c \in Range(components) : l \in c
  BY DoneComponents
<1>2. IsGraph(edges)
  BY ProjectionIsGraph DEF TarjanInv, Typed
<1>3. ASSUME NEW c \in Range(components), NEW e \in EdgesWithin(c) PROVE e \in CyclicEdges(edges)
  <2>1. e \in edges /\ e[1] # e[2] /\ e[1] \in c /\ e[2] \in c
    BY <1>3 DEF EdgesWithin
  <2>2. e[1] \in ReachedFrom(edges, e[2])
    BY <1>1, <1>2, <2>1, ComponentIsStrong
  <2> QED
    BY <2>1, <2>2 DEF CyclicEdges
<1>4. ASSUME NEW e \in CyclicEdges(edges) PROVE \E c \in CyclicComponents : e \in EdgesWithin(c)
  <2>1. e \in edges /\ e[1] # e[2] /\ e[1] \in ReachedFrom(edges, e[2])
    BY DEF CyclicEdges
  <2>2. e[1] \in Labels(edges) /\ e[2] \in Labels(edges) /\ <<e[1], e[2]>> \in edges
    BY <1>2, <2>1 DEF Labels, IsGraph
  <2>3. PICK c \in Range(components) : e[1] \in c
    BY <1>1, <2>2
  <2>4. e[2] \in c
    BY <1>1, <1>2, <2>1, <2>2, <2>3, ComponentIsStrong, EdgeIsReach
  <2>5. Cardinality(c) >= 2
    <3>1. c \subseteq Labels(edges) /\ IsFiniteSet(Labels(edges))
      BY <1>1, <1>2, ComponentIsStrong, GraphWorks
    <3>2. IsFiniteSet(c)
      BY <3>1, FS_Subset
    <3>3. Cardinality({e[1]}) = 1 /\ IsFiniteSet({e[1]})
      BY FS_Singleton
    <3>4. {e[1]} \in SUBSET c /\ {e[1]} # c
      BY <2>1, <2>3, <2>4
    <3>5. Cardinality(c) \in Nat /\ 1 <= Cardinality(c) /\ Cardinality(c) # 1
      BY <3>2, <3>3, <3>4, FS_Subset, FS_CardinalityType
    <3> QED
      BY <3>5
  <2> QED
    BY <2>1, <2>3, <2>4, <2>5 DEF CyclicComponents, EdgesWithin
<1>5. UNION ProjectCycles = CyclicEdges(edges)
  BY <1>3, <1>4 DEF ProjectCycles, CyclicComponents
<1>6. ASSUME NEW c \in Range(components), NEW d \in Range(components), c \cap d # {} PROVE c = d
  <2>1. PICK l \in c : l \in d
    BY <1>6
  <2>2. \A m : m \in c <=> m \in d
    BY <1>1, <1>2, <2>1, ComponentIsStrong
  <2>3. c \subseteq d /\ d \subseteq c
    BY <2>2
  <2> QED
    BY <2>3
<1>7. ASSUME NEW c \in Range(components), NEW d \in Range(components), EdgesWithin(c) # EdgesWithin(d)
      PROVE  EdgesWithin(c) \cap EdgesWithin(d) = {}
  BY <1>6, <1>7 DEF EdgesWithin
<1> QED
  BY <1>5, <1>7 DEF ProjectCycles, CyclicComponents

-----------------------------------------------------------------------------
\* The circuits (Johnson's search).

\* The circuits there are, and those listed so far.
Elementary == ElementaryCircuits(edges)
Listed == Range(circuits) \cup Range(found)

\* What every variable holds.
SearchTyped ==
  /\ limit \in Limits
  /\ todo \subseteq StrongComponents(edges)
  /\ component \in StrongComponents(edges) \cup {{}}
  /\ starts \subseteq component
  /\ scope \subseteq edges
  /\ blocked \subseteq Labels(edges)
  /\ DOMAIN blockedOn \subseteq Labels(edges)
  /\ blockedOn \in [DOMAIN blockedOn -> SUBSET Labels(edges)]
  /\ frames \in Seq([label : Labels(edges), left : SUBSET Labels(edges), closed : BOOLEAN])
  /\ found \in Seq(Elementary)
  /\ circuits \in Seq(Elementary)
  /\ remaining \in Int
  /\ truncated \in BOOLEAN /\ complete \in BOOLEAN /\ handed \in BOOLEAN

\* Where the loops around the search are.
InOrder ==
  /\ component \notin todo
  /\ \A l \in component \ starts, m \in starts : l < m
  /\ component = {} => frames = << >> /\ found = << >>
  /\ ~handed => todo = {} /\ component = {} /\ circuits = << >> /\ complete /\ verdict = "searching"
  /\ verdict # "searching" => todo = {} /\ component = {}

\* The path of the search: edges of the scope, no label twice, all of them blocked.
PathHolds ==
  frames # << >> =>
    /\ start \in component \ starts /\ Path[1] = start
    /\ DOMAIN blockedOn = Labels(scope)
    /\ \A l \in Labels(scope) : start <= l
    /\ IsInjective(Path) /\ Range(Path) \subseteq blocked
    /\ \A i \in DOMAIN frames : frames[i].left \subseteq Targets(scope, Path[i])
    /\ \A i, j \in DOMAIN frames : j = i + 1 => Path[j] \in Targets(scope, Path[i]) \ frames[i].left
    /\ truncated => Here.closed

\* A blocked label off the path leads to blocked ones only, and each of those
\* knows whom to release with it.
DeadEnds ==
  frames # << >> =>
    \A l \in blocked \ Range(Path) : \A m \in Targets(scope, l) :
       m \in blocked /\ m # start /\ l \in blockedOn[m]

\* What an unsuccessful part of the path has walked so far leads nowhere.
WalkedLeadsNowhere ==
  \A i \in DOMAIN frames :
     (\A j \in DOMAIN frames : i <= j => ~frames[j].closed)
     => \A m \in Targets(scope, Path[i]) \ frames[i].left : m \in blocked /\ m # start

\* Only blocked labels have others to release, and none releases a label below it
\* on the path.
ReleasesAreSafe ==
  frames # << >> =>
    /\ \A l \in DOMAIN blockedOn : blockedOn[l] # {} => l \in blocked
    /\ \A i, j \in DOMAIN frames : i < j => Path[i] \notin Released(Path[j])

BlockingInv == PathHolds /\ DeadEnds /\ WalkedLeadsNowhere /\ ReleasesAreSafe

\* A circuit agrees with the path up to one of its labels, and the search has yet
\* to walk (has walked already, and is not walking) the next.
Agrees(c, k) == k \in DOMAIN frames /\ k <= Len(c) /\ \A i \in 1 .. k : c[i] = Path[i]
Pending(c) == \E k \in DOMAIN frames : Agrees(c, k) /\ NextOf(c, k) \in frames[k].left
Behind(c) ==
  \E k \in DOMAIN frames :
     /\ Agrees(c, k) /\ NextOf(c, k) \notin frames[k].left
     /\ \A j \in DOMAIN frames : j = k + 1 => NextOf(c, k) # Path[j]

\* The circuits of a start are within its scope.
ScopeHolds ==
  frames # << >> =>
    \A c \in Elementary : c[1] = start => \A i \in DOMAIN c : <<c[i], NextOf(c, i)>> \in scope

\* Nothing is missed: a circuit is listed, or still ahead.
Ahead(c) == c[1] \in (UNION todo) \cup starts \/ (c[1] = start /\ Pending(c))
NothingMissed ==
  handed /\ complete /\ (truncated => component = {}) => \A c \in Elementary : c \in Listed \/ Ahead(c)

\* Nothing is listed twice: what is listed is not ahead.
NothingTwice ==
  /\ \A c \in Listed : /\ c[1] \notin (UNION todo) \cup starts
                       /\ frames # << >> /\ c[1] = start => Behind(c)
  /\ IsInjective(circuits) /\ IsInjective(found)
  /\ Range(circuits) \cap Range(found) = {}

\* What is left of the limit.
LimitKept ==
  /\ Unlimited => remaining = MaxCircuits
  /\ ~Unlimited => remaining >= 0 /\ remaining + Len(circuits) = MaxCircuits /\ Len(found) <= remaining
  /\ truncated /\ component # {} => ~Unlimited /\ Len(found) = remaining /\ Listed # Elementary
  /\ ~complete => /\ ~Unlimited /\ remaining = 0 /\ Listed # Elementary
                  /\ todo = {} /\ component = {}

ListInv == ScopeHolds /\ NothingMissed /\ NothingTwice /\ LimitKept

\* The invariant in two halves: the blocking is about the search alone, the list
\* about what the search makes of it.
SearchInv == TarjanInv /\ SearchTyped /\ InOrder /\ BlockingInv
Inv == SearchInv /\ ListInv

-----------------------------------------------------------------------------
Call == [label : Labels(edges), left : SUBSET Labels(edges), closed : BOOLEAN]
Height == Len(frames)

\* What the invariant says of the search while it is on its way.
LEMMA GraphsWork ==
  ASSUME edges \in Projections, scope \subseteq edges
  PROVE  /\ IsGraph(edges) /\ IsGraph(scope)
         /\ Labels(edges) \in SUBSET Int /\ IsFiniteSet(Labels(edges))
         /\ \A l : Targets(scope, l) \subseteq Labels(scope)
         /\ \A l : Targets(scope, l) \subseteq Labels(edges)
         /\ \A l, m : m \in Targets(scope, l) <=> <<l, m>> \in scope /\ l # m
<1>1. IsGraph(edges) /\ Labels(edges) \in SUBSET Int /\ IsFiniteSet(Labels(edges))
  BY ProjectionIsGraph
<1>2. IsGraph(scope)
  BY <1>1, FS_Subset DEF IsGraph
<1>3. \A l : Targets(scope, l) \subseteq Labels(scope)
  BY <1>2, GraphWorks
<1>4. Labels(scope) \subseteq Labels(edges)
  BY DEF Labels
<1>5. \A l, m : m \in Targets(scope, l) <=> <<l, m>> \in scope /\ l # m
  BY <1>2, GraphWorks
<1> QED
  BY <1>1, <1>2, <1>3, <1>4, <1>5

\* The innermost call of circuit and the path of labels that leads to it.
LEMMA HereWorks ==
  ASSUME SearchTyped, frames # << >>
  PROVE  /\ frames \in Seq(Call)
         /\ Height \in Nat \ {0} /\ DOMAIN frames = 1 .. Height /\ Height \in 1 .. Height /\ 1 \in 1 .. Height
         /\ Here = frames[Height] /\ frames[Height] \in Call
         /\ DOMAIN Path = 1 .. Height
         /\ \A i \in 1 .. Height : /\ Path[i] = frames[i].label /\ Path[i] \in Labels(edges)
                                   /\ Path[i] \in Range(Path)
         /\ \A l \in Range(Path) : \E i \in 1 .. Height : l = Path[i]
<1>1. frames \in Seq(Call)
  BY DEF SearchTyped, Call
<1>2. Height \in Nat \ {0} /\ DOMAIN frames = 1 .. Height
  BY <1>1 DEF Height
<1>3. Height \in 1 .. Height /\ 1 \in 1 .. Height /\ Here = frames[Height] /\ \A i \in 1 .. Height : frames[i] \in Call
  BY <1>1, <1>2 DEF Here, Height
<1>4. DOMAIN Path = 1 .. Height /\ \A i \in 1 .. Height : Path[i] = frames[i].label
  BY <1>2 DEF Path
<1>5. \A i \in 1 .. Height : Path[i] \in Labels(edges)
  BY <1>3, <1>4 DEF Call
<1> QED
  BY <1>1, <1>2, <1>3, <1>4, <1>5 DEF Range

\* The loop of the innermost call moves on by one successor.
LEMMA AdvancedWorks ==
  ASSUME edges \in Projections, SearchTyped, PathHolds, Walking, NEW closed \in BOOLEAN
  PROVE  /\ Onward \in frames[Height].left /\ Onward \in Targets(scope, Path[Height]) /\ Onward \in Labels(edges)
         /\ Advanced(closed) \in Seq(Call) /\ Advanced(closed) # << >>
         /\ DOMAIN Advanced(closed) = 1 .. Height /\ Len(Advanced(closed)) = Height
         /\ \A i \in 1 .. Height : Advanced(closed)[i].label = frames[i].label
         /\ \A i \in 1 .. Height : i # Height => Advanced(closed)[i] = frames[i]
         /\ Advanced(closed)[Height].left = frames[Height].left \ {Onward}
         /\ Advanced(closed)[Height].closed = closed
<1>0. frames # << >> /\ Here.left # {}
  BY DEF Walking
<1>1. /\ frames \in Seq(Call)
      /\ Height \in Nat \ {0} /\ DOMAIN frames = 1 .. Height /\ Height \in 1 .. Height
      /\ Here = frames[Height] /\ frames[Height] \in Call
      /\ Path[Height] = frames[Height].label
  BY <1>0, HereWorks
<1>2. frames[Height].left \subseteq Targets(scope, Path[Height]) /\ frames[Height].left \subseteq Labels(edges)
  BY <1>0, <1>1 DEF PathHolds, Call
<1>3. Onward \in frames[Height].left
  <2>1. Labels(edges) \in SUBSET Int /\ IsFiniteSet(Labels(edges))
    BY ProjectionIsGraph
  <2>2. Min(frames[Height].left) \in frames[Height].left
    BY <1>0, <1>1, <1>2, <2>1, FS_Subset, MinWorks
  <2> QED
    BY <1>1, <2>2 DEF Onward
<1> DEFINE call == [[frames[Height] EXCEPT !.left = @ \ {Onward}] EXCEPT !.closed = closed]
<1>4. call \in Call /\ call.label = frames[Height].label /\ call.left = frames[Height].left \ {Onward} /\ call.closed = closed
  BY <1>1 DEF Call
<1>5. Advanced(closed) = [frames EXCEPT ![Height] = call]
  <2>1. Advanced(closed) = [[frames EXCEPT ![Height].left = @ \ {Onward}] EXCEPT ![Height].closed = closed]
    BY DEF Advanced, Height
  <2> QED
    BY <1>1, <2>1
<1> HIDE DEF call
<1>6. Advanced(closed) \in Seq(Call) /\ DOMAIN Advanced(closed) = 1 .. Height /\ Len(Advanced(closed)) = Height
  BY <1>1, <1>4, <1>5 DEF Height
<1>7. Advanced(closed)[Height] = call /\ \A i \in 1 .. Height : i # Height => Advanced(closed)[i] = frames[i]
  BY <1>1, <1>5
<1>8. Advanced(closed) # << >>
  BY <1>1, <1>6
<1>9. \A i \in 1 .. Height : Advanced(closed)[i].label = frames[i].label
  BY <1>4, <1>7
<1> QED
  BY <1>2, <1>3, <1>4, <1>6, <1>7, <1>8, <1>9

\* The innermost call returns: its caller alone may change, in whether it closed.
LEMMA ResumeWorks ==
  ASSUME SearchTyped, frames # << >>, NEW closed \in BOOLEAN, Resume(closed)
  PROVE  /\ frames' \in Seq(Call) /\ DOMAIN frames' = 1 .. Height - 1
         /\ \A i \in 1 .. Height - 1 : /\ i \in 1 .. Height /\ i < Height
                                       /\ frames'[i].label = frames[i].label
                                       /\ frames'[i].left = frames[i].left
                                       /\ i # Height - 1 => frames'[i] = frames[i]
         /\ Height = 1 => frames' = << >>
         /\ Height # 1 => /\ frames' # << >> /\ Height - 1 \in 1 .. Height - 1
                          /\ frames'[Height - 1].closed = (frames[Height - 1].closed \/ closed)
<1>1. /\ frames \in Seq(Call)
      /\ Height \in Nat \ {0} /\ DOMAIN frames = 1 .. Height
  BY HereWorks
<1> DEFINE callers == Front(frames)
<1>2. /\ callers \in Seq(Call) /\ DOMAIN callers = 1 .. Height - 1 /\ Len(callers) = Height - 1
      /\ \A i \in 1 .. Height - 1 : callers[i] = frames[i]
  <2>1. callers = SubSeq(frames, 1, Height - 1)
    BY DEF Front, Height
  <2>2. Height - 1 \in 0 .. Len(frames)
    BY <1>1 DEF Height
  <2> QED
    BY <1>1, <2>1, <2>2, SubSeqWorks
<1>3. frames' = IF callers = << >> THEN callers
                ELSE [callers EXCEPT ![Len(callers)].closed = @ \/ closed]
  BY DEF Resume
<1> HIDE DEF callers
<1>4. \A i \in 1 .. Height - 1 : i \in 1 .. Height /\ i < Height
  BY <1>1
<1>5. CASE Height = 1
  <2>1. callers = << >>
    BY <1>2, <1>5
  <2> QED
    BY <1>2, <1>3, <1>5, <2>1
<1>6. CASE Height # 1
  <2> DEFINE call == [callers[Height - 1] EXCEPT !.closed = @ \/ closed]
  <2>1. callers # << >> /\ Height - 1 \in 1 .. Height - 1 /\ callers[Height - 1] \in Call
    BY <1>1, <1>2, <1>6
  <2>2. frames' = [callers EXCEPT ![Height - 1] = call]
    BY <1>2, <1>3, <2>1
  <2>3. /\ call \in Call /\ call.label = callers[Height - 1].label /\ call.left = callers[Height - 1].left
        /\ call.closed = (callers[Height - 1].closed \/ closed)
    BY <2>1 DEF Call
  <2> HIDE DEF call
  <2>4. frames' \in Seq(Call) /\ DOMAIN frames' = 1 .. Height - 1 /\ frames' # << >>
    BY <1>2, <2>1, <2>2, <2>3
  <2>5. frames'[Height - 1] = call /\ \A i \in 1 .. Height - 1 : i # Height - 1 => frames'[i] = callers[i]
    BY <1>2, <2>1, <2>2
  <2> QED
    BY <1>2, <1>4, <1>6, <2>1, <2>3, <2>4, <2>5
<1> QED
  BY <1>5, <1>6

\* A step of the report is a step of the search for components, or leaves it alone.
LEMMA StepsOfTarjan == [Next]_vars => [TarjanNext]_tarjan_vars
BY DEF Next, vars, SearchComponents, HandOver, SearchCircuits

\* Tarjan's invariant holds throughout the call.
LEMMA TarjanAlways == Spec => []TarjanInv
<1>1. Init => TarjanInv
  BY InitTarjanInv DEF Init
<1>2. TarjanInv /\ [Next]_vars => TarjanInv'
  BY NextTarjanInv, StepsOfTarjan
<1> QED
  BY <1>1, <1>2, PTL DEF Spec

\* tarjanSCC (tarjan_scc.go) closes strong components of the whole projection only,
\* and in reverse topological order.
THEOREM ComponentsAreAlwaysStrong == Spec => []ClosedIsStrong
BY TarjanAlways, ComponentsAreStrong, PTL

\* ProjectCycles (project_cycles.go) reports exactly the edges that are part of
\* some cycle, no edge in two of the components it names.
THEOREM CyclesAreAlwaysCyclic == Spec => []CyclesAreTheCyclicEdges
BY TarjanAlways, CyclesAreCyclic, PTL

-----------------------------------------------------------------------------
\* Naturals are compared one way only.
LEMMA NatsCompare ==
  ASSUME NEW m \in Nat, NEW n \in Nat
  PROVE  /\ m < n \/ m = n \/ n < m
         /\ ~(m < n /\ n < m) /\ ~(m < n /\ n = m)
OBVIOUS

\* compareCircuits puts any two different circuits in one order.
LEMMA BeforeIsTotal ==
  ASSUME NEW c \in Seq(Int), NEW d \in Seq(Int)
  PROVE  /\ ~Before(c, c)
         /\ ~(Before(c, d) /\ Before(d, c))
         /\ c = d \/ Before(c, d) \/ Before(d, c)
<1>1. /\ Len(c) \in Nat /\ DOMAIN c = 1 .. Len(c) /\ Len(d) \in Nat /\ DOMAIN d = 1 .. Len(d)
      /\ \A i \in 1 .. Len(c) : c[i] \in Int
      /\ \A i \in 1 .. Len(d) : d[i] \in Int
  OBVIOUS
<1>2. ~Before(c, c)
  BY <1>1 DEF Before
<1>3. ~(Before(c, d) /\ Before(d, c))
  <2> SUFFICES ASSUME Before(c, d), Before(d, c) PROVE FALSE
    OBVIOUS
  <2>0. (Len(c) < Len(d) \/ Len(c) = Len(d)) /\ (Len(d) < Len(c) \/ Len(d) = Len(c))
    BY Zenon DEF Before
  <2>1. Len(c) = Len(d)
    BY <1>1, <2>0, NatsCompare, Zenon
  <2>2. PICK i \in 1 .. Len(c) : c[i] < d[i] /\ \A m \in 1 .. i - 1 : c[m] = d[m]
    BY <1>1, <2>1 DEF Before
  <2>3. PICK j \in 1 .. Len(c) : d[j] < c[j] /\ \A m \in 1 .. j - 1 : d[m] = c[m]
    BY <1>1, <2>1 DEF Before
  <2>4. /\ i < j => i \in 1 .. j - 1
        /\ j < i => j \in 1 .. i - 1
    BY <1>1
  <2>5. i = j
    BY <1>1, <2>1, <2>2, <2>3, <2>4
  <2> QED
    BY <1>1, <2>1, <2>2, <2>3, <2>5
<1>4. ASSUME c # d, ~Before(c, d) PROVE Before(d, c)
  <2>1. CASE Len(c) # Len(d)
    <3>1. Len(d) < Len(c) \/ Len(c) < Len(d)
      BY <1>1, <2>1, NatsCompare, Zenon
    <3> QED
      BY <1>4, <3>1, Zenon DEF Before
  <2>2. CASE Len(c) = Len(d)
    <3> DEFINE Apart == {i \in 1 .. Len(c) : c[i] # d[i]}
    <3>1. Apart # {} /\ Apart \in SUBSET Nat
      BY <1>1, <1>4, <2>2
    <3> HIDE DEF Apart
    <3>2. PICK i \in Apart : \A j \in Apart : i <= j
      BY <3>1, LeastNat
    <3>3. i \in 1 .. Len(c) /\ c[i] # d[i]
      BY <3>2 DEF Apart
    <3>4. \A j \in 1 .. i - 1 : j \in 1 .. Len(c) /\ j \notin Apart
      BY <1>1, <3>1, <3>2, <3>3
    <3>5. \A j \in 1 .. i - 1 : c[j] = d[j] /\ d[j] = c[j]
      BY <3>4 DEF Apart
    <3>6. c[i] < d[i] \/ d[i] < c[i]
      BY <1>1, <2>2, <3>3
    <3>7. ~(c[i] < d[i])
      BY <1>4, <2>2, <3>3, <3>5 DEF Before
    <3> QED
      BY <2>2, <3>3, <3>5, <3>6, <3>7 DEF Before
  <2> QED
    BY <2>1, <2>2
<1> QED
  BY <1>2, <1>3, <1>4

\* And it is transitive.
LEMMA BeforeIsTransitive ==
  ASSUME NEW a \in Seq(Int), NEW b \in Seq(Int), NEW c \in Seq(Int), Before(a, b), Before(b, c)
  PROVE  Before(a, c)
<1>1. /\ Len(a) \in Nat /\ Len(b) \in Nat /\ Len(c) \in Nat
      /\ \A i \in 1 .. Len(a) : a[i] \in Int
      /\ \A i \in 1 .. Len(b) : b[i] \in Int
      /\ \A i \in 1 .. Len(c) : c[i] \in Int
  OBVIOUS
<1>2. CASE Len(a) < Len(c)
  BY <1>2 DEF Before
<1>3. CASE ~(Len(a) < Len(c))
  <2>1. Len(a) = Len(b) /\ Len(b) = Len(c)
    BY <1>1, <1>3 DEF Before
  <2>2. PICK i \in 1 .. Len(a) : a[i] < b[i] /\ \A m \in 1 .. i - 1 : a[m] = b[m]
    BY <1>1, <2>1 DEF Before
  <2>3. PICK j \in 1 .. Len(a) : b[j] < c[j] /\ \A m \in 1 .. j - 1 : b[m] = c[m]
    BY <1>1, <2>1 DEF Before
  <2>4. PICK k \in 1 .. Len(a) : k = Less(i, j)
    BY DEF Less
  <2>5. /\ k <= i /\ k <= j /\ (k = i \/ k = j)
        /\ k < i => k \in 1 .. i - 1
        /\ k < j => k \in 1 .. j - 1
        /\ \A m \in 1 .. k - 1 : m \in 1 .. i - 1 /\ m \in 1 .. j - 1
    BY <1>1, <2>4 DEF Less
  <2>6. a[k] < c[k]
    <3>1. a[k] \in Int /\ b[k] \in Int /\ c[k] \in Int
      BY <1>1, <2>1
    <3>2. a[k] < b[k] \/ a[k] = b[k]
      BY <2>2, <2>5
    <3>3. b[k] < c[k] \/ b[k] = c[k]
      BY <2>3, <2>5
    <3>4. a[k] < b[k] \/ b[k] < c[k]
      BY <2>2, <2>3, <2>5
    <3> QED
      BY <3>1, <3>2, <3>3, <3>4
  <2>7. \A m \in 1 .. k - 1 : a[m] = c[m]
    BY <2>2, <2>3, <2>5
  <2> QED
    BY <2>1, <2>6, <2>7 DEF Before
<1> QED
  BY <1>2, <1>3

\* Sorting only moves the circuits: every one keeps exactly one place.
LEMMA SortedMoves ==
  ASSUME NEW s \in Seq(Seq(Int))
  PROVE  \E p \in Bijection(DOMAIN s, DOMAIN s) : Sorted(s) = [k \in DOMAIN s |-> s[p[k]]]
<1>1. Len(s) \in Nat /\ DOMAIN s = 1 .. Len(s) /\ \A i \in 1 .. Len(s) : s[i] \in Seq(Int)
  OBVIOUS
<1> DEFINE n == Len(s)
           UpTo(i) == {j \in DOMAIN s : Before(s[j], s[i]) \/ (s[j] = s[i] /\ j <= i)}
           place == [i \in 1 .. n |-> Place(s, i)]
<1>2. \A i : UpTo(i) \subseteq 1 .. n /\ Place(s, i) = Cardinality(UpTo(i))
  BY <1>1 DEF Place
<1>3. IsFiniteSet(1 .. n) /\ Cardinality(1 .. n) = n
  <2>1. 1 \in Int /\ n \in Int
    BY <1>1
  <2>2. IsFiniteSet(1 .. n) /\ Cardinality(1 .. n) = IF 1 > n THEN 0 ELSE n - 1 + 1
    BY <2>1, FS_Interval, Zenon
  <2> QED
    BY <1>1, <2>2
<1>4. \A i \in 1 .. n : IsFiniteSet(UpTo(i)) /\ Place(s, i) \in 1 .. n
  <2> SUFFICES ASSUME NEW i \in 1 .. n PROVE IsFiniteSet(UpTo(i)) /\ Place(s, i) \in 1 .. n
    OBVIOUS
  <2>1. IsFiniteSet(UpTo(i)) /\ Cardinality(UpTo(i)) <= n
    BY <1>2, <1>3, FS_Subset
  <2>2. i \in UpTo(i)
    BY <1>1
  <2>3. Cardinality(UpTo(i)) \in Nat /\ Cardinality(UpTo(i)) # 0
    BY <2>1, <2>2, FS_CardinalityType, FS_EmptySet
  <2>4. Cardinality(UpTo(i)) \in 1 .. n
    BY <1>1, <2>1, <2>3
  <2> QED
    BY <1>2, <2>1, <2>4
<1>5. ASSUME NEW i \in 1 .. n, NEW j \in 1 .. n, i # j
      PROVE  /\ i \in UpTo(j) => j \notin UpTo(i)
             /\ i \in UpTo(j) \/ j \in UpTo(i)
             /\ i \in UpTo(j) => UpTo(i) \subseteq UpTo(j)
  <2>1. /\ ~Before(s[i], s[i]) /\ ~(Before(s[i], s[j]) /\ Before(s[j], s[i]))
        /\ s[i] = s[j] \/ Before(s[i], s[j]) \/ Before(s[j], s[i])
    BY <1>1, BeforeIsTotal
  <2>2. i \in UpTo(j) => j \notin UpTo(i)
    BY <1>1, <1>5, <2>1
  <2>3. i \in UpTo(j) \/ j \in UpTo(i)
    BY <1>1, <1>5, <2>1
  <2>4. ASSUME i \in UpTo(j), NEW m \in UpTo(i) PROVE m \in UpTo(j)
    <3>1. m \in 1 .. n /\ s[m] \in Seq(Int) /\ s[i] \in Seq(Int) /\ s[j] \in Seq(Int)
      BY <1>1, <2>4
    <3>2. Before(s[m], s[i]) /\ Before(s[i], s[j]) => Before(s[m], s[j])
      BY <3>1, BeforeIsTransitive
    <3> QED
      BY <1>1, <2>4, <3>1, <3>2
  <2> QED
    BY <2>2, <2>3, <2>4
<1>6. ASSUME NEW i \in 1 .. n, NEW j \in 1 .. n, i \in UpTo(j), i # j
      PROVE  Place(s, i) < Place(s, j)
  <2>1. UpTo(i) \subseteq UpTo(j) /\ j \in UpTo(j) /\ j \notin UpTo(i)
    BY <1>1, <1>5, <1>6
  <2>2. Cardinality(UpTo(i)) <= Cardinality(UpTo(j)) /\ (Cardinality(UpTo(i)) = Cardinality(UpTo(j)) => UpTo(i) = UpTo(j))
    BY <1>4, <2>1, FS_Subset
  <2>3. Cardinality(UpTo(i)) # Cardinality(UpTo(j))
    BY <2>1, <2>2
  <2>4. Place(s, i) = Cardinality(UpTo(i)) /\ Place(s, j) = Cardinality(UpTo(j)) /\ Place(s, i) \in Nat /\ Place(s, j) \in Nat
    <3>1. i \in 1 .. n /\ j \in 1 .. n
      OBVIOUS
    <3>2. \A x \in 1 .. n : x \in Nat
      BY <1>1
    <3> QED
      BY <1>2, <1>4, <3>1, <3>2, Zenon
  <2> HIDE DEF UpTo
  <2> QED
    BY <2>2, <2>3, <2>4
<1> HIDE DEF UpTo
<1>7. \A i, j \in 1 .. n : Place(s, i) = Place(s, j) => i = j
  <2> SUFFICES ASSUME NEW i \in 1 .. n, NEW j \in 1 .. n, i # j PROVE Place(s, i) # Place(s, j)
    OBVIOUS
  <2>1. i \in UpTo(j) \/ j \in UpTo(i)
    BY <1>5
  <2>2. Place(s, i) < Place(s, j) \/ Place(s, j) < Place(s, i)
    BY <1>6, <2>1
  <2>3. Place(s, i) \in Nat /\ Place(s, j) \in Nat
    BY <1>4
  <2> QED
    BY <2>2, <2>3
<1>8. place \in Bijection(1 .. n, 1 .. n)
  <2>1. place \in Injection(1 .. n, 1 .. n)
    BY <1>4, <1>7 DEF Injection, IsInjective
  <2>2. place \in Surjection(1 .. n, 1 .. n)
    BY <1>3, <2>1, FS_Injection
  <2> QED
    BY <2>1, <2>2 DEF Bijection
<1> DEFINE p == [k \in 1 .. n |-> CHOOSE i \in 1 .. n : Place(s, i) = k]
<1>9. \A k \in 1 .. n : p[k] \in 1 .. n /\ Place(s, p[k]) = k
  <2> SUFFICES ASSUME NEW k \in 1 .. n PROVE \E i \in 1 .. n : Place(s, i) = k
    OBVIOUS
  <2> QED
    BY <1>8 DEF Bijection, Surjection
<1>10. \A i \in 1 .. n : p[Place(s, i)] = i
  BY <1>4, <1>7, <1>9
<1>11. p \in Bijection(1 .. n, 1 .. n)
  <2>1. p \in [1 .. n -> 1 .. n]
    BY <1>9
  <2>2. \A k, l \in 1 .. n : p[k] = p[l] => k = l
    BY <1>9
  <2>3. \A i \in 1 .. n : \E k \in 1 .. n : p[k] = i
    BY <1>4, <1>10
  <2> HIDE DEF p
  <2> QED
    BY <2>1, <2>2, <2>3 DEF Bijection, Injection, Surjection, IsInjective
<1>12. Sorted(s) = [k \in DOMAIN s |-> s[p[k]]]
  BY <1>1 DEF Sorted
<1> QED
  BY <1>1, <1>11, <1>12

\* Sorting changes the order of the report, not what is in it.
LEMMA SortedWorks ==
  ASSUME NEW S, S \subseteq Seq(Int), NEW s \in Seq(S)
  PROVE  /\ Sorted(s) \in Seq(S) /\ Len(Sorted(s)) = Len(s)
         /\ Range(Sorted(s)) = Range(s)
         /\ IsInjective(s) => IsInjective(Sorted(s))
<1>1. s \in Seq(Seq(Int)) /\ Len(s) \in Nat /\ DOMAIN s = 1 .. Len(s) /\ \A i \in 1 .. Len(s) : s[i] \in S
  OBVIOUS
<1>2. PICK p \in Bijection(DOMAIN s, DOMAIN s) : Sorted(s) = [k \in DOMAIN s |-> s[p[k]]]
  BY <1>1, SortedMoves
<1>3. /\ \A k \in 1 .. Len(s) : p[k] \in 1 .. Len(s)
      /\ \A k, l \in 1 .. Len(s) : p[k] = p[l] => k = l
      /\ \A i \in 1 .. Len(s) : \E k \in 1 .. Len(s) : p[k] = i
  BY <1>1, <1>2 DEF Bijection, Injection, Surjection, IsInjective
<1>4. DOMAIN Sorted(s) = 1 .. Len(s) /\ \A k \in 1 .. Len(s) : Sorted(s)[k] = s[p[k]]
  BY <1>1, <1>2
<1> DEFINE t == Sorted(s)
<1> HIDE DEF t
<1>5. Sorted(s) \in Seq(S) /\ Len(Sorted(s)) = Len(s)
  <2>1. \A k \in 1 .. Len(s) : s[p[k]] \in S
    BY <1>1, <1>3
  <2>2. t = [k \in 1 .. Len(s) |-> s[p[k]]]
    BY <1>1, <1>2 DEF t
  <2>3. t \in Seq(S) /\ Len(t) = Len(s)
    BY <1>1, <2>1, <2>2
  <2> QED
    BY <2>3 DEF t
<1>6. Range(Sorted(s)) = Range(s)
  <2>1. Range(Sorted(s)) \subseteq Range(s)
    <3> SUFFICES ASSUME NEW k \in 1 .. Len(s) PROVE Sorted(s)[k] \in Range(s)
      BY <1>4, Zenon DEF Range
    <3> QED
      BY <1>1, <1>3, <1>4 DEF Range
  <2>2. Range(s) \subseteq Range(Sorted(s))
    <3> SUFFICES ASSUME NEW i \in 1 .. Len(s) PROVE s[i] \in Range(Sorted(s))
      BY <1>1 DEF Range
    <3>1. PICK k \in 1 .. Len(s) : p[k] = i
      BY <1>3
    <3>2. Sorted(s)[k] = s[i] /\ k \in DOMAIN Sorted(s)
      BY <1>4, <3>1
    <3> QED
      BY <3>2 DEF Range
  <2> QED
    BY <2>1, <2>2
<1>7. IsInjective(s) => IsInjective(Sorted(s))
  <2> SUFFICES ASSUME IsInjective(s), NEW k \in 1 .. Len(s), NEW l \in 1 .. Len(s), Sorted(s)[k] = Sorted(s)[l]
               PROVE  k = l
    BY <1>4, Zenon DEF IsInjective
  <2>1. s[p[k]] = s[p[l]]
    BY <1>4
  <2>2. p[k] \in DOMAIN s /\ p[l] \in DOMAIN s
    BY <1>1, <1>3
  <2>3. p[k] = p[l]
    BY <2>1, <2>2, Zenon DEF IsInjective
  <2> QED
    BY <1>3, <2>3
<1> QED
  BY <1>5, <1>6, <1>7

\* The label after a label of a sequence, around its end.
LEMMA NextMeans ==
  ASSUME NEW n \in Nat, n # 0, NEW c, Len(c) = n
  PROVE  /\ \A i \in 1 .. n : i # n => i + 1 \in 1 .. n /\ NextOf(c, i) = c[i + 1]
         /\ NextOf(c, n) = c[1] /\ n \in 1 .. n /\ 1 \in 1 .. n
<1>1. ASSUME NEW i \in 1 .. n, i # n PROVE i % n = i /\ i + 1 \in 1 .. n
  <2>1. i \in Nat /\ i < n
    BY <1>1
  <2> QED
    BY <2>1
<1>2. n % n = 0 /\ n \in 1 .. n /\ 1 \in 1 .. n
  OBVIOUS
<1> QED
  BY <1>1, <1>2 DEF NextOf

\* A path of different labels from its least label back to it is an elementary circuit.
LEMMA CircuitMeans ==
  ASSUME NEW E, IsGraph(E), NEW c \in Seq(Labels(E)), Len(c) >= 2, IsInjective(c),
         \A i \in 1 .. Len(c) : c[1] <= c[i],
         \A i \in 1 .. Len(c) : i # Len(c) => <<c[i], c[i + 1]>> \in E,
         <<c[Len(c)], c[1]>> \in E
  PROVE  c \in ElementaryCircuits(E)
<1>1. Len(c) \in Nat /\ Len(c) # 0
  OBVIOUS
<1>2. /\ \A i \in 1 .. Len(c) : i # Len(c) => i + 1 \in 1 .. Len(c) /\ NextOf(c, i) = c[i + 1]
      /\ NextOf(c, Len(c)) = c[1]
  BY <1>1, NextMeans
<1>3. \A i \in 1 .. Len(c) : <<c[i], NextOf(c, i)>> \in E
  BY <1>2
<1>4. IsElementaryCircuit(E, c)
  BY <1>3 DEF IsElementaryCircuit, NextOf
<1> QED
  BY <1>4, CircuitsAreElementary

\* Components are apart.
LEMMA ComponentsApart ==
  ASSUME NEW E, IsGraph(E), NEW C \in StrongComponents(E), NEW D \in StrongComponents(E),
         NEW x \in C, x \in D
  PROVE  C = D
<1>1. /\ \A y : y \in C <=> y \in ReachedFrom(E, x) /\ x \in ReachedFrom(E, y)
      /\ \A y : y \in D <=> y \in ReachedFrom(E, x) /\ x \in ReachedFrom(E, y)
  BY ComponentIsStrong
<1> QED
  BY <1>1

\* A component is a set of finitely many comparable labels, never empty.
LEMMA ComponentNumbers ==
  ASSUME edges \in Projections, NEW C \in StrongComponents(edges)
  PROVE  C # {} /\ C \subseteq Labels(edges) /\ C \in SUBSET Int /\ IsFiniteSet(C)
<1>1. IsGraph(edges) /\ Labels(edges) \in SUBSET Int /\ IsFiniteSet(Labels(edges))
  BY ProjectionIsGraph
<1>2. C # {} /\ C \subseteq Labels(edges)
  BY <1>1, ComponentIsStrong
<1> QED
  BY <1>1, <1>2, FS_Subset

\* The component taken next is one of those left to search.
LEMMA NextComponentWorks ==
  ASSUME edges \in Projections, todo \subseteq StrongComponents(edges), NextComponent
  PROVE  component' \in todo /\ component' \in StrongComponents(edges)
<1>1. \A c \in todo : c \in SUBSET Int /\ IsFiniteSet(c) /\ c # {} /\ c \subseteq Labels(edges)
  BY ComponentNumbers
<1>2. Labels(edges) \in SUBSET Int /\ IsFiniteSet(Labels(edges))
  BY ProjectionIsGraph
<1> DEFINE First == {Min(c) : c \in todo}
<1>3. \A c \in todo : Min(c) \in Labels(edges)
  BY <1>1, MinWorks
<1>4. First \subseteq Labels(edges) /\ First # {}
  BY <1>3 DEF NextComponent
<1>5. First \in SUBSET Int /\ IsFiniteSet(First)
  BY <1>2, <1>4, FS_Subset
<1> HIDE DEF First
<1>6. Min(First) \in First /\ \A m \in First : Min(First) <= m
  BY <1>4, <1>5, MinWorks
<1>7. \E c \in todo : \A d \in todo : Min(c) <= Min(d)
  BY <1>6 DEF First
<1>8. component' = CHOOSE c \in todo : \A d \in todo : Min(c) <= Min(d)
  BY DEF NextComponent
<1>9. component' \in todo
  BY <1>7, <1>8
<1> QED
  BY <1>9

\* The path is a circuit whenever it can be closed.
LEMMA EmittedIsCircuit ==
  ASSUME edges \in Projections, SearchTyped, PathHolds, Walking, Onward = start
  PROVE  /\ Path \in Elementary /\ Path \in Seq(Labels(edges)) /\ Len(Path) = Height /\ Path[1] = start
         /\ \A i \in 1 .. Height : i # Height => i + 1 \in 1 .. Height /\ NextOf(Path, i) = Path[i + 1]
         /\ NextOf(Path, Height) = start
<1>0. frames # << >> /\ scope \subseteq edges
  BY DEF Walking, SearchTyped
<1>1. /\ Height \in Nat \ {0} /\ DOMAIN frames = 1 .. Height /\ Height \in 1 .. Height /\ 1 \in 1 .. Height
      /\ DOMAIN Path = 1 .. Height
      /\ \A i \in 1 .. Height : Path[i] \in Labels(edges)
  BY <1>0, HereWorks
<1>2. /\ IsGraph(edges) /\ \A l : Targets(scope, l) \subseteq Labels(scope)
      /\ \A l, m : m \in Targets(scope, l) <=> <<l, m>> \in scope /\ l # m
  BY <1>0, GraphsWork
<1>3. Onward \in Targets(scope, Path[Height])
  BY AdvancedWorks, TRUE \in BOOLEAN
<1>4. /\ Path[1] = start /\ IsInjective(Path)
      /\ \A l \in Labels(scope) : start <= l
      /\ \A i, j \in DOMAIN frames : j = i + 1 => Path[j] \in Targets(scope, Path[i]) \ frames[i].left
  BY <1>0 DEF PathHolds
<1>5. Path \in Seq(Labels(edges)) /\ Len(Path) = Height
  <2>1. Path = [i \in 1 .. Height |-> Path[i]]
    BY <1>1 DEF Path
  <2> QED
    BY <1>1, <2>1
<1>6. \A i \in 1 .. Height : i # Height => i + 1 \in 1 .. Height /\ NextOf(Path, i) = Path[i + 1]
  BY <1>1, <1>5, NextMeans
<1>7. NextOf(Path, Height) = start
  BY <1>1, <1>4, <1>5, NextMeans
<1>8. \A i \in 1 .. Height : i # Height => Path[i + 1] \in Targets(scope, Path[i])
  <2> SUFFICES ASSUME NEW i \in 1 .. Height, i # Height PROVE Path[i + 1] \in Targets(scope, Path[i])
    OBVIOUS
  <2>1. i + 1 \in 1 .. Height
    BY <1>6
  <2> QED
    BY <1>1, <1>4, <2>1
<1>9. Height >= 2
  <2>1. Path[Height] # start
    BY <1>2, <1>3
  <2>2. Height # 1
    BY <1>4, <2>1
  <2> QED
    BY <1>1, <2>2
<1>10. \A i \in 1 .. Height : Path[1] <= Path[i]
  <2> SUFFICES ASSUME NEW i \in 1 .. Height PROVE start <= Path[i]
    BY <1>4
  <2>1. CASE i = 1
    <3>1. start \in Labels(edges) /\ Labels(edges) \in SUBSET Int
      BY <1>0, <1>1, <1>4, GraphsWork
    <3>2. start <= start
      BY <3>1
    <3> QED
      BY <1>4, <2>1, <3>2
  <2>2. CASE i # 1
    <3>1. i - 1 \in 1 .. Height /\ i - 1 # Height /\ (i - 1) + 1 = i
      BY <1>1, <2>2
    <3>2. Path[i] \in Labels(scope)
      BY <1>2, <1>8, <3>1
    <3> QED
      BY <1>4, <3>2
  <2> QED
    BY <2>1, <2>2
<1>11. /\ \A i \in 1 .. Height : i # Height => <<Path[i], Path[i + 1]>> \in edges
       /\ <<Path[Height], Path[1]>> \in edges
  BY <1>0, <1>2, <1>3, <1>4, <1>8
<1>12. Path \in Elementary
  BY <1>2, <1>4, <1>5, <1>9, <1>10, <1>11, CircuitMeans DEF Elementary
<1> QED
  BY <1>4, <1>5, <1>6, <1>7, <1>12

\* The steps of circuit itself, and what none of them touches.
CircuitStep == Emit \/ Deepen \/ SkipBlocked \/ LeaveClosed \/ LeaveBlocked

\* The steps of circuit leave everything around the search alone.
LEMMA StepsOfCircuit ==
  ASSUME CircuitStep
  PROVE  /\ frames # << >>
         /\ UNCHANGED <<limit, todo, component, starts, start, scope, remaining, complete, circuits, verdict>>
<1>1. CASE Emit
  BY <1>1 DEF Emit, Walking
<1>2. CASE Deepen
  BY <1>2 DEF Deepen, Walking
<1>3. CASE SkipBlocked
  BY <1>3 DEF SkipBlocked, Walking
<1>4. CASE LeaveClosed
  BY <1>4 DEF LeaveClosed, Exhausted
<1>5. CASE LeaveBlocked
  BY <1>5 DEF LeaveBlocked, Exhausted
<1> QED
  BY <1>1, <1>2, <1>3, <1>4, <1>5 DEF CircuitStep

\* What the step into a start makes of the search.
LEMMA StartWorks ==
  ASSUME edges \in Projections, SearchTyped, StartAt
  PROVE  /\ start' = Min(starts) /\ start' \in starts /\ start' \in Int
         /\ starts' = starts \ {start'} /\ \A m \in starts : start' <= m
         /\ scope' = Induced(edges, StrongComponentOf(edges, starts, start'))
         /\ scope' \subseteq edges
         /\ starts \in SUBSET Int /\ starts \subseteq Labels(edges) /\ component # {}
         /\ \/ /\ Cardinality(StrongComponentOf(edges, starts, start')) < 2
               /\ frames' = << >> /\ UNCHANGED <<blocked, blockedOn>>
            \/ /\ frames' = <<[label |-> start', left |-> Targets(scope', start'), closed |-> FALSE]>>
               /\ blocked' = {start'}
               /\ blockedOn' = [l \in Labels(scope') |-> {}]
<1>1. component \in StrongComponents(edges) /\ component # {}
  BY DEF SearchTyped, StartAt
<1>2. starts \in SUBSET Int /\ IsFiniteSet(starts) /\ starts # {} /\ starts \subseteq Labels(edges)
  <2>1. starts \subseteq component /\ starts # {}
    BY DEF SearchTyped, StartAt
  <2> QED
    BY <1>1, <2>1, ComponentNumbers, FS_Subset
<1>3. Min(starts) \in starts /\ \A m \in starts : Min(starts) <= m
  BY <1>2, MinWorks
<1>4. /\ start' = Min(starts) /\ starts' = starts \ {start'}
      /\ scope' = Induced(edges, StrongComponentOf(edges, starts, start'))
  BY DEF StartAt
<1>5. scope' \subseteq edges
  BY <1>4 DEF Induced
<1>6. \/ /\ Cardinality(StrongComponentOf(edges, starts, start')) < 2
         /\ frames' = << >> /\ UNCHANGED <<blocked, blockedOn>>
      \/ /\ frames' = <<[label |-> start', left |-> Targets(scope', start'), closed |-> FALSE]>>
         /\ blocked' = {start'}
         /\ blockedOn' = [l \in Labels(scope') |-> {}]
  <2>1. CASE Cardinality(StrongComponentOf(edges, starts, start')) < 2
    BY <1>4, <2>1 DEF StartAt
  <2>2. CASE ~(Cardinality(StrongComponentOf(edges, starts, start')) < 2)
    <3>1. Join(start', << >>, scope') /\ blockedOn' = [l \in Labels(scope') |-> {}]
      BY <1>4, <2>2 DEF StartAt
    <3>2. Append(<< >>, [label |-> start', left |-> Targets(scope', start'), closed |-> FALSE])
            = <<[label |-> start', left |-> Targets(scope', start'), closed |-> FALSE]>>
      OBVIOUS
    <3> QED
      BY <3>1, <3>2 DEF Join
  <2> QED
    BY <2>1, <2>2
<1> QED
  BY <1>1, <1>2, <1>3, <1>4, <1>5, <1>6

\* The loops around the search go on in their order.
LEMMA OrderKept ==
  ASSUME edges \in Projections, SearchTyped, InOrder, handed, JohnsonNext, UNCHANGED <<edges, handed>>
  PROVE  InOrder'
<1>0. \A c \in todo : c # {}
  BY ComponentNumbers DEF SearchTyped
<1>1. CASE CircuitStep
  <2>1. frames # << >> /\ UNCHANGED <<todo, component, starts, complete, circuits, verdict>>
    BY <1>1, StepsOfCircuit
  <2>2. component # {}
    BY <2>1 DEF InOrder
  <2> QED
    BY <2>1, <2>2 DEF InOrder
<1>2. CASE NextComponent
  <2>1. component' \in todo
    BY <1>2, NextComponentWorks DEF SearchTyped
  <2>2. component' # {}
    BY <1>0, <2>1
  <2> QED
    BY <1>2, <2>1, <2>2 DEF NextComponent, InOrder
<1>3. CASE StartAt
  <2>1. /\ starts' = starts \ {start'} /\ \A m \in starts : start' <= m
        /\ starts \in SUBSET Int /\ start' \in Int /\ component # {}
    BY <1>3, StartWorks
  <2>2. \A l \in component \ starts', m \in starts' : l < m
    <3> SUFFICES ASSUME NEW l \in component \ starts', NEW m \in starts' PROVE l < m
      OBVIOUS
    <3>1. m \in starts /\ m # start' /\ start' <= m /\ m \in Int
      BY <2>1
    <3>2. l \in component \ starts \/ l = start'
      BY <2>1
    <3> QED
      BY <2>1, <3>1, <3>2 DEF InOrder
  <2>3. UNCHANGED <<component, todo, found, verdict>>
    BY <1>3 DEF StartAt
  <2> QED
    BY <2>1, <2>2, <2>3 DEF InOrder
<1>4. CASE EndComponent
  BY <1>0, <1>4 DEF EndComponent, InOrder
<1>5. CASE Finish
  BY <1>5 DEF Finish, InOrder, search
<1> QED
  BY <1>1, <1>2, <1>3, <1>4, <1>5 DEF JohnsonNext, CircuitStep

\* Every variable of the search keeps its type; what is found is a circuit.
LEMMA TypedKept ==
  ASSUME edges \in Projections, SearchTyped, InOrder, PathHolds, JohnsonNext, UNCHANGED <<edges, handed>>
  PROVE  SearchTyped'
<1>0. Elementary' = Elementary /\ edges' = edges /\ handed' = handed
  BY DEF Elementary
<1>g. /\ IsGraph(edges) /\ IsGraph(scope) /\ \A l : Targets(scope, l) \subseteq Labels(edges)
      /\ Labels(edges) \in SUBSET Int
  BY GraphsWork DEF SearchTyped
<1>1. CASE CircuitStep
  <2>1. frames # << >> /\ UNCHANGED <<limit, todo, component, starts, start, scope, remaining, complete, circuits, verdict>>
    BY <1>1, StepsOfCircuit
  <2>2. /\ frames' \in Seq(Call) /\ blocked' \subseteq Labels(edges) /\ found' \in Seq(Elementary)
        /\ truncated' \in BOOLEAN
        /\ DOMAIN blockedOn' = DOMAIN blockedOn /\ blockedOn' \in [DOMAIN blockedOn -> SUBSET Labels(edges)]
    <3>1. CASE Emit
      <4>1. Path \in Elementary
        BY <3>1, EmittedIsCircuit DEF Emit
      <4>2. frames' \in Seq(Call)
        BY <3>1, AdvancedWorks DEF Emit
      <4>3. found' \in Seq(Elementary) /\ truncated' \in BOOLEAN
        <5>1. Append(found, Path) \in Seq(Elementary)
          BY <4>1 DEF SearchTyped
        <5> QED
          BY <3>1, <5>1 DEF Emit, SearchTyped
      <4> QED
        BY <3>1, <4>2, <4>3 DEF Emit, SearchTyped
    <3>2. CASE Deepen
      <4>1. Here.closed \in BOOLEAN
        BY <2>1, HereWorks DEF Call
      <4>2. Onward \in Labels(edges) /\ Advanced(Here.closed) \in Seq(Call) /\ Advanced(Here.closed) # << >>
        BY <3>2, <4>1, AdvancedWorks DEF Deepen
      <4> DEFINE call == [label |-> Onward, left |-> Targets(scope, Onward), closed |-> FALSE]
      <4>3. call \in Call
        BY <1>g, <4>2 DEF Call
      <4>4. frames' = Append(Advanced(Here.closed), call) /\ blocked' = blocked \cup {Onward}
        BY <3>2, <4>2 DEF Deepen, Join
      <4> HIDE DEF call
      <4>5. frames' \in Seq(Call)
        BY <4>2, <4>3, <4>4
      <4>6. blocked' \subseteq Labels(edges)
        BY <4>2, <4>4 DEF SearchTyped
      <4> QED
        BY <3>2, <4>5, <4>6 DEF Deepen, SearchTyped
    <3>3. CASE SkipBlocked
      <4>1. Here.closed \in BOOLEAN
        BY <2>1, HereWorks DEF Call
      <4>2. frames' \in Seq(Call)
        BY <3>3, <4>1, AdvancedWorks DEF SkipBlocked
      <4> QED
        BY <3>3, <4>2 DEF SkipBlocked, SearchTyped
    <3>4. CASE LeaveClosed
      <4>1. frames' \in Seq(Call)
        BY <2>1, <3>4, ResumeWorks DEF LeaveClosed
      <4>2. blocked' \subseteq Labels(edges)
        BY <3>4 DEF LeaveClosed, SearchTyped
      <4>3. DOMAIN blockedOn' = DOMAIN blockedOn /\ blockedOn' \in [DOMAIN blockedOn -> SUBSET Labels(edges)]
        BY <3>4 DEF LeaveClosed, SearchTyped
      <4> QED
        BY <3>4, <4>1, <4>2, <4>3 DEF LeaveClosed, SearchTyped
    <3>5. CASE LeaveBlocked
      <4>1. frames' \in Seq(Call)
        BY <2>1, <3>5, ResumeWorks DEF LeaveBlocked
      <4>2. Here.label \in Labels(edges)
        BY <2>1, HereWorks DEF Call
      <4>3. DOMAIN blockedOn' = DOMAIN blockedOn /\ blockedOn' \in [DOMAIN blockedOn -> SUBSET Labels(edges)]
        BY <3>5, <4>2 DEF LeaveBlocked, SearchTyped
      <4> QED
        BY <3>5, <4>1, <4>3 DEF LeaveBlocked, SearchTyped
    <3> QED
      BY <1>1, <3>1, <3>2, <3>3, <3>4, <3>5 DEF CircuitStep
  <2> QED
    BY <1>0, <2>1, <2>2 DEF SearchTyped, Call
<1>2. CASE NextComponent
  <2>1. component' \in StrongComponents(edges)
    BY <1>2, NextComponentWorks DEF SearchTyped
  <2>2. << >> \in Seq(Elementary)
    OBVIOUS
  <2> QED
    BY <1>0, <1>2, <2>1, <2>2 DEF NextComponent, SearchTyped
<1>3. CASE StartAt
  <2>1. /\ starts' = starts \ {start'} /\ scope' \subseteq edges /\ start' \in Labels(edges)
        /\ \/ frames' = << >> /\ UNCHANGED <<blocked, blockedOn>>
           \/ /\ frames' = <<[label |-> start', left |-> Targets(scope', start'), closed |-> FALSE]>>
              /\ blocked' = {start'}
              /\ blockedOn' = [l \in Labels(scope') |-> {}]
    BY <1>3, StartWorks
  <2>2. UNCHANGED <<limit, todo, component, found, truncated, remaining, complete, circuits, verdict>>
    BY <1>3 DEF StartAt
  <2>3. starts' \subseteq component'
    BY <2>1, <2>2 DEF SearchTyped
  <2>4. /\ frames' \in Seq(Call) /\ blocked' \subseteq Labels(edges)
        /\ DOMAIN blockedOn' \subseteq Labels(edges) /\ blockedOn' \in [DOMAIN blockedOn' -> SUBSET Labels(edges)]
    <3>1. CASE frames' = << >> /\ UNCHANGED <<blocked, blockedOn>>
      BY <3>1 DEF SearchTyped
    <3>2. CASE /\ frames' = <<[label |-> start', left |-> Targets(scope', start'), closed |-> FALSE]>>
               /\ blocked' = {start'}
               /\ blockedOn' = [l \in Labels(scope') |-> {}]
      <4>1. Labels(scope') \subseteq Labels(edges)
        BY <2>1 DEF Labels
      <4>2. Targets(scope', start') \subseteq Labels(edges)
        BY <2>1 DEF Targets, Labels
      <4>3. [label |-> start', left |-> Targets(scope', start'), closed |-> FALSE] \in Call
        BY <2>1, <4>2 DEF Call
      <4>4. frames' \in Seq(Call)
        BY <3>2, <4>3
      <4> QED
        BY <2>1, <3>2, <4>1, <4>4
    <3> QED
      BY <2>1, <3>1, <3>2
  <2> QED
    BY <1>0, <2>1, <2>2, <2>3, <2>4 DEF SearchTyped, Call
<1>4. CASE EndComponent
  <2>1. circuits \o found \in Seq(Elementary) /\ << >> \in Seq(Elementary)
    BY DEF SearchTyped
  <2>2. remaining - Len(found) \in Int
    BY DEF SearchTyped
  <2>3. /\ limit' \in Limits /\ todo' \subseteq StrongComponents(edges) /\ component' = {} /\ starts' = {}
        /\ UNCHANGED <<scope, blocked, blockedOn, frames, truncated>>
        /\ found' = << >> /\ circuits' = circuits \o found
        /\ remaining' \in {remaining, remaining - Len(found)} /\ complete' \in BOOLEAN
    BY <1>4 DEF EndComponent, SearchTyped
  <2> QED
    BY <1>0, <2>1, <2>2, <2>3 DEF SearchTyped
<1>5. CASE Finish
  <2>1. Elementary \subseteq Seq(Int)
    <3> SUFFICES ASSUME NEW c \in Elementary PROVE c \in Seq(Int)
      OBVIOUS
    <3>1. c \in Seq(Labels(edges))
      BY <1>g, CircuitWorks DEF Elementary
    <3> QED
      BY <1>g, <3>1
  <2>2. Sorted(circuits) \in Seq(Elementary)
    BY <2>1, SortedWorks DEF SearchTyped
  <2> QED
    BY <1>0, <1>5, <2>2 DEF Finish, SearchTyped, search
<1> QED
  BY <1>1, <1>2, <1>3, <1>4, <1>5 DEF JohnsonNext, CircuitStep

WaitsOn(b, on) == {w \in (DOMAIN on) \X b : w[2] \in on[w[1]]}

\* Releases follow a graph: who is to be released with whom.
LEMMA WaitsWork ==
  ASSUME NEW L \in SUBSET Int, IsFiniteSet(L), NEW b, b \subseteq L, NEW on, DOMAIN on \subseteq L
  PROVE  /\ IsGraph(WaitsOn(b, on))
         /\ \A l, m : m \in Targets(WaitsOn(b, on), l) <=> l \in DOMAIN on /\ m \in b /\ m \in on[l] /\ l # m
<1>1. WaitsOn(b, on) \subseteq L \X L
  BY DEF WaitsOn
<1>2. IsFiniteSet(WaitsOn(b, on))
  BY <1>1, FS_Product, FS_Subset
<1>3. IsGraph(WaitsOn(b, on))
  BY <1>1, <1>2 DEF IsGraph
<1>4. \A l, m : <<l, m>> \in WaitsOn(b, on) <=> l \in DOMAIN on /\ m \in b /\ m \in on[l]
  BY DEF WaitsOn
<1> QED
  BY <1>3, <1>4, GraphWorks

\* What is released with a label, before and after a step.
LEMMA ReleasesWork ==
  ASSUME edges \in Projections, SearchTyped
  PROVE  /\ IsGraph(WaitsOn(blocked, blockedOn))
         /\ \A l, m : m \in Targets(WaitsOn(blocked, blockedOn), l)
                        <=> l \in DOMAIN blockedOn /\ m \in blocked /\ m \in blockedOn[l] /\ l # m
         /\ \A x : /\ Released(x) = ReachedFrom(WaitsOn(blocked, blockedOn), x)
                   /\ x \in Released(x)
                   /\ \A l \in Released(x) : \A m : m \in blocked /\ l \in DOMAIN blockedOn /\ m \in blockedOn[l]
                                                     => m \in Released(x)
<1>1. Labels(edges) \in SUBSET Int /\ IsFiniteSet(Labels(edges))
  BY ProjectionIsGraph
<1>2. /\ IsGraph(WaitsOn(blocked, blockedOn))
      /\ \A l, m : m \in Targets(WaitsOn(blocked, blockedOn), l)
                     <=> l \in DOMAIN blockedOn /\ m \in blocked /\ m \in blockedOn[l] /\ l # m
  BY <1>1, WaitsWork DEF SearchTyped
<1>3. \A x : Released(x) = ReachedFrom(WaitsOn(blocked, blockedOn), x)
  BY DEF Released, Waiting, WaitsOn
<1>4. \A x : /\ x \in Released(x)
             /\ \A l \in Released(x) : Targets(WaitsOn(blocked, blockedOn), l) \subseteq Released(x)
  BY <1>2, <1>3, ReachIsClosed
<1>5. ASSUME NEW x, NEW l \in Released(x), NEW m, m \in blocked, l \in DOMAIN blockedOn, m \in blockedOn[l]
      PROVE  m \in Released(x)
  <2>1. CASE l = m
    BY <1>5, <2>1
  <2>2. CASE l # m
    BY <1>2, <1>4, <1>5, <2>2
  <2> QED
    BY <2>1, <2>2
<1> QED
  BY <1>2, <1>3, <1>4, <1>5

\* The same in the next state.
LEMMA ReleasesWorkNext ==
  ASSUME edges' \in Projections, SearchTyped'
  PROVE  /\ IsGraph(WaitsOn(blocked', blockedOn'))
         /\ \A l, m : m \in Targets(WaitsOn(blocked', blockedOn'), l)
                        <=> l \in DOMAIN blockedOn' /\ m \in blocked' /\ m \in blockedOn'[l] /\ l # m
<1>1. Labels(edges') \in SUBSET Int /\ IsFiniteSet(Labels(edges'))
  BY ProjectionsAssumption, GraphWorks DEF IsGraph
<1> QED
  BY <1>1, WaitsWork DEF SearchTyped

\* Without a call there is nothing to say of the path.
LEMMA NoCallHolds == frames = << >> => BlockingInv /\ ScopeHolds
BY DEF BlockingInv, PathHolds, DeadEnds, WalkedLeadsNowhere, ReleasesAreSafe, ScopeHolds

\* The same in the next state.
LEMMA NoCallHoldsNext == ASSUME frames' = << >> PROVE BlockingInv' /\ ScopeHolds'
BY DEF BlockingInv, PathHolds, DeadEnds, WalkedLeadsNowhere, ReleasesAreSafe, ScopeHolds

\* A step along the top of the path, the path itself left alone.
LEMMA AdvanceEffects ==
  ASSUME edges \in Projections, SearchTyped, PathHolds, Walking, NEW closed \in BOOLEAN, frames' = Advanced(closed)
  PROVE  /\ frames' # << >> /\ DOMAIN frames' = 1 .. Height /\ Path' = Path /\ Here' = frames'[Height]
         /\ DOMAIN Path = 1 .. Height /\ Height \in Nat \ {0} /\ Height \in 1 .. Height
         /\ \A i \in 1 .. Height : i # Height => frames'[i] = frames[i]
         /\ frames'[Height].left = frames[Height].left \ {Onward}
         /\ frames'[Height].closed = closed
<1>1. frames # << >>
  BY DEF Walking
<1>2. DOMAIN Path = 1 .. Height /\ Height \in Nat \ {0} /\ Height \in 1 .. Height /\ DOMAIN frames = 1 .. Height
  BY <1>1, HereWorks
<1>3. /\ frames' # << >> /\ DOMAIN frames' = 1 .. Height /\ Len(frames') = Height
      /\ \A i \in 1 .. Height : frames'[i].label = frames[i].label
      /\ \A i \in 1 .. Height : i # Height => frames'[i] = frames[i]
      /\ frames'[Height].left = frames[Height].left \ {Onward}
      /\ frames'[Height].closed = closed
  BY AdvancedWorks
<1>4. Path' = Path
  BY <1>2, <1>3 DEF Path
<1>5. Here' = frames'[Height]
  BY <1>3 DEF Here
<1> QED
  BY <1>2, <1>3, <1>4, <1>5

\* A circuit emitted or a blocked label skipped changes nothing the blocking knows.
LEMMA BlockingKeptBySteps ==
  ASSUME edges \in Projections, SearchTyped, BlockingInv, Emit \/ SkipBlocked
  PROVE  BlockingInv'
<1>0. Walking /\ frames # << >> /\ PathHolds
  BY DEF Emit, SkipBlocked, Walking, BlockingInv
<1>1. PICK closed \in BOOLEAN : frames' = Advanced(closed) /\ (Emit => closed) /\ (SkipBlocked => closed = Here.closed)
  <2>1. Here.closed \in BOOLEAN
    BY <1>0, HereWorks DEF Call
  <2>2. CASE Emit
    <3>1. ~SkipBlocked
      BY <2>2 DEF Emit, SkipBlocked
    <3> QED
      BY <2>2, <3>1 DEF Emit
  <2>3. CASE SkipBlocked
    <3>1. ~Emit
      BY <2>3 DEF Emit, SkipBlocked
    <3> QED
      BY <2>1, <2>3, <3>1 DEF SkipBlocked
  <2> QED
    BY <2>2, <2>3
<1>2. /\ frames' # << >> /\ DOMAIN frames' = 1 .. Height /\ Path' = Path /\ Here' = frames'[Height]
      /\ Height \in Nat \ {0} /\ Height \in 1 .. Height
      /\ \A i \in 1 .. Height : i # Height => frames'[i] = frames[i]
      /\ frames'[Height].left = frames[Height].left \ {Onward}
      /\ frames'[Height].closed = closed
  BY <1>0, <1>1, AdvanceEffects
<1>3. DOMAIN frames = 1 .. Height /\ Here = frames[Height]
  BY <1>0, HereWorks
<1>4. UNCHANGED <<component, starts, start, scope, blocked, blockedOn>> /\ (SkipBlocked => UNCHANGED truncated)
  BY DEF Emit, SkipBlocked
<1>5. PathHolds'
  <2>1. \A i \in 1 .. Height : frames'[i].left \subseteq frames[i].left
    BY <1>2
  <2>2. truncated' => Here'.closed
    BY <1>0, <1>1, <1>2, <1>4 DEF Emit, SkipBlocked, Walking
  <2> QED
    BY <1>0, <1>2, <1>3, <1>4, <2>1, <2>2 DEF PathHolds
<1>6. DeadEnds'
  BY <1>0, <1>2, <1>4 DEF DeadEnds, BlockingInv
<1>7. WalkedLeadsNowhere'
  <2> SUFFICES ASSUME NEW i \in 1 .. Height, \A j \in 1 .. Height : i <= j => ~frames'[j].closed,
                      NEW m \in Targets(scope, Path[i]) \ frames'[i].left
               PROVE  m \in blocked /\ m # start
    BY <1>2, <1>4 DEF WalkedLeadsNowhere
  <2>1. ~Emit /\ SkipBlocked
    BY <1>1, <1>2
  <2>2. \A j \in 1 .. Height : frames'[j].closed = frames[j].closed
    BY <1>1, <1>2, <1>3, <2>1
  <2>3. m \notin frames[i].left \/ m = Onward
    BY <1>2
  <2>4. CASE m = Onward
    BY <2>1, <2>4 DEF SkipBlocked
  <2>5. CASE m \notin frames[i].left
    BY <1>3, <2>2, <2>5 DEF WalkedLeadsNowhere, BlockingInv
  <2> QED
    BY <2>3, <2>4, <2>5
<1>8. ReleasesAreSafe'
  BY <1>0, <1>2, <1>3, <1>4 DEF ReleasesAreSafe, BlockingInv, Released, Waiting
<1> QED
  BY <1>5, <1>6, <1>7, <1>8 DEF BlockingInv

\* What going deeper changes.
LEMMA DeepenEffects ==
  ASSUME edges \in Projections, SearchTyped, PathHolds, Deepen
  PROVE  /\ frames # << >> /\ Height \in Nat \ {0} /\ Height \in 1 .. Height /\ DOMAIN frames = 1 .. Height
         /\ DOMAIN frames' = 1 .. Height + 1 /\ frames' # << >>
         /\ DOMAIN Path = 1 .. Height /\ DOMAIN Path' = 1 .. Height + 1
         /\ \A i \in 1 .. Height + 1 : i \in 1 .. Height \/ i = Height + 1
         /\ \A i \in 1 .. Height : i \in 1 .. Height + 1 /\ Path'[i] = Path[i] /\ frames'[i].closed = frames[i].closed
         /\ Path'[Height + 1] = Onward
         /\ \A i \in 1 .. Height : i # Height => frames'[i].left = frames[i].left
         /\ frames'[Height].left = frames[Height].left \ {Onward}
         /\ frames'[Height + 1].left = Targets(scope, Onward) /\ frames'[Height + 1].closed = FALSE
         /\ blocked' = blocked \cup {Onward} /\ Range(Path') = Range(Path) \cup {Onward}
         /\ Onward \in frames[Height].left /\ Onward \in Targets(scope, Path[Height]) /\ Onward \in Labels(edges)
         /\ Onward # start /\ Onward \notin blocked
<1>0. Walking /\ frames # << >> /\ Onward # start /\ Onward \notin blocked
  BY DEF Deepen, Walking
<1>1. /\ DOMAIN Path = 1 .. Height /\ Height \in Nat \ {0} /\ Height \in 1 .. Height /\ DOMAIN frames = 1 .. Height
      /\ Here = frames[Height] /\ Here.closed \in BOOLEAN
      /\ \A i \in 1 .. Height : Path[i] = frames[i].label
  BY <1>0, HereWorks DEF Call
<1> DEFINE calls == Advanced(Here.closed)
           call == [label |-> Onward, left |-> Targets(scope, Onward), closed |-> FALSE]
<1>2. /\ Onward \in frames[Height].left /\ Onward \in Targets(scope, Path[Height]) /\ Onward \in Labels(edges)
      /\ calls \in Seq(Call) /\ calls # << >> /\ DOMAIN calls = 1 .. Height /\ Len(calls) = Height
      /\ \A i \in 1 .. Height : calls[i].label = frames[i].label
      /\ \A i \in 1 .. Height : i # Height => calls[i] = frames[i]
      /\ calls[Height].left = frames[Height].left \ {Onward}
      /\ calls[Height].closed = Here.closed
  BY <1>0, <1>1, AdvancedWorks
<1>3. call \in Call /\ call.label = Onward /\ call.left = Targets(scope, Onward) /\ call.closed = FALSE
  <2>1. Targets(scope, Onward) \subseteq Labels(edges)
    BY GraphsWork DEF SearchTyped
  <2> QED
    BY <1>2, <2>1 DEF Call
<1>4. frames' = Append(calls, call) /\ blocked' = blocked \cup {Onward}
  BY <1>2 DEF Deepen, Join
<1> HIDE DEF calls, call
<1>5. /\ DOMAIN frames' = 1 .. Height + 1 /\ frames'[Height + 1] = call
      /\ \A i \in 1 .. Height : frames'[i] = calls[i]
  BY <1>2, <1>3, <1>4, AppendWorks
<1>6. frames' # << >>
  BY <1>1, <1>5
<1>7. /\ \A i \in 1 .. Height + 1 : i \in 1 .. Height \/ i = Height + 1
      /\ \A i \in 1 .. Height : i \in 1 .. Height + 1
      /\ Height + 1 \in 1 .. Height + 1
  BY <1>1
<1>8. /\ DOMAIN Path' = 1 .. Height + 1 /\ Path'[Height + 1] = Onward
      /\ \A i \in 1 .. Height : Path'[i] = Path[i]
  <2>1. DOMAIN Path' = 1 .. Height + 1 /\ \A i \in 1 .. Height + 1 : Path'[i] = frames'[i].label
    BY <1>5 DEF Path
  <2> QED
    BY <1>1, <1>2, <1>3, <1>5, <1>7, <2>1
<1>9. Range(Path') = Range(Path) \cup {Onward}
  <2>1. \A l : l \in Range(Path') <=> \E i \in 1 .. Height + 1 : l = Path'[i]
    BY <1>8 DEF Range
  <2>2. \A l : l \in Range(Path) <=> \E i \in 1 .. Height : l = Path[i]
    BY <1>1 DEF Range
  <2> QED
    BY <1>7, <1>8, <2>1, <2>2
<1>10. \A i \in 1 .. Height : frames'[i].closed = frames[i].closed
  BY <1>1, <1>2, <1>5
<1>11. /\ \A i \in 1 .. Height : i # Height => frames'[i].left = frames[i].left
       /\ frames'[Height].left = frames[Height].left \ {Onward}
       /\ frames'[Height + 1].left = Targets(scope, Onward) /\ frames'[Height + 1].closed = FALSE
  BY <1>1, <1>2, <1>3, <1>5
<1> QED
  BY <1>0, <1>1, <1>2, <1>4, <1>5, <1>6, <1>7, <1>8, <1>9, <1>10, <1>11

\* The label that joins the path was not blocked, so nobody waited for it.
LEMMA BlockingKeptByDeepen ==
  ASSUME edges \in Projections, edges' = edges, SearchTyped, SearchTyped', BlockingInv, Deepen
  PROVE  BlockingInv'
<1>0. PathHolds /\ DeadEnds /\ WalkedLeadsNowhere /\ ReleasesAreSafe
  BY DEF BlockingInv
<1>1. /\ frames # << >> /\ Height \in Nat \ {0} /\ Height \in 1 .. Height /\ DOMAIN frames = 1 .. Height
      /\ DOMAIN frames' = 1 .. Height + 1 /\ frames' # << >>
      /\ DOMAIN Path = 1 .. Height /\ DOMAIN Path' = 1 .. Height + 1
      /\ \A i \in 1 .. Height + 1 : i \in 1 .. Height \/ i = Height + 1
      /\ \A i \in 1 .. Height : i \in 1 .. Height + 1 /\ Path'[i] = Path[i] /\ frames'[i].closed = frames[i].closed
      /\ Path'[Height + 1] = Onward
      /\ \A i \in 1 .. Height : i # Height => frames'[i].left = frames[i].left
      /\ frames'[Height].left = frames[Height].left \ {Onward}
      /\ frames'[Height + 1].left = Targets(scope, Onward) /\ frames'[Height + 1].closed = FALSE
      /\ blocked' = blocked \cup {Onward} /\ Range(Path') = Range(Path) \cup {Onward}
      /\ Onward \in frames[Height].left /\ Onward \in Targets(scope, Path[Height]) /\ Onward \in Labels(edges)
      /\ Onward # start /\ Onward \notin blocked
  BY <1>0, DeepenEffects
<1>2. UNCHANGED <<component, starts, start, scope, blockedOn, truncated>> /\ ~truncated
  BY DEF Deepen, Walking
<1>3. /\ start \in component \ starts /\ Path[1] = start
      /\ DOMAIN blockedOn = Labels(scope)
      /\ \A l \in Labels(scope) : start <= l
      /\ IsInjective(Path) /\ Range(Path) \subseteq blocked
      /\ \A i \in 1 .. Height : frames[i].left \subseteq Targets(scope, Path[i])
      /\ \A i, j \in 1 .. Height : j = i + 1 => Path[j] \in Targets(scope, Path[i]) \ frames[i].left
  BY <1>0, <1>1 DEF PathHolds
<1>4. \A i \in 1 .. Height : Path[i] # Onward /\ Path[i] \in blocked
  BY <1>1, <1>3 DEF Range
<1>5. IsInjective(Path')
  BY <1>1, <1>3, <1>4 DEF IsInjective
<1>6. PathHolds'
  <2>1. Path'[1] = start
    BY <1>1, <1>3
  <2>2. Range(Path') \subseteq blocked'
    BY <1>1, <1>3
  <2>3. \A i \in 1 .. Height + 1 : frames'[i].left \subseteq Targets(scope, Path'[i])
    BY <1>1, <1>3
  <2>4. \A i, j \in 1 .. Height + 1 : j = i + 1 => Path'[j] \in Targets(scope, Path'[i]) \ frames'[i].left
    <3> SUFFICES ASSUME NEW i \in 1 .. Height + 1, NEW j \in 1 .. Height + 1, j = i + 1
                 PROVE  Path'[j] \in Targets(scope, Path'[i]) \ frames'[i].left
      OBVIOUS
    <3>1. i \in 1 .. Height
      BY <1>1
    <3>2. CASE j = Height + 1
      <4>1. i = Height
        BY <1>1, <3>1, <3>2
      <4> QED
        BY <1>1, <3>2, <4>1
    <3>3. CASE j # Height + 1
      <4>1. j \in 1 .. Height /\ i # Height
        BY <1>1, <3>3
      <4> QED
        BY <1>1, <1>3, <3>1, <4>1
    <3> QED
      BY <3>2, <3>3
  <2> QED
    BY <1>1, <1>2, <1>3, <1>5, <2>1, <2>2, <2>3, <2>4 DEF PathHolds
<1>7. DeadEnds'
  <2> SUFFICES ASSUME NEW l \in blocked' \ Range(Path'), NEW m \in Targets(scope, l)
               PROVE  m \in blocked' /\ m # start /\ l \in blockedOn[m]
    BY <1>2, Zenon DEF DeadEnds
  <2>1. l \in blocked \ Range(Path)
    BY <1>1
  <2> QED
    BY <1>0, <1>1, <2>1 DEF DeadEnds
<1>8. WalkedLeadsNowhere'
  <2> SUFFICES ASSUME NEW i \in 1 .. Height + 1, \A j \in 1 .. Height + 1 : i <= j => ~frames'[j].closed,
                      NEW m \in Targets(scope, Path'[i]) \ frames'[i].left
               PROVE  m \in blocked' /\ m # start
    BY <1>1, <1>2 DEF WalkedLeadsNowhere
  <2>1. i \in 1 .. Height
    BY <1>1
  <2>2. \A j \in 1 .. Height : i <= j => ~frames[j].closed
    BY <1>1
  <2>3. m \in Targets(scope, Path[i]) /\ (m \notin frames[i].left \/ m = Onward)
    BY <1>1, <2>1
  <2>4. m \notin frames[i].left => m \in blocked /\ m # start
    BY <1>0, <1>1, <2>1, <2>2, <2>3 DEF WalkedLeadsNowhere
  <2> QED
    BY <1>1, <2>3, <2>4
<1>9. ReleasesAreSafe'
  <2>1. \A l \in DOMAIN blockedOn : blockedOn[l] # {} => l \in blocked
    BY <1>0, <1>1 DEF ReleasesAreSafe
  <2>2. \A l \in DOMAIN blockedOn' : blockedOn'[l] # {} => l \in blocked'
    BY <1>1, <1>2, <2>1
  <2> DEFINE W == WaitsOn(blocked', blockedOn')
  <2>3. /\ IsGraph(W)
        /\ \A l, m : m \in Targets(W, l) <=> l \in DOMAIN blockedOn /\ m \in blocked' /\ m \in blockedOn[l] /\ l # m
    BY <1>2, ReleasesWorkNext
  <2>4. \A x : /\ x \in Released(x)
               /\ \A l \in Released(x) : \A m : m \in blocked /\ l \in DOMAIN blockedOn /\ m \in blockedOn[l]
                                                  => m \in Released(x)
    BY ReleasesWork
  <2> HIDE DEF W
  <2>5. ASSUME NEW x PROVE ReachedFrom(W, x) \subseteq Released(x) \cup {Onward}
    <3> DEFINE S == Released(x) \cup {Onward}
    <3>1. \A y \in S : Targets(W, y) \subseteq S
      <4> SUFFICES ASSUME NEW y \in S, NEW m \in Targets(W, y) PROVE m \in S
        OBVIOUS
      <4>1. y \in DOMAIN blockedOn /\ m \in blocked' /\ m \in blockedOn[y]
        BY <2>3
      <4>2. y # Onward
        BY <1>1, <2>1, <4>1
      <4> QED
        BY <1>1, <2>4, <4>1, <4>2
    <3>2. x \in S
      BY <2>4
    <3> HIDE DEF S
    <3>3. ReachedFrom(W, x) \subseteq S
      BY <2>3, <3>1, <3>2, ReachIsLeast
    <3> QED
      BY <3>3 DEF S
  <2>6. ReachedFrom(W, Onward) \subseteq {Onward}
    <3>1. Targets(W, Onward) = {}
      BY <1>1, <2>1, <2>3
    <3> QED
      BY <2>3, <3>1, ReachIsLeast
  <2>7. ASSUME NEW i \in 1 .. Height + 1, NEW j \in 1 .. Height + 1, i < j
        PROVE  Path'[i] \notin ReachedFrom(W, Path'[j])
    <3>1. i \in 1 .. Height
      BY <1>1, <2>7
    <3>2. CASE j = Height + 1
      BY <1>1, <1>4, <2>6, <3>1, <3>2
    <3>3. CASE j \in 1 .. Height
      <4>1. Path[i] \notin Released(Path[j])
        BY <1>0, <1>1, <2>7, <3>1, <3>3 DEF ReleasesAreSafe
      <4> QED
        BY <1>1, <1>4, <2>5, <3>1, <3>3, <4>1
    <3> QED
      BY <1>1, <3>2, <3>3
  <2>8. W = Waiting'
    BY DEF W, WaitsOn, Waiting
  <2> QED
    BY <1>1, <2>2, <2>7, <2>8 DEF ReleasesAreSafe, Released
<1> QED
  BY <1>6, <1>7, <1>8, <1>9 DEF BlockingInv

\* A return to a caller: the path is one label shorter.
LEMMA ReturnEffects ==
  ASSUME SearchTyped, frames # << >>, NEW closed \in BOOLEAN, Resume(closed), Height # 1
  PROVE  /\ DOMAIN frames = 1 .. Height /\ DOMAIN Path = 1 .. Height /\ Height \in Nat \ {0} /\ Height \in 1 .. Height
         /\ Here = frames[Height] /\ Here.label = Path[Height]
         /\ DOMAIN frames' = 1 .. Height - 1 /\ frames' # << >> /\ DOMAIN Path' = 1 .. Height - 1
         /\ 1 \in 1 .. Height - 1 /\ Height - 1 \in 1 .. Height - 1 /\ Here' = frames'[Height - 1]
         /\ \A i \in 1 .. Height - 1 : i \in 1 .. Height /\ i < Height /\ Path'[i] = Path[i] /\ frames'[i].left = frames[i].left
         /\ \A i \in 1 .. Height : i \in 1 .. Height - 1 \/ i = Height
         /\ \A i \in 1 .. Height - 1 : ~frames'[i].closed => ~frames[i].closed
         /\ closed => frames'[Height - 1].closed
         /\ Range(Path) = Range(Path') \cup {Path[Height]}
<1>1. /\ frames \in Seq(Call) /\ DOMAIN frames = 1 .. Height /\ DOMAIN Path = 1 .. Height
      /\ Height \in Nat \ {0} /\ Height \in 1 .. Height
      /\ Here = frames[Height] /\ frames[Height] \in Call
      /\ \A i \in 1 .. Height : Path[i] = frames[i].label
  BY HereWorks
<1>2. /\ frames' \in Seq(Call) /\ DOMAIN frames' = 1 .. Height - 1
      /\ \A i \in 1 .. Height - 1 : /\ i \in 1 .. Height /\ i < Height
                                    /\ frames'[i].label = frames[i].label
                                    /\ frames'[i].left = frames[i].left
                                    /\ i # Height - 1 => frames'[i] = frames[i]
      /\ frames' # << >> /\ Height - 1 \in 1 .. Height - 1
      /\ frames'[Height - 1].closed = (frames[Height - 1].closed \/ closed)
  BY ResumeWorks
<1>3. DOMAIN Path' = 1 .. Height - 1 /\ \A i \in 1 .. Height - 1 : Path'[i] = frames'[i].label
  BY <1>2 DEF Path
<1>4. 1 \in 1 .. Height - 1 /\ \A i \in 1 .. Height : i \in 1 .. Height - 1 \/ i = Height
  BY <1>1
<1>5. Here' = frames'[Height - 1]
  <2>1. Len(frames') = Height - 1
    BY <1>1, <1>2
  <2> QED
    BY <2>1 DEF Here
<1>6. \A i \in 1 .. Height - 1 : Path'[i] = Path[i]
  BY <1>1, <1>2, <1>3
<1>7. Range(Path) = Range(Path') \cup {Path[Height]}
  <2>1. \A l : l \in Range(Path') <=> \E i \in 1 .. Height - 1 : l = Path'[i]
    BY <1>3 DEF Range
  <2>2. \A l : l \in Range(Path) <=> \E i \in 1 .. Height : l = Path[i]
    BY <1>1 DEF Range
  <2> QED
    BY <1>1, <1>2, <1>4, <1>6, <2>1, <2>2
<1>8. /\ \A i \in 1 .. Height - 1 : ~frames'[i].closed => ~frames[i].closed
      /\ closed => frames'[Height - 1].closed
  BY <1>2
<1> QED
  BY <1>1, <1>2, <1>3, <1>4, <1>5, <1>6, <1>7, <1>8

\* The path itself, whichever way a call returns.
LEMMA PathKeptByReturn ==
  ASSUME SearchTyped, frames # << >>, NEW closed \in BOOLEAN, Resume(closed), Height # 1, PathHolds,
         UNCHANGED <<component, starts, start, scope, truncated>>,
         DOMAIN blockedOn' = DOMAIN blockedOn, truncated => closed,
         \A i \in 1 .. Height - 1 : Path[i] \in blocked'
  PROVE  PathHolds'
<1>1. /\ DOMAIN frames = 1 .. Height /\ DOMAIN Path = 1 .. Height /\ Height \in Nat \ {0}
      /\ DOMAIN frames' = 1 .. Height - 1 /\ frames' # << >> /\ DOMAIN Path' = 1 .. Height - 1
      /\ 1 \in 1 .. Height - 1 /\ Height - 1 \in 1 .. Height - 1 /\ Here' = frames'[Height - 1]
      /\ \A i \in 1 .. Height - 1 : i \in 1 .. Height /\ i < Height /\ Path'[i] = Path[i] /\ frames'[i].left = frames[i].left
      /\ closed => frames'[Height - 1].closed
  BY ReturnEffects
<1>2. /\ start \in component \ starts /\ Path[1] = start
      /\ DOMAIN blockedOn = Labels(scope)
      /\ \A l \in Labels(scope) : start <= l
      /\ IsInjective(Path)
      /\ \A i \in 1 .. Height : frames[i].left \subseteq Targets(scope, Path[i])
      /\ \A i, j \in 1 .. Height : j = i + 1 => Path[j] \in Targets(scope, Path[i]) \ frames[i].left
  BY <1>1 DEF PathHolds
<1>3. IsInjective(Path')
  BY <1>1, <1>2 DEF IsInjective
<1>4. Range(Path') \subseteq blocked'
  BY <1>1 DEF Range
<1>5. Path'[1] = start
  BY <1>1, <1>2
<1>6. \A i \in 1 .. Height - 1 : frames'[i].left \subseteq Targets(scope, Path'[i])
  BY <1>1, <1>2
<1>7. \A i, j \in 1 .. Height - 1 : j = i + 1 => Path'[j] \in Targets(scope, Path'[i]) \ frames'[i].left
  BY <1>1, <1>2
<1>8. truncated' => Here'.closed
  BY <1>1
<1> QED
  BY <1>1, <1>2, <1>3, <1>4, <1>5, <1>6, <1>7, <1>8 DEF PathHolds

\* A label that closed a circuit is released with all that waited for it; none of
\* them is on the path below, and those that stay blocked wait for labels still blocked.
LEMMA BlockingKeptByLeaveClosed ==
  ASSUME edges \in Projections, edges' = edges, SearchTyped, SearchTyped', BlockingInv, LeaveClosed, Height # 1
  PROVE  BlockingInv'
<1>0. PathHolds /\ DeadEnds /\ WalkedLeadsNowhere /\ ReleasesAreSafe
  BY DEF BlockingInv
<1>1. /\ frames # << >> /\ Resume(TRUE)
      /\ UNCHANGED <<component, starts, start, scope, truncated>>
  BY DEF LeaveClosed, Exhausted
<1>2. /\ DOMAIN frames = 1 .. Height /\ DOMAIN Path = 1 .. Height /\ Height \in Nat \ {0} /\ Height \in 1 .. Height
      /\ Here.label = Path[Height]
      /\ DOMAIN frames' = 1 .. Height - 1 /\ frames' # << >> /\ DOMAIN Path' = 1 .. Height - 1
      /\ Height - 1 \in 1 .. Height - 1
      /\ \A i \in 1 .. Height - 1 : i \in 1 .. Height /\ i < Height /\ Path'[i] = Path[i] /\ frames'[i].left = frames[i].left
      /\ frames'[Height - 1].closed
      /\ Range(Path) = Range(Path') \cup {Path[Height]}
  BY <1>1, ReturnEffects
<1> DEFINE top == Path[Height]
<1>3. /\ blocked' = blocked \ Released(top)
      /\ blockedOn' = [l \in DOMAIN blockedOn |-> IF l \in Released(top) THEN {} ELSE blockedOn[l]]
  BY <1>2 DEF LeaveClosed
<1>4. /\ DOMAIN blockedOn = Labels(scope) /\ Range(Path) \subseteq blocked
      /\ \A l \in DOMAIN blockedOn : blockedOn[l] # {} => l \in blocked
      /\ \A i, j \in 1 .. Height : i < j => Path[i] \notin Released(Path[j])
  BY <1>0, <1>1, <1>2 DEF PathHolds, ReleasesAreSafe
<1>5. /\ IsGraph(WaitsOn(blocked, blockedOn))
      /\ \A l, m : m \in Targets(WaitsOn(blocked, blockedOn), l)
                     <=> l \in DOMAIN blockedOn /\ m \in blocked /\ m \in blockedOn[l] /\ l # m
      /\ \A x : /\ Released(x) = ReachedFrom(WaitsOn(blocked, blockedOn), x)
                /\ x \in Released(x)
                /\ \A l \in Released(x) : \A m : m \in blocked /\ l \in DOMAIN blockedOn /\ m \in blockedOn[l]
                                                   => m \in Released(x)
  BY ReleasesWork
<1>6. PathHolds'
  <2>1. \A i \in 1 .. Height - 1 : Path[i] \in blocked'
    BY <1>2, <1>3, <1>4 DEF Range
  <2>2. DOMAIN blockedOn' = DOMAIN blockedOn
    BY <1>3
  <2> QED
    BY <1>0, <1>1, <2>1, <2>2, PathKeptByReturn
<1> HIDE DEF top
<1>7. DeadEnds'
  <2> SUFFICES ASSUME NEW l \in blocked' \ Range(Path'), NEW m \in Targets(scope, l)
               PROVE  m \in blocked' /\ m # start /\ l \in blockedOn'[m]
    BY <1>1, Zenon DEF DeadEnds
  <2>1. l \in blocked /\ l \notin Released(top) /\ l # top
    BY <1>3, <1>5
  <2>2. l \in blocked \ Range(Path)
    BY <1>2, <2>1 DEF top
  <2>3. m \in blocked /\ m # start /\ l \in blockedOn[m] /\ m \in DOMAIN blockedOn
    <3>1. m \in Labels(scope)
      BY GraphsWork DEF SearchTyped
    <3> QED
      BY <1>0, <1>1, <1>4, <2>2, <3>1 DEF DeadEnds
  <2>4. m \notin Released(top)
    BY <1>5, <2>1, <2>3
  <2> QED
    BY <1>3, <2>3, <2>4
<1>8. WalkedLeadsNowhere'
  <2> SUFFICES ASSUME NEW i \in 1 .. Height - 1, \A j \in 1 .. Height - 1 : i <= j => ~frames'[j].closed PROVE FALSE
    BY <1>2 DEF WalkedLeadsNowhere
  <2>1. i <= Height - 1
    BY <1>2
  <2> QED
    BY <1>2, <2>1
<1>9. ReleasesAreSafe'
  <2>1. \A l \in DOMAIN blockedOn' : blockedOn'[l] # {} => l \in blocked'
    BY <1>3, <1>4
  <2> DEFINE W == WaitsOn(blocked', blockedOn')
             V == WaitsOn(blocked, blockedOn)
  <2>2. IsGraph(W)
    BY ReleasesWorkNext
  <2>3. W \subseteq V
    BY <1>3 DEF WaitsOn
  <2>4. W = Waiting'
    BY DEF WaitsOn, Waiting
  <2>5. \A x : ReachedFrom(W, x) \subseteq Released(x)
    <3> HIDE DEF W, V
    <3>1. IsGraph(V) /\ \A x : Released(x) = ReachedFrom(V, x)
      BY <1>5 DEF V
    <3> QED
      BY <2>2, <2>3, <3>1, ReachGrowsWithEdges
  <2> HIDE DEF W, V
  <2>6. \A i, j \in 1 .. Height - 1 : i < j => Path'[i] \notin ReachedFrom(W, Path'[j])
    BY <1>2, <1>4, <2>5
  <2> QED
    BY <1>2, <2>1, <2>4, <2>6 DEF ReleasesAreSafe, Released
<1> QED
  BY <1>6, <1>7, <1>8, <1>9 DEF BlockingInv

\* A dead end stays blocked: all its successors are blocked, and each now knows it.
LEMMA BlockingKeptByLeaveBlocked ==
  ASSUME edges \in Projections, edges' = edges, SearchTyped, SearchTyped', BlockingInv, LeaveBlocked, Height # 1
  PROVE  BlockingInv'
<1>0. PathHolds /\ DeadEnds /\ WalkedLeadsNowhere /\ ReleasesAreSafe
  BY DEF BlockingInv
<1>1. /\ frames # << >> /\ Resume(FALSE) /\ ~Here.closed /\ (Here.left = {} \/ truncated)
      /\ UNCHANGED <<component, starts, start, scope, blocked, truncated>>
  BY DEF LeaveBlocked, Exhausted
<1>2. /\ DOMAIN frames = 1 .. Height /\ DOMAIN Path = 1 .. Height /\ Height \in Nat \ {0} /\ Height \in 1 .. Height
      /\ Here = frames[Height] /\ Here.label = Path[Height]
      /\ DOMAIN frames' = 1 .. Height - 1 /\ frames' # << >> /\ DOMAIN Path' = 1 .. Height - 1
      /\ \A i \in 1 .. Height - 1 : i \in 1 .. Height /\ i < Height /\ Path'[i] = Path[i] /\ frames'[i].left = frames[i].left
      /\ \A i \in 1 .. Height : i \in 1 .. Height - 1 \/ i = Height
      /\ \A i \in 1 .. Height - 1 : ~frames'[i].closed => ~frames[i].closed
      /\ Range(Path) = Range(Path') \cup {Path[Height]}
  BY <1>1, ReturnEffects
<1> DEFINE top == Path[Height]
<1>3. blockedOn' = [l \in DOMAIN blockedOn |->
                      IF l \in Targets(scope, top) THEN blockedOn[l] \cup {top} ELSE blockedOn[l]]
  BY <1>2 DEF LeaveBlocked
<1>4. /\ DOMAIN blockedOn = Labels(scope) /\ Range(Path) \subseteq blocked
      /\ \A l \in DOMAIN blockedOn : blockedOn[l] # {} => l \in blocked
      /\ \A i, j \in 1 .. Height : i < j => Path[i] \notin Released(Path[j])
      /\ truncated => Here.closed
  BY <1>0, <1>1, <1>2 DEF PathHolds, ReleasesAreSafe
<1>5. ~truncated /\ frames[Height].left = {}
  BY <1>1, <1>2, <1>4
<1>6. top \in blocked /\ \A m \in Targets(scope, top) : m \in blocked /\ m # start
  <2>1. \A j \in 1 .. Height : Height <= j => ~frames[j].closed
    <3> SUFFICES ASSUME NEW j \in 1 .. Height, Height <= j PROVE j = Height
      BY <1>1, <1>2
    <3> QED
      BY <1>2
  <2>2. \A m \in Targets(scope, top) \ frames[Height].left : m \in blocked /\ m # start
    BY <1>0, <1>2, <2>1 DEF WalkedLeadsNowhere
  <2>3. top \in Range(Path)
    BY <1>2 DEF Range
  <2> QED
    BY <1>4, <1>5, <2>2, <2>3
<1>7. \A l : Targets(scope, l) \subseteq DOMAIN blockedOn
  BY <1>4, GraphsWork DEF SearchTyped
<1> HIDE DEF top
<1>8. PathHolds'
  <2>1. \A i \in 1 .. Height - 1 : Path[i] \in blocked'
    BY <1>1, <1>2, <1>4 DEF Range
  <2>2. DOMAIN blockedOn' = DOMAIN blockedOn
    BY <1>3
  <2> QED
    BY <1>0, <1>1, <1>5, <2>1, <2>2, PathKeptByReturn
<1>9. DeadEnds'
  <2> SUFFICES ASSUME NEW l \in blocked \ Range(Path'), NEW m \in Targets(scope, l)
               PROVE  m \in blocked /\ m # start /\ l \in blockedOn'[m]
    BY <1>1, Zenon DEF DeadEnds
  <2>1. m \in DOMAIN blockedOn
    BY <1>7
  <2>2. CASE l = top
    BY <1>3, <1>6, <2>1, <2>2
  <2>3. CASE l # top
    <3>1. l \in blocked \ Range(Path)
      BY <1>2, <2>3 DEF top
    <3>2. m \in blocked /\ m # start /\ l \in blockedOn[m]
      BY <1>0, <1>1, <3>1 DEF DeadEnds
    <3> QED
      BY <1>3, <2>1, <3>2
  <2> QED
    BY <2>2, <2>3
<1>10. WalkedLeadsNowhere'
  <2> SUFFICES ASSUME NEW i \in 1 .. Height - 1, \A j \in 1 .. Height - 1 : i <= j => ~frames'[j].closed,
                      NEW m \in Targets(scope, Path'[i]) \ frames'[i].left
               PROVE  m \in blocked /\ m # start
    BY <1>1, <1>2 DEF WalkedLeadsNowhere
  <2>1. \A j \in 1 .. Height : i <= j => ~frames[j].closed
    BY <1>1, <1>2
  <2> QED
    BY <1>0, <1>2, <2>1 DEF WalkedLeadsNowhere
<1>11. ReleasesAreSafe'
  <2>1. \A l \in DOMAIN blockedOn' : blockedOn'[l] # {} => l \in blocked'
    BY <1>1, <1>3, <1>4, <1>6
  <2> DEFINE W == WaitsOn(blocked', blockedOn')
  <2>2. /\ IsGraph(W)
        /\ \A l, m : m \in Targets(W, l) <=> l \in DOMAIN blockedOn' /\ m \in blocked' /\ m \in blockedOn'[l] /\ l # m
    BY ReleasesWorkNext
  <2>3. W = Waiting'
    BY DEF WaitsOn, Waiting
  <2>4. \A x : /\ x \in Released(x)
               /\ \A l \in Released(x) : \A m : m \in blocked /\ l \in DOMAIN blockedOn /\ m \in blockedOn[l]
                                                  => m \in Released(x)
    BY ReleasesWork
  <2> HIDE DEF W
  <2>5. ASSUME NEW x PROVE ReachedFrom(W, x) \subseteq Released(x) \cup Released(top)
    <3> DEFINE S == Released(x) \cup Released(top)
    <3>1. \A y \in S : Targets(W, y) \subseteq S
      <4> SUFFICES ASSUME NEW y \in S, NEW m \in Targets(W, y) PROVE m \in S
        OBVIOUS
      <4>1. y \in DOMAIN blockedOn /\ m \in blocked /\ (m \in blockedOn[y] \/ m = top)
        BY <1>1, <1>3, <2>2
      <4> QED
        BY <2>4, <4>1
    <3>2. x \in S
      BY <2>4
    <3> HIDE DEF S
    <3>3. ReachedFrom(W, x) \subseteq S
      BY <2>2, <3>1, <3>2, ReachIsLeast
    <3> QED
      BY <3>3 DEF S
  <2>6. \A i, j \in 1 .. Height - 1 : i < j => Path'[i] \notin ReachedFrom(W, Path'[j])
    <3> SUFFICES ASSUME NEW i \in 1 .. Height - 1, NEW j \in 1 .. Height - 1, i < j
                 PROVE  Path'[i] \notin ReachedFrom(W, Path'[j])
      OBVIOUS
    <3>1. Path[i] \notin Released(Path[j]) /\ Path[i] \notin Released(top)
      BY <1>2, <1>4 DEF top
    <3> QED
      BY <1>2, <2>5, <3>1
  <2> QED
    BY <1>2, <2>1, <2>3, <2>6 DEF ReleasesAreSafe, Released
<1> QED
  BY <1>8, <1>9, <1>10, <1>11 DEF BlockingInv

\* The component of a start among the labels given: those that reach it, and that it
\* reaches, along edges among them.
LEMMA ComponentWithin ==
  ASSUME NEW E, IsGraph(E), NEW L, NEW x \in L
  PROVE  /\ StrongComponentOf(E, L, x) \subseteq L
         /\ \A y : y \in StrongComponentOf(E, L, x)
                     <=> y \in ReachedFrom(Induced(E, L), x) /\ x \in ReachedFrom(Induced(E, L), y)
<1>1. IsGraph(Induced(E, L)) /\ Labels(Induced(E, L)) \subseteq L
  BY InducedWorks
<1>2. ReachedFrom(Induced(E, L), x) \subseteq L
  BY <1>1, ReachIsClosed
<1> QED
  BY <1>2 DEF StrongComponentOf

\* Every circuit of a start lies among the labels no circuit was started at yet,
\* and within the component that is searched for it.
LEMMA CircuitsOfStart ==
  ASSUME edges \in Projections, SearchTyped, InOrder, StartAt, NEW c \in Elementary, c[1] = start'
  PROVE  /\ \A i \in 1 .. Len(c) : <<c[i], NextOf(c, i)>> \in scope'
         /\ ~(Cardinality(StrongComponentOf(edges, starts, start')) < 2)
<1> DEFINE C == StrongComponentOf(edges, starts, start')
           D == Induced(edges, starts)
<1>1. /\ start' \in starts /\ \A m \in starts : start' <= m
      /\ scope' = Induced(edges, C) /\ starts \in SUBSET Int /\ starts \subseteq Labels(edges) /\ component # {}
  BY StartWorks
<1>2. IsGraph(edges) /\ Labels(edges) \in SUBSET Int /\ IsFiniteSet(Labels(edges))
  BY ProjectionIsGraph
<1>3. /\ Len(c) \in Nat /\ Len(c) >= 2
      /\ \A i \in 1 .. Len(c) : c[i] \in Int /\ c[1] <= c[i]
      /\ \A i, j \in 1 .. Len(c) : c[i] = c[j] => i = j
      /\ \A i \in 1 .. Len(c) : <<c[i], NextOf(c, i)>> \in edges
      /\ \A i \in 1 .. Len(c) : i # Len(c) => i + 1 \in 1 .. Len(c) /\ NextOf(c, i) = c[i + 1]
      /\ NextOf(c, Len(c)) = c[1]
  BY <1>2, CircuitWorks DEF Elementary
<1>4. 1 \in 1 .. Len(c) /\ 2 \in 1 .. Len(c)
  BY <1>3
<1>5. \A i \in 1 .. Len(c) : \E j \in 1 .. Len(c) : NextOf(c, i) = c[j]
  BY <1>3, <1>4
<1>6. component \in StrongComponents(edges) /\ starts \subseteq component
  BY <1>1 DEF SearchTyped
<1>7. \A i \in 1 .. Len(c) : c[i] \in component
  <2>1. \A i, j \in 1 .. Len(c) : c[j] \in ReachedFrom(edges, c[i])
    BY <1>2, <1>3, CircuitReaches DEF Elementary
  <2>2. start' \in component
    BY <1>1, <1>6
  <2> QED
    BY <1>2, <1>4, <1>6, <2>1, <2>2, ComponentIsStrong
<1>8. \A i \in 1 .. Len(c) : c[i] \in starts
  <2> SUFFICES ASSUME NEW i \in 1 .. Len(c), c[i] \notin starts PROVE FALSE
    OBVIOUS
  <2>1. c[i] < start'
    BY <1>1, <1>7 DEF InOrder
  <2>2. start' <= c[i] /\ start' \in Int /\ c[i] \in Int
    BY <1>1, <1>3
  <2> QED
    BY <2>1, <2>2
<1>9. IsGraph(D) /\ \A i \in 1 .. Len(c) : <<c[i], NextOf(c, i)>> \in D
  BY <1>2, <1>3, <1>5, <1>8, InducedWorks
<1> HIDE DEF D
<1>10. \A i, j \in 1 .. Len(c) : c[j] \in ReachedFrom(D, c[i])
  BY <1>2, <1>9, CircuitReaches DEF Elementary
<1>11. /\ C \subseteq starts
       /\ \A y : y \in C <=> y \in ReachedFrom(D, start') /\ start' \in ReachedFrom(D, y)
  BY <1>1, <1>2, ComponentWithin DEF D
<1> HIDE DEF C
<1>12. \A i \in 1 .. Len(c) : c[i] \in C
  BY <1>4, <1>10, <1>11
<1>13. \A i \in 1 .. Len(c) : <<c[i], NextOf(c, i)>> \in scope'
  <2> SUFFICES ASSUME NEW i \in 1 .. Len(c) PROVE <<c[i], NextOf(c, i)>> \in scope'
    OBVIOUS
  <2>1. c[i] \in C /\ NextOf(c, i) \in C /\ <<c[i], NextOf(c, i)>> \in edges
    BY <1>3, <1>5, <1>12
  <2>2. \A x, y : <<x, y>> \in Induced(edges, C) <=> <<x, y>> \in edges /\ x \in C /\ y \in C
    BY <1>2, InducedWorks
  <2>3. scope' = Induced(edges, C)
    BY <1>1 DEF C
  <2> QED
    BY <2>1, <2>2, <2>3
<1>14. ~(Cardinality(C) < 2)
  <2>1. IsFiniteSet(C)
    BY <1>1, <1>2, <1>11, FS_Subset
  <2>2. c[1] \in C /\ c[2] \in C /\ c[1] # c[2]
    BY <1>3, <1>4, <1>12
  <2>3. {c[1], c[2]} \subseteq C /\ Cardinality({c[1], c[2]}) = 2
    <3>1. IsFiniteSet({c[1]}) /\ Cardinality({c[1]}) = 1
      BY FS_Singleton
    <3>2. Cardinality({c[1]} \cup {c[2]}) = 1 + 1
      BY <2>2, <3>1, FS_AddElement
    <3>3. {c[1]} \cup {c[2]} = {c[1], c[2]}
      OBVIOUS
    <3> QED
      BY <2>2, <3>2, <3>3
  <2>4. Cardinality({c[1], c[2]}) <= Cardinality(C) /\ Cardinality(C) \in Nat
    BY <2>1, <2>3, FS_Subset, FS_CardinalityType
  <2> QED
    BY <2>3, <2>4
<1> QED
  BY <1>13, <1>14 DEF C

\* A start begins with its own label blocked and no releases recorded.
LEMMA BlockingKeptByStart ==
  ASSUME edges \in Projections, edges' = edges, SearchTyped, SearchTyped', InOrder, StartAt
  PROVE  BlockingInv' /\ ScopeHolds'
<1>1. /\ start' \in starts /\ starts' = starts \ {start'} /\ \A m \in starts : start' <= m
      /\ scope' = Induced(edges, StrongComponentOf(edges, starts, start')) /\ start' \in Int
      /\ \/ frames' = << >>
         \/ /\ frames' = <<[label |-> start', left |-> Targets(scope', start'), closed |-> FALSE]>>
            /\ blocked' = {start'}
            /\ blockedOn' = [l \in Labels(scope') |-> {}]
  BY StartWorks
<1>2. component' = component /\ truncated' = FALSE /\ starts \subseteq component
  BY DEF StartAt, SearchTyped
<1>3. IsGraph(edges)
  BY ProjectionIsGraph
<1>4. ScopeHolds'
  <2> SUFFICES ASSUME NEW c \in Elementary, c[1] = start' PROVE \A i \in DOMAIN c : <<c[i], NextOf(c, i)>> \in scope'
    BY DEF ScopeHolds, Elementary
  <2>1. DOMAIN c = 1 .. Len(c)
    BY <1>3, CircuitWorks DEF Elementary
  <2> QED
    BY <2>1, CircuitsOfStart
<1>5. CASE frames' = << >>
  BY <1>4, <1>5, NoCallHoldsNext
<1>6. CASE /\ frames' = <<[label |-> start', left |-> Targets(scope', start'), closed |-> FALSE]>>
           /\ blocked' = {start'}
           /\ blockedOn' = [l \in Labels(scope') |-> {}]
  <2>1. /\ DOMAIN frames' = {1} /\ frames'[1].label = start' /\ frames'[1].left = Targets(scope', start')
        /\ frames'[1].closed = FALSE
    BY <1>6
  <2>2. DOMAIN Path' = {1} /\ Path'[1] = start' /\ Range(Path') = {start'}
    <3>1. DOMAIN Path' = {1} /\ Path'[1] = start'
      BY <2>1 DEF Path
    <3> QED
      BY <3>1 DEF Range
  <2>3. DOMAIN blockedOn' = Labels(scope') /\ \A l \in Labels(scope') : blockedOn'[l] = {}
    BY <1>6
  <2>4. \A l \in Labels(scope') : start' <= l
    <3>1. Labels(scope') \subseteq StrongComponentOf(edges, starts, start')
      BY <1>1, <1>3, InducedWorks
    <3>2. StrongComponentOf(edges, starts, start') \subseteq starts
      BY <1>1, <1>3, ComponentWithin
    <3> QED
      BY <1>1, <3>1, <3>2
  <2>5. PathHolds'
    <3>1. start' \in component' \ starts'
      BY <1>1, <1>2
    <3>2. IsInjective(Path')
      BY <2>2 DEF IsInjective
    <3>3. \A i \in DOMAIN frames' : frames'[i].left \subseteq Targets(scope', Path'[i])
      BY <2>1, <2>2
    <3>4. \A i, j \in DOMAIN frames' : j = i + 1 => Path'[j] \in Targets(scope', Path'[i]) \ frames'[i].left
      BY <2>1
    <3> QED
      BY <1>2, <1>6, <2>2, <2>3, <2>4, <3>1, <3>2, <3>3, <3>4 DEF PathHolds
  <2>6. DeadEnds'
    BY <1>6, <2>2 DEF DeadEnds
  <2>7. WalkedLeadsNowhere'
    BY <2>1, <2>2 DEF WalkedLeadsNowhere
  <2>8. ReleasesAreSafe'
    <3>1. \A i, j \in DOMAIN frames' : ~(i < j)
      BY <2>1
    <3> QED
      BY <2>3, <3>1 DEF ReleasesAreSafe
  <2> QED
    BY <1>4, <2>5, <2>6, <2>7, <2>8 DEF BlockingInv
<1> QED
  BY <1>1, <1>5, <1>6

\* The last call returns, or there is none: nothing is blocked any more that matters.
LEMMA CallsEnd ==
  ASSUME SearchTyped, InOrder, LeaveClosed \/ LeaveBlocked, Height = 1
  PROVE  frames' = << >>
<1>1. CASE LeaveClosed
  BY <1>1, ResumeWorks DEF LeaveClosed, Exhausted
<1>2. CASE LeaveBlocked
  BY <1>2, ResumeWorks DEF LeaveBlocked, Exhausted
<1> QED
  BY <1>1, <1>2

\* Every step of Johnson's search keeps what the blocking knows.
LEMMA BlockingKept ==
  ASSUME edges \in Projections, edges' = edges, SearchTyped, SearchTyped', InOrder, BlockingInv, JohnsonNext
  PROVE  BlockingInv'
<1>1. CASE Emit \/ SkipBlocked
  BY <1>1, BlockingKeptBySteps
<1>2. CASE Deepen
  BY <1>2, BlockingKeptByDeepen
<1>3. CASE LeaveClosed
  <2>1. CASE Height = 1
    BY <1>3, <2>1, CallsEnd, NoCallHoldsNext
  <2>2. CASE Height # 1
    BY <1>3, <2>2, BlockingKeptByLeaveClosed
  <2> QED
    BY <2>1, <2>2
<1>4. CASE LeaveBlocked
  <2>1. CASE Height = 1
    BY <1>4, <2>1, CallsEnd, NoCallHoldsNext
  <2>2. CASE Height # 1
    BY <1>4, <2>2, BlockingKeptByLeaveBlocked
  <2> QED
    BY <2>1, <2>2
<1>5. CASE StartAt
  BY <1>5, BlockingKeptByStart
<1>6. CASE NextComponent \/ EndComponent \/ Finish
  <2>1. frames' = << >>
    BY <1>6 DEF NextComponent, EndComponent, Finish, InOrder, search
  <2> QED
    BY <2>1, NoCallHoldsNext
<1> QED
  BY <1>1, <1>2, <1>3, <1>4, <1>5, <1>6 DEF JohnsonNext

\* tarjanSCC only reads the projection.
LEMMA TarjanKeepsEdges == [TarjanNext]_tarjan_vars => edges' = edges
<1> SUFFICES ASSUME [TarjanNext]_tarjan_vars PROVE edges' = edges
  OBVIOUS
<1>1. CASE UNCHANGED tarjan_vars
  BY <1>1 DEF tarjan_vars
<1>2. CASE VisitNext
  BY <1>2 DEF VisitNext, Enter
<1>3. CASE Descend
  BY <1>3 DEF Descend, Enter
<1>4. CASE LookBack \/ PassOver
  BY <1>4 DEF LookBack, PassOver
<1>5. CASE Return
  BY <1>5 DEF Return
<1>6. CASE Close
  BY <1>6 DEF Close
<1> QED
  BY <1>1, <1>2, <1>3, <1>4, <1>5, <1>6 DEF TarjanNext

\* A step of the search for components leaves the search for circuits as it is.
LEMMA SearchUntouched ==
  ASSUME SearchTyped, InOrder, BlockingInv, UNCHANGED <<edges, handed, johnson_vars>>
  PROVE  SearchTyped' /\ InOrder' /\ BlockingInv'
<1>1. /\ UNCHANGED <<edges, handed, limit, todo, component, starts, start, scope, blocked, blockedOn,
                     frames, found, truncated, remaining, complete, circuits, verdict>>
  BY DEF johnson_vars, search
<1>2. SearchTyped'
  BY <1>1 DEF SearchTyped, Elementary
<1>3. InOrder'
  BY <1>1 DEF InOrder
<1>4. Path' = Path /\ Here' = Here
  BY <1>1 DEF Path, Here
<1>5. PathHolds' /\ DeadEnds'
  BY <1>1, <1>4 DEF BlockingInv, PathHolds, DeadEnds
<1>6. WalkedLeadsNowhere' /\ ReleasesAreSafe'
  BY <1>1, <1>4 DEF BlockingInv, WalkedLeadsNowhere, ReleasesAreSafe, Released, Waiting
<1> QED
  BY <1>2, <1>3, <1>5, <1>6 DEF BlockingInv

\* What the hand-over changes, and where it finds the search.
LEMMA HandOverEffects ==
  ASSUME TarjanInv, SearchTyped, InOrder, HandOver
  PROVE  /\ UNCHANGED <<edges, limit, component, starts, start, scope, blocked, blockedOn,
                        frames, found, truncated, remaining, complete, circuits, verdict>>
         /\ handed' = TRUE /\ todo' = CyclicComponents /\ todo' \subseteq StrongComponents(edges)
         /\ component = {} /\ frames = << >> /\ found = << >> /\ circuits = << >> /\ complete /\ ~handed
<1>1. /\ UNCHANGED <<edges, limit, component, starts, start, scope, blocked, blockedOn,
                     frames, found, truncated, remaining, complete, circuits, verdict>>
      /\ handed' = TRUE /\ todo' = CyclicComponents /\ Done /\ ~handed
  BY DEF HandOver, tarjan_vars, search
<1>2. CyclicComponents \subseteq StrongComponents(edges)
  BY <1>1, DoneComponents DEF CyclicComponents
<1> QED
  BY <1>1, <1>2 DEF InOrder

\* The first half of the invariant is inductive.
LEMMA InitSearchInv == Init => SearchInv
<1> SUFFICES ASSUME Init PROVE SearchInv
  OBVIOUS
<1>1. TarjanInv
  BY InitTarjanInv DEF Init
<1>2. /\ limit \in Limits /\ todo = {} /\ component = {} /\ starts = {} /\ scope = {}
      /\ blocked = {} /\ blockedOn = << >> /\ frames = << >> /\ found = << >> /\ truncated = FALSE
      /\ remaining = MaxCircuits /\ complete = TRUE /\ circuits = << >> /\ verdict = "searching" /\ handed = FALSE
  BY DEF Init, JohnsonInit
<1>3. remaining \in Int
  BY <1>2, LimitsAssumption DEF MaxCircuits
<1>4. DOMAIN blockedOn = {} /\ blockedOn \in [DOMAIN blockedOn -> SUBSET Labels(edges)]
  BY <1>2
<1>5. SearchTyped
  <2>1. /\ frames \in Seq([label : Labels(edges), left : SUBSET Labels(edges), closed : BOOLEAN])
        /\ found \in Seq(Elementary) /\ circuits \in Seq(Elementary)
    BY <1>2
  <2>2. todo \subseteq StrongComponents(edges) /\ component \in StrongComponents(edges) \cup {{}} /\ starts \subseteq component
    BY <1>2
  <2>3. scope \subseteq edges /\ blocked \subseteq Labels(edges) /\ DOMAIN blockedOn \subseteq Labels(edges)
    BY <1>2, <1>4
  <2>4. truncated \in BOOLEAN /\ complete \in BOOLEAN /\ handed \in BOOLEAN
    BY <1>2
  <2> QED
    BY <1>2, <1>3, <1>4, <2>1, <2>2, <2>3, <2>4 DEF SearchTyped
<1>6. InOrder
  BY <1>2 DEF InOrder
<1> QED
  BY <1>1, <1>2, <1>5, <1>6, NoCallHolds DEF SearchInv

\* It is kept by every step of the call.
LEMMA NextSearchInv == SearchInv /\ [Next]_vars => SearchInv'
<1> SUFFICES ASSUME SearchInv, [Next]_vars PROVE SearchInv'
  OBVIOUS
<1>1. TarjanInv /\ SearchTyped /\ InOrder /\ BlockingInv /\ edges \in Projections
  BY DEF SearchInv, TarjanInv, Typed
<1>2. TarjanInv' /\ edges' = edges
  BY <1>1, StepsOfTarjan, NextTarjanInv, TarjanKeepsEdges
<1>3. CASE SearchComponents \/ UNCHANGED vars
  <2>1. UNCHANGED <<edges, handed, johnson_vars>>
    BY <1>2, <1>3 DEF SearchComponents, vars
  <2> QED
    BY <1>1, <1>2, <2>1, SearchUntouched DEF SearchInv
<1>4. CASE HandOver
  <2>1. /\ UNCHANGED <<edges, limit, component, starts, start, scope, blocked, blockedOn,
                       frames, found, truncated, remaining, complete, circuits, verdict>>
        /\ handed' = TRUE /\ todo' \subseteq StrongComponents(edges)
        /\ component = {} /\ frames = << >> /\ ~handed
    BY <1>1, <1>4, HandOverEffects
  <2>2. SearchTyped'
    BY <1>1, <2>1 DEF SearchTyped, Elementary
  <2>3. \A c \in todo' : c # {}
    BY <1>1, <2>1, ComponentNumbers
  <2>4. InOrder'
    BY <1>1, <2>1, <2>3 DEF InOrder
  <2> QED
    BY <1>2, <2>1, <2>2, <2>4, NoCallHoldsNext DEF SearchInv
<1>5. CASE SearchCircuits
  <2>1. handed /\ JohnsonNext /\ UNCHANGED <<edges, handed>>
    BY <1>5 DEF SearchCircuits, tarjan_vars
  <2>2. SearchTyped'
    BY <1>1, <2>1, TypedKept DEF BlockingInv
  <2>3. InOrder'
    BY <1>1, <2>1, OrderKept
  <2>4. BlockingInv'
    BY <1>1, <2>1, <2>2, BlockingKept
  <2> QED
    BY <1>2, <2>2, <2>3, <2>4 DEF SearchInv
<1> QED
  BY <1>3, <1>4, <1>5 DEF Next

\* So it holds throughout.
LEMMA SearchAlways == Spec => []SearchInv
<1>1. Init => SearchInv
  BY InitSearchInv
<1>2. SearchInv /\ [Next]_vars => SearchInv'
  BY NextSearchInv
<1> QED
  BY <1>1, <1>2, PTL DEF Spec

\* A blocked label off the path leads only to labels of its kind, none of which
\* is the start.
LEMMA BlockedIsDead == SearchInv => DeadEndsAreDead
<1> SUFFICES ASSUME SearchInv PROVE DeadEndsAreDead
  OBVIOUS
<1>1. SearchTyped /\ PathHolds /\ DeadEnds /\ ReleasesAreSafe /\ edges \in Projections
  BY DEF SearchInv, BlockingInv, TarjanInv, Typed
<1> DEFINE around == {e \in scope : e[1] \notin Range(Path) /\ e[2] \notin Range(Path) \ {start}}
<1>2. CASE frames = << >>
  <2>1. DOMAIN frames = {} /\ DOMAIN Path = {}
    BY <1>2 DEF Path
  <2>2. IsInjective(Path) /\ Range(Path) = {}
    BY <2>1 DEF IsInjective, Range
  <2> QED
    BY <1>2, <2>1, <2>2 DEF DeadEndsAreDead
<1>3. CASE frames # << >>
  <2>1. IsInjective(Path) /\ Range(Path) \subseteq blocked /\ Path[1] = start
    BY <1>1, <1>3 DEF PathHolds
  <2>2. \A i, j \in DOMAIN frames : i < j => Path[i] \notin Released(Path[j])
    BY <1>1, <1>3 DEF ReleasesAreSafe
  <2>3. start \in Range(Path)
    BY <1>1, <1>3, <2>1, HereWorks
  <2>4. IsGraph(around) /\ \A l, m : m \in Targets(scope, l) <=> <<l, m>> \in scope /\ l # m
    <3>1. IsGraph(scope) /\ \A l, m : m \in Targets(scope, l) <=> <<l, m>> \in scope /\ l # m
      BY <1>1, GraphsWork DEF SearchTyped
    <3> QED
      BY <3>1, FS_Subset DEF IsGraph
  <2>5. ASSUME NEW l \in blocked \ Range(Path) PROVE start \notin ReachedFrom(around, l)
    <3> DEFINE S == blocked \ Range(Path)
    <3>1. \A x \in S : Targets(around, x) \subseteq S
      <4> SUFFICES ASSUME NEW x \in S, NEW m \in Targets(around, x) PROVE m \in S
        OBVIOUS
      <4>1. <<x, m>> \in around /\ x # m
        BY <2>4, GraphWorks
      <4>2. <<x, m>> \in scope /\ m \notin Range(Path) \ {start}
        BY <4>1
      <4>3. m \in blocked /\ m # start
        BY <1>1, <1>3, <2>4, <4>1, <4>2 DEF DeadEnds
      <4> QED
        BY <4>2, <4>3
    <3>2. l \in S /\ start \notin S
      BY <2>3, <2>5
    <3> HIDE DEF S, around
    <3>3. ReachedFrom(around, l) \subseteq S
      BY <2>4, <3>1, <3>2, ReachIsLeast
    <3> QED
      BY <3>2, <3>3
  <2> QED
    BY <2>1, <2>2, <2>5, Zenon DEF DeadEndsAreDead
<1> QED
  BY <1>2, <1>3

\* What johnsonSearch (johnson_circuits.go) will not enter it need not enter: no label
\* is on the path twice, unblock never frees one the path stands on, and a blocked
\* label off the path cannot get back to the start except through the path.
THEOREM DeadEndsAreAlwaysDead == Spec => []DeadEndsAreDead
BY SearchAlways, BlockedIsDead, PTL

\* The parts of the first half, at hand.
LEMMA SearchMeans ==
  ASSUME SearchInv
  PROVE  /\ edges \in Projections /\ IsGraph(edges) /\ TarjanInv /\ SearchTyped /\ InOrder /\ BlockingInv
         /\ PathHolds /\ DeadEnds /\ WalkedLeadsNowhere /\ ReleasesAreSafe
BY ProjectionIsGraph DEF SearchInv, BlockingInv, TarjanInv, Typed

\* A circuit of the start that agrees with the whole path does not go on to a
\* blocked label: from there it could not get back.
LEMMA BlockedLeadsAstray ==
  ASSUME SearchInv, ScopeHolds, frames # << >>, NEW c \in Elementary, c[1] = start,
         Agrees(c, Height), Height # Len(c)
  PROVE  c[Height + 1] \notin blocked
<1> SUFFICES ASSUME c[Height + 1] \in blocked PROVE FALSE
  OBVIOUS
<1>0. SearchTyped /\ DeadEnds /\ IsGraph(edges) /\ edges \in Projections
  BY SearchMeans
<1> DEFINE n == Len(c)
<1>1. /\ n \in Nat /\ n >= 2 /\ DOMAIN c = 1 .. n
      /\ \A i, j \in 1 .. n : c[i] = c[j] => i = j
      /\ \A i \in 1 .. n : NextOf(c, i) \in Targets(edges, c[i])
      /\ \A i \in 1 .. n : i # n => i + 1 \in 1 .. n /\ NextOf(c, i) = c[i + 1]
      /\ NextOf(c, n) = c[1]
  BY <1>0, CircuitWorks DEF Elementary
<1>2. /\ Height \in Nat \ {0} /\ DOMAIN frames = 1 .. Height
      /\ \A l \in Range(Path) : \E i \in 1 .. Height : l = Path[i]
  BY <1>0, HereWorks
<1>3. Height < n /\ \A i \in 1 .. Height : c[i] = Path[i] /\ i \in 1 .. n
  <2>1. Height <= n /\ Height # n /\ \A i \in 1 .. Height : c[i] = Path[i]
    BY Zenon DEF Agrees
  <2> HIDE DEF n
  <2>2. Height < n /\ \A i \in 1 .. Height : i \in 1 .. n
    BY <1>1, <1>2, <2>1
  <2> QED
    BY <2>1, <2>2
<1>4. \A i \in 1 .. n : NextOf(c, i) \in Targets(scope, c[i])
  <2> SUFFICES ASSUME NEW i \in 1 .. n PROVE NextOf(c, i) \in Targets(scope, c[i])
    OBVIOUS
  <2>1. <<c[i], NextOf(c, i)>> \in scope
    BY <1>1 DEF ScopeHolds
  <2>2. c[i] # NextOf(c, i)
    BY <1>0, <1>1, GraphWorks
  <2> QED
    BY <1>0, <2>1, <2>2, GraphsWork DEF SearchTyped
<1>5. \A i \in 1 .. n : i > Height => c[i] \notin Range(Path)
  <2> SUFFICES ASSUME NEW i \in 1 .. n, i > Height, c[i] \in Range(Path) PROVE FALSE
    OBVIOUS
  <2>1. PICK j \in 1 .. Height : c[i] = Path[j]
    BY <1>2
  <2>2. i = j
    BY <1>1, <1>3, <2>1
  <2> QED
    BY <1>2, <2>2
<1>6. \A l \in blocked \ Range(Path) : \A m \in Targets(scope, l) : m \in blocked /\ m # start
  BY <1>0 DEF DeadEnds
<1> HIDE DEF n
<1> DEFINE Got == {k \in 0 .. n : k > Height => c[k] \in blocked}
<1>7. 0 \in Got
  BY <1>1, <1>2
<1>8. ASSUME NEW k \in 1 .. n, k - 1 \in Got PROVE k \in Got
  <2> SUFFICES ASSUME k > Height PROVE c[k] \in blocked
    BY <1>1
  <2>1. CASE k = Height + 1
    BY <2>1
  <2>2. CASE k # Height + 1
    <3>1. k - 1 \in 1 .. n /\ k - 1 # n /\ (k - 1) + 1 = k /\ k - 1 > Height
      BY <1>1, <1>2, <2>2
    <3>2. c[k - 1] \in blocked \ Range(Path)
      BY <1>5, <1>8, <3>1
    <3>3. c[k] \in Targets(scope, c[k - 1])
      BY <1>1, <1>4, <3>1
    <3> QED
      BY <1>6, <3>2, <3>3
  <2> QED
    BY <2>1, <2>2
<1> HIDE DEF Got
<1>9. \A k \in 0 .. n : k \in Got
  BY <1>1, <1>7, <1>8, Induction
<1>10. n \in 1 .. n /\ n \in 0 .. n /\ n > Height
  BY <1>1, <1>2, <1>3
<1>11. c[n] \in blocked \ Range(Path)
  BY <1>5, <1>9, <1>10 DEF Got
<1>12. start \in Targets(scope, c[n])
  BY <1>1, <1>4, <1>10
<1> QED
  BY <1>6, <1>11, <1>12

\* A circuit still ahead stays ahead, unless it is the one just found.
LEMMA PendingKept ==
  ASSUME SearchInv, ScopeHolds, CircuitStep, ~truncated,
         NEW c \in Elementary, c[1] = start, Pending(c)
  PROVE  Pending(c)' \/ (Emit /\ c = Path)
<1>0. SearchTyped /\ PathHolds /\ IsGraph(edges) /\ edges \in Projections /\ frames # << >>
  BY SearchMeans, StepsOfCircuit
<1>1. /\ Height \in Nat \ {0} /\ Height \in 1 .. Height /\ DOMAIN frames = 1 .. Height /\ Here = frames[Height]
      /\ DOMAIN Path = 1 .. Height /\ Here.closed \in BOOLEAN
  BY <1>0, HereWorks DEF Call
<1>2. /\ Len(c) \in Nat /\ Len(c) >= 2 /\ DOMAIN c = 1 .. Len(c) /\ c \in Seq(Labels(edges))
      /\ \A i, j \in 1 .. Len(c) : c[i] = c[j] => i = j
      /\ \A i \in 1 .. Len(c) : NextOf(c, i) \in Targets(edges, c[i])
      /\ \A i \in 1 .. Len(c) : i # Len(c) => i + 1 \in 1 .. Len(c) /\ NextOf(c, i) = c[i + 1]
      /\ NextOf(c, Len(c)) = c[1]
  BY <1>0, CircuitWorks DEF Elementary
<1>3. PICK k \in 1 .. Height : Agrees(c, k) /\ NextOf(c, k) \in frames[k].left
  BY <1>1 DEF Pending
<1>4. k <= Len(c) /\ \A i \in 1 .. k : c[i] = Path[i] /\ i \in 1 .. Height
  BY <1>1, <1>3 DEF Agrees
<1>l. PICK n \in Nat : n = Len(c)
  BY <1>2
<1>k. k \in 1 .. Len(c) /\ 1 \in 1 .. Len(c) /\ k \in 1 .. k
  <2>1. k \in 1 .. n /\ 1 \in 1 .. n /\ k \in 1 .. k
    <3>1. k <= n /\ n >= 2
      BY <1>2, <1>4, <1>l
    <3> QED
      BY <1>1, <3>1
  <2> QED
    BY <1>l, <2>1
<1>5. CASE Emit \/ SkipBlocked
  <2>1. PICK closed \in BOOLEAN : frames' = Advanced(closed)
    BY <1>1, <1>5 DEF Emit, SkipBlocked
  <2>2. Walking
    BY <1>5 DEF Emit, SkipBlocked
  <2>3. /\ DOMAIN frames' = 1 .. Height /\ Path' = Path
        /\ \A i \in 1 .. Height : i # Height => frames'[i] = frames[i]
        /\ frames'[Height].left = frames[Height].left \ {Onward}
    BY <1>0, <2>1, <2>2, AdvanceEffects
  <2>4. CASE NextOf(c, k) \in frames'[k].left
    <3>1. Agrees(c, k)'
      BY <1>4, <2>3 DEF Agrees
    <3> QED
      BY <2>3, <2>4, <3>1 DEF Pending
  <2>5. CASE NextOf(c, k) \notin frames'[k].left
    <3>1. k = Height /\ NextOf(c, k) = Onward
      BY <1>3, <2>3, <2>5
    <3>2. CASE Emit
      <4>1. k = Len(c)
        <5> SUFFICES ASSUME k # Len(c) PROVE FALSE
          OBVIOUS
        <5>1. k \in 1 .. Len(c) /\ 1 \in 1 .. Len(c)
          BY <1>k
        <5>2. k + 1 \in 1 .. Len(c) /\ c[k + 1] = c[1]
          BY <1>2, <3>1, <3>2, <5>1 DEF Emit
        <5>3. k + 1 = 1
          BY <1>2, <5>1, <5>2
        <5> QED
          BY <5>1, <5>3
      <4>2. c = Path
        <5>1. Path \in Seq(Labels(edges)) /\ Len(Path) = Height
          BY <1>0, <3>2, EmittedIsCircuit DEF Emit
        <5>2. \A i \in 1 .. Height : c[i] = Path[i]
          BY <1>4, <3>1
        <5>3. Len(c) = Len(Path)
          BY <3>1, <4>1, <5>1, Zenon
        <5>4. \A i \in 1 .. Len(c) : c[i] = Path[i]
          BY <3>1, <4>1, <5>2, Zenon
        <5> QED
          BY <1>2, <5>1, <5>3, <5>4
      <4> QED
        BY <3>2, <4>2
    <3>3. CASE SkipBlocked
      <4>1. Onward # start /\ Onward \in blocked
        BY <3>3 DEF SkipBlocked
      <4>2. Height # Len(c)
        BY <1>2, <3>1, <4>1
      <4>3. c[Height + 1] = Onward
        BY <1>2, <1>k, <3>1, <4>2, Zenon
      <4> QED
        BY <1>0, <1>3, <3>1, <4>1, <4>2, <4>3, BlockedLeadsAstray
    <3> QED
      BY <1>5, <3>2, <3>3
  <2> QED
    BY <2>4, <2>5
<1>6. CASE Deepen
  <2>1. /\ DOMAIN frames' = 1 .. Height + 1 /\ Height + 1 \in 1 .. Height + 1
        /\ \A i \in 1 .. Height + 1 : i \in 1 .. Height \/ i = Height + 1
        /\ \A i \in 1 .. Height : i \in 1 .. Height + 1 /\ Path'[i] = Path[i]
        /\ Path'[Height + 1] = Onward
        /\ \A i \in 1 .. Height : i # Height => frames'[i].left = frames[i].left
        /\ frames'[Height].left = frames[Height].left \ {Onward}
        /\ frames'[Height + 1].left = Targets(scope, Onward)
        /\ Onward # start
    BY <1>0, <1>1, <1>6, DeepenEffects
  <2>2. CASE NextOf(c, k) \in frames'[k].left
    <3>1. Agrees(c, k)'
      BY <1>4, <2>1 DEF Agrees
    <3> QED
      BY <2>1, <2>2, <3>1 DEF Pending
  <2>3. CASE NextOf(c, k) \notin frames'[k].left
    <3>1. k = Height /\ NextOf(c, k) = Onward
      BY <1>3, <2>1, <2>3
    <3>2. k # Len(c)
      BY <1>2, <2>1, <3>1
    <3>3. k \in 1 .. Len(c) /\ k + 1 \in 1 .. Len(c) /\ c[k + 1] = Onward
      BY <1>2, <1>k, <3>1, <3>2, Zenon
    <3>4. NextOf(c, k + 1) \in Targets(scope, Onward)
      <4>1. <<c[k + 1], NextOf(c, k + 1)>> \in scope
        BY <1>0, <1>2, <3>3 DEF ScopeHolds
      <4>2. c[k + 1] # NextOf(c, k + 1)
        BY <1>0, <1>2, <3>3, GraphWorks
      <4> QED
        BY <1>0, <3>3, <4>1, <4>2, GraphsWork DEF SearchTyped
    <3>5. ASSUME NEW j, j = Height + 1 PROVE Agrees(c, j)' /\ j \in DOMAIN frames' /\ NextOf(c, j) \in frames'[j].left
      <4>1. j \in DOMAIN frames' /\ j <= Len(c)
        BY <2>1, <3>1, <3>3, <3>5
      <4>2. \A i \in 1 .. j : c[i] = Path'[i]
        BY <1>4, <2>1, <3>1, <3>3, <3>5
      <4>3. NextOf(c, j) \in frames'[j].left
        BY <2>1, <3>1, <3>4, <3>5
      <4> QED
        BY <4>1, <4>2, <4>3 DEF Agrees
    <3> QED
      BY <3>5 DEF Pending
  <2> QED
    BY <2>2, <2>3
<1>7. CASE LeaveClosed \/ LeaveBlocked
  <2>1. PICK closed \in BOOLEAN : Resume(closed)
    BY <1>7 DEF LeaveClosed, LeaveBlocked
  <2>2. frames[Height].left = {}
    BY <1>1, <1>7 DEF LeaveClosed, LeaveBlocked, Exhausted
  <2>3. k # Height
    BY <1>3, <2>2
  <2>4. Height # 1
    BY <1>1, <2>3
  <2>5. /\ DOMAIN frames' = 1 .. Height - 1
        /\ \A i \in 1 .. Height - 1 : Path'[i] = Path[i] /\ frames'[i].left = frames[i].left
        /\ \A i \in 1 .. Height : i \in 1 .. Height - 1 \/ i = Height
    BY <1>0, <2>1, <2>4, ReturnEffects
  <2>6. k \in 1 .. Height - 1 /\ \A i \in 1 .. k : i \in 1 .. Height - 1
    BY <1>1, <2>3
  <2>7. Agrees(c, k)'
    BY <1>4, <2>5, <2>6 DEF Agrees
  <2> QED
    BY <1>3, <2>5, <2>6, <2>7 DEF Pending
<1> QED
  BY <1>5, <1>6, <1>7 DEF CircuitStep

\* A circuit left behind stays behind.
LEMMA BehindKept ==
  ASSUME SearchInv, CircuitStep, NEW c \in Elementary, Behind(c), frames' # << >>
  PROVE  Behind(c)'
<1>0. SearchTyped /\ PathHolds /\ IsGraph(edges) /\ edges \in Projections /\ frames # << >>
  BY SearchMeans, StepsOfCircuit
<1>1. /\ Height \in Nat \ {0} /\ Height \in 1 .. Height /\ DOMAIN frames = 1 .. Height /\ Here = frames[Height]
      /\ DOMAIN Path = 1 .. Height /\ Here.closed \in BOOLEAN
  BY <1>0, HereWorks DEF Call
<1>2. PICK k \in 1 .. Height : /\ Agrees(c, k) /\ NextOf(c, k) \notin frames[k].left
                               /\ \A j \in 1 .. Height : j = k + 1 => NextOf(c, k) # Path[j]
  BY <1>1 DEF Behind
<1>3. k <= Len(c) /\ \A i \in 1 .. k : c[i] = Path[i] /\ i \in 1 .. Height
  BY <1>1, <1>2 DEF Agrees
<1>4. CASE Emit \/ SkipBlocked
  <2>1. PICK closed \in BOOLEAN : frames' = Advanced(closed)
    BY <1>1, <1>4 DEF Emit, SkipBlocked
  <2>2. Walking
    BY <1>4 DEF Emit, SkipBlocked
  <2>3. /\ DOMAIN frames' = 1 .. Height /\ Path' = Path
        /\ \A i \in 1 .. Height : i # Height => frames'[i] = frames[i]
        /\ frames'[Height].left = frames[Height].left \ {Onward}
    BY <1>0, <2>1, <2>2, AdvanceEffects
  <2>4. Agrees(c, k)'
    BY <1>3, <2>3 DEF Agrees
  <2>5. NextOf(c, k) \notin frames'[k].left
    BY <1>2, <2>3
  <2> QED
    BY <1>2, <2>3, <2>4, <2>5 DEF Behind
<1>5. CASE Deepen
  <2>1. /\ DOMAIN frames' = 1 .. Height + 1
        /\ \A i \in 1 .. Height + 1 : i \in 1 .. Height \/ i = Height + 1
        /\ \A i \in 1 .. Height : i \in 1 .. Height + 1 /\ Path'[i] = Path[i]
        /\ Path'[Height + 1] = Onward
        /\ \A i \in 1 .. Height : i # Height => frames'[i].left = frames[i].left
        /\ frames'[Height].left = frames[Height].left \ {Onward}
        /\ Onward \in frames[Height].left
    BY <1>0, <1>5, DeepenEffects
  <2>2. Agrees(c, k)'
    BY <1>3, <2>1 DEF Agrees
  <2>3. NextOf(c, k) \notin frames'[k].left
    BY <1>2, <2>1
  <2>4. \A j \in 1 .. Height + 1 : j = k + 1 => NextOf(c, k) # Path'[j]
    <3> SUFFICES ASSUME NEW j \in 1 .. Height + 1, j = k + 1 PROVE NextOf(c, k) # Path'[j]
      OBVIOUS
    <3>1. CASE j \in 1 .. Height
      BY <1>2, <2>1, <3>1
    <3>2. CASE j = Height + 1
      <4>1. k = Height
        BY <1>1, <3>2
      <4> QED
        BY <1>2, <2>1, <3>2, <4>1
    <3> QED
      BY <2>1, <3>1, <3>2
  <2> QED
    BY <2>1, <2>2, <2>3, <2>4 DEF Behind
<1>6. CASE LeaveClosed \/ LeaveBlocked
  <2>1. PICK closed \in BOOLEAN : Resume(closed)
    BY <1>6 DEF LeaveClosed, LeaveBlocked
  <2>2. Height # 1
    BY <1>0, <1>6, CallsEnd, SearchMeans
  <2>3. /\ DOMAIN frames' = 1 .. Height - 1 /\ 1 \in 1 .. Height - 1 /\ Height - 1 \in 1 .. Height - 1
        /\ \A i \in 1 .. Height - 1 : i \in 1 .. Height /\ Path'[i] = Path[i] /\ frames'[i].left = frames[i].left
        /\ \A i \in 1 .. Height : i \in 1 .. Height - 1 \/ i = Height
    BY <1>0, <2>1, <2>2, ReturnEffects
  <2>4. CASE k \in 1 .. Height - 1
    <3>1. \A i \in 1 .. k : i \in 1 .. Height - 1
      BY <1>1, <2>4
    <3>2. Agrees(c, k)'
      BY <1>3, <2>3, <2>4, <3>1 DEF Agrees
    <3> QED
      BY <1>2, <2>3, <2>4, <3>2 DEF Behind
  <2>5. CASE k = Height
    <3>1. \A m : m = Height - 1 => /\ m \in 1 .. Height - 1 /\ m \in 1 .. k /\ m # Len(c) /\ m <= Len(c) /\ m + 1 = k /\ m \in 1 .. Len(c)
                                   /\ \A i \in 1 .. m : i \in 1 .. k /\ i \in 1 .. Height - 1
                                   /\ \A j \in 1 .. Height - 1 : j # m + 1
      <4>1. PICK n \in Nat : n = Len(c)
        BY <1>0, CircuitWorks DEF Elementary
      <4>2. k <= n
        BY <1>3, <4>1
      <4>3. \A m : m = Height - 1 => /\ m \in 1 .. Height - 1 /\ m \in 1 .. k /\ m # n /\ m <= n /\ m + 1 = k /\ m \in 1 .. n
                                     /\ \A i \in 1 .. m : i \in 1 .. k /\ i \in 1 .. Height - 1
                                     /\ \A j \in 1 .. Height - 1 : j # m + 1
        BY <1>1, <2>2, <2>5, <4>2
      <4> QED
        BY <4>1, <4>3
    <3>2. PICK m : m = Height - 1
      OBVIOUS
    <3>3. /\ m \in 1 .. Height - 1 /\ m # Len(c) /\ m <= Len(c) /\ m + 1 = k /\ m \in 1 .. Len(c)
          /\ \A i \in 1 .. m : i \in 1 .. k /\ i \in 1 .. Height - 1
          /\ \A j \in 1 .. Height - 1 : j # m + 1
      BY <3>1, <3>2
    <3>4. Agrees(c, m)'
      BY <1>3, <2>3, <3>3 DEF Agrees
    <3>5. NextOf(c, m) = Path[k]
      <4>1. NextOf(c, m) = c[m + 1]
        BY <1>0, <3>3, CircuitWorks DEF Elementary
      <4>2. k \in 1 .. k
        BY <1>1
      <4> QED
        BY <1>3, <3>3, <4>1, <4>2
    <3>6. Path[k] \notin frames[m].left
      <4>1. \A i, j \in 1 .. Height : j = i + 1 => Path[j] \notin frames[i].left
        BY <1>0, <1>1 DEF PathHolds
      <4> QED
        BY <2>3, <3>3, <4>1
    <3>7. NextOf(c, m) \notin frames'[m].left
      BY <2>3, <3>3, <3>5, <3>6
    <3> QED
      BY <2>3, <3>3, <3>4, <3>7 DEF Behind
  <2> QED
    BY <2>3, <2>4, <2>5
<1> QED
  BY <1>4, <1>5, <1>6 DEF CircuitStep

\* The circuit just found was not behind, and is from now on.
LEMMA FoundIsBehind ==
  ASSUME SearchInv, Emit, NEW c, c = Path
  PROVE  ~Behind(c) /\ Behind(c)' /\ c \in Elementary /\ c[1] = start
<1>0. SearchTyped /\ PathHolds /\ edges \in Projections /\ frames # << >> /\ Walking /\ Onward = start
  BY SearchMeans DEF Emit, Walking
<1>1. /\ Height \in Nat \ {0} /\ Height \in 1 .. Height /\ DOMAIN frames = 1 .. Height /\ Here = frames[Height]
      /\ DOMAIN Path = 1 .. Height
  BY <1>0, HereWorks
<1>2. /\ Path \in Elementary /\ Len(Path) = Height /\ Path[1] = start
      /\ \A i \in 1 .. Height : i # Height => i + 1 \in 1 .. Height /\ NextOf(Path, i) = Path[i + 1]
      /\ NextOf(Path, Height) = start
  BY <1>0, EmittedIsCircuit
<1>3. Onward \in frames[Height].left
  BY <1>0, AdvancedWorks, TRUE \in BOOLEAN
<1>4. ~Behind(c)
  <2> SUFFICES ASSUME NEW k \in 1 .. Height, NextOf(c, k) \notin frames[k].left,
                      \A j \in 1 .. Height : j = k + 1 => NextOf(c, k) # Path[j]
               PROVE  FALSE
    BY <1>1 DEF Behind
  <2>1. CASE k = Height
    BY <1>0, <1>2, <1>3, <2>1
  <2>2. CASE k # Height
    BY <1>2, <2>2
  <2> QED
    BY <2>1, <2>2
<1>5. Behind(c)'
  <2>1. frames' = Advanced(TRUE)
    BY DEF Emit
  <2>2. /\ DOMAIN frames' = 1 .. Height /\ Path' = Path
        /\ frames'[Height].left = frames[Height].left \ {Onward}
    BY <1>0, <2>1, AdvanceEffects
  <2>3. ASSUME NEW k, k = Height
        PROVE  /\ k \in DOMAIN frames' /\ Agrees(c, k)' /\ NextOf(c, k) \notin frames'[k].left
               /\ \A j \in DOMAIN frames' : j # k + 1
    <3>1. k \in DOMAIN frames' /\ k <= Len(c) /\ \A j \in DOMAIN frames' : j # k + 1
      BY <1>1, <1>2, <2>2, <2>3
    <3>2. Agrees(c, k)'
      BY <2>2, <3>1 DEF Agrees
    <3>3. NextOf(c, k) \notin frames'[k].left
      BY <1>0, <1>2, <2>2, <2>3
    <3> QED
      BY <3>1, <3>2, <3>3
  <2> QED
    BY <2>3 DEF Behind
<1> QED
  BY <1>2, <1>4, <1>5

\* Every circuit of a start runs within the scope begin induced for it.
LEMMA ScopeKept ==
  ASSUME SearchInv, SearchTyped', ScopeHolds, JohnsonNext, edges' = edges
  PROVE  ScopeHolds'
<1>0. edges \in Projections /\ SearchTyped /\ InOrder
  BY SearchMeans
<1>1. CASE CircuitStep
  BY <1>1, StepsOfCircuit DEF ScopeHolds, Elementary
<1>2. CASE StartAt
  BY <1>0, <1>2, BlockingKeptByStart
<1>3. CASE NextComponent \/ EndComponent \/ Finish
  <2>1. frames' = << >>
    BY <1>0, <1>3 DEF NextComponent, EndComponent, Finish, InOrder, search
  <2> QED
    BY <2>1, NoCallHoldsNext
<1> QED
  BY <1>1, <1>2, <1>3 DEF JohnsonNext, CircuitStep

\* What appending adds to the range, and when it keeps the entries different.
LEMMA AppendRange ==
  ASSUME NEW S, NEW s \in Seq(S), NEW e \in S
  PROVE  /\ Append(s, e) \in Seq(S) /\ Len(Append(s, e)) = Len(s) + 1 /\ Len(s) \in Nat
         /\ Range(Append(s, e)) = Range(s) \cup {e}
         /\ IsInjective(s) /\ e \notin Range(s) => IsInjective(Append(s, e))
<1>1. /\ Append(s, e) \in Seq(S) /\ Len(Append(s, e)) = Len(s) + 1 /\ Len(s) \in Nat
      /\ DOMAIN s = 1 .. Len(s) /\ DOMAIN Append(s, e) = 1 .. Len(s) + 1
      /\ Append(s, e)[Len(s) + 1] = e /\ \A i \in 1 .. Len(s) : Append(s, e)[i] = s[i]
  OBVIOUS
<1> DEFINE t == Append(s, e)
           n == Len(s)
<1> HIDE DEF t, n
<1>2. n \in Nat /\ DOMAIN s = 1 .. n /\ DOMAIN t = 1 .. n + 1 /\ t[n + 1] = e /\ \A i \in 1 .. n : t[i] = s[i]
  BY <1>1 DEF t, n
<1>3. \A i \in 1 .. n + 1 : i \in 1 .. n \/ i = n + 1
  BY <1>2
<1>4. n + 1 \in 1 .. n + 1 /\ \A i \in 1 .. n : i \in 1 .. n + 1
  BY <1>2
<1>5. \A x : x \in Range(t) <=> \E i \in 1 .. n + 1 : x = t[i]
  BY <1>2 DEF Range
<1>6. \A x : x \in Range(s) <=> \E i \in 1 .. n : x = s[i]
  BY <1>2 DEF Range
<1>7. Range(t) = Range(s) \cup {e}
  BY <1>2, <1>3, <1>4, <1>5, <1>6
<1>8. ASSUME IsInjective(s), e \notin Range(s) PROVE IsInjective(t)
  <2>1. \A i, j \in 1 .. n : s[i] = s[j] => i = j
    BY <1>2, <1>8 DEF IsInjective
  <2>2. \A i \in 1 .. n : s[i] # e
    BY <1>6, <1>8
  <2>3. \A i, j \in 1 .. n + 1 : t[i] = t[j] => i = j
    BY <1>2, <1>3, <2>1, <2>2
  <2> QED
    BY <1>2, <2>3 DEF IsInjective
<1> QED
  BY <1>1, <1>7, <1>8 DEF t

\* The same of appending a whole sequence.
LEMMA ConcatRange ==
  ASSUME NEW S, NEW s \in Seq(S), NEW t \in Seq(S)
  PROVE  /\ s \o t \in Seq(S) /\ Len(s \o t) = Len(s) + Len(t) /\ Len(s) \in Nat /\ Len(t) \in Nat
         /\ Range(s \o t) = Range(s) \cup Range(t)
         /\ IsInjective(s) /\ IsInjective(t) /\ Range(s) \cap Range(t) = {} => IsInjective(s \o t)
<1>1. /\ s \o t \in Seq(S) /\ Len(s \o t) = Len(s) + Len(t) /\ Len(s) \in Nat /\ Len(t) \in Nat
      /\ DOMAIN s = 1 .. Len(s) /\ DOMAIN t = 1 .. Len(t) /\ DOMAIN (s \o t) = 1 .. Len(s) + Len(t)
      /\ \A i \in 1 .. Len(s) + Len(t) : (s \o t)[i] = IF i <= Len(s) THEN s[i] ELSE t[i - Len(s)]
  OBVIOUS
<1> DEFINE r == s \o t
           m == Len(s)
           n == Len(t)
<1> HIDE DEF r, m, n
<1>2. /\ m \in Nat /\ n \in Nat /\ DOMAIN s = 1 .. m /\ DOMAIN t = 1 .. n /\ DOMAIN r = 1 .. m + n
      /\ \A i \in 1 .. m + n : r[i] = IF i <= m THEN s[i] ELSE t[i - m]
  BY <1>1 DEF r, m, n
<1>3. \A i \in 1 .. m + n : \/ i \in 1 .. m /\ r[i] = s[i]
                            \/ i \notin 1 .. m /\ i - m \in 1 .. n /\ r[i] = t[i - m]
  BY <1>2
<1>4. /\ \A i \in 1 .. m : i \in 1 .. m + n /\ r[i] = s[i]
      /\ \A i \in 1 .. n : i + m \in 1 .. m + n /\ r[i + m] = t[i]
  BY <1>2
<1>5. \A x : x \in Range(r) <=> \E i \in 1 .. m + n : x = r[i]
  BY <1>2 DEF Range
<1>6. \A x : x \in Range(s) <=> \E i \in 1 .. m : x = s[i]
  BY <1>2 DEF Range
<1>7. \A x : x \in Range(t) <=> \E i \in 1 .. n : x = t[i]
  BY <1>2 DEF Range
<1>8. Range(r) = Range(s) \cup Range(t)
  <2>1. Range(r) \subseteq Range(s) \cup Range(t)
    BY <1>3, <1>5, <1>6, <1>7
  <2>2. Range(s) \cup Range(t) \subseteq Range(r)
    BY <1>4, <1>5, <1>6, <1>7
  <2> QED
    BY <2>1, <2>2
<1>9. ASSUME IsInjective(s), IsInjective(t), Range(s) \cap Range(t) = {} PROVE IsInjective(r)
  <2> SUFFICES ASSUME NEW i \in 1 .. m + n, NEW j \in 1 .. m + n, r[i] = r[j] PROVE i = j
    BY <1>2, Zenon DEF IsInjective
  <2>1. /\ \A k, l \in 1 .. m : s[k] = s[l] => k = l
        /\ \A k, l \in 1 .. n : t[k] = t[l] => k = l
    BY <1>2, <1>9 DEF IsInjective
  <2>2. \A k \in 1 .. m, l \in 1 .. n : s[k] # t[l]
    BY <1>6, <1>7, <1>9
  <2>3. CASE i \in 1 .. m
    BY <1>3, <2>1, <2>2, <2>3
  <2>4. CASE i \notin 1 .. m
    <3>1. i - m \in 1 .. n /\ r[i] = t[i - m]
      BY <1>3, <2>4
    <3>2. j \notin 1 .. m
      BY <1>3, <2>2, <3>1
    <3>3. j - m \in 1 .. n /\ r[j] = t[j - m]
      BY <1>3, <3>2
    <3>4. i - m = j - m
      BY <2>1, <3>1, <3>3
    <3> QED
      BY <1>2, <3>4
  <2> QED
    BY <2>3, <2>4
<1> QED
  BY <1>1, <1>8, <1>9 DEF r

\* An injective sequence has as many entries as values.
LEMMA InjectiveCardinality ==
  ASSUME NEW S, NEW s \in Seq(S), IsInjective(s)
  PROVE  IsFiniteSet(Range(s)) /\ Cardinality(Range(s)) = Len(s)
<1>1. Len(s) \in Nat /\ DOMAIN s = 1 .. Len(s)
  OBVIOUS
<1>2. IsFiniteSet(1 .. Len(s)) /\ Cardinality(1 .. Len(s)) = Len(s)
  <2>1. 1 \in Int /\ Len(s) \in Int
    BY <1>1
  <2>2. IsFiniteSet(1 .. Len(s)) /\ Cardinality(1 .. Len(s)) = IF 1 > Len(s) THEN 0 ELSE Len(s) - 1 + 1
    BY <2>1, FS_Interval, Zenon
  <2>3. \A n \in Nat : (IF 1 > n THEN 0 ELSE n - 1 + 1) = n
    OBVIOUS
  <2> QED
    BY <1>1, <2>2, <2>3
<1>3. s \in Bijection(1 .. Len(s), Range(s))
  <2>1. s \in [1 .. Len(s) -> Range(s)]
    BY <1>1 DEF Range
  <2>2. \A x \in Range(s) : \E i \in 1 .. Len(s) : s[i] = x
    BY <1>1 DEF Range
  <2> QED
    BY <2>1, <2>2, Zenon DEF Bijection, Injection, Surjection
<1>4. ExistsBijection(1 .. Len(s), Range(s))
  BY <1>3 DEF ExistsBijection
<1> QED
  BY <1>2, <1>4, FS_Bijection

\* Circuits are sequences of numbers, so the report can be sorted.
LEMMA ElementaryAreSequences == edges \in Projections => Elementary \subseteq Seq(Int)
<1> SUFFICES ASSUME edges \in Projections, NEW c \in Elementary PROVE c \in Seq(Int)
  OBVIOUS
<1>1. IsGraph(edges) /\ Labels(edges) \in SUBSET Int
  BY ProjectionIsGraph
<1>2. c \in Seq(Labels(edges))
  BY <1>1, CircuitWorks DEF Elementary
<1> QED
  BY <1>1, <1>2

\* The report only grows by the circuit found: moving it and sorting it lose nothing.
LEMMA ListedMoves ==
  ASSUME SearchInv, JohnsonNext, edges' = edges
  PROVE  /\ Elementary' = Elementary
         /\ \/ Listed' = Listed /\ (Emit => truncated' /\ found' = found)
            \/ Emit /\ found' = Append(found, Path) /\ Path \in Elementary /\ Listed' = Listed \cup {Path}
<1>0. edges \in Projections /\ SearchTyped /\ PathHolds /\ found \in Seq(Elementary) /\ circuits \in Seq(Elementary)
  BY SearchMeans DEF SearchTyped
<1>1. Elementary' = Elementary
  BY DEF Elementary
<1>2. CASE Emit
  <2>1. circuits' = circuits
    BY <1>2 DEF Emit
  <2>2. Path \in Elementary
    BY <1>0, <1>2, EmittedIsCircuit DEF Emit
  <2>3. CASE truncated' = TRUE /\ found' = found
    BY <1>1, <2>1, <2>3 DEF Listed
  <2>4. CASE found' = Append(found, Path)
    <3>1. Range(found') = Range(found) \cup {Path}
      BY <1>0, <2>2, <2>4, AppendRange
    <3>2. Listed' = Listed \cup {Path}
      BY <2>1, <3>1 DEF Listed
    <3> QED
      BY <1>1, <1>2, <2>2, <2>4, <3>2
  <2> QED
    BY <1>2, <2>3, <2>4 DEF Emit
<1>3. CASE EndComponent
  <2>1. circuits' = circuits \o found /\ found' = << >>
    BY <1>3 DEF EndComponent
  <2>2. Range(circuits') = Range(circuits) \cup Range(found) /\ Range(found') = {}
    <3>1. Range(<< >>) = {}
      BY DEF Range
    <3> QED
      BY <1>0, <2>1, <3>1, ConcatRange
  <2> QED
    BY <1>1, <1>3, <2>2 DEF Listed, Emit, EndComponent, Walking
<1>4. CASE Finish
  <2>1. circuits' = Sorted(circuits) /\ found' = found
    BY <1>4 DEF Finish, search
  <2>2. Range(circuits') = Range(circuits)
    BY <1>0, <2>1, SortedWorks, ElementaryAreSequences
  <2>3. ~Emit
    BY <1>4, SearchMeans DEF Finish, InOrder, Emit, Walking
  <2> QED
    BY <1>1, <2>1, <2>2, <2>3 DEF Listed
<1>5. CASE NextComponent
  <2>1. component = {} /\ found' = << >> /\ circuits' = circuits
    BY <1>5 DEF NextComponent
  <2>2. found = << >> /\ ~Emit
    BY <2>1, SearchMeans DEF InOrder, Emit, Walking
  <2> QED
    BY <1>1, <2>1, <2>2 DEF Listed
<1>6. CASE StartAt \/ Deepen \/ SkipBlocked \/ LeaveClosed \/ LeaveBlocked
  <2>1. circuits' = circuits /\ found' = found
    BY <1>6 DEF StartAt, Deepen, SkipBlocked, LeaveClosed, LeaveBlocked
  <2>2. ~Emit
    BY <1>6 DEF StartAt, Deepen, SkipBlocked, LeaveClosed, LeaveBlocked, Emit, Walking, Exhausted
  <2> QED
    BY <1>1, <2>1, <2>2 DEF Listed
<1> QED
  BY <1>2, <1>3, <1>4, <1>5, <1>6 DEF JohnsonNext

\* No step of the search loses a circuit.
LEMMA MissedKept ==
  ASSUME SearchInv, ListInv, handed, JohnsonNext, UNCHANGED <<edges, handed>>, ScopeHolds'
  PROVE  NothingMissed'
<1>0. /\ edges \in Projections /\ IsGraph(edges) /\ SearchTyped /\ InOrder
      /\ ScopeHolds /\ NothingMissed /\ LimitKept
  BY SearchMeans DEF ListInv
<1>1. Elementary' = Elementary /\ Listed \subseteq Listed'
  BY ListedMoves
<1> SUFFICES ASSUME complete', truncated' => component' = {}, NEW c \in Elementary
             PROVE  c \in Listed' \/ c[1] \in (UNION todo') \cup starts' \/ (c[1] = start' /\ Pending(c)')
  BY <1>1 DEF NothingMissed, Ahead
<1>2. frames = << >> => ~Pending(c)
  BY DEF Pending
<1>3. CASE CircuitStep
  <2>1. frames # << >> /\ UNCHANGED <<todo, component, starts, start, complete>>
    BY <1>3, StepsOfCircuit
  <2>2. ~truncated /\ ~truncated'
    <3>1. ~truncated'
      BY <1>0, <2>1 DEF InOrder
    <3>2. truncated' = truncated \/ truncated' = TRUE
      BY <1>3 DEF CircuitStep, Emit, Deepen, SkipBlocked, LeaveClosed, LeaveBlocked
    <3> QED
      BY <3>1, <3>2
  <2>3. c \in Listed \/ c[1] \in (UNION todo) \cup starts \/ (c[1] = start /\ Pending(c))
    BY <1>0, <2>1, <2>2 DEF NothingMissed, Ahead
  <2>4. CASE c[1] = start /\ Pending(c)
    <3>1. Pending(c)' \/ (Emit /\ c = Path)
      BY <1>0, <1>3, <2>2, <2>4, PendingKept
    <3>2. CASE Emit /\ c = Path
      BY <2>2, <3>2, ListedMoves
    <3> QED
      BY <2>1, <2>4, <3>1, <3>2
  <2> QED
    BY <1>1, <2>1, <2>3, <2>4
<1>4. CASE NextComponent
  <2>1. /\ component = {} /\ complete = complete' /\ starts' = component' /\ todo' = todo \ {component'}
    BY <1>4 DEF NextComponent
  <2>2. frames = << >> /\ starts = {} /\ component' \in todo
    BY <1>0, <1>4, <2>1, NextComponentWorks DEF InOrder, SearchTyped
  <2>3. c \in Listed \/ c[1] \in UNION todo
    BY <1>0, <1>2, <2>1, <2>2 DEF NothingMissed, Ahead
  <2> QED
    BY <1>1, <2>1, <2>2, <2>3
<1>5. CASE StartAt
  <2>1. /\ start' \in starts /\ starts' = starts \ {start'}
        /\ \/ Cardinality(StrongComponentOf(edges, starts, start')) < 2
           \/ frames' = <<[label |-> start', left |-> Targets(scope', start'), closed |-> FALSE]>>
    BY <1>0, <1>5, StartWorks
  <2>2. frames = << >> /\ ~truncated /\ UNCHANGED <<todo, component, complete>>
    BY <1>5 DEF StartAt
  <2>3. c \in Listed \/ c[1] \in (UNION todo) \cup starts
    BY <1>0, <1>2, <2>2 DEF NothingMissed, Ahead
  <2>4. CASE c[1] = start'
    <3>1. /\ \A i \in 1 .. Len(c) : <<c[i], NextOf(c, i)>> \in scope'
          /\ ~(Cardinality(StrongComponentOf(edges, starts, start')) < 2)
      BY <1>0, <1>5, <2>4, CircuitsOfStart
    <3>2. frames' = <<[label |-> start', left |-> Targets(scope', start'), closed |-> FALSE]>>
      BY <2>1, <3>1
    <3>3. 1 \in DOMAIN frames' /\ frames'[1].left = Targets(scope', start') /\ frames'[1].label = start'
      BY <3>2
    <3>4. 1 \in 1 .. Len(c) /\ 1 <= Len(c) /\ NextOf(c, 1) \in Targets(edges, c[1])
      <4>1. Len(c) \in Nat /\ Len(c) >= 2 /\ \A i \in 1 .. Len(c) : NextOf(c, i) \in Targets(edges, c[i])
        BY <1>0, CircuitWorks DEF Elementary
      <4>2. \A n \in Nat : n >= 2 => 1 \in 1 .. n /\ 1 <= n
        OBVIOUS
      <4> QED
        BY <4>1, <4>2
    <3>5. NextOf(c, 1) \in Targets(scope', start')
      <4>1. <<c[1], NextOf(c, 1)>> \in scope' /\ c[1] # NextOf(c, 1)
        BY <1>0, <3>1, <3>4, GraphWorks
      <4>2. IsGraph(scope')
        <5>1. scope' \subseteq edges
          BY <1>0, <1>5, StartWorks
        <5> QED
          BY <1>0, <5>1, FS_Subset DEF IsGraph
      <4> QED
        BY <2>4, <4>1, <4>2, GraphWorks
    <3>6. Path'[1] = start'
      BY <3>3 DEF Path
    <3>7. ASSUME NEW k, k = 1 PROVE k \in DOMAIN frames' /\ Agrees(c, k)' /\ NextOf(c, k) \in frames'[k].left
      <4>1. Agrees(c, k)'
        BY <2>4, <3>3, <3>4, <3>6, <3>7 DEF Agrees
      <4> QED
        BY <3>3, <3>5, <3>7, <4>1
    <3>8. Pending(c)'
      BY <3>7 DEF Pending
    <3> QED
      BY <2>4, <3>8
  <2>5. CASE c[1] # start'
    BY <1>1, <2>1, <2>2, <2>3, <2>5
  <2> QED
    BY <2>4, <2>5
<1>6. CASE EndComponent
  <2>1. /\ component # {} /\ frames = << >> /\ (starts = {} \/ truncated)
        /\ complete' = ~truncated /\ todo' = IF truncated THEN {} ELSE todo
    BY <1>6 DEF EndComponent
  <2>2. complete /\ ~truncated /\ starts = {} /\ todo' = todo
    BY <1>0, <2>1 DEF LimitKept
  <2>3. c \in Listed \/ c[1] \in UNION todo
    BY <1>0, <1>2, <2>1, <2>2 DEF NothingMissed, Ahead
  <2> QED
    BY <1>1, <2>2, <2>3
<1>7. CASE Finish
  <2>1. component = {} /\ todo = {} /\ UNCHANGED <<todo, complete>>
    BY <1>7 DEF Finish
  <2>2. frames = << >> /\ starts = {}
    BY <1>0, <2>1 DEF InOrder, SearchTyped
  <2>3. c \in Listed
    BY <1>0, <1>2, <2>1, <2>2 DEF NothingMissed, Ahead
  <2> QED
    BY <1>1, <2>3
<1> QED
  BY <1>3, <1>4, <1>5, <1>6, <1>7 DEF JohnsonNext, CircuitStep

\* No step of the search lists what was listed.
LEMMA TwiceKept ==
  ASSUME SearchInv, ListInv, JohnsonNext, UNCHANGED <<edges, handed>>
  PROVE  NothingTwice'
<1>0. /\ edges \in Projections /\ IsGraph(edges) /\ SearchTyped /\ InOrder /\ PathHolds
      /\ found \in Seq(Elementary) /\ circuits \in Seq(Elementary)
      /\ \A c \in Listed : /\ c[1] \notin (UNION todo) \cup starts
                           /\ frames # << >> /\ c[1] = start => Behind(c)
      /\ IsInjective(circuits) /\ IsInjective(found)
      /\ Range(circuits) \cap Range(found) = {}
  BY SearchMeans DEF ListInv, NothingTwice, SearchTyped
<1>1. Listed \subseteq Elementary
  BY <1>0 DEF Listed, Range
<1>2. CASE CircuitStep
  <2>1. frames # << >> /\ UNCHANGED <<todo, component, starts, start, circuits>>
    BY <1>2, StepsOfCircuit
  <2>2. ASSUME NEW c \in Listed
        PROVE  /\ c[1] \notin (UNION todo') \cup starts'
               /\ frames' # << >> /\ c[1] = start' => Behind(c)'
    BY <1>0, <1>1, <1>2, <2>1, <2>2, BehindKept
  <2>3. CASE Emit /\ found' = Append(found, Path) /\ Path \in Elementary /\ Listed' = Listed \cup {Path}
    <3>1. \A c : c = Path => ~Behind(c) /\ Behind(c)' /\ c[1] = start
      BY <2>3, FoundIsBehind
    <3>2. Path \notin Listed
      <4>1. PICK c : c = Path
        OBVIOUS
      <4> QED
        BY <1>0, <2>1, <3>1, <4>1
    <3>3. start \notin (UNION todo) \cup starts
      <4>1. start \in component \ starts
        BY <1>0, <2>1 DEF PathHolds
      <4>2. component \in StrongComponents(edges) /\ todo \subseteq StrongComponents(edges) /\ component \notin todo
        BY <1>0, <4>1 DEF SearchTyped, InOrder
      <4>3. \A d \in todo : start \notin d
        BY <1>0, <4>1, <4>2, ComponentsApart
      <4> QED
        BY <4>1, <4>3
    <3>4. ASSUME NEW c \in Listed'
          PROVE  /\ c[1] \notin (UNION todo') \cup starts'
                 /\ frames' # << >> /\ c[1] = start' => Behind(c)'
      <4>1. CASE c \in Listed
        BY <2>2, <4>1
      <4>2. CASE c = Path
        BY <2>1, <3>1, <3>3, <4>2
      <4> QED
        BY <2>3, <4>1, <4>2
    <3>5. IsInjective(found') /\ Range(found') = Range(found) \cup {Path}
      BY <1>0, <2>3, <3>2, AppendRange DEF Listed
    <3>6. Range(circuits') \cap Range(found') = {}
      BY <1>0, <2>1, <3>2, <3>5 DEF Listed
    <3> QED
      BY <1>0, <2>1, <3>4, <3>5, <3>6 DEF NothingTwice
  <2>4. CASE Listed' = Listed /\ (Emit => found' = found)
    <3>1. found' = found
      BY <1>2, <2>4 DEF CircuitStep, Deepen, SkipBlocked, LeaveClosed, LeaveBlocked
    <3> QED
      BY <1>0, <2>1, <2>2, <2>4, <3>1 DEF NothingTwice
  <2> QED
    BY <2>3, <2>4, ListedMoves
<1>3. CASE NextComponent \/ StartAt \/ EndComponent \/ Finish
  <2>1. Listed' = Listed
    <3>1. ~Emit
      BY <1>0, <1>3 DEF NextComponent, StartAt, EndComponent, Finish, Emit, Walking, InOrder
    <3> QED
      BY <3>1, ListedMoves
  <2>2. ASSUME NEW c \in Listed
        PROVE  /\ c[1] \notin (UNION todo') \cup starts'
               /\ frames' # << >> /\ c[1] = start' => Behind(c)'
    <3>1. CASE NextComponent
      <4>1. component' \in todo
        BY <1>0, <3>1, NextComponentWorks DEF SearchTyped
      <4>2. frames' = << >> /\ starts' = component' /\ todo' \subseteq todo
        BY <1>0, <3>1 DEF NextComponent, InOrder
      <4> QED
        BY <1>0, <2>2, <4>1, <4>2
    <3>2. CASE StartAt
      <4>1. start' \in starts /\ starts' \subseteq starts /\ todo' = todo
        BY <1>0, <3>2, StartWorks DEF StartAt
      <4> QED
        BY <1>0, <2>2, <4>1
    <3>3. CASE EndComponent
      <4>1. frames' = << >> /\ starts' = {} /\ todo' \subseteq todo
        BY <3>3 DEF EndComponent
      <4> QED
        BY <1>0, <2>2, <4>1
    <3>4. CASE Finish
      <4>1. frames' = << >> /\ UNCHANGED <<starts, todo>>
        BY <1>0, <3>4 DEF Finish, search, InOrder
      <4> QED
        BY <1>0, <2>2, <4>1
    <3> QED
      BY <1>3, <3>1, <3>2, <3>3, <3>4
  <2>3. IsInjective(circuits') /\ IsInjective(found') /\ Range(circuits') \cap Range(found') = {}
    <3>1. IsInjective(<< >>) /\ Range(<< >>) = {}
      BY DEF IsInjective, Range
    <3>2. CASE NextComponent \/ StartAt
      <4>1. circuits' = circuits /\ (found' = found \/ found' = << >>)
        BY <3>2 DEF NextComponent, StartAt
      <4> QED
        BY <1>0, <3>1, <4>1
    <3>3. CASE EndComponent
      <4>1. circuits' = circuits \o found /\ found' = << >>
        BY <3>3 DEF EndComponent
      <4>2. IsInjective(circuits \o found)
        BY <1>0, ConcatRange
      <4> QED
        BY <3>1, <4>1, <4>2
    <3>4. CASE Finish
      <4>1. circuits' = Sorted(circuits) /\ found' = found
        BY <3>4 DEF Finish, search
      <4>2. IsInjective(Sorted(circuits)) /\ Range(Sorted(circuits)) = Range(circuits)
        BY <1>0, SortedWorks, ElementaryAreSequences
      <4> QED
        BY <1>0, <4>1, <4>2
    <3> QED
      BY <1>3, <3>2, <3>3, <3>4
  <2> QED
    BY <2>1, <2>2, <2>3 DEF NothingTwice
<1> QED
  BY <1>2, <1>3 DEF JohnsonNext, CircuitStep

\* The circuit being emitted is not listed yet.
LEMMA FoundIsNew ==
  ASSUME SearchInv, NothingTwice, Emit
  PROVE  Path \in Elementary /\ Path \notin Listed
<1>1. frames # << >>
  BY DEF Emit, Walking
<1>2. PICK c : c = Path
  OBVIOUS
<1>3. ~Behind(c) /\ c \in Elementary /\ c[1] = start
  BY <1>2, FoundIsBehind
<1> QED
  BY <1>1, <1>2, <1>3 DEF NothingTwice

\* What is spent and what is left is the limit, and a search cut off has missed one.
LEMMA LimitStaysKept ==
  ASSUME SearchInv, ListInv, JohnsonNext, UNCHANGED <<edges, handed>>
  PROVE  LimitKept'
<1>0. /\ SearchTyped /\ InOrder /\ NothingTwice
      /\ found \in Seq(Elementary) /\ circuits \in Seq(Elementary) /\ remaining \in Int /\ limit \in Limits
  BY SearchMeans DEF ListInv, SearchTyped
<1>1. /\ Unlimited => remaining = MaxCircuits
      /\ ~Unlimited => remaining >= 0 /\ remaining + Len(circuits) = MaxCircuits /\ Len(found) <= remaining
      /\ truncated /\ component # {} => ~Unlimited /\ Len(found) = remaining /\ Listed # Elementary
      /\ ~complete => /\ ~Unlimited /\ remaining = 0 /\ Listed # Elementary
                      /\ todo = {} /\ component = {}
  BY DEF ListInv, LimitKept
<1>2. MaxCircuits \in Int /\ Len(found) \in Nat /\ Len(circuits) \in Nat
  BY <1>0, LimitsAssumption DEF MaxCircuits
<1>3. Elementary' = Elementary
  BY ListedMoves
<1>4. limit' = limit
  BY DEF JohnsonNext, NextComponent, StartAt, Emit, Deepen, SkipBlocked, LeaveClosed, LeaveBlocked, EndComponent, Finish
<1>5. MaxCircuits' = MaxCircuits /\ Unlimited' = Unlimited
  BY <1>4 DEF MaxCircuits, Unlimited
<1>6. CASE CircuitStep
  <2>1. frames # << >> /\ UNCHANGED <<component, remaining, complete, circuits>>
    BY <1>6, StepsOfCircuit
  <2>2. component # {} /\ complete
    BY <1>0, <1>1, <2>1 DEF InOrder
  <2>3. /\ ~Unlimited => Len(found') <= remaining
        /\ truncated' => ~Unlimited /\ Len(found') = remaining /\ Listed' # Elementary
    <3>1. CASE Emit
      <4>1. ~truncated /\ Path \in Elementary /\ Path \notin Listed
        BY <1>0, <3>1, FoundIsNew DEF Emit, Walking
      <4>2. CASE remaining >= 0 /\ Len(found) >= remaining
        <5>1. truncated' = TRUE /\ found' = found
          BY <3>1, <4>2 DEF Emit
        <5>2. ~Unlimited
          BY <1>1, <1>2, <4>2 DEF Unlimited
        <5>3. Len(found) = remaining
          BY <1>0, <1>1, <1>2, <4>2, <5>2
        <5>4. Listed' = Listed
          <6>1. circuits' = circuits
            BY <2>1
          <6> QED
            BY <5>1, <6>1 DEF Listed
        <5> QED
          BY <1>1, <4>1, <5>1, <5>2, <5>3, <5>4
      <4>3. CASE ~(remaining >= 0 /\ Len(found) >= remaining)
        <5>1. truncated' = truncated /\ found' = Append(found, Path)
          BY <3>1, <4>3 DEF Emit
        <5>2. Len(found') = Len(found) + 1
          BY <1>0, <4>1, <5>1, AppendRange
        <5>3. ~Unlimited => Len(found) + 1 <= remaining
          BY <1>0, <1>1, <1>2, <4>3
        <5> QED
          BY <4>1, <5>1, <5>2, <5>3
      <4> QED
        BY <4>2, <4>3
    <3>2. CASE ~Emit
      <4>1. found' = found /\ truncated' = truncated
        BY <1>6, <3>2 DEF CircuitStep, Deepen, SkipBlocked, LeaveClosed, LeaveBlocked
      <4>2. Listed' = Listed
        BY <3>2, ListedMoves
      <4> QED
        BY <1>1, <2>2, <4>1, <4>2
    <3> QED
      BY <3>1, <3>2
  <2> QED
    BY <1>1, <1>3, <1>5, <2>1, <2>2, <2>3 DEF LimitKept
<1>7. CASE NextComponent
  <2>1. /\ found' = << >> /\ truncated' = FALSE /\ UNCHANGED <<remaining, complete, circuits>> /\ complete
    BY <1>1, <1>7 DEF NextComponent
  <2>2. Len(found') = 0
    BY <2>1
  <2> QED
    BY <1>1, <1>5, <2>1, <2>2 DEF LimitKept
<1>8. CASE StartAt
  <2>1. UNCHANGED <<todo, component, found, truncated, remaining, complete, circuits>>
    BY <1>8 DEF StartAt
  <2>2. Listed' = Listed
    BY <2>1 DEF Listed
  <2> QED
    BY <1>1, <1>3, <1>5, <2>1, <2>2 DEF LimitKept
<1>9. CASE EndComponent
  <2>1. /\ component # {} /\ component' = {} /\ circuits' = circuits \o found /\ found' = << >>
        /\ remaining' = (IF Unlimited THEN remaining ELSE remaining - Len(found))
        /\ complete' = ~truncated /\ todo' = IF truncated THEN {} ELSE todo
    BY <1>9 DEF EndComponent
  <2>2. Len(circuits') = Len(circuits) + Len(found) /\ Len(found') = 0
    BY <1>0, <2>1, ConcatRange
  <2>3. Listed' = Listed
    <3>1. ~Emit
      BY <1>9 DEF EndComponent, Emit, Walking
    <3> QED
      BY <3>1, ListedMoves
  <2>4. ~Unlimited => remaining - Len(found) >= 0 /\ (remaining - Len(found)) + (Len(circuits) + Len(found)) = MaxCircuits
    BY <1>0, <1>1, <1>2
  <2>5. ~complete' => ~Unlimited /\ remaining - Len(found) = 0 /\ Listed # Elementary
    <3>1. ~complete' => truncated
      BY <2>1
    <3>2. ~complete' => ~Unlimited /\ Len(found) = remaining /\ Listed # Elementary
      BY <1>1, <2>1, <3>1
    <3>3. Len(found) = remaining => remaining - Len(found) = 0
      BY <1>0
    <3> QED
      BY <3>2, <3>3
  <2> QED
    BY <1>1, <1>3, <1>5, <2>1, <2>2, <2>3, <2>4, <2>5 DEF LimitKept
<1>10. CASE Finish
  <2>1. /\ UNCHANGED <<todo, component, found, truncated, remaining, complete>> /\ circuits' = Sorted(circuits) /\ component = {}
    BY <1>10 DEF Finish, search
  <2>2. Len(circuits') = Len(circuits)
    BY <1>0, <2>1, SortedWorks, ElementaryAreSequences, SearchMeans
  <2>3. Listed' = Listed
    <3>1. ~Emit
      BY <1>0, <2>1 DEF InOrder, Emit, Walking
    <3> QED
      BY <3>1, ListedMoves
  <2> QED
    BY <1>1, <1>3, <1>5, <2>1, <2>2, <2>3 DEF LimitKept
<1> QED
  BY <1>6, <1>7, <1>8, <1>9, <1>10 DEF JohnsonNext, CircuitStep

\* The second half is kept by Johnson's search,
LEMMA ListKept ==
  ASSUME SearchInv, SearchTyped', ListInv, handed, JohnsonNext, UNCHANGED <<edges, handed>>
  PROVE  ListInv'
<1>1. ScopeHolds'
  BY ScopeKept DEF ListInv
<1>2. NothingMissed'
  BY <1>1, MissedKept
<1>3. NothingTwice' /\ LimitKept'
  BY TwiceKept, LimitStaysKept
<1> QED
  BY <1>1, <1>2, <1>3 DEF ListInv

\* Every circuit starts in a component that is handed over.
LEMMA ListHandedOver ==
  ASSUME SearchInv, ListInv, HandOver
  PROVE  ListInv'
<1>0. edges \in Projections /\ IsGraph(edges) /\ TarjanInv /\ SearchTyped /\ InOrder
  BY SearchMeans
<1>1. /\ UNCHANGED <<edges, limit, component, starts, start, scope, blocked, blockedOn,
                     frames, found, truncated, remaining, complete, circuits, verdict>>
      /\ todo' = CyclicComponents
      /\ component = {} /\ frames = << >> /\ found = << >> /\ circuits = << >> /\ complete
  BY <1>0, HandOverEffects
<1>2. Elementary' = Elementary /\ Listed' = Listed /\ Listed = {}
  BY <1>1 DEF Elementary, Listed, Range
<1>3. ScopeHolds'
  BY <1>1, NoCallHoldsNext
<1>4. ASSUME NEW c \in Elementary PROVE c[1] \in UNION CyclicComponents
  <2>1. /\ Len(c) \in Nat /\ Len(c) >= 2
        /\ \A i \in 1 .. Len(c) : c[i] \in Labels(edges)
        /\ \A i, j \in 1 .. Len(c) : c[i] = c[j] => i = j
        /\ \A i \in 1 .. Len(c) : <<c[i], NextOf(c, i)>> \in edges
    BY <1>0, CircuitWorks DEF Elementary
  <2>2. 1 \in 1 .. Len(c) /\ 2 \in 1 .. Len(c)
    BY <2>1
  <2>3. PICK C \in Range(components) : c[1] \in C
    BY <1>0, <2>1, <2>2, DoneComponents DEF HandOver
  <2>4. C \in StrongComponents(edges)
    BY <1>0, <2>3, DoneComponents DEF HandOver
  <2>5. \A i, j \in 1 .. Len(c) : c[j] \in ReachedFrom(edges, c[i])
    BY <1>0, <2>1, CircuitReaches DEF Elementary
  <2>6. c[2] \in C /\ c[1] # c[2]
    BY <1>0, <2>1, <2>2, <2>3, <2>4, <2>5, ComponentIsStrong
  <2>7. IsFiniteSet(C)
    BY <1>0, <2>4, ComponentNumbers
  <2>8. Cardinality(C) >= 2
    <3>1. IsFiniteSet({c[1]}) /\ Cardinality({c[1]}) = 1
      BY FS_Singleton
    <3>2. Cardinality({c[1]} \cup {c[2]}) = 1 + 1
      BY <2>6, <3>1, FS_AddElement
    <3>3. Cardinality({c[1]} \cup {c[2]}) <= Cardinality(C) /\ Cardinality(C) \in Nat
      BY <2>3, <2>6, <2>7, FS_Subset, FS_CardinalityType
    <3> QED
      BY <3>2, <3>3
  <2> QED
    BY <2>3, <2>8 DEF CyclicComponents
<1>5. NothingMissed'
  BY <1>1, <1>2, <1>4 DEF NothingMissed, Ahead
<1>6. NothingTwice'
  BY <1>1, <1>2 DEF ListInv, NothingTwice
<1>7. MaxCircuits' = MaxCircuits /\ Unlimited' = Unlimited
  BY <1>1 DEF MaxCircuits, Unlimited
<1>8. LimitKept'
  BY <1>1, <1>2, <1>7 DEF ListInv, LimitKept
<1> QED
  BY <1>3, <1>5, <1>6, <1>8 DEF ListInv

\* and by tarjanSCC, which runs before any of it.
LEMMA ListUntouched ==
  ASSUME ListInv, UNCHANGED <<edges, handed, johnson_vars>>
  PROVE  ListInv'
<1>1. /\ UNCHANGED <<edges, handed, limit, todo, component, starts, start, scope, blocked, blockedOn,
                     frames, found, truncated, remaining, complete, circuits, verdict>>
  BY DEF johnson_vars, search
<1>2. Path' = Path /\ Elementary' = Elementary /\ Listed' = Listed /\ MaxCircuits' = MaxCircuits /\ Unlimited' = Unlimited
  BY <1>1 DEF Path, Elementary, Listed, MaxCircuits, Unlimited
<1>3. \A c : Pending(c)' = Pending(c) /\ Behind(c)' = Behind(c)
  BY <1>1, <1>2 DEF Pending, Behind, Agrees
<1>4. \A c : Ahead(c)' = Ahead(c)
  BY <1>1, <1>3 DEF Ahead
<1>5. ScopeHolds'
  BY <1>1, <1>2 DEF ListInv, ScopeHolds
<1>6. NothingMissed'
  BY <1>1, <1>2, <1>4 DEF ListInv, NothingMissed
<1>7. NothingTwice'
  BY <1>1, <1>2, <1>3 DEF ListInv, NothingTwice
<1>8. LimitKept'
  BY <1>1, <1>2 DEF ListInv, LimitKept
<1> QED
  BY <1>5, <1>6, <1>7, <1>8 DEF ListInv

\* CircuitList means the same circuits.
LEMMA SameCircuits == \A E : List!ElementaryCircuits(E) = ElementaryCircuits(E)
BY Zenon DEF List!ElementaryCircuits, ElementaryCircuits, List!Labels, Labels, List!Targets, Targets, List!Last, Last, List!Range, Range, List!Cardinality, Cardinality

\* CircuitList means the same by an elementary circuit.
LEMMA SameElementary == \A E, c : List!IsElementaryCircuit(E, c) <=> IsElementaryCircuit(E, c)
BY DEF List!IsElementaryCircuit, IsElementaryCircuit, List!IsInjective, IsInjective

\* The whole invariant is inductive.
LEMMA InitInv == Init => Inv
<1> SUFFICES ASSUME Init PROVE Inv
  OBVIOUS
<1>1. /\ limit \in Limits /\ todo = {} /\ component = {} /\ frames = << >> /\ found = << >> /\ truncated = FALSE
      /\ remaining = MaxCircuits /\ complete = TRUE /\ circuits = << >> /\ handed = FALSE
  BY DEF Init, JohnsonInit
<1>2. MaxCircuits \in Int
  BY <1>1, LimitsAssumption DEF MaxCircuits
<1>3. Listed = {} /\ IsInjective(circuits) /\ IsInjective(found) /\ Range(circuits) = {} /\ Len(circuits) = 0 /\ Len(found) = 0
  BY <1>1 DEF Listed, Range, IsInjective
<1>4. ScopeHolds
  BY <1>1, NoCallHolds
<1>5. NothingMissed /\ NothingTwice
  BY <1>1, <1>3 DEF NothingMissed, NothingTwice
<1>6. LimitKept
  BY <1>1, <1>2, <1>3 DEF LimitKept, Unlimited
<1> QED
  BY <1>4, <1>5, <1>6, InitSearchInv DEF Inv, ListInv

\* It is kept by every step of the call.
LEMMA NextInv == Inv /\ [Next]_vars => Inv'
<1> SUFFICES ASSUME Inv, [Next]_vars PROVE Inv'
  OBVIOUS
<1>1. SearchInv /\ ListInv /\ SearchInv'
  BY NextSearchInv DEF Inv
<1>2. SearchTyped' /\ edges' = edges
  BY <1>1, StepsOfTarjan, TarjanKeepsEdges DEF SearchInv
<1>3. CASE SearchComponents \/ UNCHANGED vars
  <2>1. UNCHANGED <<edges, handed, johnson_vars>>
    BY <1>2, <1>3 DEF SearchComponents, vars
  <2> QED
    BY <1>1, <2>1, ListUntouched DEF Inv
<1>4. CASE HandOver
  BY <1>1, <1>4, ListHandedOver DEF Inv
<1>5. CASE SearchCircuits
  <2>1. handed /\ JohnsonNext /\ UNCHANGED <<edges, handed>>
    BY <1>5 DEF SearchCircuits, tarjan_vars
  <2> QED
    BY <1>1, <1>2, <2>1, ListKept DEF Inv
<1> QED
  BY <1>3, <1>4, <1>5 DEF Next

\* So it holds throughout.
LEMMA InvAlways == Spec => []Inv
<1>1. Init => Inv
  BY InitInv
<1>2. Inv /\ [Next]_vars => Inv'
  BY NextInv
<1> QED
  BY <1>1, <1>2, PTL DEF Spec

\* Two circuits along the same edges are the same circuit: both are written from
\* their least label on.
LEMMA EdgesTellCircuits ==
  ASSUME NEW E, IsGraph(E), NEW c \in ElementaryCircuits(E), NEW d \in ElementaryCircuits(E),
         EdgesAlong(c) = EdgesAlong(d)
  PROVE  c = d
<1>1. ASSUME NEW b \in ElementaryCircuits(E)
      PROVE  \A x, y : <<x, y>> \in EdgesAlong(b) <=> \E i \in 1 .. Len(b) : x = b[i] /\ y = NextOf(b, i)
  <2>1. DOMAIN b = 1 .. Len(b)
    BY CircuitWorks
  <2> QED
    BY <2>1 DEF EdgesAlong, NextOf
<1>2. /\ Len(c) \in Nat /\ Len(c) >= 2 /\ c \in Seq(Labels(E))
      /\ \A i \in 1 .. Len(c) : c[i] \in Int /\ c[1] <= c[i]
      /\ \A i, j \in 1 .. Len(c) : c[i] = c[j] => i = j
      /\ \A i \in 1 .. Len(c) : i # Len(c) => i + 1 \in 1 .. Len(c) /\ NextOf(c, i) = c[i + 1]
      /\ NextOf(c, Len(c)) = c[1]
  BY CircuitWorks
<1>3. /\ Len(d) \in Nat /\ Len(d) >= 2 /\ d \in Seq(Labels(E))
      /\ \A i \in 1 .. Len(d) : d[i] \in Int /\ d[1] <= d[i]
      /\ \A i, j \in 1 .. Len(d) : d[i] = d[j] => i = j
      /\ \A i \in 1 .. Len(d) : i # Len(d) => i + 1 \in 1 .. Len(d) /\ NextOf(d, i) = d[i + 1]
      /\ NextOf(d, Len(d)) = d[1]
  BY CircuitWorks
<1>4. PICK m \in Nat : m = Len(c) /\ m >= 2
  BY <1>2
<1>5. PICK n \in Nat : n = Len(d) /\ n >= 2
  BY <1>3
<1>6. /\ \A i \in 1 .. m : \E j \in 1 .. n : c[i] = d[j] /\ NextOf(c, i) = NextOf(d, j)
      /\ \A j \in 1 .. n : \E i \in 1 .. m : d[j] = c[i] /\ NextOf(d, j) = NextOf(c, i)
  <2>2. \A i \in 1 .. m : \E j \in 1 .. n : c[i] = d[j] /\ NextOf(c, i) = NextOf(d, j)
    <3> SUFFICES ASSUME NEW i \in 1 .. Len(c) PROVE \E j \in 1 .. Len(d) : c[i] = d[j] /\ NextOf(c, i) = NextOf(d, j)
      BY <1>4, <1>5
    <3>1. <<c[i], NextOf(c, i)>> \in EdgesAlong(c)
      BY <1>1, Zenon
    <3>2. \A x, y : <<x, y>> \in EdgesAlong(d) => \E j \in 1 .. Len(d) : x = d[j] /\ y = NextOf(d, j)
      BY <1>1
    <3>3. <<c[i], NextOf(c, i)>> \in EdgesAlong(d)
      BY <3>1
    <3> QED
      BY <3>2, <3>3
  <2>3. \A j \in 1 .. n : \E i \in 1 .. m : d[j] = c[i] /\ NextOf(d, j) = NextOf(c, i)
    <3> SUFFICES ASSUME NEW j \in 1 .. Len(d) PROVE \E i \in 1 .. Len(c) : d[j] = c[i] /\ NextOf(d, j) = NextOf(c, i)
      BY <1>4, <1>5
    <3>1. <<d[j], NextOf(d, j)>> \in EdgesAlong(d)
      BY <1>1, Zenon
    <3>2. \A x, y : <<x, y>> \in EdgesAlong(c) => \E i \in 1 .. Len(c) : x = c[i] /\ y = NextOf(c, i)
      BY <1>1
    <3>3. <<d[j], NextOf(d, j)>> \in EdgesAlong(c)
      BY <3>1
    <3> QED
      BY <3>2, <3>3
  <2> QED
    BY <2>2, <2>3
<1>7. c[1] = d[1]
  <2>1. 1 \in 1 .. m /\ 1 \in 1 .. n
    BY <1>4, <1>5
  <2>2. c[1] \in Int /\ d[1] \in Int /\ c[1] <= d[1] /\ d[1] <= c[1]
    BY <1>2, <1>3, <1>4, <1>5, <1>6, <2>1
  <2> QED
    BY <2>2
<1>8. \A k \in 1 .. m : k \in 1 .. n /\ c[k] = d[k] => NextOf(c, k) = NextOf(d, k)
  BY <1>3, <1>5, <1>6
<1>9. \A k \in 1 .. n : k \in 1 .. m /\ c[k] = d[k] => (k = m <=> k = n)
  <2> SUFFICES ASSUME NEW k \in 1 .. n, k \in 1 .. m, c[k] = d[k] PROVE k = m <=> k = n
    OBVIOUS
  <2>1. NextOf(c, k) = NextOf(d, k)
    BY <1>8
  <2>2. ASSUME k = m, k # n PROVE FALSE
    <3>1. k + 1 \in 1 .. n /\ d[k + 1] = d[1] /\ 1 \in 1 .. n
      BY <1>2, <1>3, <1>4, <1>5, <1>7, <2>1, <2>2
    <3>2. k + 1 = 1
      BY <1>3, <1>5, <3>1
    <3> QED
      BY <3>2
  <2>3. ASSUME k = n, k # m PROVE FALSE
    <3>1. k + 1 \in 1 .. m /\ c[k + 1] = c[1] /\ 1 \in 1 .. m
      BY <1>2, <1>3, <1>4, <1>5, <1>7, <2>1, <2>3
    <3>2. k + 1 = 1
      BY <1>2, <1>4, <3>1
    <3> QED
      BY <3>2
  <2> QED
    BY <2>2, <2>3
<1> DEFINE Same == {k \in 0 .. m : k # 0 => k \in 1 .. n /\ c[k] = d[k]}
<1>10. 0 \in Same
  BY <1>4
<1>11. ASSUME NEW k \in 1 .. m, k - 1 \in Same PROVE k \in Same
  <2>1. CASE k = 1
    BY <1>5, <1>7, <2>1
  <2>2. CASE k # 1
    <3>1. k - 1 \in 1 .. m /\ k - 1 # m /\ (k - 1) + 1 = k /\ k - 1 # 0
      BY <1>4, <2>2
    <3>2. k - 1 \in 1 .. n /\ c[k - 1] = d[k - 1]
      BY <1>11, <3>1
    <3>3. k - 1 # n
      BY <1>9, <3>1, <3>2
    <3>4. k \in 1 .. n /\ c[k] = d[k]
      BY <1>2, <1>3, <1>4, <1>5, <1>8, <3>1, <3>2, <3>3
    <3> QED
      BY <3>4
  <2> QED
    BY <2>1, <2>2
<1> HIDE DEF Same
<1>12. \A k \in 0 .. m : k \in Same
  BY <1>4, <1>10, <1>11, Induction
<1>13. \A k \in 1 .. m : k \in 1 .. n /\ c[k] = d[k]
  BY <1>12 DEF Same
<1>14. m = n
  BY <1>4, <1>9, <1>13
<1>15. Len(c) = Len(d) /\ \A k \in 1 .. Len(c) : c[k] = d[k]
  BY <1>4, <1>5, <1>13, <1>14, Zenon
<1> QED
  BY <1>2, <1>3, <1>15

\* Entries of the report that run along the same edges are the same circuit, each
\* starting at its least label, and no circuit is listed twice.
LEMMA CircuitsAreListedOnce == Inv => EachCircuitOnce
<1> SUFFICES ASSUME Inv PROVE EachCircuitOnce
  OBVIOUS
<1>1. /\ IsGraph(edges) /\ found \in Seq(Elementary) /\ circuits \in Seq(Elementary)
      /\ IsInjective(circuits) /\ IsInjective(found) /\ Range(circuits) \cap Range(found) = {}
  BY SearchMeans DEF Inv, SearchTyped, ListInv, NothingTwice
<1> DEFINE report == circuits \o found
<1>2. report \in Seq(Elementary) /\ IsInjective(report)
  BY <1>1, ConcatRange
<1> HIDE DEF report
<1>3. \A i \in DOMAIN report : report[i] \in ElementaryCircuits(edges)
  BY <1>2 DEF Elementary
<1>4. \A i, j \in DOMAIN report : EdgesAlong(report[i]) = EdgesAlong(report[j]) => report[i] = report[j]
  BY <1>1, <1>3, EdgesTellCircuits
<1>5. \A i, j \in DOMAIN report : EdgesAlong(report[i]) = EdgesAlong(report[j]) => i = j
  BY <1>2, <1>4 DEF IsInjective
<1> QED
  BY <1>5 DEF EachCircuitOnce, report

\* ProjectCircuits (project_circuits.go) records no circuit twice, whatever label it
\* was found from.
THEOREM EachCircuitIsListedOnce == Spec => []EachCircuitOnce
BY InvAlways, CircuitsAreListedOnce, PTL

\* CircuitList counts alike.
LEMMA SameCounts == \A S : List!Cardinality(S) = Cardinality(S)
BY Zenon DEF List!Cardinality, Cardinality

\* As many circuits are listed as the report and the component's own list hold.
LEMMA ListedCount ==
  ASSUME Inv
  PROVE  Cardinality(Listed) = Len(circuits) + Len(found) /\ Len(circuits) \in Nat /\ Len(found) \in Nat
<1>1. /\ found \in Seq(Elementary) /\ circuits \in Seq(Elementary)
      /\ IsInjective(circuits) /\ IsInjective(found) /\ Range(circuits) \cap Range(found) = {}
  BY SearchMeans DEF Inv, SearchTyped, ListInv, NothingTwice
<1>2. /\ circuits \o found \in Seq(Elementary) /\ IsInjective(circuits \o found)
      /\ Len(circuits \o found) = Len(circuits) + Len(found) /\ Len(circuits) \in Nat /\ Len(found) \in Nat
      /\ Range(circuits \o found) = Listed
  BY <1>1, ConcatRange DEF Listed
<1>3. Cardinality(Range(circuits \o found)) = Len(circuits \o found)
  BY <1>2, InjectiveCardinality
<1> QED
  BY <1>2, <1>3

\* A call that has just begun has listed nothing.
LEMMA ListStarts == Init => List!ListInit
<1> SUFFICES ASSUME Init PROVE List!ListInit
  OBVIOUS
<1>1. /\ edges \in Projections /\ limit \in Limits /\ circuits = << >> /\ found = << >> /\ verdict = "searching"
  BY DEF Init, TarjanInit, JohnsonInit
<1>2. Range(circuits) \cup Range(found) = {}
  BY <1>1 DEF Range
<1> QED
  BY <1>1, <1>2 DEF List!ListInit

\* The circuit found is one the abstract list may report next.
LEMMA EmitLists ==
  ASSUME Inv, SearchCircuits, Emit, found' = Append(found, Path), Listed' = Listed \cup {Path}
  PROVE  List!ListNext
<1>0. SearchInv /\ SearchTyped /\ InOrder /\ IsGraph(edges) /\ NothingTwice /\ LimitKept
  BY SearchMeans DEF Inv, ListInv
<1>1. Path \in Elementary /\ Path \notin Listed
  BY <1>0, FoundIsNew
<1>2. frames # << >> /\ UNCHANGED <<edges, limit, verdict>>
  BY DEF Emit, Walking, SearchCircuits, tarjan_vars
<1>3. verdict = "searching"
  BY <1>0, <1>2 DEF InOrder
<1>4. Unlimited \/ Cardinality(Listed) < MaxCircuits
  <2> SUFFICES ASSUME ~Unlimited PROVE Cardinality(Listed) < MaxCircuits
    OBVIOUS
  <2>1. remaining >= 0 /\ remaining + Len(circuits) = MaxCircuits /\ remaining \in Int
    BY <1>0 DEF LimitKept, SearchTyped
  <2>2. ~(remaining >= 0 /\ Len(found) >= remaining)
    <3>1. Len(Append(found, Path)) = Len(found) + 1 /\ Len(found) \in Nat
      BY <1>0, <1>1, AppendRange DEF SearchTyped
    <3>2. found' # found
      BY <3>1
    <3> QED
      BY <3>2 DEF Emit
  <2>3. Cardinality(Listed) = Len(circuits) + Len(found) /\ Len(circuits) \in Nat /\ Len(found) \in Nat
    BY ListedCount
  <2> QED
    BY <2>1, <2>2, <2>3
<1>5. IsElementaryCircuit(edges, Path)
  BY <1>0, <1>1, CircuitsAreElementary DEF Elementary
<1>6. List!Unlimited \/ List!Cardinality(Listed) < List!Allowance
  BY <1>4, SameCounts DEF List!Unlimited, List!Allowance, Unlimited, MaxCircuits
<1>7. List!List(Path)
  BY <1>1, <1>2, <1>3, <1>5, <1>6, SameElementary DEF List!List, Listed
<1>8. Path \in List!ElementaryCircuits(edges)
  BY <1>1, SameCircuits DEF Elementary
<1> QED
  BY <1>7, <1>8 DEF List!ListNext

\* The end of the call says what the abstract report says: whole if nothing was cut
\* off, and otherwise exactly as many as the limit, with at least one left out.
LEMMA FinishLists ==
  ASSUME Inv, SearchCircuits, Finish
  PROVE  List!ListNext
<1>0. SearchInv /\ SearchTyped /\ InOrder /\ NothingMissed /\ LimitKept /\ handed
  BY SearchMeans DEF Inv, ListInv, SearchCircuits
<1>1. /\ verdict = "searching" /\ component = {} /\ todo = {}
      /\ verdict' = IF complete THEN "complete" ELSE "cut off"
      /\ UNCHANGED <<edges, limit, found>>
  BY DEF Finish, search, SearchCircuits, tarjan_vars
<1>2. frames = << >> /\ found = << >> /\ starts = {}
  BY <1>0, <1>1 DEF InOrder, SearchTyped
<1>3. Listed' = Listed
  <2>1. ~Emit
    BY <1>2 DEF Emit, Walking
  <2>2. JohnsonNext /\ edges' = edges
    BY <1>1 DEF SearchCircuits
  <2> QED
    BY <1>0, <2>1, <2>2, ListedMoves
<1>4. CASE complete
  <2>1. \A c \in Elementary : c \in Listed
    BY <1>0, <1>1, <1>2, <1>4 DEF NothingMissed, Ahead, Pending
  <2>2. Listed \subseteq Elementary
    BY <1>0 DEF SearchTyped, Listed, Range
  <2>3. Listed = List!ElementaryCircuits(edges)
    BY <2>1, <2>2, SameCircuits DEF Elementary
  <2>4. List!FinishWhole
    BY <1>1, <1>3, <1>4, <2>3 DEF List!FinishWhole, Listed
  <2> QED
    BY <2>4 DEF List!ListNext
<1>5. CASE ~complete
  <2>1. ~Unlimited /\ remaining = 0 /\ Listed # Elementary /\ remaining + Len(circuits) = MaxCircuits
    BY <1>0, <1>5 DEF LimitKept
  <2>2. Cardinality(Listed) = MaxCircuits
    <3>1. Cardinality(Listed) = Len(circuits) + Len(found) /\ Len(circuits) \in Nat
      BY ListedCount
    <3>2. Len(found) = 0
      BY <1>2
    <3> QED
      BY <2>1, <3>1, <3>2
  <2>3. ~List!Unlimited /\ List!Cardinality(Listed) = List!Allowance
    BY <2>1, <2>2, SameCounts DEF List!Unlimited, List!Allowance, Unlimited, MaxCircuits
  <2>4. Listed # List!ElementaryCircuits(edges)
    BY <2>1, SameCircuits DEF Elementary
  <2>5. List!CutOff
    BY <1>1, <1>3, <1>5, <2>3, <2>4 DEF List!CutOff, Listed
  <2> QED
    BY <2>5 DEF List!ListNext
<1> QED
  BY <1>4, <1>5

\* Every step of the call lists one more circuit, ends the report, or leaves it alone.
LEMMA ListSteps == Inv /\ [Next]_vars => [List!ListNext]_(List!lvars)
<1> SUFFICES ASSUME Inv, [Next]_vars PROVE List!ListNext \/ UNCHANGED List!lvars
  OBVIOUS
<1>0. SearchInv /\ SearchTyped /\ TarjanInv /\ InOrder
  BY SearchMeans DEF Inv
<1>1. edges' = edges
  BY StepsOfTarjan, TarjanKeepsEdges
<1>2. CASE SearchComponents \/ UNCHANGED vars
  <2>1. UNCHANGED <<edges, limit, found, circuits, verdict>>
    BY <1>1, <1>2 DEF SearchComponents, vars, johnson_vars, search
  <2> QED
    BY <2>1 DEF List!lvars
<1>3. CASE HandOver
  <2>1. UNCHANGED <<edges, limit, found, circuits, verdict>>
    BY <1>0, <1>3, HandOverEffects
  <2> QED
    BY <2>1 DEF List!lvars
<1>4. CASE SearchCircuits
  <2>1. JohnsonNext
    BY <1>4 DEF SearchCircuits
  <2>2. CASE Emit /\ found' = Append(found, Path) /\ Path \in Elementary /\ Listed' = Listed \cup {Path}
    BY <1>4, <2>2, EmitLists
  <2>3. CASE Finish
    BY <1>4, <2>3, FinishLists
  <2>4. CASE ~Finish /\ Listed' = Listed
    <3>1. limit' = limit /\ verdict' = verdict
      BY <2>1, <2>4 DEF JohnsonNext, NextComponent, StartAt, Emit, Deepen, SkipBlocked, LeaveClosed, LeaveBlocked, EndComponent
    <3> QED
      BY <1>1, <2>4, <3>1 DEF List!lvars, Listed
  <2> QED
    BY <1>0, <1>1, <2>1, <2>2, <2>3, <2>4, ListedMoves
<1> QED
  BY <1>2, <1>3, <1>4 DEF Next

\* ProjectCircuits (project_circuits.go) implements CircuitList: it reports every
\* elementary circuit of the projection, or exactly MaxCircuits of them and that
\* the report is cut off.
THEOREM ReportIsTheCircuitList == Spec => ImplementsCircuitList
<1>1. Init => List!ListInit
  BY ListStarts
<1>2. Inv /\ [Next]_vars => [List!ListNext]_(List!lvars)
  BY ListSteps
<1> QED
  BY <1>1, <1>2, InvAlways, PTL DEF Spec, ImplementsCircuitList, List!ListSpec

====
