---------------------------- MODULE DigraphProofs -----------------------------
(***************************************************************************)
(* What the operators of Digraphs compute, for any finite graph: the labels *)
(* reached from one are the least closed set that holds it, components are *)
(* the classes of labels that reach each other, and ElementaryCircuits     *)
(* holds the elementary circuits and nothing else.  Digraphs counts them   *)
(* out step by step with recursive functions; the lemmas here let the      *)
(* proofs about tarjan_scc.go and johnson_circuits.go forget the counting. *)
(***************************************************************************)
EXTENDS Digraphs, FiniteSetTheorems, WellFoundedInduction, TLAPS

\* Any set of naturals that is not empty has a least element.
LEMMA LeastNat ==
  ASSUME NEW S \in SUBSET Nat, S # {}
  PROVE  \E n \in S : \A m \in S : n <= m
<1> DEFINE Smaller == OpToRel(<, Nat)
<1>1. IsWellFoundedOn(Smaller, Nat)
  BY NatLessThanWellFounded
<1>2. \A m, n \in Nat : m < n => <<m, n>> \in Smaller
  BY DEF OpToRel
<1> HIDE DEF Smaller
<1>3. \E n \in S : \A m \in S : ~(<<m, n>> \in Smaller)
  BY <1>1, WFMin
<1>4. PICK n \in S : \A m \in S : ~(<<m, n>> \in Smaller)
  BY <1>3
<1>5. \A m \in S : ~(m < n)
  BY <1>2, <1>4
<1>6. \A m \in S : n <= m
  BY <1>5
<1> QED
  BY <1>6

\* Induction up to a bound, over a set instead of an operator.
LEMMA Induction ==
  ASSUME NEW n \in Nat, NEW S, 0 \in S, \A k \in 1 .. n : k - 1 \in S => k \in S
  PROVE  \A k \in 0 .. n : k \in S
<1> DEFINE Others == {k \in Nat : k <= n /\ k \notin S}
<1> SUFFICES ASSUME Others # {} PROVE FALSE
  OBVIOUS
<1>1. Others \in SUBSET Nat
  OBVIOUS
<1> HIDE DEF Others
<1>2. \E k \in Others : \A m \in Others : k <= m
  BY <1>1, LeastNat
<1>3. PICK k \in Others : \A m \in Others : k <= m
  BY <1>2
<1>4. k \in 1 .. n /\ k \notin S
  BY <1>3 DEF Others
<1>5. k - 1 \notin Others /\ k - 1 \in Nat
  BY <1>1, <1>3, <1>4
<1> QED
  BY <1>4, <1>5 DEF Others

\* And without a bound.
LEMMA NatsByInduction ==
  ASSUME NEW S, 0 \in S, \A k \in Nat : k \in S => k + 1 \in S
  PROVE  Nat \subseteq S
<1> SUFFICES ASSUME NEW n \in Nat PROVE n \in S
  OBVIOUS
<1>1. \A k \in 1 .. n : k - 1 \in S => k \in S
  <2> SUFFICES ASSUME NEW k \in 1 .. n, k - 1 \in S PROVE k \in S
    OBVIOUS
  <2>1. k - 1 \in Nat /\ (k - 1) + 1 = k
    OBVIOUS
  <2> QED
    BY <2>1
<1> QED
  BY <1>1, Induction

-----------------------------------------------------------------------------
\* One more step along the edges, and the sets of labels reached step by step.
Grown(E, S) == UNION {{l} \cup Targets(E, l) : l \in S}
IsGrowth(w, E, x, n) == w = [k \in 0 .. n |-> IF k = 0 THEN {x} ELSE Grown(E, w[k - 1])]

\* The recursive function is what its equation says.
LEMMA GrowthUnfolds ==
  ASSUME NEW E, NEW x, NEW n \in Nat, NEW w, IsGrowth(w, E, x, n)
  PROVE  w[0] = {x} /\ \A k \in 1 .. n : w[k] = Grown(E, w[k - 1])
<1> DEFINE f == [k \in 0 .. n |-> IF k = 0 THEN {x} ELSE Grown(E, w[k - 1])]
<1>1. w = f
  BY DEF IsGrowth
<1>2. f[0] = {x} /\ \A k \in 1 .. n : f[k] = Grown(E, w[k - 1])
  OBVIOUS
<1> HIDE DEF f
<1> QED
  BY <1>1, <1>2

\* There is such a function, up to any number of steps.
LEMMA GrowthExists ==
  ASSUME NEW E, NEW x, NEW n \in Nat
  PROVE  \E w : IsGrowth(w, E, x, n)
<1> DEFINE With == {m \in Nat : \E w : IsGrowth(w, E, x, m)}
<1>1. 0 \in With
  <2>1. IsGrowth([k \in 0 .. 0 |-> {x}], E, x, 0)
    BY DEF IsGrowth
  <2> QED
    BY <2>1
<1>2. ASSUME NEW m \in Nat, m \in With PROVE m + 1 \in With
  <2>1. PICK w : IsGrowth(w, E, x, m)
    BY <1>2
  <2> DEFINE v == [k \in 0 .. m + 1 |-> IF k = m + 1 THEN Grown(E, w[m]) ELSE w[k]]
  <2>2. w[0] = {x} /\ \A k \in 1 .. m : w[k] = Grown(E, w[k - 1])
    BY <2>1, GrowthUnfolds
  <2>3. \A k \in 0 .. m : v[k] = w[k]
    OBVIOUS
  <2>4. v[m + 1] = Grown(E, w[m])
    OBVIOUS
  <2>5. v = [k \in 0 .. m + 1 |-> v[k]]
    OBVIOUS
  <2> HIDE DEF v
  <2>6. ASSUME NEW k \in 0 .. m + 1 PROVE v[k] = IF k = 0 THEN {x} ELSE Grown(E, v[k - 1])
    <3>1. CASE k = 0
      BY <2>2, <2>3, <3>1
    <3>2. CASE k \in 1 .. m
      <4>1. k - 1 \in 0 .. m /\ k \in 0 .. m /\ k # 0
        BY <3>2
      <4> QED
        BY <2>2, <2>3, <3>2, <4>1
    <3>3. CASE k = m + 1
      <4>1. k - 1 = m /\ m \in 0 .. m /\ k # 0
        BY <3>3
      <4> QED
        BY <2>3, <2>4, <3>3, <4>1
    <3> QED
      BY <3>1, <3>2, <3>3
  <2>7. [k \in 0 .. m + 1 |-> v[k]]
          = [k \in 0 .. m + 1 |-> IF k = 0 THEN {x} ELSE Grown(E, v[k - 1])]
    BY <2>6
  <2>8. IsGrowth(v, E, x, m + 1)
    BY <2>5, <2>7 DEF IsGrowth
  <2> QED
    BY <2>8
<1> HIDE DEF With
<1>3. Nat \subseteq With
  BY <1>1, <1>2, NatsByInduction
<1> QED
  BY <1>3 DEF With

\* ReachedFrom is what has been reached after as many steps as there are labels.
LEMMA ReachIsGrowth ==
  ASSUME NEW E, NEW x, IsFiniteSet(Labels(E))
  PROVE  \E w : /\ IsGrowth(w, E, x, Cardinality(Labels(E)))
                /\ ReachedFrom(E, x) = w[Cardinality(Labels(E))]
<1> DEFINE n == Cardinality(Labels(E))
<1>1. \E w : IsGrowth(w, E, x, n)
  BY FS_CardinalityType, GrowthExists
<1>2. ReachedFrom(E, x) = (CHOOSE w : IsGrowth(w, E, x, n))[n]
  BY DEF ReachedFrom, IsGrowth, Grown
<1>3. IsGrowth(CHOOSE w : IsGrowth(w, E, x, n), E, x, n)
  BY <1>1
<1> HIDE DEF n
<1> QED
  BY <1>2, <1>3 DEF n

\* A graph is a finite set of edges; where its labels are compared, they are numbers.
IsDigraph(E) == IsFiniteSet(E) /\ \A e \in E : e = <<e[1], e[2]>>
IsGraph(E) == E \in SUBSET (Int \X Int) /\ IsFiniteSet(E)

LEMMA GraphIsDigraph ==
  ASSUME NEW E, IsGraph(E)
  PROVE  IsDigraph(E)
BY DEF IsGraph, IsDigraph

\* Labels and targets of a finite graph.
LEMMA DigraphWorks ==
  ASSUME NEW E, IsDigraph(E)
  PROVE  /\ IsFiniteSet(Labels(E))
         /\ \A x : Targets(E, x) \subseteq Labels(E)
         /\ \A x : Targets(E, x) # {} => x \in Labels(E)
         /\ \A x, y : y \in Targets(E, x) <=> <<x, y>> \in E /\ x # y
<1>1. \A e \in E : e = <<e[1], e[2]>>
  BY DEF IsDigraph
<1>2. IsFiniteSet(Labels(E))
  <2> DEFINE first == [e \in E |-> e[1]]
             second == [e \in E |-> e[2]]
  <2>1. first \in Surjection(E, {e[1] : e \in E}) /\ second \in Surjection(E, {e[2] : e \in E})
    BY DEF Surjection
  <2>2. IsFiniteSet({e[1] : e \in E}) /\ IsFiniteSet({e[2] : e \in E})
    BY <2>1, FS_Surjection DEF IsDigraph
  <2> QED
    BY <2>2, FS_Union DEF Labels
<1>3. ASSUME NEW x, NEW y PROVE y \in Targets(E, x) <=> <<x, y>> \in E /\ x # y
  <2>1. ASSUME y \in Targets(E, x) PROVE <<x, y>> \in E /\ x # y
    <3>1. PICK e \in E : e[1] = x /\ e[2] # x /\ y = e[2]
      BY <2>1 DEF Targets
    <3>2. e = <<x, y>>
      BY <1>1, <3>1
    <3> QED
      BY <3>1, <3>2
  <2>2. ASSUME <<x, y>> \in E, x # y PROVE y \in Targets(E, x)
    BY <2>2 DEF Targets
  <2> QED
    BY <2>1, <2>2
<1>4. \A x : Targets(E, x) \subseteq Labels(E) /\ (Targets(E, x) # {} => x \in Labels(E))
  BY DEF Targets, Labels
<1> QED
  BY <1>2, <1>3, <1>4

LEMMA GraphWorks ==
  ASSUME NEW E, IsGraph(E)
  PROVE  /\ Labels(E) \in SUBSET Int /\ IsFiniteSet(Labels(E))
         /\ \A x : Targets(E, x) \subseteq Labels(E)
         /\ \A x : Targets(E, x) # {} => x \in Labels(E)
         /\ \A x, y : y \in Targets(E, x) <=> <<x, y>> \in E /\ x # y
<1>1. \A e \in E : e[1] \in Int /\ e[2] \in Int
  BY DEF IsGraph
<1>2. Labels(E) \in SUBSET Int
  BY <1>1 DEF Labels
<1> QED
  BY <1>2, GraphIsDigraph, DigraphWorks

\* The labels reached in a number of steps.  Nothing is lost from one to the next,
\* and there are no more than there are labels, so the last is closed.
LEMMA GrowthIsMonotone ==
  ASSUME NEW E, IsDigraph(E), NEW x \in Labels(E), NEW n \in Nat, NEW w, IsGrowth(w, E, x, n)
  PROVE  /\ w[0] = {x}
         /\ \A k \in 0 .. n : w[k] \subseteq Labels(E)
         /\ \A k \in 1 .. n : w[k] = Grown(E, w[k - 1]) /\ w[k - 1] \subseteq w[k]
<1>1. w[0] = {x} /\ \A k \in 1 .. n : w[k] = Grown(E, w[k - 1])
  <2> DEFINE f == [k \in 0 .. n |-> IF k = 0 THEN {x} ELSE Grown(E, w[k - 1])]
  <2>1. w = f
    BY DEF IsGrowth
  <2>2. f[0] = {x} /\ \A k \in 1 .. n : f[k] = Grown(E, w[k - 1])
    OBVIOUS
  <2> HIDE DEF f
  <2> QED
    BY <2>1, <2>2
<1>2. \A k \in 1 .. n : w[k - 1] \subseteq w[k]
  BY <1>1 DEF Grown
<1>3. ASSUME NEW S \in SUBSET Labels(E) PROVE Grown(E, S) \subseteq Labels(E)
  BY DigraphWorks DEF Grown
<1>4. \A k \in 0 .. n : w[k] \subseteq Labels(E)
  <2> DEFINE Inside == {k \in 0 .. n : w[k] \subseteq Labels(E)}
  <2>1. 0 \in Inside /\ \A k \in 1 .. n : k - 1 \in Inside => k \in Inside
    BY <1>1, <1>3
  <2> HIDE DEF Inside
  <2>2. \A k \in 0 .. n : k \in Inside
    BY <2>1, Induction
  <2> QED
    BY <2>2 DEF Inside
<1> QED
  BY <1>1, <1>2, <1>4

\* After as many steps as there are labels nothing new is reached.
LEMMA GrowthSaturates ==
  ASSUME NEW E, IsDigraph(E), NEW x \in Labels(E),
         NEW w, IsGrowth(w, E, x, Cardinality(Labels(E)))
  PROVE  Grown(E, w[Cardinality(Labels(E))]) = w[Cardinality(Labels(E))]
<1> DEFINE n == Cardinality(Labels(E))
<1>1. n \in Nat /\ IsFiniteSet(Labels(E))
  BY DigraphWorks, FS_CardinalityType
<1> HIDE DEF n
<1>2. /\ w[0] = {x}
      /\ \A k \in 0 .. n : w[k] \subseteq Labels(E)
      /\ \A k \in 1 .. n : w[k] = Grown(E, w[k - 1]) /\ w[k - 1] \subseteq w[k]
  BY <1>1, GrowthIsMonotone DEF n
<1>3. \A k \in 0 .. n : IsFiniteSet(w[k]) /\ Cardinality(w[k]) \in Nat /\ Cardinality(w[k]) <= n
  BY <1>1, <1>2, FS_Subset, FS_CardinalityType DEF n
\* As long as it grows, it has one label more than it has taken steps.
<1>4. ASSUME \A k \in 1 .. n : w[k] # w[k - 1] PROVE Cardinality(w[n]) >= n + 1
  <2> DEFINE Long == {k \in 0 .. n : Cardinality(w[k]) >= k + 1}
  <2>1. Cardinality(w[0]) = 1 /\ 0 \in 0 .. n
    <3>1. Cardinality({x}) = 1
      BY ONLY FS_Singleton
    <3> QED
      BY <1>1, <1>2, <3>1
  <2>0. 0 \in Long
    BY <2>1
  <2>2. ASSUME NEW k \in 1 .. n, k - 1 \in Long PROVE k \in Long
    <3>1. k - 1 \in 0 .. n /\ k \in 0 .. n /\ Cardinality(w[k - 1]) >= (k - 1) + 1
      BY <1>1, <2>2
    <3>2. w[k - 1] \subseteq w[k] /\ w[k - 1] # w[k]
      BY <1>2, <1>4
    <3>3. /\ Cardinality(w[k - 1]) <= Cardinality(w[k])
          /\ Cardinality(w[k - 1]) # Cardinality(w[k])
      BY <1>3, <3>1, <3>2, FS_Subset
    <3> QED
      BY <1>3, <3>1, <3>3
  <2> HIDE DEF Long
  <2>3. \A k \in 0 .. n : k \in Long
    BY <1>1, <2>0, <2>2, Induction
  <2> QED
    BY <1>1, <2>3 DEF Long
<1>5. PICK k \in 1 .. n : w[k] = w[k - 1]
  BY <1>1, <1>3, <1>4
\* Once it stands still it does for good.
<1>6. \A m \in k .. n : w[m] = w[k]
  <2> DEFINE Still == {m \in 0 .. n - k : w[k + m] = w[k]}
  <2>1. 0 \in Still
    BY <1>1
  <2>2. ASSUME NEW m \in 1 .. n - k, m - 1 \in Still PROVE m \in Still
    <3>1. /\ k + m \in 1 .. n /\ k + (m - 1) = (k + m) - 1 /\ m \in 0 .. n - k
          /\ w[k + (m - 1)] = w[k]
      BY <1>1, <2>2
    <3>2. w[k + m] = Grown(E, w[(k + m) - 1]) /\ w[k] = Grown(E, w[k - 1])
      BY <1>2, <3>1
    <3> QED
      BY <1>5, <3>1, <3>2
  <2>3. n - k \in Nat
    BY <1>1
  <2> HIDE DEF Still
  <2>4. \A m \in 0 .. n - k : m \in Still
    BY <2>1, <2>2, <2>3, Induction
  <2>5. ASSUME NEW m \in k .. n PROVE m - k \in 0 .. n - k /\ k + (m - k) = m
    BY <1>1
  <2> QED
    BY <2>4, <2>5 DEF Still
<1>7. w[n] = w[k] /\ Grown(E, w[k - 1]) = w[k]
  BY <1>1, <1>2, <1>5, <1>6
<1> QED
  BY <1>5, <1>7 DEF n

-----------------------------------------------------------------------------
\* What ReachedFrom is: the least set that holds the label and is closed under the
\* edges.
LEMMA LeastReach ==
  ASSUME NEW E, IsDigraph(E), NEW x,
         NEW S, x \in S, \A y \in S : Targets(E, y) \subseteq S
  PROVE  ReachedFrom(E, x) \subseteq S
<1> DEFINE n == Cardinality(Labels(E))
<1>1. n \in Nat
  BY DigraphWorks, FS_CardinalityType
<1>2. PICK w : IsGrowth(w, E, x, n) /\ ReachedFrom(E, x) = w[n]
  BY DigraphWorks, ReachIsGrowth
<1> HIDE DEF n
<1> DEFINE Inside == {k \in 0 .. n : w[k] \subseteq S}
<1>3. w[0] = {x} /\ \A k \in 1 .. n : w[k] = Grown(E, w[k - 1])
  BY <1>1, <1>2, GrowthUnfolds
<1>4. 0 \in Inside /\ \A k \in 1 .. n : k - 1 \in Inside => k \in Inside
  BY <1>1, <1>3 DEF Grown
<1> HIDE DEF Inside
<1>5. \A k \in 0 .. n : k \in Inside
  BY <1>1, <1>4, Induction
<1> QED
  BY <1>1, <1>2, <1>5 DEF Inside

\* What is reached holds the label, is closed under the edges, and stays in the graph.
LEMMA ClosedReach ==
  ASSUME NEW E, IsDigraph(E), NEW x
  PROVE  /\ x \in ReachedFrom(E, x)
         /\ \A y \in ReachedFrom(E, x) : Targets(E, y) \subseteq ReachedFrom(E, x)
         /\ ReachedFrom(E, x) \subseteq Labels(E) \cup {x}
<1> DEFINE n == Cardinality(Labels(E))
<1>1. n \in Nat
  BY DigraphWorks, FS_CardinalityType
<1>2. PICK w : IsGrowth(w, E, x, n) /\ ReachedFrom(E, x) = w[n]
  BY DigraphWorks, ReachIsGrowth
<1>3. CASE x \in Labels(E)
  <2>1. Grown(E, w[n]) = w[n] /\ w[n] \subseteq Labels(E)
    BY <1>1, <1>2, <1>3, GrowthSaturates, GrowthIsMonotone
  <2>2. x \in w[n]
    <3> HIDE DEF n
    <3> DEFINE Having == {k \in 0 .. n : x \in w[k]}
    <3>1. w[0] = {x} /\ \A m \in 1 .. n : w[m - 1] \subseteq w[m]
      BY <1>1, <1>2, <1>3, GrowthIsMonotone
    <3>2. 0 \in Having /\ \A k \in 1 .. n : k - 1 \in Having => k \in Having
      BY <1>1, <3>1
    <3> HIDE DEF Having
    <3>3. \A k \in 0 .. n : k \in Having
      BY <1>1, <3>2, Induction
    <3> QED
      BY <1>1, <3>3 DEF Having
  <2> QED
    BY <1>2, <2>1, <2>2 DEF Grown
<1>4. CASE x \notin Labels(E)
  <2>1. Targets(E, x) = {}
    BY <1>4, DigraphWorks
  <2>2. ReachedFrom(E, x) \subseteq {x}
    BY <2>1, LeastReach
  <2>3. w[n] # {}
    <3> HIDE DEF n
    <3> DEFINE Some == {k \in 0 .. n : w[k] # {}}
    <3>1. w[0] = {x} /\ \A k \in 1 .. n : w[k] = Grown(E, w[k - 1])
      BY <1>1, <1>2, GrowthUnfolds
    <3>2. 0 \in Some /\ \A k \in 1 .. n : k - 1 \in Some => k \in Some
      BY <1>1, <3>1 DEF Grown
    <3> HIDE DEF Some
    <3>3. \A k \in 0 .. n : k \in Some
      BY <1>1, <3>2, Induction
    <3> QED
      BY <1>1, <3>3 DEF Some
  <2> QED
    BY <1>2, <2>1, <2>2, <2>3
<1> QED
  BY <1>3, <1>4

LEMMA ReachIsLeast ==
  ASSUME NEW E, IsGraph(E), NEW x,
         NEW S, x \in S, \A y \in S : Targets(E, y) \subseteq S
  PROVE  ReachedFrom(E, x) \subseteq S
BY GraphIsDigraph, LeastReach

LEMMA ReachIsClosed ==
  ASSUME NEW E, IsGraph(E), NEW x
  PROVE  /\ x \in ReachedFrom(E, x)
         /\ \A y \in ReachedFrom(E, x) : Targets(E, y) \subseteq ReachedFrom(E, x)
         /\ ReachedFrom(E, x) \subseteq Labels(E) \cup {x}
BY GraphIsDigraph, ClosedReach

\* What a label that is reached reaches is reached.
LEMMA ReachIsTransitive ==
  ASSUME NEW E, IsGraph(E), NEW x, NEW y \in ReachedFrom(E, x)
  PROVE  ReachedFrom(E, y) \subseteq ReachedFrom(E, x)
<1>1. \A z \in ReachedFrom(E, x) : Targets(E, z) \subseteq ReachedFrom(E, x)
  BY ReachIsClosed
<1> QED
  BY <1>1, ReachIsLeast

\* An edge is a way.
LEMMA EdgeIsReach ==
  ASSUME NEW E, IsGraph(E), NEW x, NEW y, <<x, y>> \in E
  PROVE  y \in ReachedFrom(E, x)
<1>1. x \in ReachedFrom(E, x) /\ Targets(E, x) \subseteq ReachedFrom(E, x)
  BY ReachIsClosed
<1>2. x # y => y \in Targets(E, x)
  BY GraphWorks
<1> QED
  BY <1>1, <1>2

\* More edges, more reach.
LEMMA ReachGrowsWithEdges ==
  ASSUME NEW E, IsGraph(E), NEW D, IsGraph(D), D \subseteq E, NEW x
  PROVE  ReachedFrom(D, x) \subseteq ReachedFrom(E, x)
<1>1. \A z : Targets(D, z) \subseteq Targets(E, z)
  BY DEF Targets
<1>2. x \in ReachedFrom(E, x) /\ \A z \in ReachedFrom(E, x) : Targets(E, z) \subseteq ReachedFrom(E, x)
  BY ReachIsClosed
<1>3. \A z \in ReachedFrom(E, x) : Targets(D, z) \subseteq ReachedFrom(E, x)
  BY <1>1, <1>2
<1> QED
  BY <1>2, <1>3, ReachIsLeast

-----------------------------------------------------------------------------
\* A finite set of numbers has a least one.
LEMMA MinWorks ==
  ASSUME NEW S \in SUBSET Int, IsFiniteSet(S), S # {}
  PROVE  Min(S) \in S /\ \A m \in S : Min(S) <= m
<1>1. Cardinality(S) \in Nat /\ ExistsBijection(1 .. Cardinality(S), S)
  BY FS_CardinalityType
<1> DEFINE n == Cardinality(S)
<1>2. PICK f : f \in Bijection(1 .. n, S)
  BY <1>1 DEF ExistsBijection
<1>3. f \in [1 .. n -> S] /\ \A s \in S : \E i \in 1 .. n : f[i] = s
  BY <1>2 DEF Bijection, Surjection, Injection
<1>4. n \in Nat /\ n # 0
  <2>1. \E s \in S : TRUE
    OBVIOUS
  <2>2. \E i \in 1 .. n : TRUE
    BY <1>3, <2>1
  <2> QED
    BY <1>1, <2>2
<1> HIDE DEF n
<1> DEFINE Having == {k \in 0 .. n : k # 0 => \E i \in 1 .. k : \A j \in 1 .. k : f[i] <= f[j]}
<1>5. 0 \in Having
  BY <1>4
<1>6. ASSUME NEW k \in 1 .. n, k - 1 \in Having PROVE k \in Having
  <2>1. \A j \in 1 .. n : f[j] \in Int
    BY <1>3
  <2>2. CASE k = 1
    BY <1>4, <2>1, <2>2
  <2>3. CASE k # 1
    <3>1. PICK i \in 1 .. k - 1 : \A j \in 1 .. k - 1 : f[i] <= f[j]
      BY <1>4, <1>6, <2>3
    <3>2. \A j \in 1 .. k : j = k \/ j \in 1 .. k - 1
      BY <1>4
    <3>3. i \in 1 .. n /\ k \in 1 .. n /\ i \in 1 .. k /\ k \in 1 .. k /\ \A j \in 1 .. k : j \in 1 .. n
      BY <1>4
    <3>4. CASE f[i] <= f[k]
      BY <3>1, <3>2, <3>3, <3>4
    <3>5. CASE f[k] <= f[i]
      <4>1. \A j \in 1 .. k : f[k] <= f[j]
        BY <2>1, <3>1, <3>2, <3>3, <3>5
      <4> QED
        BY <3>3, <4>1
    <3> QED
      BY <2>1, <3>3, <3>4, <3>5
  <2> QED
    BY <2>2, <2>3
<1> HIDE DEF Having
<1>7. n \in Having
  BY <1>4, <1>5, <1>6, Induction
<1>8. PICK i \in 1 .. n : \A j \in 1 .. n : f[i] <= f[j]
  BY <1>4, <1>7 DEF Having
<1>9. f[i] \in S /\ \A m \in S : f[i] <= m
  BY <1>3, <1>8
<1> QED
  BY <1>9 DEF Min

-----------------------------------------------------------------------------
\* Components.
LEMMA InducedWorks ==
  ASSUME NEW E, IsGraph(E), NEW L
  PROVE  /\ IsGraph(Induced(E, L)) /\ Induced(E, L) \subseteq E
         /\ \A x, y : <<x, y>> \in Induced(E, L) <=> <<x, y>> \in E /\ x \in L /\ y \in L
         /\ Labels(Induced(E, L)) \subseteq L
<1>1. Induced(E, L) \subseteq E
  BY DEF Induced
<1>2. IsGraph(Induced(E, L))
  BY <1>1, FS_Subset DEF IsGraph
<1>3. \A x, y : <<x, y>> \in Induced(E, L) <=> <<x, y>> \in E /\ x \in L /\ y \in L
  BY DEF Induced
<1>4. Labels(Induced(E, L)) \subseteq L
  BY DEF Induced, Labels
<1> QED
  BY <1>1, <1>2, <1>3, <1>4

\* All labels induce the whole graph.
LEMMA InducedByAll ==
  ASSUME NEW E, IsGraph(E)
  PROVE  Induced(E, Labels(E)) = E
BY DEF Induced, Labels

\* A set of labels that all reach one of them, that it reaches, and that leaves
\* none out, is its component.
LEMMA StrongMeans ==
  ASSUME NEW E, IsGraph(E), NEW x
  PROVE  StrongComponentOf(E, Labels(E), x)
           = {y \in ReachedFrom(E, x) : x \in ReachedFrom(E, y)}
BY InducedByAll DEF StrongComponentOf

\* The labels that reach x and that x reaches are a component of the whole graph.
LEMMA StrongIsComponent ==
  ASSUME NEW E, IsGraph(E), NEW x \in Labels(E), NEW C,
         \A y : y \in C <=> y \in ReachedFrom(E, x) /\ x \in ReachedFrom(E, y)
  PROVE  C \in StrongComponents(E)
<1>1. C = StrongComponentOf(E, Labels(E), x)
  BY StrongMeans
<1> QED
  BY <1>1 DEF StrongComponents

\* And each component is those of any of its labels.
LEMMA ComponentIsStrong ==
  ASSUME NEW E, IsGraph(E), NEW C \in StrongComponents(E)
  PROVE  /\ C # {} /\ C \subseteq Labels(E)
         /\ \A x \in C : \A y : y \in C <=> y \in ReachedFrom(E, x) /\ x \in ReachedFrom(E, y)
<1>1. PICK r \in Labels(E) : C = StrongComponentOf(E, Labels(E), r)
  BY DEF StrongComponents
<1>2. \A y : y \in C <=> y \in ReachedFrom(E, r) /\ r \in ReachedFrom(E, y)
  BY <1>1, StrongMeans
<1>3. r \in C /\ C \subseteq Labels(E)
  BY <1>2, ReachIsClosed
<1>4. ASSUME NEW x \in C, NEW y PROVE y \in C <=> y \in ReachedFrom(E, x) /\ x \in ReachedFrom(E, y)
  <2>1. x \in ReachedFrom(E, r) /\ r \in ReachedFrom(E, x)
    BY <1>2
  <2>2. ReachedFrom(E, x) = ReachedFrom(E, r)
    BY <2>1, ReachIsTransitive
  <2>3. x \in ReachedFrom(E, y) <=> r \in ReachedFrom(E, y)
    BY <2>1, ReachIsTransitive
  <2> QED
    BY <1>2, <2>2, <2>3
<1> QED
  BY <1>3, <1>4

-----------------------------------------------------------------------------
\* Circuits.  The paths of ElementaryCircuits, by their length, are the simple paths
\* from a least label; one more label than there are would have one twice.
Longer(E, P) ==
  UNION {{Append(p, l) : l \in {t \in Targets(E, Last(p)) : t > p[1] /\ t \notin Range(p)}} : p \in P}
IsPaths(w, E, n) ==
  w = [k \in 1 .. n |-> IF k = 1 THEN {<<label>> : label \in Labels(E)} ELSE Longer(E, w[k - 1])]

\* The recursive function over lengths is what its equation says.
LEMMA PathsUnfold ==
  ASSUME NEW E, NEW n \in Nat, NEW w, IsPaths(w, E, n)
  PROVE  \A k \in 1 .. n : w[k] = IF k = 1 THEN {<<label>> : label \in Labels(E)} ELSE Longer(E, w[k - 1])
<1> DEFINE f == [k \in 1 .. n |-> IF k = 1 THEN {<<label>> : label \in Labels(E)} ELSE Longer(E, w[k - 1])]
<1>1. w = f
  BY DEF IsPaths
<1>2. \A k \in 1 .. n : f[k] = IF k = 1 THEN {<<label>> : label \in Labels(E)} ELSE Longer(E, w[k - 1])
  OBVIOUS
<1> HIDE DEF f
<1> QED
  BY <1>1, <1>2

\* There is such a function, up to any length.
LEMMA PathsExist ==
  ASSUME NEW E, NEW n \in Nat
  PROVE  \E w : IsPaths(w, E, n)
<1> DEFINE With == {m \in Nat : \E w : IsPaths(w, E, m)}
           first == {<<label>> : label \in Labels(E)}
<1>1. 0 \in With
  <2> DEFINE none(w) == [k \in 1 .. 0 |-> IF k = 1 THEN first ELSE Longer(E, w[k - 1])]
  <2>1. \A w : none(w) = << >>
    OBVIOUS
  <2>2. IsPaths(<< >>, E, 0)
    BY <2>1 DEF IsPaths
  <2> QED
    BY <2>2
<1>2. ASSUME NEW m \in Nat, m \in With PROVE m + 1 \in With
  <2>1. PICK w : IsPaths(w, E, m)
    BY <1>2
  <2> DEFINE all(u, k) == IF k = 1 THEN first ELSE Longer(E, u[k - 1])
             v == [k \in 1 .. m + 1 |-> IF k = m + 1 THEN all(w, k) ELSE w[k]]
  <2>2. \A k \in 1 .. m : w[k] = all(w, k)
    BY <2>1, PathsUnfold
  <2> HIDE DEF first
  <2>3. \A k \in 1 .. m : v[k] = w[k]
    OBVIOUS
  <2>4. v[m + 1] = all(w, m + 1)
    OBVIOUS
  <2>5. v = [k \in 1 .. m + 1 |-> v[k]]
    OBVIOUS
  <2> HIDE DEF v
  <2>6. ASSUME NEW k \in 1 .. m + 1 PROVE v[k] = all(v, k)
    <3>1. CASE k = 1 /\ k \in 1 .. m
      BY <2>2, <2>3, <3>1
    <3>2. CASE k # 1 /\ k \in 1 .. m
      <4>1. k - 1 \in 1 .. m
        BY <3>2
      <4> QED
        BY <2>2, <2>3, <3>2, <4>1
    <3>3. CASE k = m + 1 /\ k # 1
      <4>1. k - 1 \in 1 .. m
        BY <3>3
      <4> QED
        BY <2>3, <2>4, <3>3, <4>1
    <3>4. CASE k = m + 1 /\ k = 1
      BY <2>4, <3>4
    <3> QED
      BY <3>1, <3>2, <3>3, <3>4
  <2>7. [k \in 1 .. m + 1 |-> v[k]] = [k \in 1 .. m + 1 |-> all(v, k)]
    BY <2>6
  <2>8. IsPaths(v, E, m + 1)
    BY <2>5, <2>7 DEF IsPaths, first
  <2> QED
    BY <2>8
<1> HIDE DEF With
<1>3. Nat \subseteq With
  BY <1>1, <1>2, NatsByInduction
<1> QED
  BY <1>3 DEF With

IsSimplePath(E, p, k) ==
  /\ p \in Seq(Labels(E)) /\ Len(p) = k /\ IsInjective(p)
  /\ \A i \in 2 .. k : p[1] < p[i]
  /\ \A i \in 1 .. k - 1 : <<p[i], p[i + 1]>> \in E

\* One label more makes simple paths of one label more of simple paths.
LEMMA LongerIsSimple ==
  ASSUME NEW E, IsGraph(E), NEW k \in Nat, k > 1,
         NEW P, \A p : p \in P <=> IsSimplePath(E, p, k - 1)
  PROVE  \A p : p \in Longer(E, P) <=> IsSimplePath(E, p, k)
<1>1. ASSUME NEW p \in P, NEW l \in Targets(E, Last(p)), l > p[1], l \notin Range(p)
      PROVE  IsSimplePath(E, Append(p, l), k)
  <2> DEFINE q == Append(p, l)
  <2>1. /\ p \in Seq(Labels(E)) /\ Len(p) = k - 1 /\ IsInjective(p)
        /\ \A i \in 2 .. k - 1 : p[1] < p[i]
        /\ \A i \in 1 .. (k - 1) - 1 : <<p[i], p[i + 1]>> \in E
    BY DEF IsSimplePath
  <2>2. l \in Labels(E) /\ <<p[k - 1], l>> \in E
    BY <2>1, <1>1, GraphWorks DEF Last
  <2>3. /\ q \in Seq(Labels(E)) /\ Len(q) = k /\ q[k] = l
        /\ \A i \in 1 .. k - 1 : q[i] = p[i]
        /\ DOMAIN q = 1 .. k /\ DOMAIN p = 1 .. k - 1
    BY <2>1, <2>2
  <2> HIDE DEF q
  <2>4. ASSUME NEW i \in 1 .. k, NEW j \in 1 .. k, q[i] = q[j] PROVE i = j
    <3>1. CASE i \in 1 .. k - 1 /\ j \in 1 .. k - 1
      BY <2>1, <2>3, <2>4, <3>1 DEF IsInjective
    <3>2. \A m \in 1 .. k - 1 : q[m] # l
      BY <1>1, <2>3 DEF Range
    <3>3. i = k \/ i \in 1 .. k - 1
      OBVIOUS
    <3>4. j = k \/ j \in 1 .. k - 1
      OBVIOUS
    <3> QED
      BY <2>3, <2>4, <3>1, <3>2, <3>3, <3>4
  <2>5. ASSUME NEW i \in 2 .. k PROVE q[1] < q[i]
    <3>1. q[1] = p[1] /\ p[1] \in Int /\ l \in Int
      <4>1. 1 \in 1 .. k - 1
        OBVIOUS
      <4> QED
        BY <2>1, <2>2, <2>3, <4>1, GraphWorks
    <3>2. CASE i = k
      BY <1>1, <2>3, <3>1, <3>2
    <3>3. CASE i # k
      <4>1. i \in 2 .. k - 1 /\ i \in 1 .. k - 1
        BY <3>3
      <4> QED
        BY <2>1, <2>3, <3>1, <4>1
    <3> QED
      BY <3>2, <3>3
  <2>6. ASSUME NEW i \in 1 .. k - 1 PROVE <<q[i], q[i + 1]>> \in E
    <3>1. CASE i = k - 1
      BY <2>2, <2>3, <3>1
    <3>2. CASE i # k - 1
      <4>1. i \in 1 .. (k - 1) - 1 /\ i + 1 \in 1 .. k - 1
        BY <3>2
      <4> QED
        BY <2>1, <2>3, <4>1
    <3> QED
      BY <3>1, <3>2
  <2>7. IsInjective(q)
    BY <2>3, <2>4 DEF IsInjective
  <2>8. IsSimplePath(E, q, k)
    BY <2>3, <2>5, <2>6, <2>7 DEF IsSimplePath
  <2> QED
    BY <2>8 DEF q
<1>2. ASSUME NEW q, IsSimplePath(E, q, k) PROVE q \in Longer(E, P)
  <2> DEFINE p == SubSeq(q, 1, k - 1)
             l == q[k]
  <2>1. /\ q \in Seq(Labels(E)) /\ Len(q) = k /\ DOMAIN q = 1 .. k
        /\ \A i, j \in 1 .. k : q[i] = q[j] => i = j
        /\ \A i \in 2 .. k : q[1] < q[i]
        /\ \A i \in 1 .. k - 1 : <<q[i], q[i + 1]>> \in E
    BY <1>2 DEF IsSimplePath, IsInjective
  <2>2. /\ p \in Seq(Labels(E)) /\ Len(p) = k - 1 /\ DOMAIN p = 1 .. k - 1
        /\ \A i \in 1 .. k - 1 : p[i] = q[i] /\ i \in 1 .. k
        /\ l \in Labels(E) /\ 1 \in 1 .. k - 1 /\ k - 1 \in 1 .. k - 1 /\ k \in 1 .. k
    BY <2>1
  <2> HIDE DEF p
  <2>3. IsInjective(p)
    BY <2>1, <2>2 DEF IsInjective
  <2>4. \A i \in 2 .. k - 1 : p[1] < p[i]
    BY <2>1, <2>2
  <2>5. \A i \in 1 .. (k - 1) - 1 : <<p[i], p[i + 1]>> \in E
    <3> SUFFICES ASSUME NEW i \in 1 .. (k - 1) - 1 PROVE <<p[i], p[i + 1]>> \in E
      OBVIOUS
    <3>1. i \in 1 .. k - 1 /\ i + 1 \in 1 .. k - 1
      OBVIOUS
    <3> QED
      BY <2>1, <2>2, <3>1
  <2>6. p \in P
    BY <2>2, <2>3, <2>4, <2>5 DEF IsSimplePath
  <2>7. Last(p) = q[k - 1] /\ <<q[k - 1], l>> \in E /\ q[k - 1] # l
    <3>1. k - 1 # k /\ (k - 1) + 1 = k
      OBVIOUS
    <3> QED
      BY <2>1, <2>2, <3>1 DEF Last
  <2>8. l \in Targets(E, Last(p))
    BY <2>7, GraphWorks
  <2>9. l > p[1]
    <3>1. q[1] < q[k] /\ q[1] = p[1]
      BY <2>1, <2>2
    <3>2. q[1] \in Int /\ q[k] \in Int
      BY <2>1, <2>2, GraphWorks
    <3> QED
      BY <3>1, <3>2
  <2>10. l \notin Range(p)
    <3>1. \A i \in 1 .. k - 1 : i # k
      OBVIOUS
    <3> QED
      BY <2>1, <2>2, <3>1 DEF Range
  <2>11. q = Append(p, l)
    <3>1. Append(p, l) \in Seq(Labels(E)) /\ Len(Append(p, l)) = k
      BY <2>2
    <3>2. \A i \in 1 .. k : Append(p, l)[i] = q[i]
      BY <2>2
    <3> QED
      BY <2>1, <3>1, <3>2
  <2> QED
    BY <2>6, <2>8, <2>9, <2>10, <2>11 DEF Longer
<1> QED
  BY <1>1, <1>2 DEF Longer

\* So at every length it holds the simple paths of that length, no more and no less.
LEMMA PathsAreSimple ==
  ASSUME NEW E, IsGraph(E), NEW n \in Nat, NEW w, IsPaths(w, E, n)
  PROVE  \A k \in 1 .. n : \A p : p \in w[k] <=> IsSimplePath(E, p, k)
<1> DEFINE Simple == {k \in 0 .. n : k # 0 => \A p : p \in w[k] <=> IsSimplePath(E, p, k)}
<1>1. \A k \in 1 .. n : w[k] = IF k = 1 THEN {<<label>> : label \in Labels(E)} ELSE Longer(E, w[k - 1])
  BY PathsUnfold
<1>2. \A p : p \in {<<label>> : label \in Labels(E)} <=> IsSimplePath(E, p, 1)
  <2>1. ASSUME NEW label \in Labels(E) PROVE IsSimplePath(E, <<label>>, 1)
    BY DEF IsSimplePath, IsInjective
  <2>2. ASSUME NEW p, IsSimplePath(E, p, 1) PROVE p = <<p[1]>> /\ p[1] \in Labels(E)
    BY <2>2 DEF IsSimplePath
  <2> QED
    BY <2>1, <2>2
<1>3. 0 \in Simple
  OBVIOUS
<1>4. ASSUME NEW k \in 1 .. n, k - 1 \in Simple PROVE k \in Simple
  <2>0. k \in 0 .. n
    OBVIOUS
  <2>1. CASE k = 1
    <3>1. w[k] = {<<label>> : label \in Labels(E)}
      BY <1>1, <2>1
    <3>2. \A p : p \in w[k] <=> IsSimplePath(E, p, k)
      BY <1>2, <2>1, <3>1
    <3> QED
      BY <2>0, <3>2
  <2>2. CASE k # 1
    <3>1. \A p : p \in w[k - 1] <=> IsSimplePath(E, p, k - 1)
      BY <1>4, <2>2
    <3>2. k \in Nat /\ k > 1
      BY <2>2
    <3>3. \A p : p \in Longer(E, w[k - 1]) <=> IsSimplePath(E, p, k)
      BY <3>1, <3>2, LongerIsSimple
    <3>4. w[k] = Longer(E, w[k - 1])
      BY <1>1, <2>2
    <3>5. \A p : p \in w[k] <=> IsSimplePath(E, p, k)
      BY <3>3, <3>4
    <3> QED
      BY <2>0, <3>5
  <2> QED
    BY <2>1, <2>2
<1> HIDE DEF Simple
<1>5. \A k \in 0 .. n : k \in Simple
  BY <1>3, <1>4, Induction
<1>6. \A k \in 1 .. n : k \in 0 .. n /\ k # 0
  OBVIOUS
<1> QED
  BY <1>5, <1>6 DEF Simple

\* ElementaryCircuits, counted out up to the number of labels, misses no circuit.
LEMMA CircuitsAreElementary ==
  ASSUME NEW E, IsGraph(E), NEW c
  PROVE  c \in ElementaryCircuits(E) <=> c \in Seq(Labels(E)) /\ IsElementaryCircuit(E, c)
<1> DEFINE n == Cardinality(Labels(E))
<1>1. n \in Nat /\ IsFiniteSet(Labels(E)) /\ Labels(E) \in SUBSET Int
  BY GraphWorks, FS_CardinalityType
<1> DEFINE w == CHOOSE u : IsPaths(u, E, n)
<1>2. ElementaryCircuits(E) = UNION {{p \in w[k] : <<Last(p), p[1]>> \in E} : k \in 2 .. n}
  BY DEF ElementaryCircuits, IsPaths, Longer
<1>3. IsPaths(w, E, n)
  BY <1>1, PathsExist
<1> HIDE DEF w
<1>4. \A k \in 1 .. n : \A p : p \in w[k] <=> IsSimplePath(E, p, k)
  BY <1>1, <1>3, PathsAreSimple
<1>5. \A k \in 2 .. n : k \in 1 .. n
  BY <1>1
<1> HIDE DEF n
<1>6. ASSUME c \in ElementaryCircuits(E)
      PROVE  c \in Seq(Labels(E)) /\ IsElementaryCircuit(E, c)
  <2>1. PICK k \in 2 .. n : IsSimplePath(E, c, k) /\ <<Last(c), c[1]>> \in E
    BY <1>2, <1>4, <1>5, <1>6
  <2>2. /\ c \in Seq(Labels(E)) /\ Len(c) = k /\ IsInjective(c)
        /\ \A i \in 2 .. k : c[1] < c[i]
        /\ \A i \in 1 .. k - 1 : <<c[i], c[i + 1]>> \in E
        /\ <<c[k], c[1]>> \in E
    BY <2>1 DEF IsSimplePath, Last
  <2>3. ASSUME NEW i \in 1 .. k PROVE c[1] <= c[i]
    <3>1. c[1] \in Int /\ c[i] \in Int
      BY <1>1, <2>2
    <3>2. i = 1 \/ i \in 2 .. k
      BY <1>1
    <3> QED
      BY <2>2, <3>1, <3>2
  <2>4. ASSUME NEW i \in 1 .. k PROVE <<c[i], c[(i % k) + 1]>> \in E
    <3>1. CASE i = k
      <4>1. i % k = 0
        BY <1>1, <3>1
      <4> QED
        BY <2>2, <3>1, <4>1
    <3>2. CASE i # k
      <4>1. i % k = i /\ i \in 1 .. k - 1
        BY <1>1, <3>2
      <4> QED
        BY <2>2, <4>1
    <3> QED
      BY <3>1, <3>2
  <2> QED
    BY <1>1, <2>2, <2>3, <2>4 DEF IsElementaryCircuit
<1>7. ASSUME c \in Seq(Labels(E)), IsElementaryCircuit(E, c)
      PROVE  c \in ElementaryCircuits(E)
  <2> DEFINE k == Len(c)
  <2>1. /\ k \in Nat /\ k >= 2 /\ DOMAIN c = 1 .. k /\ IsInjective(c)
        /\ \A i \in 1 .. k : c[i] \in Labels(E)
        /\ \A i \in 1 .. k : c[1] <= c[i]
        /\ \A i \in 1 .. k : <<c[i], c[(i % k) + 1]>> \in E
    BY <1>7 DEF IsElementaryCircuit
  <2>2. k <= n
    <3>1. c \in Injection(1 .. k, Labels(E))
      BY <1>7, <2>1 DEF IsInjective, Injection
    <3>2. Cardinality(1 .. k) = k
      BY <2>1, FS_Interval
    <3> QED
      BY <1>1, <3>1, <3>2, FS_Injection DEF n
  <2> HIDE DEF k
  <2>3. ASSUME NEW i \in 2 .. k PROVE c[1] < c[i]
    <3>1. i \in 1 .. k /\ 1 \in 1 .. k /\ i # 1
      BY <2>1
    <3>2. c[i] # c[1] /\ c[1] <= c[i] /\ c[1] \in Int /\ c[i] \in Int
      BY <1>1, <2>1, <3>1 DEF IsInjective
    <3> QED
      BY <3>2
  <2>4. ASSUME NEW i \in 1 .. k - 1 PROVE <<c[i], c[i + 1]>> \in E
    <3>1. i % k = i /\ i \in 1 .. k
      BY <2>1
    <3>2. <<c[i], c[(i % k) + 1]>> \in E
      BY <2>1, <3>1
    <3> QED
      BY <3>1, <3>2
  <2>5. <<Last(c), c[1]>> \in E
    <3>1. k % k = 0 /\ k \in 1 .. k
      BY <2>1
    <3>2. <<c[k], c[(k % k) + 1]>> \in E
      BY <2>1, <3>1
    <3>3. <<c[k], c[1]>> \in E
      BY <3>1, <3>2
    <3> QED
      BY <3>3 DEF Last, k
  <2>6. IsSimplePath(E, c, k)
    BY <1>7, <2>1, <2>3, <2>4 DEF IsSimplePath, k
  <2>7. k \in 2 .. n /\ k \in 1 .. n
    BY <1>1, <2>1, <2>2
  <2> QED
    BY <1>2, <1>4, <2>5, <2>6, <2>7
<1> QED
  BY <1>6, <1>7

\* The label after a label of a circuit.
NextOf(c, i) == c[(i % Len(c)) + 1]

\* What a circuit is, label by label.
LEMMA CircuitWorks ==
  ASSUME NEW E, IsGraph(E), NEW c \in ElementaryCircuits(E)
  PROVE  /\ c \in Seq(Labels(E)) /\ Len(c) \in Nat /\ Len(c) >= 2 /\ DOMAIN c = 1 .. Len(c)
         /\ \A i \in 1 .. Len(c) : c[i] \in Labels(E) /\ c[i] \in Int /\ c[1] <= c[i]
         /\ \A i, j \in 1 .. Len(c) : c[i] = c[j] => i = j
         /\ \A i \in 1 .. Len(c) : NextOf(c, i) \in Targets(E, c[i]) /\ <<c[i], NextOf(c, i)>> \in E
         /\ \A i \in 1 .. Len(c) : i # Len(c) => i + 1 \in 1 .. Len(c) /\ NextOf(c, i) = c[i + 1]
         /\ NextOf(c, Len(c)) = c[1]
<1>1. c \in Seq(Labels(E)) /\ IsElementaryCircuit(E, c)
  BY CircuitsAreElementary
<1>2. Len(c) \in Nat /\ Len(c) >= 2 /\ DOMAIN c = 1 .. Len(c) /\ \A i \in 1 .. Len(c) : c[i] \in Labels(E)
  BY <1>1 DEF IsElementaryCircuit
<1> DEFINE n == Len(c)
<1>3. \A i \in 1 .. n : c[i] \in Int /\ c[1] <= c[i]
  BY <1>1, <1>2, GraphWorks DEF IsElementaryCircuit
<1>4. \A i, j \in 1 .. n : c[i] = c[j] => i = j
  BY <1>1, <1>2 DEF IsElementaryCircuit, IsInjective
<1>5. \A i \in 1 .. n : <<c[i], NextOf(c, i)>> \in E
  BY <1>1 DEF IsElementaryCircuit, NextOf
<1> HIDE DEF n
<1>6. ASSUME NEW i \in 1 .. n, i # n PROVE i % n = i /\ i + 1 \in 1 .. n
  <2>1. n \in Nat
    BY <1>2 DEF n
  <2>2. i \in Nat /\ i < n
    BY <1>6, <2>1
  <2> QED
    BY <2>1, <2>2
<1>7. n % n = 0 /\ n \in 1 .. n /\ 1 \in 1 .. n
  BY <1>2 DEF n
<1>8. \A i \in 1 .. n : i # n => i + 1 \in 1 .. n /\ NextOf(c, i) = c[i + 1]
  BY <1>6 DEF NextOf, n
<1>9. NextOf(c, n) = c[1]
  BY <1>7 DEF NextOf, n
<1>10. ASSUME NEW i \in 1 .. n PROVE NextOf(c, i) # c[i]
  <2>1. CASE i = n
    BY <1>2, <1>4, <1>7, <1>9, <2>1 DEF n
  <2>2. CASE i # n
    BY <1>4, <1>8, <2>2
  <2> QED
    BY <2>1, <2>2
<1>11. \A i \in 1 .. n : NextOf(c, i) \in Targets(E, c[i])
  BY <1>5, <1>10, GraphWorks
<1> QED
  BY <1>1, <1>2, <1>3, <1>4, <1>5, <1>8, <1>9, <1>11 DEF n

\* Along a circuit every label reaches every other, in any graph that has its edges.
LEMMA CircuitReaches ==
  ASSUME NEW E, IsGraph(E), NEW c \in ElementaryCircuits(E), NEW D, IsGraph(D),
         \A i \in 1 .. Len(c) : <<c[i], NextOf(c, i)>> \in D
  PROVE  \A i, j \in 1 .. Len(c) : c[j] \in ReachedFrom(D, c[i])
<1> DEFINE n == Len(c)
<1>1. /\ n \in Nat /\ n >= 2
      /\ \A i \in 1 .. n : i # n => i + 1 \in 1 .. n /\ NextOf(c, i) = c[i + 1]
      /\ NextOf(c, n) = c[1]
  BY CircuitWorks
<1>2. \A i \in 1 .. n : NextOf(c, i) \in ReachedFrom(D, c[i])
  BY EdgeIsReach
<1> HIDE DEF n
<1>3. \A i \in 1 .. n : c[i] \in ReachedFrom(D, c[1])
  <2> DEFINE Got == {k \in 0 .. n : k # 0 => c[k] \in ReachedFrom(D, c[1])}
  <2>1. 0 \in Got
    BY <1>1
  <2>2. ASSUME NEW k \in 1 .. n, k - 1 \in Got PROVE k \in Got
    <3>1. CASE k = 1
      BY <1>1, <3>1, ReachIsClosed
    <3>2. CASE k # 1
      <4>1. k - 1 \in 1 .. n /\ k - 1 # n /\ (k - 1) + 1 = k /\ k - 1 # 0
        BY <1>1, <3>2
      <4>2. c[k] \in ReachedFrom(D, c[k - 1]) /\ c[k - 1] \in ReachedFrom(D, c[1])
        BY <1>1, <1>2, <2>2, <4>1
      <4> QED
        BY <4>2, ReachIsTransitive
    <3> QED
      BY <3>1, <3>2
  <2> HIDE DEF Got
  <2>3. \A k \in 0 .. n : k \in Got
    BY <1>1, <2>1, <2>2, Induction
  <2> QED
    BY <1>1, <2>3 DEF Got
<1>4. \A i \in 1 .. n : c[1] \in ReachedFrom(D, c[i])
  <2> DEFINE Back == {k \in 0 .. n - 1 : c[1] \in ReachedFrom(D, c[n - k])}
  <2>1. 0 \in Back
    <3>1. n \in 1 .. n /\ n - 0 = n
      BY <1>1
    <3> QED
      BY <1>1, <1>2, <3>1
  <2>2. ASSUME NEW k \in 1 .. n - 1, k - 1 \in Back PROVE k \in Back
    <3>1. /\ n - k \in 1 .. n /\ n - k # n /\ (n - k) + 1 = n - (k - 1)
      BY <1>1
    <3>2. c[n - (k - 1)] \in ReachedFrom(D, c[n - k]) /\ c[1] \in ReachedFrom(D, c[n - (k - 1)])
      BY <1>1, <1>2, <2>2, <3>1
    <3> QED
      BY <3>2, ReachIsTransitive
  <2> HIDE DEF Back
  <2>3. n - 1 \in Nat
    BY <1>1
  <2>4. \A k \in 0 .. n - 1 : k \in Back
    BY <2>1, <2>2, <2>3, Induction
  <2>5. ASSUME NEW i \in 1 .. n PROVE n - i \in 0 .. n - 1 /\ n - (n - i) = i
    BY <1>1
  <2> QED
    BY <2>4, <2>5 DEF Back
<1> QED
  BY <1>3, <1>4, ReachIsTransitive DEF n

-----------------------------------------------------------------------------
\* A walk from one label to another, which may come by a label more than once.
IsWalk(E, p, x, y) ==
  /\ p \in Seq(Labels(E)) /\ Len(p) >= 1 /\ p[1] = x /\ p[Len(p)] = y
  /\ \A k \in 1 .. Len(p) - 1 : <<p[k], p[k + 1]>> \in E

\* What is reached is walked to.
LEMMA WalkExists ==
  ASSUME NEW E, IsGraph(E), NEW x \in Labels(E), NEW y \in ReachedFrom(E, x)
  PROVE  \E p : IsWalk(E, p, x, y)
<1> DEFINE S == {z \in Labels(E) : \E p : IsWalk(E, p, x, z)}
<1>1. x \in S
  <2>1. IsWalk(E, <<x>>, x, x)
    BY DEF IsWalk
  <2> QED
    BY <2>1
<1>2. ASSUME NEW z \in S, NEW t \in Targets(E, z) PROVE t \in S
  <2>1. PICK p : IsWalk(E, p, x, z)
    OBVIOUS
  <2>2. t \in Labels(E) /\ <<z, t>> \in E
    BY GraphWorks
  <2> DEFINE q == Append(p, t)
             n == Len(p)
  <2>3. /\ p \in Seq(Labels(E)) /\ n \in Nat /\ n >= 1 /\ p[1] = x /\ p[n] = z
        /\ \A k \in 1 .. n - 1 : <<p[k], p[k + 1]>> \in E
    BY <2>1 DEF IsWalk
  <2>4. /\ q \in Seq(Labels(E)) /\ Len(q) = n + 1 /\ q[n + 1] = t
        /\ \A k \in 1 .. n : q[k] = p[k]
    BY <2>2, <2>3
  <2> HIDE DEF q, n
  <2>5. ASSUME NEW k \in 1 .. n PROVE <<q[k], q[k + 1]>> \in E
    <3>1. CASE k = n
      BY <2>2, <2>3, <2>4, <3>1
    <3>2. CASE k # n
      <4>1. k \in 1 .. n - 1 /\ k + 1 \in 1 .. n
        BY <2>3, <3>2
      <4> QED
        BY <2>3, <2>4, <4>1
    <3> QED
      BY <3>1, <3>2
  <2>6. 1 \in 1 .. n /\ n + 1 >= 1 /\ (n + 1) - 1 = n
    BY <2>3
  <2>7. IsWalk(E, q, x, t)
    BY <2>3, <2>4, <2>5, <2>6 DEF IsWalk
  <2> QED
    BY <2>2, <2>7
<1> HIDE DEF S
<1>3. \A z \in S : Targets(E, z) \subseteq S
  BY <1>2
<1>4. ReachedFrom(E, x) \subseteq S
  BY <1>1, <1>3, ReachIsLeast
<1> QED
  BY <1>4 DEF S

\* A walk that comes by a label twice can be cut short.
LEMMA WalkIsCutShort ==
  ASSUME NEW E, NEW x, NEW y, NEW p, IsWalk(E, p, x, y),
         NEW i \in 1 .. Len(p), NEW j \in 1 .. Len(p), i < j, p[i] = p[j]
  PROVE  \E q : IsWalk(E, q, x, y) /\ Len(q) < Len(p)
<1> DEFINE n == Len(p)
           d == j - i
           q == [k \in 1 .. n - d |-> IF k <= i THEN p[k] ELSE p[k + d]]
<1>1. /\ p \in Seq(Labels(E)) /\ n \in Nat /\ n >= 1 /\ p[1] = x /\ p[n] = y
      /\ \A k \in 1 .. n - 1 : <<p[k], p[k + 1]>> \in E
      /\ \A k \in 1 .. n : p[k] \in Labels(E)
  BY DEF IsWalk
<1>2. /\ i \in Nat /\ j \in Nat /\ i >= 1 /\ j <= n /\ i < j
      /\ d \in Nat /\ d >= 1 /\ n - d \in Nat /\ n - d >= i /\ n - d >= 1 /\ j = i + d
  BY <1>1
<1> HIDE DEF n, d
<1>3. \A k \in 1 .. n - d : q[k] = IF k <= i THEN p[k] ELSE p[k + d]
  OBVIOUS
<1>4. \A k \in 1 .. n - d : k \in 1 .. n /\ k + d \in 1 .. n
  BY <1>1, <1>2
<1>5. q \in Seq(Labels(E)) /\ Len(q) = n - d
  <2>1. q \in [1 .. n - d -> Labels(E)]
    BY <1>1, <1>4
  <2> HIDE DEF q
  <2>2. \A l \in Nat : q \in [1 .. l -> Labels(E)] => q \in Seq(Labels(E)) /\ Len(q) = l
    OBVIOUS
  <2> QED
    BY <1>2, <2>1, <2>2
<1> HIDE DEF q
<1>6. q[1] = x
  BY <1>1, <1>2, <1>3
<1>7. q[n - d] = y
  <2>1. n - d \in 1 .. n - d /\ (n - d) + d = n
    BY <1>1, <1>2
  <2>2. CASE n - d <= i
    <3>1. n - d = i /\ j = n
      BY <1>1, <1>2, <2>2
    <3> QED
      BY <1>1, <1>3, <2>1, <3>1
  <2>3. CASE ~(n - d <= i)
    BY <1>1, <1>3, <2>1, <2>3
  <2> QED
    BY <2>2, <2>3
<1>8. ASSUME NEW k \in 1 .. (n - d) - 1 PROVE <<q[k], q[k + 1]>> \in E
  <2>1. /\ k \in 1 .. n - d /\ k + 1 \in 1 .. n - d /\ k \in 1 .. n - 1
        /\ k + d \in 1 .. n - 1 /\ (k + d) + 1 = (k + 1) + d
    BY <1>1, <1>2
  <2>2. CASE k + 1 <= i
    <3>1. k <= i
      BY <2>2, <1>2
    <3> QED
      BY <1>1, <1>3, <2>1, <2>2, <3>1
  <2>3. CASE k = i
    <3>1. ~(k + 1 <= i) /\ k <= i /\ k + d = j
      BY <2>3, <1>2
    <3>2. q[k] = p[j] /\ q[k + 1] = p[j + 1]
      BY <1>3, <2>1, <2>3, <3>1
    <3> QED
      BY <1>1, <2>1, <3>1, <3>2
  <2>4. CASE k > i
    <3>1. ~(k <= i) /\ ~(k + 1 <= i)
      BY <2>4, <1>2
    <3>2. q[k] = p[k + d] /\ q[k + 1] = p[(k + d) + 1]
      BY <1>3, <2>1, <3>1
    <3> QED
      BY <1>1, <2>1, <3>2
  <2> QED
    BY <1>2, <2>2, <2>3, <2>4
<1>9. IsWalk(E, q, x, y)
  BY <1>2, <1>5, <1>6, <1>7, <1>8 DEF IsWalk
<1>10. Len(q) < Len(p)
  BY <1>1, <1>2, <1>5 DEF n
<1> QED
  BY <1>9, <1>10

\* So the shortest comes by no label twice.
LEMMA SimpleWalkExists ==
  ASSUME NEW E, IsGraph(E), NEW x \in Labels(E), NEW y \in ReachedFrom(E, x)
  PROVE  \E p : IsWalk(E, p, x, y) /\ \A i, j \in 1 .. Len(p) : p[i] = p[j] => i = j
<1> DEFINE Lengths == {n \in Nat : \E p : IsWalk(E, p, x, y) /\ Len(p) = n}
<1>1. Lengths # {}
  <2>1. PICK p : IsWalk(E, p, x, y)
    BY WalkExists
  <2>2. Len(p) \in Nat
    BY <2>1 DEF IsWalk
  <2> QED
    BY <2>1, <2>2
<1>2. Lengths \in SUBSET Nat
  OBVIOUS
<1> HIDE DEF Lengths
<1>3. PICK n \in Lengths : \A m \in Lengths : n <= m
  BY <1>1, <1>2, LeastNat
<1>4. PICK p : IsWalk(E, p, x, y) /\ Len(p) = n
  BY <1>3 DEF Lengths
<1>5. n \in Nat
  BY <1>3, <1>2
<1>6. ASSUME NEW i \in 1 .. Len(p), NEW j \in 1 .. Len(p), i < j PROVE p[i] # p[j]
  <2> SUFFICES ASSUME p[i] = p[j] PROVE FALSE
    OBVIOUS
  <2>1. PICK q : IsWalk(E, q, x, y) /\ Len(q) < Len(p)
    BY <1>4, <1>6, WalkIsCutShort
  <2>2. Len(q) \in Nat
    BY <2>1 DEF IsWalk
  <2>3. Len(q) \in Lengths
    BY <2>1, <2>2 DEF Lengths
  <2> QED
    BY <1>3, <1>4, <1>5, <2>1, <2>2, <2>3
<1>7. \A i, j \in 1 .. Len(p) : i < j \/ j < i \/ i = j
  BY <1>4, <1>5
<1> QED
  BY <1>4, <1>6, <1>7

\* An edge that can be walked back from is on an elementary circuit: the shortest way
\* back, written from its least label.
LEMMA CyclicEdgeIsOnCircuit ==
  ASSUME NEW E, IsGraph(E), NEW e \in CyclicEdges(E)
  PROVE  \E c \in ElementaryCircuits(E) : \E i \in 1 .. Len(c) : e = <<c[i], NextOf(c, i)>>
<1> DEFINE a == e[1]
           b == e[2]
<1>1. e = <<a, b>> /\ <<a, b>> \in E /\ a # b /\ a \in ReachedFrom(E, b) /\ b \in Labels(E)
  BY DEF CyclicEdges, IsGraph, Labels
<1> HIDE DEF a, b
<1>2. PICK p : IsWalk(E, p, b, a) /\ \A i, j \in 1 .. Len(p) : p[i] = p[j] => i = j
  BY <1>1, SimpleWalkExists
<1> DEFINE n == Len(p)
<1>3. /\ p \in Seq(Labels(E)) /\ n \in Nat /\ n >= 1 /\ p[1] = b /\ p[n] = a
      /\ \A k \in 1 .. n - 1 : <<p[k], p[k + 1]>> \in E
      /\ \A k \in 1 .. n : p[k] \in Labels(E)
      /\ \A i, j \in 1 .. n : p[i] = p[j] => i = j
  BY <1>2 DEF IsWalk
<1> HIDE DEF n
<1>4. n >= 2
  BY <1>1, <1>3
<1> DEFINE Along(k) == IF k = n THEN 1 ELSE k + 1
<1>5. \A k \in 1 .. n : <<p[k], p[Along(k)]>> \in E
  <2> TAKE k \in 1 .. n
  <2>1. k # n => k \in 1 .. n - 1
    BY <1>3
  <2> QED
    BY <1>1, <1>3, <2>1
<1> DEFINE V == {p[k] : k \in 1 .. n}
<1>6. PICK m \in 1 .. n : \A k \in 1 .. n : p[m] <= p[k]
  <2>1. V \in SUBSET Int /\ IsFiniteSet(V) /\ V # {}
    <3>1. V \subseteq Labels(E) /\ p[1] \in V
      BY <1>3
    <3> QED
      BY <3>1, GraphWorks, FS_Subset
  <2> HIDE DEF V
  <2>2. Min(V) \in V /\ \A v \in V : Min(V) <= v
    BY <2>1, MinWorks
  <2> QED
    BY <2>2 DEF V
<1> HIDE DEF V
\* At(k) is where on the way back the circuit has its label k.
<1> DEFINE At(k) == IF k + m - 1 <= n THEN k + m - 1 ELSE k + m - 1 - n
           c == [k \in 1 .. n |-> p[At(k)]]
<1>7. \A k \in 1 .. n : At(k) \in 1 .. n
  BY <1>3
<1>8. \A k, l \in 1 .. n : At(k) = At(l) => k = l
  BY <1>3
<1>9. \A k \in 1 .. n : At(Along(k)) = Along(At(k))
  BY <1>3, <1>4
<1>10. At(1) = m /\ At(n - m + 1) = n /\ n - m + 1 \in 1 .. n
  BY <1>3
<1>11. \A k \in 1 .. n : Along(k) \in 1 .. n
  BY <1>3
<1> HIDE DEF At, Along
<1>12. \A k \in 1 .. n : c[k] = p[At(k)]
  OBVIOUS
<1>13. c \in Seq(Labels(E)) /\ Len(c) = n
  <2>1. c \in [1 .. n -> Labels(E)]
    BY <1>3, <1>7
  <2> QED
    BY <1>3, <2>1
<1> HIDE DEF c
<1>14. \A k \in 1 .. n : NextOf(c, k) = c[Along(k)]
  <2> TAKE k \in 1 .. n
  <2>1. CASE k = n
    <3>1. n % n = 0
      BY <1>3, <1>4
    <3> QED
      BY <1>13, <2>1, <3>1 DEF NextOf, Along
  <2>2. CASE k # n
    <3>1. k \in Nat /\ k < n
      BY <1>3, <2>2
    <3>2. k % n = k
      BY <1>3, <3>1
    <3> QED
      BY <1>13, <2>2, <3>2 DEF NextOf, Along
  <2> QED
    BY <2>1, <2>2
<1>15. ASSUME NEW k \in 1 .. n PROVE <<c[k], NextOf(c, k)>> \in E
  <2>1. NextOf(c, k) = p[Along(At(k))] /\ c[k] = p[At(k)]
    BY <1>9, <1>11, <1>12, <1>14
  <2> QED
    BY <1>5, <1>7, <2>1
<1>16. IsInjective(c)
  <2>1. DOMAIN c = 1 .. n
    BY <1>13
  <2>2. \A k, l \in 1 .. n : c[k] = c[l] => k = l
    BY <1>3, <1>7, <1>8, <1>12
  <2> QED
    BY <2>1, <2>2 DEF IsInjective
<1>17. \A k \in 1 .. n : c[1] <= c[k]
  <2>1. 1 \in 1 .. n
    BY <1>3
  <2> QED
    BY <1>6, <1>7, <1>10, <1>12, <2>1
<1>18. IsElementaryCircuit(E, c)
  BY <1>4, <1>13, <1>15, <1>16, <1>17 DEF IsElementaryCircuit, NextOf
<1>19. c \in ElementaryCircuits(E)
  BY <1>13, <1>18, CircuitsAreElementary
<1> DEFINE i == n - m + 1
<1>20. i \in 1 .. n /\ c[i] = a /\ NextOf(c, i) = b
  <2>1. c[i] = p[n]
    BY <1>10, <1>12
  <2>2. NextOf(c, i) = p[Along(n)]
    BY <1>9, <1>10, <1>11, <1>12, <1>14
  <2>3. Along(n) = 1
    BY DEF Along
  <2> QED
    BY <1>3, <1>10, <2>1, <2>2, <2>3
<1> QED
  BY <1>1, <1>13, <1>19, <1>20

\* So between them the circuits take the cyclic edges, and no others.
LEMMA CircuitsTakeCyclicEdges ==
  ASSUME NEW E, IsGraph(E)
  PROVE  UNION {{<<c[i], NextOf(c, i)>> : i \in 1 .. Len(c)} : c \in ElementaryCircuits(E)} = CyclicEdges(E)
<1> DEFINE Taken(c) == {<<c[i], NextOf(c, i)>> : i \in 1 .. Len(c)}
<1>1. ASSUME NEW c \in ElementaryCircuits(E), NEW i \in 1 .. Len(c)
      PROVE  <<c[i], NextOf(c, i)>> \in CyclicEdges(E)
  <2>1. /\ NextOf(c, i) \in Targets(E, c[i]) /\ <<c[i], NextOf(c, i)>> \in E
        /\ \A k \in 1 .. Len(c) : <<c[k], NextOf(c, k)>> \in E
        /\ Len(c) \in Nat
        /\ i # Len(c) => i + 1 \in 1 .. Len(c) /\ NextOf(c, i) = c[i + 1]
        /\ i = Len(c) => NextOf(c, i) = c[1]
    BY CircuitWorks
  <2>2. \A j, k \in 1 .. Len(c) : c[k] \in ReachedFrom(E, c[j])
    BY <2>1, CircuitReaches
  <2>3. PICK j \in 1 .. Len(c) : NextOf(c, i) = c[j]
    BY <2>1
  <2>4. c[i] \in ReachedFrom(E, NextOf(c, i)) /\ c[i] # NextOf(c, i)
    BY <2>1, <2>2, <2>3, GraphWorks
  <2> QED
    BY <2>1, <2>4 DEF CyclicEdges
<1>2. ASSUME NEW e \in CyclicEdges(E) PROVE \E c \in ElementaryCircuits(E) : e \in Taken(c)
  BY CyclicEdgeIsOnCircuit
<1>3. \A c \in ElementaryCircuits(E) : Taken(c) \subseteq CyclicEdges(E)
  BY <1>1
<1> QED
  BY <1>2, <1>3
=============================================================================
