---------------------------- MODULE ReportsProofs ----------------------------
(***************************************************************************)
(* What the reports mean, proved, for any class, any project and any chain *)
(* of calls: the pieces LCOM4 counts (src/metrics/calculation), the scale  *)
(* each cohesion metric is on, the scale of abstractness, instability and  *)
(* distance, and what a builder of the graph report says                   *)
(* (src/graph/fluentapi). Sums are counts (SumIsCount), the union-find     *)
(* forest is read as the partition its roots name (ForestIsPieces), and a  *)
(* ratio is compared without dividing, as the models write it. A builder is *)
(* faithful because the copy a call writes into owns its arrays and fills  *)
(* them: append takes a new one, and memory in use is never written over   *)
(* (Grows, CopiesAreOwn, AppendedIsNew, OneMoreBuilder). Its snapshot is the *)
(* query, because reach stops only when it finds nothing new or the bound  *)
(* is met (TurnsWork): what it has reached are the walks from the seeds.   *)
(* And a rule about numbers says what its sentence says                    *)
(* (src/metrics/fluentapi): its selects are those that were typed          *)
(* (SentenceInv), a type is known by its identifier (NoNamesakes), so each *)
(* reading is the number of the one it names (ReadingsMeant).              *)
(***************************************************************************)
EXTENDS GraphSnapshot, Cohesion, MetricsRules, DigraphProofs, SequenceTheorems

\* Two sets that are one to one have as many elements.
LEMMA SameSize ==
  ASSUME NEW S, IsFiniteSet(S), NEW T, NEW f \in [S -> T],
         \A x, y \in S : f[x] = f[y] => x = y,
         \A z \in T : \E x \in S : f[x] = z
  PROVE  IsFiniteSet(T) /\ Cardinality(T) = Cardinality(S)
<1>1. f \in Injection(S, T)
  BY DEF Injection, IsInjective
<1>2. f \in Surjection(S, T)
  BY DEF Surjection
<1>3. ExistsBijection(S, T)
  BY <1>1, <1>2 DEF ExistsBijection, Bijection
<1> QED
  BY <1>3, FS_Bijection

LEMMA ProductsGrow ==
  ASSUME NEW a \in Nat, NEW b \in Nat, NEW c \in Nat, a <= b
  PROVE  a * c <= b * c /\ a * c \in Nat /\ c * a = a * c
<1>1. PICK d \in Nat : b = a + d
  <2>1. b - a \in Nat /\ b = a + (b - a)
    OBVIOUS
  <2> QED
    BY <2>1
<1>2. (a + d) * c = a * c + d * c
  OBVIOUS
<1>3. d * c \in Nat /\ a * c \in Nat
  OBVIOUS
<1>4. c * a = a * c
  OBVIOUS
<1> QED
  BY <1>1, <1>2, <1>3, <1>4

\* The pairs of an index and one of the things counted at it.
Counted(G, s, U) == {p \in s \X U : p[2] \in G[p[1]]}

LEMMA OneIndexMore ==
  ASSUME NEW D, NEW U, NEW G \in [D -> SUBSET U], NEW s \in SUBSET D, NEW x \in s,
         IsFiniteSet(G[x]), IsFiniteSet(Counted(G, s \ {x}, U))
  PROVE  /\ IsFiniteSet(Counted(G, s, U))
         /\ Cardinality(Counted(G, s, U)) = Cardinality(G[x]) + Cardinality(Counted(G, s \ {x}, U))
<1> DEFINE mine == {p \in {x} \X U : p[2] \in G[x]}
           rest == Counted(G, s \ {x}, U)
<1>1. Counted(G, s, U) = mine \cup rest /\ mine \cap rest = {}
  BY DEF Counted
<1>2. IsFiniteSet(mine) /\ Cardinality(mine) = Cardinality(G[x])
  <2> DEFINE at == [y \in G[x] |-> <<x, y>>]
  <2>1. at \in [G[x] -> mine]
    OBVIOUS
  <2>2. \A y, z \in G[x] : at[y] = at[z] => y = z
    OBVIOUS
  <2>3. \A p \in mine : \E y \in G[x] : at[y] = p
    OBVIOUS
  <2> HIDE DEF at, mine
  <2>4. at \in Bijection(G[x], mine)
    BY <2>1, <2>2, <2>3 DEF Bijection, Injection, Surjection, IsInjective
  <2> QED
    BY <2>4, FS_Bijection DEF ExistsBijection
<1> HIDE DEF mine, rest
<1>3. IsFiniteSet(mine \cup rest) /\ Cardinality(mine \cup rest)
        = Cardinality(mine) + Cardinality(rest) - Cardinality(mine \cap rest)
  BY <1>2, FS_Union DEF rest
<1>4. Cardinality({}) = 0
  BY FS_EmptySet
<1>5. Cardinality(mine) \in Nat /\ Cardinality(rest) \in Nat
  BY <1>2, FS_CardinalityType DEF rest
<1> QED
  BY <1>1, <1>2, <1>3, <1>4, <1>5 DEF rest

\* A sum of sizes is the size of what is summed over.
LEMMA SumIsCount ==
  ASSUME NEW D, IsFiniteSet(D), NEW U, NEW G \in [D -> SUBSET U], \A x \in D : IsFiniteSet(G[x])
  PROVE  /\ IsFiniteSet(Counted(G, D, U))
         /\ SumFunction([x \in D |-> Cardinality(G[x])]) = Cardinality(Counted(G, D, U))
<1> DEFINE f == [x \in D |-> Cardinality(G[x])]
           Is(w) == w = [s \in SUBSET D |-> IF s = {} THEN 0
                                            ELSE f[CHOOSE x \in s : TRUE] + w[s \ {CHOOSE x \in s : TRUE}]]
           Count(s) == Cardinality(Counted(G, s, U))
<1>1. SumFunction(f) = (CHOOSE w : Is(w))[D]
  BY DEF SumFunction, SumFunctionOnSet, FoldFunctionOnSet, MapThenFoldSet
<1>2. \A s \in SUBSET D : IsFiniteSet(s) /\ Cardinality(s) \in Nat
  BY FS_Subset, FS_CardinalityType
<1>3. Counted(G, {}, U) = {}
  BY DEF Counted
<1>4. IsFiniteSet({}) /\ Cardinality({}) = 0
  BY FS_EmptySet
<1>5. \A x \in D : f[x] = Cardinality(G[x])
  OBVIOUS
<1> HIDE DEF f
<1> DEFINE Finite == {k \in Nat : \A s \in SUBSET D : Cardinality(s) = k => IsFiniteSet(Counted(G, s, U))}
<1>6. ASSUME NEW s \in SUBSET D, s # {}
      PROVE  /\ (CHOOSE x \in s : TRUE) \in s
             /\ s \ {CHOOSE x \in s : TRUE} \in SUBSET D
             /\ Cardinality(s) # 0
             /\ Cardinality(s \ {CHOOSE x \in s : TRUE}) = Cardinality(s) - 1
  <2>1. (CHOOSE x \in s : TRUE) \in s
    BY <1>6
  <2>2. Cardinality(s) # 0
    BY <1>2, <1>6, FS_EmptySet
  <2> QED
    BY <1>2, <2>1, <2>2, FS_RemoveElement
<1>7. Nat \subseteq Finite
  <2>1. 0 \in Finite
    BY <1>2, <1>3, <1>4, FS_EmptySet
  <2>2. ASSUME NEW k \in Nat, k \in Finite PROVE k + 1 \in Finite
    <3> SUFFICES ASSUME NEW s \in SUBSET D, Cardinality(s) = k + 1 PROVE IsFiniteSet(Counted(G, s, U))
      OBVIOUS
    <3> DEFINE x == CHOOSE x \in s : TRUE
    <3>1. s # {}
      BY <1>4
    <3>2. x \in s /\ s \ {x} \in SUBSET D /\ Cardinality(s \ {x}) = k
      BY <1>6, <3>1
    <3> HIDE DEF x
    <3>3. IsFiniteSet(Counted(G, s \ {x}, U))
      BY <2>2, <3>2
    <3> QED
      BY <3>2, <3>3, OneIndexMore
  <2> HIDE DEF Finite
  <2> QED
    BY <2>1, <2>2, NatsByInduction
<1>8. \A s \in SUBSET D : IsFiniteSet(Counted(G, s, U)) /\ Count(s) \in Nat
  BY <1>2, <1>7, FS_CardinalityType
<1> HIDE DEF Finite
<1>9. ASSUME NEW s \in SUBSET D, s # {}
      PROVE  Count(s) = f[CHOOSE x \in s : TRUE] + Count(s \ {CHOOSE x \in s : TRUE})
  <2> DEFINE x == CHOOSE x \in s : TRUE
  <2>1. x \in s /\ s \ {x} \in SUBSET D
    BY <1>6, <1>9
  <2> HIDE DEF x
  <2>2. f[x] = Cardinality(G[x]) /\ IsFiniteSet(G[x]) /\ IsFiniteSet(Counted(G, s \ {x}, U))
    BY <1>5, <1>8, <2>1
  <2>3. Count(s) = f[x] + Count(s \ {x})
    BY <2>1, <2>2, OneIndexMore
  <2> QED
    BY <2>3 DEF x
<1>10. Is([s \in SUBSET D |-> Count(s)])
  <2> DEFINE u == [s \in SUBSET D |-> Count(s)]
  <2>1. ASSUME NEW s \in SUBSET D
        PROVE  u[s] = IF s = {} THEN 0
                      ELSE f[CHOOSE x \in s : TRUE] + u[s \ {CHOOSE x \in s : TRUE}]
    <3>1. CASE s = {}
      BY <1>3, <1>4, <3>1
    <3>2. CASE s # {}
      <4>1. s \ {CHOOSE x \in s : TRUE} \in SUBSET D
        OBVIOUS
      <4>2. Count(s) = f[CHOOSE x \in s : TRUE] + Count(s \ {CHOOSE x \in s : TRUE})
        BY <1>9, <3>2
      <4>3. u[s] = Count(s) /\ u[s \ {CHOOSE x \in s : TRUE}] = Count(s \ {CHOOSE x \in s : TRUE})
        BY <4>1
      <4> HIDE DEF u, Count
      <4> QED
        BY <3>2, <4>2, <4>3
    <3> QED
      BY <3>1, <3>2
  <2>2. u = [s \in SUBSET D |-> u[s]]
    OBVIOUS
  <2> HIDE DEF u
  <2>3. u = [s \in SUBSET D |-> IF s = {} THEN 0
                                ELSE f[CHOOSE x \in s : TRUE] + u[s \ {CHOOSE x \in s : TRUE}]]
    BY <2>1, <2>2, Zenon
  <2>4. Is(u)
    BY <2>3
  <2> QED
    BY <2>4 DEF u
<1> DEFINE v == CHOOSE w : Is(w)
<1>11. Is(v)
  <2> HIDE DEF Is
  <2> QED
    BY <1>10
<1> HIDE DEF v
<1> DEFINE Right == {k \in Nat : \A s \in SUBSET D : Cardinality(s) = k => v[s] = Count(s)}
<1>12. \A s \in SUBSET D : v[s] = IF s = {} THEN 0
                                ELSE f[CHOOSE x \in s : TRUE] + v[s \ {CHOOSE x \in s : TRUE}]
  BY <1>11
<1> HIDE DEF Is, Count
<1>13. Nat \subseteq Right
  <2>1. 0 \in Right
    <3> SUFFICES ASSUME NEW s \in SUBSET D, Cardinality(s) = 0 PROVE v[s] = Count(s)
      OBVIOUS
    <3>1. s = {}
      BY <1>6
    <3> QED
      BY <1>3, <1>4, <1>12, <3>1 DEF Count
  <2>2. ASSUME NEW k \in Nat, k \in Right PROVE k + 1 \in Right
    <3> SUFFICES ASSUME NEW s \in SUBSET D, Cardinality(s) = k + 1 PROVE v[s] = Count(s)
      OBVIOUS
    <3> DEFINE x == CHOOSE x \in s : TRUE
    <3>1. s # {}
      BY <1>4
    <3>2. x \in s /\ s \ {x} \in SUBSET D /\ Cardinality(s \ {x}) = k
      BY <1>6, <3>1
    <3>3. v[s] = f[x] + v[s \ {x}]
      BY <1>12, <3>1
    <3>4. Count(s) = f[x] + Count(s \ {x})
      BY <1>9, <3>1
    <3> HIDE DEF x
    <3> QED
      BY <2>2, <3>2, <3>3, <3>4
  <2> HIDE DEF Right
  <2> QED
    BY <2>1, <2>2, NatsByInduction
<1>14. v[D] = Count(D)
  <2>1. D \in SUBSET D
    OBVIOUS
  <2> QED
    BY <1>2, <1>13, <2>1
<1>15. SumFunction(f) = v[D]
  BY <1>1 DEF v
<1> QED
  BY <1>8, <1>14, <1>15 DEF f, Count

-----------------------------------------------------------------------------
\* A ratio of naturals.
LEMMA RatioIsWithin ==
  ASSUME NEW x \in Nat, NEW y \in Nat, y > 0, NEW h \in Nat, x <= h * y
  PROVE  Within(<<x, y>>, 0, h) /\ (Equal(<<x, y>>, Zero) <=> x = 0)
<1>1. x * y <= (h * y) * y /\ x * y \in Nat
  BY ProductsGrow
<1>2. (h * y) * y = h * y * y /\ y * 0 * y = 0
  OBVIOUS
<1>3. Within(<<x, y>>, 0, h) <=> y # 0 /\ y * 0 * y <= x * y /\ x * y <= h * y * y
  BY DEF Within
<1>4. Equal(<<x, y>>, Zero) <=> x * 1 = 0 * y
  BY DEF Equal, Zero
<1> QED
  BY <1>1, <1>2, <1>3, <1>4

\* The same ratio, numerator and denominator with their signs turned.
LEMMA RatioIsWithinTurned ==
  ASSUME NEW x \in Nat, NEW y \in Nat, y > 0, NEW h \in Nat, x <= h * y
  PROVE  Within(<<-x, -y>>, 0, h) /\ (Equal(<<-x, -y>>, Zero) <=> x = 0)
<1>1. x * y <= (h * y) * y /\ x * y \in Nat
  BY ProductsGrow
<1>2. (-x) * (-y) = x * y
  OBVIOUS
<1>3. h * (-y) * (-y) = h * y * y /\ (-y) * 0 * (-y) = 0
  <2>1. h * (-y) = -(h * y)
    OBVIOUS
  <2>2. \A p \in Int : (-p) * (-y) = p * y
    OBVIOUS
  <2>3. h * y \in Int
    OBVIOUS
  <2> QED
    BY <2>1, <2>2, <2>3
<1>4. Within(<<-x, -y>>, 0, h) <=> -y # 0 /\ (-y) * 0 * (-y) <= (-x) * (-y) /\ (-x) * (-y) <= h * (-y) * (-y)
  BY DEF Within
<1>5. Equal(<<-x, -y>>, Zero) <=> (-x) * 1 = 0 * (-y)
  BY DEF Equal, Zero
<1> QED
  BY <1>1, <1>2, <1>3, <1>4, <1>5

LEMMA ScaleOfAccesses ==
  ASSUME NEW n \in Nat, n > 1, NEW F \in Nat, F > 0, NEW A \in Nat, A <= n * F
  PROVE  LET a == <<A - n * F, F * (1 - n)>>
             b == <<F * n - A, F * n>>
         IN  /\ Within(a, 0, 2) /\ (Equal(a, Zero) <=> A = n * F)
             /\ Within(b, 0, 1) /\ (Equal(b, Zero) <=> A = n * F)
             /\ A = F => Equal(a, <<1, 1>>)
             /\ A = 0 => Equal(a, <<n, n - 1>>)
             /\ Equal(b, <<1, 1>>) <=> A = 0
<1> DEFINE p == n * F
           e == p - A
           d == p - F
<1>1. 2 * F <= n * F /\ n * F \in Nat /\ F * n = n * F
  BY ProductsGrow
<1>2. F * (1 - n) = -(n * F - F)
  OBVIOUS
<1>3. p \in Nat /\ F * n = p /\ F * (1 - n) = -d /\ 2 * F <= p /\ A <= p
  BY <1>1, <1>2
<1> HIDE DEF p
<1>4. e \in Nat /\ d \in Nat /\ d > 0 /\ e <= 2 * d /\ A - p = -e /\ e <= 1 * p /\ p > 0
  BY <1>3
<1>5. Within(<<-e, -d>>, 0, 2) /\ (Equal(<<-e, -d>>, Zero) <=> e = 0)
  BY <1>4, RatioIsWithinTurned
<1>6. Within(<<e, p>>, 0, 1) /\ (Equal(<<e, p>>, Zero) <=> e = 0)
  BY <1>3, <1>4, RatioIsWithin
<1>7. e = 0 <=> A = p
  BY <1>3
<1>8. A = F => Equal(<<-e, -d>>, <<1, 1>>)
  BY <1>4 DEF Equal
<1>9. A = 0 => Equal(<<-e, -d>>, <<n, n - 1>>)
  <2> SUFFICES ASSUME A = 0 PROVE Equal(<<-e, -d>>, <<n, n - 1>>)
    OBVIOUS
  <2>1. Equal(<<-e, -d>>, <<n, n - 1>>) <=> (-e) * (n - 1) = n * (-d)
    BY DEF Equal
  <2>2. n * (n * F - F) = (n * F) * (n - 1)
    OBVIOUS
  <2>3. n * d = p * (n - 1) /\ e = p
    BY <1>3, <2>2 DEF p
  <2>4. p * (n - 1) \in Int /\ (-p) * (n - 1) = -(p * (n - 1)) /\ n * (-d) = -(n * d)
    BY <1>3, <1>4
  <2> QED
    BY <2>1, <2>3, <2>4
<1>10. Equal(<<e, p>>, <<1, 1>>) <=> A = 0
  <2>1. Equal(<<e, p>>, <<1, 1>>) <=> e * 1 = 1 * p
    BY DEF Equal
  <2> QED
    BY <1>3, <2>1
<1> QED
  BY <1>3, <1>4, <1>5, <1>6, <1>7, <1>8, <1>9, <1>10 DEF p

LEMMA ScaleOfMethods ==
  ASSUME NEW n \in Nat, n > 1, NEW F \in Nat, F > 1, NEW A \in Nat, A <= n * F
  PROVE  LET c == <<F * n - A, n * (F - 1)>>
         IN  /\ Within(c, 0, 2) /\ (Equal(c, Zero) <=> A = n * F)
             /\ A = n => Equal(c, <<1, 1>>)
<1> DEFINE p == n * F
           e == p - A
           d == p - n
<1>1. 2 * n <= F * n /\ F * n \in Nat /\ F * n = n * F
  BY ProductsGrow
<1>2. n * (F - 1) = n * F - n
  OBVIOUS
<1>3. p \in Nat /\ F * n = p /\ n * (F - 1) = d /\ 2 * n <= p /\ A <= p
  BY <1>1, <1>2
<1> HIDE DEF p
<1>4. e \in Nat /\ d \in Nat /\ d > 0 /\ e <= 2 * d
  BY <1>3
<1>5. Within(<<e, d>>, 0, 2) /\ (Equal(<<e, d>>, Zero) <=> e = 0)
  BY <1>4, RatioIsWithin
<1>6. e = 0 <=> A = p
  BY <1>3
<1>7. A = n => Equal(<<e, d>>, <<1, 1>>)
  BY <1>4 DEF Equal
<1> QED
  BY <1>3, <1>5, <1>6, <1>7 DEF p

-----------------------------------------------------------------------------
\* What is defined step by step is there, as long as every step stays in a set.
StepByStep(w, n, base, F) == w[0] = base /\ \A k \in 1 .. n : w[k] = F[k][w[k - 1]]

LEMMA RecursionExists ==
  ASSUME NEW n \in Nat, NEW T, NEW base \in T, NEW F \in [1 .. n -> [T -> T]]
  PROVE  \E w \in [0 .. n -> T] : StepByStep(w, n, base, F)
<1> DEFINE Is(w, m) == w[0] = base /\ \A k \in 1 .. m : w[k] = F[k][w[k - 1]]
           With == {m \in 0 .. n : \E w \in [0 .. m -> T] : Is(w, m)}
<1>1. 0 \in With
  <2>1. [k \in 0 .. 0 |-> base] \in [0 .. 0 -> T] /\ Is([k \in 0 .. 0 |-> base], 0)
    OBVIOUS
  <2>2. 0 \in 0 .. n
    OBVIOUS
  <2> QED
    BY <2>1, <2>2
<1>2. ASSUME NEW m \in 1 .. n, m - 1 \in With PROVE m \in With
  <2>1. m - 1 \in Nat /\ 0 .. m - 1 \subseteq 0 .. m
    OBVIOUS
  <2>2. PICK w \in [0 .. m - 1 -> T] : Is(w, m - 1)
    BY <1>2
  <2> DEFINE last == F[m][w[m - 1]]
             v == [k \in 0 .. m |-> IF k = m THEN last ELSE w[k]]
  <2>3. w[m - 1] \in T
    BY <2>1, <2>2
  <2>4. last \in T
    <3>1. F[m] \in [T -> T]
      OBVIOUS
    <3> QED
      BY <2>3, <3>1
  <2> HIDE DEF last
  <2>5. v \in [0 .. m -> T]
    BY <2>2, <2>4
  <2>6. v[m] = last /\ \A k \in 0 .. m - 1 : v[k] = w[k]
    BY <2>1
  <2> HIDE DEF v
  <2>7. v[0] = base
    BY <2>1, <2>2, <2>6
  <2>8. ASSUME NEW k \in 1 .. m PROVE v[k] = F[k][v[k - 1]]
    <3>1. CASE k = m
      <4>1. v[m - 1] = w[m - 1]
        BY <2>1, <2>6
      <4> QED
        BY <2>6, <3>1, <4>1 DEF last
    <3>2. CASE k # m
      <4>1. k \in 1 .. m - 1 /\ k \in 0 .. m - 1 /\ k - 1 \in 0 .. m - 1
        BY <3>2
      <4> QED
        BY <2>2, <2>6, <4>1
    <3> QED
      BY <3>1, <3>2
  <2>9. Is(v, m)
    BY <2>7, <2>8
  <2> HIDE DEF Is
  <2> QED
    BY <2>5, <2>9
<1> HIDE DEF With
<1>3. \A k \in 0 .. n : k \in With
  BY <1>1, <1>2, Induction
<1>4. n \in With
  BY <1>3
<1> QED
  BY <1>4 DEF With, StepByStep

\* And when every step leads from one set to the next.
LEMMA StagesExist ==
  ASSUME NEW n \in Nat, NEW U, NEW base \in U[0], NEW F,
         \A k \in 1 .. n : \A v \in U[k - 1] : F[k][v] \in U[k]
  PROVE  \E w : /\ w = [k \in 0 .. n |-> w[k]] /\ StepByStep(w, n, base, F)
                /\ \A k \in 0 .. n : w[k] \in U[k]
<1> DEFINE T == UNION {U[k] : k \in 0 .. n}
           G == [k \in 1 .. n |-> [v \in T |-> IF v \in U[k - 1] THEN F[k][v] ELSE base]]
<1>0. \A k \in 1 .. n : k \in 0 .. n /\ k - 1 \in 0 .. n
  OBVIOUS
<1>1. base \in T
  <2>1. 0 \in 0 .. n
    OBVIOUS
  <2> QED
    BY <2>1
<1>2. ASSUME NEW k \in 1 .. n, NEW v \in T
      PROVE  (IF v \in U[k - 1] THEN F[k][v] ELSE base) \in T
  <2>1. CASE v \in U[k - 1]
    <3>1. F[k][v] \in U[k]
      BY <2>1
    <3> QED
      BY <1>0, <2>1, <3>1
  <2>2. CASE v \notin U[k - 1]
    <3> HIDE DEF T
    <3> QED
      BY <1>1, <2>2
  <2> QED
    BY <2>1, <2>2
<1> HIDE DEF T
<1>3. G \in [1 .. n -> [T -> T]]
  BY <1>2
<1>4. \A k \in 1 .. n, v \in T : G[k][v] = IF v \in U[k - 1] THEN F[k][v] ELSE base
  OBVIOUS
<1> HIDE DEF G
<1>5. PICK w \in [0 .. n -> T] : StepByStep(w, n, base, G)
  BY <1>1, <1>3, RecursionExists
<1>6. w[0] = base /\ \A k \in 1 .. n : w[k] = G[k][w[k - 1]]
  BY <1>5 DEF StepByStep
<1> DEFINE Good == {k \in 0 .. n : w[k] \in U[k]}
<1>7. 0 \in Good
  BY <1>6
<1>8. ASSUME NEW k \in 1 .. n, w[k - 1] \in U[k - 1] PROVE w[k] = F[k][w[k - 1]] /\ w[k] \in U[k]
  <2>1. w[k - 1] \in T
    BY <1>0, <1>5
  <2>2. w[k] = F[k][w[k - 1]]
    BY <1>4, <1>6, <1>8, <2>1
  <2> QED
    BY <1>8, <2>2
<1>9. \A k \in 1 .. n : k - 1 \in Good => k \in Good
  BY <1>0, <1>8
<1> HIDE DEF Good
<1>10. \A k \in 0 .. n : k \in Good
  BY <1>7, <1>9, Induction
<1>11. \A k \in 0 .. n : w[k] \in U[k]
  BY <1>10 DEF Good
<1>12. \A k \in 1 .. n : w[k] = F[k][w[k - 1]]
  BY <1>0, <1>8, <1>11
<1>13. StepByStep(w, n, base, F)
  BY <1>6, <1>12 DEF StepByStep
<1>14. w = [k \in 0 .. n |-> w[k]]
  BY <1>5
<1> QED
  BY <1>11, <1>13, <1>14

-----------------------------------------------------------------------------
\* attributeAccesses keeps the fields of the class and drops every other name.
KeepsFields(kept, selected) ==
  /\ kept[0] = << >>
  /\ \A k \in 1 .. Len(selected) :
       kept[k] = IF selected[k] \in class.fields THEN Append(kept[k - 1], selected[k]) ELSE kept[k - 1]

LEMMA AccessedUnfolds ==
  ASSUME NEW S, NEW selected \in Seq(S)
  PROVE  \E kept \in [0 .. Len(selected) -> Seq(S \cap class.fields)] :
            Accessed(selected) = kept[Len(selected)] /\ KeepsFields(kept, selected)
<1> DEFINE n == Len(selected)
           T == Seq(S \cap class.fields)
           Is(w) == w = [k \in 0 .. n |->
                           IF k = 0 THEN << >>
                           ELSE IF selected[k] \in class.fields THEN Append(w[k - 1], selected[k]) ELSE w[k - 1]]
           F == [k \in 1 .. n |->
                   [v \in T |-> IF selected[k] \in class.fields THEN Append(v, selected[k]) ELSE v]]
<1>1. n \in Nat /\ << >> \in T /\ \A k \in 1 .. n : selected[k] \in S
  OBVIOUS
<1>2. Accessed(selected) = (CHOOSE w : Is(w))[n]
  BY DEF Accessed
<1> HIDE DEF n, T
<1>3. F \in [1 .. n -> [T -> T]]
  <2> SUFFICES ASSUME NEW k \in 1 .. n, NEW v \in T
               PROVE  (IF selected[k] \in class.fields THEN Append(v, selected[k]) ELSE v) \in T
    OBVIOUS
  <2> QED
    BY <1>1 DEF T
<1>4. \A k \in 1 .. n, v \in T :
        F[k][v] = IF selected[k] \in class.fields THEN Append(v, selected[k]) ELSE v
  OBVIOUS
<1> HIDE DEF F
<1>5. PICK w \in [0 .. n -> T] : StepByStep(w, n, << >>, F)
  BY <1>1, <1>3, RecursionExists
<1>6. \A k \in 1 .. n : k - 1 \in 0 .. n /\ w[k - 1] \in T /\ k # 0
  BY <1>1, <1>5
<1>7. Is(w)
  <2>1. w = [k \in 0 .. n |-> w[k]]
    BY <1>5
  <2>2. \A k \in 0 .. n : k = 0 \/ k \in 1 .. n
    BY <1>1
  <2>3. \A k \in 0 .. n :
          w[k] = IF k = 0 THEN << >>
                 ELSE IF selected[k] \in class.fields THEN Append(w[k - 1], selected[k]) ELSE w[k - 1]
    BY <1>4, <1>5, <1>6, <2>2 DEF StepByStep
  <2> QED
    BY <2>1, <2>3
<1>8. PICK v : v = (CHOOSE u : Is(u)) /\ Is(v)
  BY <1>7
<1>9. v[0] = << >> /\ \A k \in 1 .. n :
        v[k] = IF selected[k] \in class.fields THEN Append(v[k - 1], selected[k]) ELSE v[k - 1]
  <2> DEFINE f == [k \in 0 .. n |->
                     IF k = 0 THEN << >>
                     ELSE IF selected[k] \in class.fields THEN Append(v[k - 1], selected[k]) ELSE v[k - 1]]
  <2>1. f[0] = << >> /\ \A k \in 1 .. n :
          f[k] = IF selected[k] \in class.fields THEN Append(v[k - 1], selected[k]) ELSE v[k - 1]
    BY <1>1, <1>6
  <2>2. v = f
    BY <1>8
  <2> HIDE DEF f
  <2> QED
    BY <2>1, <2>2
<1>10. v \in [0 .. n -> T]
  <2> DEFINE Good == {k \in 0 .. n : v[k] \in T}
  <2>1. 0 \in Good
    BY <1>1, <1>9
  <2>2. ASSUME NEW k \in 1 .. n, k - 1 \in Good PROVE k \in Good
    <3>1. v[k - 1] \in T
      BY <2>2
    <3>2. v[k] = F[k][v[k - 1]]
      BY <1>4, <1>9, <3>1
    <3> QED
      BY <1>3, <3>1, <3>2
  <2> HIDE DEF Good
  <2>3. \A k \in 0 .. n : k \in Good
    BY <1>1, <2>1, <2>2, Induction
  <2>4. v = [k \in 0 .. n |->
               IF k = 0 THEN << >>
               ELSE IF selected[k] \in class.fields THEN Append(v[k - 1], selected[k]) ELSE v[k - 1]]
    BY <1>8
  <2>5. v = [k \in 0 .. n |-> v[k]]
    BY <2>4
  <2>6. \A k \in 0 .. n : v[k] \in T
    BY <2>3 DEF Good
  <2> QED
    BY <2>5, <2>6
<1> QED
  BY <1>2, <1>8, <1>9, <1>10 DEF n, T, KeepsFields

LEMMA RangeOfAppend ==
  ASSUME NEW S, NEW s \in Seq(S), NEW x
  PROVE  Range(Append(s, x)) = Range(s) \cup {x}
<1> DEFINE n == Len(s)
           t == Append(s, x)
<1>1. n \in Nat /\ DOMAIN s = 1 .. n
  OBVIOUS
<1>2. DOMAIN t = 1 .. n + 1 /\ t[n + 1] = x /\ \A i \in 1 .. n : t[i] = s[i]
  OBVIOUS
<1> HIDE DEF n, t
<1>3. \A y : y \in Range(t) <=> \E i \in 1 .. n + 1 : y = t[i]
  BY <1>2 DEF Range
<1>4. \A y : y \in Range(s) <=> \E i \in 1 .. n : y = s[i]
  BY <1>1 DEF Range
<1>5. \A i \in 1 .. n + 1 : i \in 1 .. n \/ i = n + 1
  BY <1>1
<1>6. n + 1 \in 1 .. n + 1 /\ \A i \in 1 .. n : i \in 1 .. n + 1
  BY <1>1
<1>7. ASSUME NEW y PROVE y \in Range(t) <=> y \in Range(s) \cup {x}
  BY <1>2, <1>3, <1>4, <1>5, <1>6
<1> QED
  BY <1>7 DEF t

LEMMA AccessedIsFields ==
  ASSUME NEW S, NEW selected \in Seq(S)
  PROVE  /\ Accessed(selected) \in Seq(class.fields)
         /\ Range(Accessed(selected)) = Range(selected) \cap class.fields
<1> DEFINE n == Len(selected)
           Upto(k) == {selected[i] : i \in 1 .. k}
<1>1. n \in Nat /\ Range(selected) = Upto(n) /\ Upto(0) = {}
  BY DEF Range
<1>2. \A k \in 1 .. n : Upto(k) = Upto(k - 1) \cup {selected[k]}
  <2> SUFFICES ASSUME NEW k \in 1 .. n PROVE Upto(k) = Upto(k - 1) \cup {selected[k]}
    OBVIOUS
  <2>1. 1 .. k = (1 .. k - 1) \cup {k}
    BY <1>1
  <2> QED
    BY <2>1
<1> HIDE DEF Upto
<1>0. PICK kept \in [0 .. n -> Seq(S \cap class.fields)] :
         Accessed(selected) = kept[n] /\ KeepsFields(kept, selected)
  BY AccessedUnfolds
<1>3. /\ Accessed(selected) = kept[n]
      /\ kept[0] = << >>
      /\ \A k \in 1 .. n :
           kept[k] = IF selected[k] \in class.fields THEN Append(kept[k - 1], selected[k]) ELSE kept[k - 1]
  BY <1>0 DEF KeepsFields
<1> HIDE DEF n
<1> DEFINE Right == {k \in 0 .. n : Range(kept[k]) = Upto(k) \cap class.fields}
<1>4. 0 \in Right
  <2>1. Range(<< >>) = {}
    BY DEF Range
  <2>2. 0 \in 0 .. n
    BY <1>1
  <2> QED
    BY <1>1, <1>3, <2>1, <2>2
<1>5. ASSUME NEW k \in 1 .. n, k - 1 \in Right PROVE k \in Right
  <2>1. k \in 0 .. n /\ k - 1 \in 0 .. n
    BY <1>1
  <2>2. kept[k - 1] \in Seq(S \cap class.fields) /\ Range(kept[k - 1]) = Upto(k - 1) \cap class.fields
    BY <1>3, <1>5, <2>1
  <2>3. CASE selected[k] \in class.fields
    <3>1. Range(kept[k]) = Range(kept[k - 1]) \cup {selected[k]}
      BY <1>3, <2>2, <2>3, RangeOfAppend
    <3>2. Range(kept[k]) = Upto(k) \cap class.fields
      BY <1>2, <2>2, <2>3, <3>1
    <3> QED
      BY <2>1, <3>2
  <2>4. CASE selected[k] \notin class.fields
    <3>1. kept[k] = kept[k - 1]
      BY <1>3, <2>4
    <3>2. Range(kept[k]) = Upto(k) \cap class.fields
      BY <1>2, <2>2, <2>4, <3>1
    <3> QED
      BY <2>1, <3>2
  <2> QED
    BY <2>3, <2>4
<1> HIDE DEF Right
<1>6. \A k \in 0 .. n : k \in Right
  BY <1>1, <1>4, <1>5, Induction
<1>7. n \in 0 .. n
  BY <1>1
<1>8. kept[n] \in Seq(class.fields)
  <2>1. kept[n] \in Seq(S \cap class.fields)
    BY <1>3, <1>7
  <2> QED
    BY <2>1, SeqMonotonic
<1>9. n \in Right
  BY <1>6, <1>7
<1> QED
  BY <1>1, <1>3, <1>8, <1>9 DEF Right

-----------------------------------------------------------------------------
\* The forest of connect and rootOf. A parent is never smaller than its child
\* and none is beyond m, the method that is being read; and R, whatever it is,
\* labels each tree with its root.
Forested(c, n, m, R) ==
  /\ c \in [1 .. n -> 1 .. n] /\ R \in [1 .. n -> 1 .. n]
  /\ \A i \in 1 .. n : i <= c[i] /\ (i <= m => c[i] <= m) /\ (i >= m => c[i] = i)
  /\ \A i \in 1 .. n : R[c[i]] = R[i] /\ (c[i] = i => R[i] = i) /\ (i <= m => R[i] <= m)

\* One turn of rootOf leaves the trees alone and is at the root or higher up.
LEMMA ClimbKeeps ==
  ASSUME NEW n \in Nat, NEW m \in Nat, NEW c, NEW R, Forested(c, n, m, R), NEW i \in 1 .. n,
         NEW t, t = Climb([component |-> c, at |-> i])
  PROVE  /\ t = [component |-> t.component, at |-> t.at]
         /\ Forested(t.component, n, m, R) /\ t.at \in 1 .. n
         /\ R[t.at] = R[i]
         /\ (t.at = i /\ t.component[i] = i) \/ t.at > i
<1>1. CASE c[i] = i
  <2>1. t = [component |-> c, at |-> i]
    BY <1>1 DEF Climb
  <2> QED
    BY <1>1, <2>1
<1>2. CASE c[i] # i
  <2> DEFINE d == [c EXCEPT ![i] = c[c[i]]]
  <2>0. /\ c \in [1 .. n -> 1 .. n] /\ R \in [1 .. n -> 1 .. n]
        /\ \A j \in 1 .. n : j <= c[j] /\ (j <= m => c[j] <= m) /\ (j >= m => c[j] = j)
        /\ \A j \in 1 .. n : R[c[j]] = R[j] /\ (c[j] = j => R[j] = j) /\ (j <= m => R[j] <= m)
    BY DEF Forested
  <2>1. t = [component |-> d, at |-> d[i]]
    BY <1>2 DEF Climb
  <2>2. c[i] \in 1 .. n /\ c[i] > i /\ c[c[i]] \in 1 .. n /\ c[c[i]] >= c[i]
    BY <1>2, <2>0
  <2>3. d \in [1 .. n -> 1 .. n] /\ d[i] = c[c[i]] /\ \A j \in 1 .. n : j # i => d[j] = c[j]
    BY <2>0, <2>2
  <2> HIDE DEF d
  <2>4. R[c[c[i]]] = R[i] /\ (i <= m => c[c[i]] <= m) /\ i < m
    BY <1>2, <2>0, <2>2
  <2>5. d[i] > i
    BY <2>2, <2>3
  <2>6. ASSUME NEW j \in 1 .. n
        PROVE  /\ j <= d[j] /\ (j <= m => d[j] <= m) /\ (j >= m => d[j] = j)
               /\ R[d[j]] = R[j] /\ (d[j] = j => R[j] = j)
    <3>1. CASE j = i
      BY <2>3, <2>4, <2>5, <3>1
    <3>2. CASE j # i
      BY <2>0, <2>3, <3>2
    <3> QED
      BY <3>1, <3>2
  <2>7. Forested(d, n, m, R)
    <3>1. \A j \in 1 .. n : j <= m => R[j] <= m
      BY <2>0
    <3> QED
      BY <2>0, <2>3, <2>6, <3>1 DEF Forested
  <2>8. t.component = d /\ t.at = d[i]
    BY <2>1
  <2> QED
    BY <2>1, <2>3, <2>5, <2>6, <2>7, <2>8
<1> QED
  BY <1>1, <1>2

\* rootOf finds the label of the tree and leaves the trees alone: n turns are
\* enough for the way up, for it never leads down.
LEMMA RootIsLabel ==
  ASSUME NEW n \in Nat, NEW m \in Nat, NEW c, NEW R, Forested(c, n, m, R), NEW i \in 1 .. n
  PROVE  /\ Forested(RootOf(c, i).component, n, m, R)
         /\ RootOf(c, i).at = R[i] /\ R[R[i]] = R[i]
<1> DEFINE first == [component |-> c, at |-> i]
           T == {s \in [component : [1 .. n -> 1 .. n], at : 1 .. n] :
                   Forested(s.component, n, m, R) /\ R[s.at] = R[i]}
           Is(w) == w = [k \in 0 .. n |-> IF k = 0 THEN first ELSE Climb(w[k - 1])]
           F == [k \in 1 .. n |-> [s \in T |-> Climb(s)]]
<1>1. Len(c) = n /\ c \in [1 .. n -> 1 .. n]
  <2>1. c \in [1 .. n -> 1 .. n]
    BY DEF Forested
  <2>2. c \in Seq(1 .. n)
    BY <2>1
  <2> QED
    BY <2>1, <2>2, LenProperties
<1>2. RootOf(c, i) = (CHOOSE w : Is(w))[n]
  BY <1>1 DEF RootOf
<1>3. first \in T
  BY <1>1
<1>4. ASSUME NEW s \in T
      PROVE  /\ Climb(s) \in T
             /\ (Climb(s).at = s.at /\ Climb(s).component[s.at] = s.at) \/ Climb(s).at > s.at
  <2>1. s = [component |-> s.component, at |-> s.at] /\ s.at \in 1 .. n
    OBVIOUS
  <2>2. Forested(s.component, n, m, R) /\ R[s.at] = R[i]
    OBVIOUS
  <2> DEFINE t == Climb(s)
  <2>3. t = Climb([component |-> s.component, at |-> s.at])
    BY <2>1
  <2> HIDE DEF t
  <2>4. /\ t = [component |-> t.component, at |-> t.at]
        /\ Forested(t.component, n, m, R) /\ t.at \in 1 .. n
        /\ R[t.at] = R[s.at]
        /\ (t.at = s.at /\ t.component[s.at] = s.at) \/ t.at > s.at
    BY <2>1, <2>2, <2>3, ClimbKeeps
  <2>5. t.component \in [1 .. n -> 1 .. n]
    BY <2>4 DEF Forested
  <2>6. t \in T
    BY <2>2, <2>4, <2>5
  <2> QED
    BY <2>4, <2>6 DEF t
<1> HIDE DEF T, first
<1>5. F \in [1 .. n -> [T -> T]] /\ \A k \in 1 .. n, s \in T : F[k][s] = Climb(s)
  BY <1>4
<1> HIDE DEF F
<1>6. PICK w \in [0 .. n -> T] : StepByStep(w, n, first, F)
  BY <1>3, <1>5, RecursionExists
<1>7. Is(w)
  <2>1. w = [k \in 0 .. n |-> w[k]]
    BY <1>6
  <2>2. \A k \in 0 .. n : k = 0 \/ (k \in 1 .. n /\ k # 0 /\ k - 1 \in 0 .. n)
    OBVIOUS
  <2>3. \A k \in 0 .. n : w[k] = IF k = 0 THEN first ELSE Climb(w[k - 1])
    BY <1>5, <1>6, <2>2 DEF StepByStep
  <2> QED
    BY <2>1, <2>3
<1>8. PICK v : v = (CHOOSE u : Is(u)) /\ Is(v)
  BY <1>7
<1>9. v[0] = first /\ \A k \in 1 .. n : v[k] = Climb(v[k - 1])
  <2> DEFINE f == [k \in 0 .. n |-> IF k = 0 THEN first ELSE Climb(v[k - 1])]
  <2>1. f[0] = first /\ \A k \in 1 .. n : f[k] = Climb(v[k - 1])
    OBVIOUS
  <2>2. v = f
    BY <1>8
  <2> HIDE DEF f
  <2> QED
    BY <2>1, <2>2
<1> HIDE DEF Is
<1> DEFINE High == {k \in 0 .. n : v[k] \in T /\ (v[k].component[v[k].at] = v[k].at \/ v[k].at >= i + k)}
<1>10. 0 \in High
  <2>1. v[0] \in T /\ v[0].at = i
    BY <1>3, <1>9 DEF first
  <2> QED
    BY <2>1
<1>11. ASSUME NEW k \in 1 .. n, k - 1 \in High PROVE k \in High
  <2>1. k - 1 \in 0 .. n /\ k \in 0 .. n
    OBVIOUS
  <2> DEFINE s == v[k - 1]
  <2>2. s \in T /\ (s.component[s.at] = s.at \/ s.at >= i + (k - 1))
    BY <1>11
  <2>3. v[k] = Climb(s)
    BY <1>9
  <2> HIDE DEF s
  <2>4. v[k] \in T /\ ((v[k].at = s.at /\ v[k].component[s.at] = s.at) \/ v[k].at > s.at)
    BY <1>4, <2>2, <2>3
  <2>5. s.at \in 1 .. n /\ v[k].at \in 1 .. n
    BY <2>2, <2>4 DEF T
  <2>6. CASE s.component[s.at] = s.at
    <3>1. v[k] = s
      BY <2>3, <2>6 DEF Climb
    <3> QED
      BY <2>1, <2>2, <2>6, <3>1
  <2>7. CASE s.at >= i + (k - 1)
    <3>1. CASE v[k].at = s.at /\ v[k].component[s.at] = s.at
      BY <2>1, <2>4, <3>1
    <3>2. CASE v[k].at > s.at
      BY <2>1, <2>4, <2>5, <2>7, <3>2
    <3> QED
      BY <2>4, <3>1, <3>2
  <2> QED
    BY <2>2, <2>6, <2>7
<1> HIDE DEF High
<1>12. \A k \in 0 .. n : k \in High
  BY <1>10, <1>11, Induction
<1>13. v[n] \in T /\ (v[n].component[v[n].at] = v[n].at \/ v[n].at >= i + n)
  BY <1>12 DEF High
<1>14. v[n].at \in 1 .. n /\ Forested(v[n].component, n, m, R) /\ R[v[n].at] = R[i]
  BY <1>13 DEF T
<1>15. v[n].component[v[n].at] = v[n].at
  BY <1>13, <1>14
<1>16. R[v[n].at] = v[n].at
  BY <1>14, <1>15 DEF Forested
<1> QED
  BY <1>2, <1>8, <1>14, <1>16

\* connect joins the tree of the method being read with that of an earlier one,
\* and with no other; their label is the method that is being read.
LEMMA ConnectJoins ==
  ASSUME NEW n \in Nat, NEW m \in 1 .. n, NEW c, NEW R, Forested(c, n, m, R), NEW f \in 1 .. m
  PROVE  Forested(Connect(c, m, f), n, m, [i \in 1 .. n |-> IF R[i] = R[f] THEN m ELSE R[i]])
<1> DEFINE left == RootOf(c, m)
           right == RootOf(left.component, f)
           d == right.component
           J == [i \in 1 .. n |-> IF R[i] = R[f] THEN m ELSE R[i]]
<1>1. Forested(left.component, n, m, R) /\ left.at = R[m]
  BY RootIsLabel
<1>2. f \in 1 .. n
  OBVIOUS
<1>3. Forested(d, n, m, R) /\ right.at = R[f]
  <2> HIDE DEF left
  <2> QED
    BY <1>1, <1>2, RootIsLabel
<1>4. Connect(c, m, f) = IF left.at = right.at THEN d ELSE [d EXCEPT ![right.at] = left.at]
  BY DEF Connect
<1> HIDE DEF left, right, d
<1>5. /\ d \in [1 .. n -> 1 .. n] /\ R \in [1 .. n -> 1 .. n]
      /\ \A i \in 1 .. n : i <= d[i] /\ (i <= m => d[i] <= m) /\ (i >= m => d[i] = i)
      /\ \A i \in 1 .. n : R[d[i]] = R[i] /\ (d[i] = i => R[i] = i) /\ (i <= m => R[i] <= m)
  BY <1>3 DEF Forested
<1>6. R[m] = m /\ d[m] = m
  BY <1>5
<1>7. J \in [1 .. n -> 1 .. n] /\ \A i \in 1 .. n : J[i] = IF R[i] = R[f] THEN m ELSE R[i]
  BY <1>5
<1> HIDE DEF J
<1>8. CASE R[f] = m
  <2>1. Connect(c, m, f) = d
    BY <1>1, <1>3, <1>4, <1>6, <1>8
  <2>2. J = R
    BY <1>5, <1>7, <1>8
  <2> QED
    BY <1>3, <2>1, <2>2 DEF J
<1>9. CASE R[f] # m
  <2> DEFINE r == R[f]
             e == [d EXCEPT ![r] = m]
  <2>1. Connect(c, m, f) = e
    BY <1>1, <1>3, <1>4, <1>6, <1>9
  <2>2. r \in 1 .. n /\ R[r] = r /\ r < m
    <3>1. R[R[f]] = R[f]
      BY <1>2, RootIsLabel
    <3>2. R[f] \in 1 .. n /\ R[f] <= m
      BY <1>2, <1>5
    <3> QED
      BY <1>9, <3>1, <3>2
  <2> HIDE DEF r
  <2>3. e \in [1 .. n -> 1 .. n] /\ e[r] = m /\ \A j \in 1 .. n : j # r => e[j] = d[j]
    BY <1>5, <2>2
  <2> HIDE DEF e
  <2>4. /\ \A j \in 1 .. n : J[j] = IF R[j] = r THEN m ELSE R[j]
        /\ r # m
    BY <1>7, <1>9 DEF r
  <2>5. ASSUME NEW j \in 1 .. n
        PROVE  /\ j <= e[j] /\ (j <= m => e[j] <= m) /\ (j >= m => e[j] = j)
               /\ J[e[j]] = J[j] /\ (e[j] = j => J[j] = j) /\ (j <= m => J[j] <= m)
    <3>1. CASE j = r
      <4>1. J[m] = m /\ J[r] = m
        BY <1>6, <2>2, <2>4
      <4> QED
        BY <2>2, <2>3, <3>1, <4>1
    <3>2. CASE j # r
      <4>1. e[j] = d[j] /\ d[j] \in 1 .. n /\ R[d[j]] = R[j]
        BY <1>5, <2>3, <3>2
      <4>2. J[d[j]] = J[j]
        BY <2>4, <4>1
      <4>3. d[j] = j => J[j] = j
        BY <1>5, <2>4, <3>2
      <4>4. j <= m => J[j] <= m
        BY <1>5, <2>4
      <4> QED
        BY <1>5, <4>1, <4>2, <4>3, <4>4
    <3> QED
      BY <3>1, <3>2
  <2>6. Forested(e, n, m, J)
    BY <1>7, <2>3, <2>5 DEF Forested
  <2> QED
    BY <2>1, <2>6 DEF J
<1> QED
  BY <1>8, <1>9

-----------------------------------------------------------------------------
\* What LCOM4 has read after some accesses, each a method and a field: the first
\* to reach a field is one of those that did, all that did are in one tree with
\* it, and what is in one tree belongs together.
HasRead(s, R, n, m, fields, accesses, Together) ==
  /\ Forested(s.component, n, m, R)
  /\ s \in [component : [1 .. n -> 1 .. n], reached : [fields -> 0 .. n]]
  /\ accesses \subseteq (1 .. m) \X fields
  /\ \A f \in fields : s.reached[f] = 0 \/ <<s.reached[f], f>> \in accesses
  /\ \A j \in 1 .. m, f \in fields : <<j, f>> \in accesses => s.reached[f] # 0 /\ R[j] = R[s.reached[f]]
  /\ \A i, j \in 1 .. n : R[i] = R[j] => <<i, j>> \in Together

\* Two methods that reach one field belong together, and so do any two that are
\* led from one to the other this way.
BelongTogether(Together, n, all) ==
  /\ \A i \in 1 .. n : <<i, i>> \in Together
  /\ \A i, j \in 1 .. n : <<i, j>> \in Together => <<j, i>> \in Together
  /\ \A i, j, k \in 1 .. n : <<i, j>> \in Together /\ <<j, k>> \in Together => <<i, k>> \in Together
  /\ \A i, j \in 1 .. n : \A f : <<i, f>> \in all /\ <<j, f>> \in all => <<i, j>> \in Together

LEMMA OneMoreIsRead ==
  ASSUME NEW n \in Nat, NEW m \in 1 .. n, NEW fields, NEW all, NEW accesses \in SUBSET all, NEW Together,
         BelongTogether(Together, n, all),
         NEW s, NEW R, HasRead(s, R, n, m, fields, accesses, Together),
         NEW f \in fields, <<m, f>> \in all
  PROVE  \E Q : HasRead(ReachField(s, m, f), Q, n, m, fields, accesses \cup {<<m, f>>}, Together)
<1> DEFINE t == ReachField(s, m, f)
           after == accesses \cup {<<m, f>>}
<1>0. s \in [component : [1 .. n -> 1 .. n], reached : [fields -> 0 .. n]]
  BY DEF HasRead
<1>1. /\ Forested(s.component, n, m, R)
      /\ s.reached \in [fields -> 0 .. n]
      /\ accesses \subseteq (1 .. m) \X fields
      /\ \A g \in fields : s.reached[g] = 0 \/ <<s.reached[g], g>> \in accesses
      /\ \A j \in 1 .. m, g \in fields : <<j, g>> \in accesses => s.reached[g] # 0 /\ R[j] = R[s.reached[g]]
      /\ \A i, j \in 1 .. n : R[i] = R[j] => <<i, j>> \in Together
  BY DEF HasRead
<1>2. R \in [1 .. n -> 1 .. n]
  BY <1>1 DEF Forested
<1>3. after \subseteq (1 .. m) \X fields
  BY <1>1
<1>4. CASE s.reached[f] = 0
  <2>1. /\ t.component = s.component /\ t.reached = [s.reached EXCEPT ![f] = m]
        /\ t = [component |-> t.component, reached |-> t.reached]
    BY <1>4 DEF ReachField
  <2>2. t.reached \in [fields -> 0 .. n] /\ t.reached[f] = m /\ \A g \in fields : g # f => t.reached[g] = s.reached[g]
    BY <1>1, <2>1
  <2>3. \A g \in fields : t.reached[g] = 0 \/ <<t.reached[g], g>> \in after
    BY <1>1, <2>2
  <2>4. ASSUME NEW j \in 1 .. m, NEW g \in fields, <<j, g>> \in after
        PROVE  t.reached[g] # 0 /\ R[j] = R[t.reached[g]]
    <3>1. CASE g = f
      <4>1. <<j, g>> \notin accesses
        BY <1>1, <1>4, <3>1
      <4>2. j = m
        BY <2>4, <4>1
      <4> QED
        BY <2>2, <3>1, <4>2
    <3>2. CASE g # f
      <4>1. <<j, g>> \in accesses
        BY <2>4, <3>2
      <4> QED
        BY <1>1, <2>2, <3>2, <4>1
    <3> QED
      BY <3>1, <3>2
  <2>5. HasRead(t, R, n, m, fields, after, Together)
    <3> HIDE DEF t, after
    <3>1. t \in [component : [1 .. n -> 1 .. n], reached : [fields -> 0 .. n]]
      BY <1>0, <2>1, <2>2
    <3> QED
      BY <1>1, <1>3, <2>1, <2>2, <2>3, <2>4, <3>1 DEF HasRead
  <2> QED
    BY <2>5
<1>5. CASE s.reached[f] # 0
  <2> DEFINE first == s.reached[f]
             Q == [i \in 1 .. n |-> IF R[i] = R[first] THEN m ELSE R[i]]
  <2>1. /\ t.component = Connect(s.component, m, first) /\ t.reached = s.reached
        /\ t = [component |-> t.component, reached |-> t.reached]
    BY <1>5 DEF ReachField
  <2>2. <<first, f>> \in accesses
    BY <1>1, <1>5
  <2>3. first \in 1 .. m /\ first \in 1 .. n
    BY <1>1, <2>2
  <2> HIDE DEF first
  <2>4. Forested(t.component, n, m, Q)
    BY <1>1, <2>1, <2>3, ConnectJoins
  <2>5. R[m] = m
    BY <1>1 DEF Forested
  <2>6. \A i \in 1 .. n : Q[i] = IF R[i] = R[first] THEN m ELSE R[i]
    OBVIOUS
  <2> HIDE DEF Q
  <2>7. \A i, j \in 1 .. n : R[i] = R[j] => Q[i] = Q[j]
    BY <2>6
  <2>8. Q[m] = m /\ Q[first] = m
    BY <2>3, <2>5, <2>6
  <2>9. ASSUME NEW j \in 1 .. m, NEW g \in fields, <<j, g>> \in after
        PROVE  s.reached[g] # 0 /\ Q[j] = Q[s.reached[g]]
    <3>1. CASE <<j, g>> \in accesses
      <4>1. s.reached[g] # 0 /\ R[j] = R[s.reached[g]] /\ s.reached[g] \in 1 .. n /\ j \in 1 .. n
        BY <1>1, <3>1
      <4> QED
        BY <2>7, <4>1
    <3>2. CASE j = m /\ g = f
      BY <1>5, <2>8, <3>2 DEF first
    <3> QED
      BY <2>9, <3>1, <3>2
  <2>10. <<first, m>> \in Together /\ <<m, first>> \in Together
    <3>1. <<first, f>> \in all
      BY <2>2
    <3> QED
      BY <2>3, <3>1 DEF BelongTogether
  <2>11. ASSUME NEW i \in 1 .. n, R[i] = R[first] \/ R[i] = m PROVE <<i, m>> \in Together /\ <<m, i>> \in Together
    <3>1. CASE R[i] = m
      BY <1>1, <2>5, <3>1
    <3>2. CASE R[i] = R[first]
      <4>1. <<i, first>> \in Together /\ <<first, i>> \in Together
        BY <1>1, <2>3, <3>2
      <4> QED
        BY <2>3, <2>10, <4>1 DEF BelongTogether
    <3> QED
      BY <2>11, <3>1, <3>2
  <2>12. ASSUME NEW i \in 1 .. n, NEW j \in 1 .. n, Q[i] = Q[j] PROVE <<i, j>> \in Together
    <3>1. CASE Q[i] = m
      <4>1. <<i, m>> \in Together /\ <<m, j>> \in Together
        BY <2>6, <2>11, <2>12, <3>1
      <4> QED
        BY <4>1 DEF BelongTogether
    <3>2. CASE Q[i] # m
      <4>1. R[i] = R[j]
        BY <2>6, <2>12, <3>2
      <4> QED
        BY <1>1, <4>1
    <3> QED
      BY <3>1, <3>2
  <2>13. \A g \in fields : s.reached[g] = 0 \/ <<s.reached[g], g>> \in after
    BY <1>1
  <2>14. HasRead(t, Q, n, m, fields, after, Together)
    <3> HIDE DEF t, after
    <3>1. t \in [component : [1 .. n -> 1 .. n], reached : [fields -> 0 .. n]]
      BY <1>0, <2>1, <2>4 DEF Forested
    <3> QED
      BY <1>1, <1>3, <2>1, <2>4, <2>9, <2>12, <2>13, <3>1 DEF HasRead
  <2> QED
    BY <2>14
<1> QED
  BY <1>4, <1>5

LEMMA MethodIsRead ==
  ASSUME NEW n \in Nat, NEW m \in 1 .. n, NEW fields, NEW all, NEW accesses \in SUBSET all, NEW Together,
         BelongTogether(Together, n, all),
         NEW s, NEW R, HasRead(s, R, n, m, fields, accesses, Together),
         NEW accessed \in Seq(fields), \A i \in 1 .. Len(accessed) : <<m, accessed[i]>> \in all
  PROVE  \E Q : HasRead(ReachFields(s, m, accessed), Q, n, m, fields,
                        accesses \cup {<<m, accessed[i]>> : i \in 1 .. Len(accessed)}, Together)
<1> DEFINE l == Len(accessed)
           After(k) == accesses \cup {<<m, accessed[i]>> : i \in 1 .. k}
           T == [component : [1 .. n -> 1 .. n], reached : [fields -> 0 .. n]]
           U == [k \in 0 .. l |-> {t \in T : \E Q : HasRead(t, Q, n, m, fields, After(k), Together)}]
           F == [k \in 1 .. l |-> [t \in T |-> ReachField(t, m, accessed[k])]]
           Is(w) == w = [k \in 0 .. l |-> IF k = 0 THEN s ELSE ReachField(w[k - 1], m, accessed[k])]
<1>1. l \in Nat /\ \A k \in 1 .. l : accessed[k] \in fields
  OBVIOUS
<1>2. ReachFields(s, m, accessed) = (CHOOSE w : Is(w))[l]
  BY DEF ReachFields
<1>3. After(0) = accesses
  OBVIOUS
<1>4. \A k \in 1 .. l : After(k) = After(k - 1) \cup {<<m, accessed[k]>>}
  <2> SUFFICES ASSUME NEW k \in 1 .. l PROVE After(k) = After(k - 1) \cup {<<m, accessed[k]>>}
    OBVIOUS
  <2>1. 1 .. k = (1 .. k - 1) \cup {k}
    BY <1>1
  <2> QED
    BY <2>1
<1>5. \A k \in 0 .. l : After(k) \subseteq all
  <2> SUFFICES ASSUME NEW k \in 0 .. l PROVE After(k) \subseteq all
    OBVIOUS
  <2>1. \A i \in 1 .. k : i \in 1 .. l
    BY <1>1
  <2> QED
    BY <2>1
<1>6. \A k \in 1 .. l : <<m, accessed[k]>> \in all
  OBVIOUS
<1>7. \A k \in 1 .. l : k \in 0 .. l /\ k - 1 \in 0 .. l /\ k # 0
  BY <1>1
<1> HIDE DEF l, After
<1>8. \A k \in 0 .. l : \A t : t \in U[k] <=> t \in T /\ \E Q : HasRead(t, Q, n, m, fields, After(k), Together)
  OBVIOUS
<1>9. \A k \in 1 .. l, t \in T : F[k][t] = ReachField(t, m, accessed[k])
  OBVIOUS
<1> HIDE DEF U, F
<1>10. ASSUME NEW k \in 1 .. l, NEW t \in U[k - 1]
       PROVE  F[k][t] = ReachField(t, m, accessed[k]) /\ F[k][t] \in U[k]
  <2>1. PICK Q : t \in T /\ HasRead(t, Q, n, m, fields, After(k - 1), Together)
    BY <1>7, <1>8
  <2> DEFINE u == ReachField(t, m, accessed[k])
  <2>2. After(k - 1) \in SUBSET all /\ accessed[k] \in fields /\ <<m, accessed[k]>> \in all
    BY <1>1, <1>5, <1>6, <1>7
  <2>3. \E P : HasRead(u, P, n, m, fields, After(k - 1) \cup {<<m, accessed[k]>>}, Together)
    BY <2>1, <2>2, OneMoreIsRead
  <2> HIDE DEF u
  <2>4. \E P : HasRead(u, P, n, m, fields, After(k), Together)
    BY <1>4, <2>3
  <2>5. u \in T
    BY <2>4 DEF HasRead
  <2>6. u \in U[k]
    BY <1>7, <1>8, <2>4, <2>5
  <2> QED
    BY <1>9, <2>1, <2>6 DEF u
<1>11. s \in U[0]
  <2>1. s \in T /\ 0 \in 0 .. l
    BY <1>1 DEF HasRead
  <2> QED
    BY <1>3, <1>8, <2>1
<1> HIDE DEF T
<1>12. \E w : Is(w)
  <2>1. PICK w : /\ w = [k \in 0 .. l |-> w[k]] /\ StepByStep(w, l, s, F)
                 /\ \A k \in 0 .. l : w[k] \in U[k]
    BY <1>1, <1>10, <1>11, StagesExist
  <2>2. \A k \in 0 .. l : k = 0 \/ k \in 1 .. l
    BY <1>1
  <2>3. \A k \in 1 .. l : w[k] = ReachField(w[k - 1], m, accessed[k])
    BY <1>7, <1>10, <2>1 DEF StepByStep
  <2>4. \A k \in 0 .. l : w[k] = IF k = 0 THEN s ELSE ReachField(w[k - 1], m, accessed[k])
    BY <1>7, <2>1, <2>2, <2>3 DEF StepByStep
  <2>5. Is(w)
    BY <2>1, <2>4
  <2> QED
    BY <2>5
<1>13. PICK v : v = (CHOOSE u : Is(u)) /\ Is(v)
  BY <1>12
<1>14. v[0] = s /\ \A k \in 1 .. l : v[k] = ReachField(v[k - 1], m, accessed[k])
  <2> DEFINE f == [k \in 0 .. l |-> IF k = 0 THEN s ELSE ReachField(v[k - 1], m, accessed[k])]
  <2>1. f[0] = s /\ \A k \in 1 .. l : f[k] = ReachField(v[k - 1], m, accessed[k])
    BY <1>1, <1>7
  <2>2. v = f
    BY <1>13
  <2> HIDE DEF f
  <2> QED
    BY <2>1, <2>2
<1> HIDE DEF Is
<1> DEFINE Good == {k \in 0 .. l : v[k] \in U[k]}
<1>15. 0 \in Good
  BY <1>1, <1>11, <1>14
<1>16. ASSUME NEW k \in 1 .. l, k - 1 \in Good PROVE k \in Good
  <2>1. v[k - 1] \in U[k - 1]
    BY <1>16
  <2>2. v[k] = F[k][v[k - 1]]
    BY <1>10, <1>14, <2>1
  <2> QED
    BY <1>7, <1>10, <2>1, <2>2
<1> HIDE DEF Good
<1>17. \A k \in 0 .. l : k \in Good
  BY <1>1, <1>15, <1>16, Induction
<1>18. l \in 0 .. l
  BY <1>1
<1>19. v[l] \in U[l]
  BY <1>17, <1>18 DEF Good
<1> QED
  BY <1>2, <1>8, <1>13, <1>18, <1>19 DEF l, After

LEMMA NextMethod ==
  ASSUME NEW n \in Nat, NEW m \in 1 .. n, NEW fields, NEW accesses, NEW Together,
         NEW s, NEW R, HasRead(s, R, n, m - 1, fields, accesses, Together)
  PROVE  HasRead(s, R, n, m, fields, accesses, Together)
<1>1. /\ Forested(s.component, n, m - 1, R)
      /\ s \in [component : [1 .. n -> 1 .. n], reached : [fields -> 0 .. n]]
      /\ accesses \subseteq (1 .. m - 1) \X fields
      /\ \A f \in fields : s.reached[f] = 0 \/ <<s.reached[f], f>> \in accesses
      /\ \A j \in 1 .. m - 1, f \in fields : <<j, f>> \in accesses => s.reached[f] # 0 /\ R[j] = R[s.reached[f]]
      /\ \A i, j \in 1 .. n : R[i] = R[j] => <<i, j>> \in Together
  BY DEF HasRead
<1> DEFINE c == s.component
<1>2. Forested(c, n, m, R)
  <2>1. /\ c \in [1 .. n -> 1 .. n] /\ R \in [1 .. n -> 1 .. n]
        /\ \A i \in 1 .. n : i <= c[i] /\ (i <= m - 1 => c[i] <= m - 1) /\ (i >= m - 1 => c[i] = i)
        /\ \A i \in 1 .. n : R[c[i]] = R[i] /\ (c[i] = i => R[i] = i) /\ (i <= m - 1 => R[i] <= m - 1)
    BY <1>1 DEF Forested
  <2> HIDE DEF c
  <2>2. c[m] = m /\ R[m] = m
    BY <2>1
  <2>3. ASSUME NEW i \in 1 .. n
        PROVE  /\ i <= c[i] /\ (i <= m => c[i] <= m) /\ (i >= m => c[i] = i)
               /\ R[c[i]] = R[i] /\ (c[i] = i => R[i] = i) /\ (i <= m => R[i] <= m)
    <3>1. CASE i = m
      BY <2>1, <2>2, <3>1
    <3>2. CASE i > m
      BY <2>1, <3>2
    <3>3. CASE i < m
      <4>1. i <= m - 1 /\ c[i] \in 1 .. n /\ R[i] \in 1 .. n
        BY <2>1, <3>3
      <4> QED
        BY <2>1, <3>3, <4>1
    <3> QED
      BY <3>1, <3>2, <3>3
  <2> QED
    BY <2>1, <2>3 DEF Forested
<1>3. accesses \subseteq (1 .. m) \X fields /\ \A j, f : <<j, f>> \in accesses => j \in 1 .. m - 1
  BY <1>1
<1> QED
  BY <1>1, <1>2, <1>3 DEF HasRead

\* Every access there is: a method and a field it selects.
AllAccesses == {a \in (DOMAIN Methods) \X class.fields : a[2] \in Range(Methods[a[1]])}

LEMMA ForestIsRead ==
  ASSUME Methods \in Seq(Seq(class.fields)), NEW Together, BelongTogether(Together, Len(Methods), AllAccesses)
  PROVE  \E s, R : /\ Forest = s.component
                   /\ HasRead(s, R, Len(Methods), Len(Methods), class.fields, AllAccesses, Together)
<1> DEFINE n == Len(Methods)
           fields == class.fields
           all == AllAccesses
           Before(k) == {a \in all : a[1] <= k}
           start == [component |-> [i \in 1 .. n |-> i], reached |-> [f \in fields |-> 0]]
           T == [component : [1 .. n -> 1 .. n], reached : [fields -> 0 .. n]]
           U == [k \in 0 .. n |-> {t \in T : \E Q : HasRead(t, Q, n, k, fields, Before(k), Together)}]
           F == [k \in 1 .. n |-> [t \in T |-> ReachFields(t, k, Methods[k])]]
           Is(w) == w = [k \in 0 .. n |-> IF k = 0 THEN start ELSE ReachFields(w[k - 1], k, Methods[k])]
<1>1. n \in Nat /\ DOMAIN Methods = 1 .. n /\ \A k \in 1 .. n : Methods[k] \in Seq(fields)
  OBVIOUS
<1>2. Forest = (CHOOSE w : Is(w))[n].component
  BY <1>1 DEF Forest
<1>3. \A a \in all : a = <<a[1], a[2]>> /\ a[1] \in 1 .. n /\ a[2] \in fields
  BY <1>1 DEF AllAccesses
<1>4. \A k \in 1 .. n : \A f : <<k, f>> \in all <=> f \in fields /\ f \in Range(Methods[k])
  BY <1>1 DEF AllAccesses
<1>5. \A k \in 1 .. n : k \in 0 .. n /\ k - 1 \in 0 .. n /\ k # 0
  BY <1>1
<1> HIDE DEF n, all, fields
<1>6. \A k \in 0 .. n : \A t : t \in U[k] <=> t \in T /\ \E Q : HasRead(t, Q, n, k, fields, Before(k), Together)
  OBVIOUS
<1>7. \A k \in 1 .. n, t \in T : F[k][t] = ReachFields(t, k, Methods[k])
  OBVIOUS
<1> HIDE DEF U, F
<1>8. ASSUME NEW k \in 1 .. n
      PROVE  /\ Before(k - 1) \in SUBSET all
             /\ \A i \in 1 .. Len(Methods[k]) : <<k, Methods[k][i]>> \in all
             /\ Before(k) = Before(k - 1) \cup {<<k, Methods[k][i]>> : i \in 1 .. Len(Methods[k])}
  <2> DEFINE accessed == Methods[k]
             now == {<<k, accessed[i]>> : i \in 1 .. Len(accessed)}
  <2>1. DOMAIN accessed = 1 .. Len(accessed) /\ \A i \in 1 .. Len(accessed) : accessed[i] \in fields
    BY <1>1
  <2>2. \A f : f \in Range(accessed) <=> \E i \in 1 .. Len(accessed) : f = accessed[i]
    BY <2>1 DEF Range
  <2> HIDE DEF accessed
  <2>3. \A i \in 1 .. Len(accessed) : <<k, accessed[i]>> \in all
    BY <1>4, <2>1, <2>2 DEF accessed
  <2>4. ASSUME NEW a PROVE a \in Before(k) <=> a \in Before(k - 1) \cup now
    <3>1. CASE a \in all /\ a[1] = k
      <4>1. a[2] \in Range(accessed) /\ a = <<k, a[2]>>
        BY <1>3, <1>4, <3>1 DEF accessed
      <4> QED
        BY <2>2, <3>1, <4>1
    <3>2. CASE a \in all /\ a[1] # k
      <4>1. a \notin now
        BY <3>2
      <4>2. a[1] <= k <=> a[1] <= k - 1
        BY <1>3, <3>2
      <4> QED
        BY <3>2, <4>1, <4>2
    <3>3. CASE a \notin all
      BY <2>3, <3>3
    <3> QED
      BY <3>1, <3>2, <3>3
  <2> QED
    BY <2>3, <2>4 DEF accessed
<1> HIDE DEF Before
<1>9. ASSUME NEW k \in 1 .. n, NEW t \in U[k - 1]
      PROVE  F[k][t] = ReachFields(t, k, Methods[k]) /\ F[k][t] \in U[k]
  <2>1. PICK Q : t \in T /\ HasRead(t, Q, n, k - 1, fields, Before(k - 1), Together)
    BY <1>5, <1>6
  <2>2. HasRead(t, Q, n, k, fields, Before(k - 1), Together)
    BY <1>1, <2>1, NextMethod
  <2> DEFINE u == ReachFields(t, k, Methods[k])
  <2>3. \E P : HasRead(u, P, n, k, fields, Before(k - 1) \cup {<<k, Methods[k][i]>> : i \in 1 .. Len(Methods[k])}, Together)
    <3>1. BelongTogether(Together, n, all)
      BY DEF n, all
    <3> QED
      BY <1>1, <1>8, <2>2, <3>1, MethodIsRead
  <2> HIDE DEF u
  <2>4. \E P : HasRead(u, P, n, k, fields, Before(k), Together)
    BY <1>8, <2>3
  <2>5. u \in T
    BY <2>4 DEF HasRead
  <2>6. u \in U[k]
    BY <1>5, <1>6, <2>4, <2>5
  <2> QED
    BY <1>7, <2>1, <2>6 DEF u
<1>10. start \in U[0]
  <2> DEFINE id == [i \in 1 .. n |-> i]
             none == [f \in fields |-> 0]
  <2>1. id \in [1 .. n -> 1 .. n] /\ none \in [fields -> 0 .. n] /\ \A i \in 1 .. n : id[i] = i
    BY <1>1
  <2>2. \A f \in fields : none[f] = 0
    OBVIOUS
  <2>3. start = [component |-> id, reached |-> none]
    OBVIOUS
  <2> HIDE DEF id, none, start
  <2>4. start \in T /\ start.component = id /\ start.reached = none
    BY <2>1, <2>3
  <2>5. Forested(id, n, 0, id)
    BY <1>1, <2>1 DEF Forested
  <2>6. Before(0) = {}
    BY <1>3 DEF Before
  <2>7. \A i, j \in 1 .. n : id[i] = id[j] => <<i, j>> \in Together
    <3>1. \A i \in 1 .. n : <<i, i>> \in Together
      BY DEF BelongTogether, n
    <3> QED
      BY <2>1, <3>1
  <2>8. HasRead(start, id, n, 0, fields, Before(0), Together)
    BY <2>1, <2>2, <2>4, <2>5, <2>6, <2>7 DEF HasRead
  <2>9. 0 \in 0 .. n
    BY <1>1
  <2> QED
    BY <1>6, <2>4, <2>8, <2>9
<1> HIDE DEF T, start
<1>12. \E w : Is(w)
  <2>1. PICK w : /\ w = [k \in 0 .. n |-> w[k]] /\ StepByStep(w, n, start, F)
                 /\ \A k \in 0 .. n : w[k] \in U[k]
    BY <1>1, <1>9, <1>10, StagesExist
  <2>2. \A k \in 0 .. n : k = 0 \/ k \in 1 .. n
    BY <1>1
  <2>3. \A k \in 1 .. n : w[k] = ReachFields(w[k - 1], k, Methods[k])
    BY <1>5, <1>9, <2>1 DEF StepByStep
  <2>4. \A k \in 0 .. n : w[k] = IF k = 0 THEN start ELSE ReachFields(w[k - 1], k, Methods[k])
    BY <1>5, <2>1, <2>2, <2>3 DEF StepByStep
  <2>5. Is(w)
    BY <2>1, <2>4
  <2> QED
    BY <2>5
<1>13. PICK v : v = (CHOOSE u : Is(u)) /\ Is(v)
  BY <1>12
<1>14. v[0] = start /\ \A k \in 1 .. n : v[k] = ReachFields(v[k - 1], k, Methods[k])
  <2> DEFINE f == [k \in 0 .. n |-> IF k = 0 THEN start ELSE ReachFields(v[k - 1], k, Methods[k])]
  <2>1. f[0] = start /\ \A k \in 1 .. n : f[k] = ReachFields(v[k - 1], k, Methods[k])
    BY <1>1, <1>5
  <2>2. v = f
    BY <1>13
  <2> HIDE DEF f
  <2> QED
    BY <2>1, <2>2
<1> HIDE DEF Is
<1> DEFINE Good == {k \in 0 .. n : v[k] \in U[k]}
<1>15. 0 \in Good
  BY <1>1, <1>10, <1>14
<1>16. ASSUME NEW k \in 1 .. n, k - 1 \in Good PROVE k \in Good
  <2>1. v[k - 1] \in U[k - 1]
    BY <1>16
  <2>2. v[k] = F[k][v[k - 1]]
    BY <1>9, <1>14, <2>1
  <2> QED
    BY <1>5, <1>9, <2>1, <2>2
<1> HIDE DEF Good
<1>17. \A k \in 0 .. n : k \in Good
  BY <1>1, <1>15, <1>16, Induction
<1>18. n \in 0 .. n
  BY <1>1
<1>19. v[n] \in U[n]
  BY <1>17, <1>18 DEF Good
<1>20. Before(n) = all
  BY <1>3 DEF Before
<1>21. \E Q : HasRead(v[n], Q, n, n, fields, all, Together)
  BY <1>6, <1>18, <1>19, <1>20
<1> QED
  BY <1>2, <1>13, <1>21 DEF n, all, fields

-----------------------------------------------------------------------------
\* As many as there are, told apart.

\* What the variables hold: the class that was picked, and methods that select
\* names of its.
CohesionTypeOK ==
  /\ class \in Classes
  /\ declared \in Seq(Seq(class.fields \cup class.others))

LEMMA MethodsAreTyped ==
  ASSUME CohesionTypeOK
  PROVE  /\ Methods \in Seq(Seq(class.fields)) /\ Len(Methods) = Len(declared)
         /\ \A m \in 1 .. Len(declared) : Range(Methods[m]) = Range(declared[m]) \cap class.fields
<1> DEFINE names == class.fields \cup class.others
           n == Len(declared)
<1>1. declared \in Seq(Seq(names))
  BY DEF CohesionTypeOK
<1>2. n \in Nat /\ DOMAIN declared = 1 .. n /\ \A m \in 1 .. n : declared[m] \in Seq(names)
  BY <1>1
<1> HIDE DEF names, n
<1>3. Methods = [m \in 1 .. n |-> Accessed(declared[m])]
  BY <1>2 DEF Methods
<1>4. \A m \in 1 .. n : /\ Accessed(declared[m]) \in Seq(class.fields)
                       /\ Range(Accessed(declared[m])) = Range(declared[m]) \cap class.fields
  BY <1>2, AccessedIsFields
<1>5. Methods \in [1 .. n -> Seq(class.fields)]
  BY <1>3, <1>4
<1>6. Methods \in Seq(Seq(class.fields))
  BY <1>2, <1>5
<1>7. Len(Methods) = n
  <2>1. DOMAIN Methods = 1 .. n /\ DOMAIN Methods = 1 .. Len(Methods) /\ Len(Methods) \in Nat
    BY <1>5, <1>6, LenProperties
  <2> QED
    BY <1>2, <2>1
<1> QED
  BY <1>3, <1>4, <1>6, <1>7 DEF n

LEMMA CohesionIsTyped ==
  CohesionSpec => []CohesionTypeOK
<1>1. CohesionInit => CohesionTypeOK
  <2> SUFFICES ASSUME CohesionInit PROVE CohesionTypeOK
    OBVIOUS
  <2>1. declared = << >> /\ class \in Classes
    BY DEF CohesionInit
  <2> QED
    BY <2>1 DEF CohesionTypeOK
<1>2. CohesionTypeOK /\ [CohesionNext]_cohesionVars => CohesionTypeOK'
  <2> SUFFICES ASSUME CohesionTypeOK, [CohesionNext]_cohesionVars PROVE CohesionTypeOK'
    OBVIOUS
  <2>1. CASE UNCHANGED cohesionVars
    BY <2>1 DEF CohesionTypeOK, cohesionVars
  <2>2. ASSUME NEW selected \in SelectedOnReceiver, DeclareMethod(selected) PROVE CohesionTypeOK'
    <3> DEFINE names == class.fields \cup class.others
    <3>1. class' = class /\ declared' = Append(declared, selected)
      BY <2>2 DEF DeclareMethod
    <3>2. IsFiniteSet(names)
      BY FS_Union, ClassesAssumption DEF CohesionTypeOK
    <3>3. declared \in Seq(Seq(names))
      BY DEF CohesionTypeOK
    <3>4. PICK s \in SUBSET names : selected \in SetToSeqs(s)
      BY <2>2 DEF SelectedOnReceiver, SetToAllKPermutations
    <3> HIDE DEF names
    <3>5. Cardinality(s) \in Nat
      BY <3>2, FS_Subset, FS_CardinalityType
    <3>6. selected \in [1 .. Cardinality(s) -> s]
      BY <3>4 DEF SetToSeqs
    <3>7. selected \in [1 .. Cardinality(s) -> names]
      BY <3>6
    <3>8. selected \in Seq(names)
      BY <3>5, <3>7
    <3>9. declared' \in Seq(Seq(names))
      BY <3>1, <3>3, <3>8
    <3> QED
      BY <3>1, <3>9 DEF CohesionTypeOK, names
  <2> QED
    BY <2>1, <2>2 DEF CohesionNext
<1> QED
  BY <1>1, <1>2, PTL DEF CohesionSpec

\* Two methods that share a field are linked, and links lead both ways.
Linked == {p \in (DOMAIN Methods) \X (DOMAIN Methods) : Range(Methods[p[1]]) \cap Range(Methods[p[2]]) # {}}

LEMMA LinksLeadBothWays ==
  ASSUME Methods \in Seq(Seq(class.fields))
  PROVE  /\ IsGraph(Linked)
         /\ \A i : ReachedFrom(Linked, i) \subseteq (DOMAIN Methods) \cup {i}
         /\ \A i, j \in DOMAIN Methods : j \in ReachedFrom(Linked, i) => i \in ReachedFrom(Linked, j)
<1> DEFINE n == Len(Methods)
           E == Linked
<1>1. n \in Nat /\ DOMAIN Methods = 1 .. n
  OBVIOUS
<1>2. IsFiniteSet((1 .. n) \X (1 .. n)) /\ E \subseteq (1 .. n) \X (1 .. n)
  <2>1. IsFiniteSet(1 .. n)
    BY <1>1, FS_Interval
  <2> QED
    BY <1>1, <2>1, FS_Product DEF Linked
<1>3. IsGraph(E)
  <2>1. IsFiniteSet(E)
    BY <1>2, FS_Subset
  <2>2. E \in SUBSET (Int \X Int)
    BY <1>1, <1>2
  <2> QED
    BY <2>1, <2>2 DEF IsGraph
<1>4. \A i, j : <<i, j>> \in E => <<j, i>> \in E /\ i \in 1 .. n /\ j \in 1 .. n
  BY <1>1 DEF Linked
<1> HIDE DEF E, n
<1>5. ASSUME NEW i PROVE ReachedFrom(E, i) \subseteq (1 .. n) \cup {i}
  <2>1. Labels(E) \subseteq 1 .. n
    BY <1>2 DEF Labels
  <2> QED
    BY <1>3, <2>1, ReachIsClosed
<1>6. ASSUME NEW i \in 1 .. n, NEW j \in 1 .. n, j \in ReachedFrom(E, i) PROVE i \in ReachedFrom(E, j)
  <2> DEFINE Back == {k \in 1 .. n : i \in ReachedFrom(E, k)}
  <2>1. i \in Back
    BY <1>3, ReachIsClosed
  <2>2. ASSUME NEW k \in Back, NEW y \in Targets(E, k) PROVE y \in Back
    <3>1. <<k, y>> \in E
      BY <1>3, <2>2, GraphWorks
    <3>2. <<y, k>> \in E /\ y \in 1 .. n
      BY <1>4, <3>1
    <3>3. k \in ReachedFrom(E, y)
      BY <1>3, <3>2, EdgeIsReach
    <3>4. ReachedFrom(E, k) \subseteq ReachedFrom(E, y)
      BY <1>3, <3>3, ReachIsTransitive
    <3> QED
      BY <3>2, <3>4
  <2> HIDE DEF Back
  <2>3. ReachedFrom(E, i) \subseteq Back
    BY <1>3, <2>1, <2>2, ReachIsLeast
  <2> QED
    BY <1>6, <2>3 DEF Back
<1> QED
  BY <1>1, <1>3, <1>5, <1>6 DEF E

\* The forest of LCOM4 labels each method with the root of its piece.
LEMMA ForestIsPieces ==
  ASSUME Methods \in Seq(Seq(class.fields))
  PROVE  \E R : /\ Forested(Forest, Len(Methods), Len(Methods), R)
                /\ \A i, j \in 1 .. Len(Methods) : R[i] = R[j] <=> j \in ReachedFrom(Linked, i)
<1> DEFINE n == Len(Methods)
           E == Linked
           Together == {p \in (1 .. n) \X (1 .. n) : p[2] \in ReachedFrom(E, p[1])}
<1>1. n \in Nat /\ DOMAIN Methods = 1 .. n
  OBVIOUS
<1>2. /\ IsGraph(E) /\ \A i : ReachedFrom(E, i) \subseteq (1 .. n) \cup {i}
      /\ \A i, j \in 1 .. n : j \in ReachedFrom(E, i) => i \in ReachedFrom(E, j)
  BY <1>1, LinksLeadBothWays
<1>3. \A i, j \in 1 .. n : <<i, j>> \in Together <=> j \in ReachedFrom(E, i)
  OBVIOUS
<1>4. \A i \in 1 .. n : \A f : <<i, f>> \in AllAccesses <=> f \in class.fields /\ f \in Range(Methods[i])
  BY <1>1 DEF AllAccesses
<1>5. \A i, j \in 1 .. n : <<i, j>> \in E <=> Range(Methods[i]) \cap Range(Methods[j]) # {}
  BY <1>1 DEF Linked
<1>6. \A i \in 1 .. n : Range(Methods[i]) \subseteq class.fields
  <2> SUFFICES ASSUME NEW i \in 1 .. n PROVE Range(Methods[i]) \subseteq class.fields
    OBVIOUS
  <2>1. Methods[i] \in Seq(class.fields)
    BY <1>1
  <2> QED
    BY <2>1 DEF Range
<1> HIDE DEF E, n, Together
<1>7. BelongTogether(Together, n, AllAccesses)
  <2>1. \A i \in 1 .. n : i \in ReachedFrom(E, i)
    BY <1>2, ReachIsClosed
  <2>2. \A i, j, k \in 1 .. n : j \in ReachedFrom(E, i) /\ k \in ReachedFrom(E, j) => k \in ReachedFrom(E, i)
    BY <1>2, ReachIsTransitive
  <2>3. ASSUME NEW i \in 1 .. n, NEW j \in 1 .. n, NEW f, <<i, f>> \in AllAccesses, <<j, f>> \in AllAccesses
        PROVE  j \in ReachedFrom(E, i)
    <3>1. <<i, j>> \in E
      BY <1>4, <1>5, <2>3
    <3> QED
      BY <1>2, <3>1, EdgeIsReach
  <2> QED
    BY <1>2, <1>3, <2>1, <2>2, <2>3 DEF BelongTogether
<1>8. PICK s, R : Forest = s.component /\ HasRead(s, R, n, n, class.fields, AllAccesses, Together)
  BY <1>7, ForestIsRead DEF n
<1>9. /\ Forested(Forest, n, n, R)
      /\ \A j \in 1 .. n, f \in class.fields : <<j, f>> \in AllAccesses => R[j] = R[s.reached[f]]
      /\ \A i, j \in 1 .. n : R[i] = R[j] => <<i, j>> \in Together
  BY <1>8 DEF HasRead
<1>10. ASSUME NEW i \in 1 .. n, NEW j \in 1 .. n, j \in ReachedFrom(E, i) PROVE R[i] = R[j]
  <2> DEFINE Piece == {k \in 1 .. n : R[k] = R[i]}
  <2>1. i \in Piece
    OBVIOUS
  <2>2. ASSUME NEW k \in Piece, NEW y \in Targets(E, k) PROVE y \in Piece
    <3>1. <<k, y>> \in E
      BY <1>2, <2>2, GraphWorks
    <3>2. y \in 1 .. n /\ k \in 1 .. n
      BY <1>1, <3>1 DEF E, Linked
    <3>3. PICK f : f \in Range(Methods[k]) /\ f \in Range(Methods[y])
      BY <1>5, <3>1, <3>2
    <3>4. f \in class.fields /\ <<k, f>> \in AllAccesses /\ <<y, f>> \in AllAccesses
      BY <1>4, <1>6, <3>2, <3>3
    <3>5. R[k] = R[y]
      BY <1>9, <3>2, <3>4
    <3> QED
      BY <2>2, <3>2, <3>5
  <2> HIDE DEF Piece
  <2>3. ReachedFrom(E, i) \subseteq Piece
    BY <1>2, <2>1, <2>2, ReachIsLeast
  <2> QED
    BY <1>10, <2>3 DEF Piece
<1> QED
  BY <1>3, <1>9, <1>10 DEF n, E

LEMMA PiecesFollow ==
  ASSUME CohesionTypeOK
  PROVE  PiecesHangTogether
<1> DEFINE n == Len(Methods)
           root == [m \in DOMAIN Methods |-> RootOf(Forest, m).at]
           piece == [m \in DOMAIN Methods |-> {m} \cup ReachedFrom(Linked, m)]
           roots == {m \in DOMAIN Forest : RootOf(Forest, m).at = m}
           pieces == {piece[m] : m \in DOMAIN Methods}
<1>1. Methods \in Seq(Seq(class.fields)) /\ Len(Methods) = Len(declared)
  BY MethodsAreTyped
<1>2. n \in Nat /\ DOMAIN Methods = 1 .. n /\ Len(declared) = n
  BY <1>1
<1>3. PICK R : /\ Forested(Forest, n, n, R)
               /\ \A i, j \in 1 .. n : R[i] = R[j] <=> j \in ReachedFrom(Linked, i)
  BY <1>1, ForestIsPieces
<1>4. DOMAIN Forest = 1 .. n /\ R \in [1 .. n -> 1 .. n]
  BY <1>3 DEF Forested
<1>5. \A i \in 1 .. n : RootOf(Forest, i).at = R[i] /\ R[R[i]] = R[i]
  BY <1>2, <1>3, RootIsLabel
<1>6. \A i \in 1 .. n : piece[i] = {j \in 1 .. n : R[i] = R[j]}
  <2> SUFFICES ASSUME NEW i \in 1 .. n PROVE {i} \cup ReachedFrom(Linked, i) = {j \in 1 .. n : R[i] = R[j]}
    BY <1>2
  <2>1. ReachedFrom(Linked, i) \subseteq (1 .. n) \cup {i}
    BY <1>1, <1>2, LinksLeadBothWays
  <2> QED
    BY <1>3, <2>1
<1>7. \A i \in 1 .. n : root[i] = R[i]
  BY <1>2, <1>5
<1>8. roots = {i \in 1 .. n : R[i] = i}
  BY <1>4, <1>5
<1>9. pieces = {piece[i] : i \in 1 .. n}
  BY <1>2
<1>10. \A m, k \in DOMAIN Methods : root[m] = root[k] <=> k \in piece[m]
  BY <1>2, <1>6, <1>7
<1>11. Cardinality(roots) = Cardinality(pieces)
  <2> DEFINE f == [i \in roots |-> piece[i]]
  <2>1. IsFiniteSet(roots)
    <3>1. IsFiniteSet(1 .. n)
      BY <1>2, FS_Interval
    <3> QED
      BY <1>8, <3>1, FS_Subset
  <2> HIDE DEF roots, piece, pieces
  <2>2. \A i \in roots : i \in 1 .. n /\ R[i] = i
    BY <1>8
  <2>3. f \in [roots -> pieces]
    BY <1>9, <2>2
  <2>4. \A i, j \in roots : f[i] = f[j] => i = j
    BY <1>6, <2>2
  <2>5. ASSUME NEW z \in pieces PROVE \E i \in roots : f[i] = z
    <3>1. PICK j \in 1 .. n : z = piece[j]
      BY <1>9
    <3>2. R[j] \in roots /\ R[j] \in 1 .. n /\ R[R[j]] = R[j]
      BY <1>4, <1>5, <1>8
    <3>3. piece[R[j]] = piece[j]
      BY <1>6, <3>2
    <3> QED
      BY <3>1, <3>2, <3>3
  <2> HIDE DEF f
  <2> QED
    BY <2>1, <2>3, <2>4, <2>5, SameSize
<1>12. declared = << >> <=> Methods = << >>
  BY <1>1, <1>2 DEF CohesionTypeOK
<1>13. LCOM4 = IF Methods = << >> THEN 0
               ELSE IF Len(Methods) < 2 \/ class.fields = {} THEN 1 ELSE Cardinality(pieces)
  <2>1. Measurable <=> ~(Len(Methods) < 2 \/ class.fields = {})
    BY <1>2 DEF Measurable
  <2>2. LCOM4 = IF declared = << >> THEN 0 ELSE IF ~Measurable THEN 1 ELSE Cardinality(roots)
    BY DEF LCOM4
  <2> HIDE DEF pieces, roots
  <2> QED
    BY <1>11, <1>12, <2>1, <2>2
<1> QED
  BY <1>10, <1>13 DEF PiecesHangTogether, Linked

\* LCOM4 counts the pieces a class falls into, in whatever order its methods
\* were read, for every class there may be.
THEOREM PiecesAreCounted ==
  CohesionSpec => []PiecesHangTogether
<1>1. CohesionTypeOK => PiecesHangTogether
  BY PiecesFollow
<1> QED
  BY <1>1, CohesionIsTyped, PTL

-----------------------------------------------------------------------------
LEMMA UpToWorks ==
  ASSUME NEW n \in Nat
  PROVE  IsFiniteSet(1 .. n) /\ Cardinality(1 .. n) = n
<1>1. IsFiniteSet(1 .. n) /\ Cardinality(1 .. n) = IF 1 > n THEN 0 ELSE n - 1 + 1
  BY FS_Interval
<1>2. (IF 1 > n THEN 0 ELSE n - 1 + 1) = n
  OBVIOUS
<1> QED
  BY <1>1, <1>2

\* Which field is selected by which method.
Reaches == {p \in class.fields \X (1 .. Len(declared)) : p[1] \in Range(declared[p[2]])}

LEMMA AccessesAreCounted ==
  ASSUME CohesionTypeOK
  PROVE  /\ IsFiniteSet(Reaches) /\ AccessCount = Cardinality(Reaches) /\ AccessCount \in Nat
         /\ IsFiniteSet(class.fields) /\ Fielded \in Nat
<1> DEFINE n == Len(declared)
           fields == class.fields
           G == [f \in fields |-> AccessedBy(Methods, f)]
<1>1. /\ Methods \in Seq(Seq(fields)) /\ Len(Methods) = n
      /\ \A m \in 1 .. n : Range(Methods[m]) = Range(declared[m]) \cap fields
  BY MethodsAreTyped
<1>2. n \in Nat /\ DOMAIN Methods = 1 .. n
  BY <1>1
<1>3. IsFiniteSet(fields) /\ Fielded \in Nat
  BY ClassesAssumption, FS_CardinalityType DEF CohesionTypeOK, Fielded
<1>4. \A f \in fields : AccessedBy(Methods, f) = {m \in 1 .. n : f \in Range(declared[m])}
  BY <1>1, <1>2 DEF AccessedBy
<1>5. IsFiniteSet(1 .. n)
  BY <1>2, FS_Interval
<1>6. G \in [fields -> SUBSET (1 .. n)] /\ \A f \in fields : IsFiniteSet(G[f])
  BY <1>4, <1>5, FS_Subset
<1>7. \A f \in fields : G[f] = {m \in 1 .. n : f \in Range(declared[m])}
  BY <1>4
<1>8. Counted(G, fields, 1 .. n) = Reaches
  BY <1>7 DEF Counted, Reaches
<1>9. [f \in fields |-> Cardinality(G[f])] = [f \in fields |-> Cardinality(AccessedBy(Methods, f))]
  OBVIOUS
<1> HIDE DEF G
<1>10. IsFiniteSet(Reaches) /\ AccessCount = Cardinality(Reaches)
  BY <1>3, <1>6, <1>8, <1>9, SumIsCount DEF AccessCount
<1> QED
  BY <1>3, <1>10, FS_CardinalityType

LEMMA OneEach ==
  ASSUME NEW S, IsFiniteSet(S), NEW T, NEW G \in [S -> SUBSET T], \A x \in S : IsFiniteSet(G[x]),
         \A x \in S : Cardinality(G[x]) = 1
  PROVE  Cardinality(Counted(G, S, T)) = Cardinality(S)
<1> DEFINE h == [x \in S |-> CHOOSE y : y \in G[x]]
           f == [x \in S |-> <<x, h[x]>>]
           R == Counted(G, S, T)
<1>1. \A x \in S : G[x] = {h[x]}
  <2> SUFFICES ASSUME NEW x \in S PROVE G[x] = {h[x]}
    OBVIOUS
  <2>1. PICK y : G[x] = {y}
    BY FS_Singleton
  <2> QED
    BY <2>1
<1> HIDE DEF h
<1>2. \A x \in S : h[x] \in G[x] /\ h[x] \in T
  BY <1>1
<1>3. f \in [S -> R]
  BY <1>2 DEF Counted
<1>4. \A x, y \in S : f[x] = f[y] => x = y
  OBVIOUS
<1>5. \A z \in R : \E x \in S : f[x] = z
  BY <1>1 DEF Counted
<1> HIDE DEF f, R
<1>6. Cardinality(R) = Cardinality(S)
  BY <1>3, <1>4, <1>5, SameSize
<1> QED
  BY <1>6 DEF R

\* The methods that select a field.
Reaching == [f \in class.fields |-> {i \in 1 .. Len(declared) : f \in Range(declared[i])}]

LEMMA AccessesAreBounded ==
  ASSUME CohesionTypeOK
  PROVE  /\ AccessCount <= Len(declared) * Fielded
         /\ AccessCount = Len(declared) * Fielded <=> \A f \in class.fields : Reaching[f] = 1 .. Len(declared)
         /\ AccessCount = 0 <=> \A f \in class.fields : Reaching[f] = {}
         /\ (\A f \in class.fields : Cardinality(Reaching[f]) = 1) => AccessCount = Fielded
         /\ (\A i \in 1 .. Len(declared) : Cardinality({f \in class.fields : i \in Reaching[f]}) = 1)
              => AccessCount = Len(declared)
<1> DEFINE n == Len(declared)
           fields == class.fields
           all == fields \X (1 .. n)
<1>1. n \in Nat /\ IsFiniteSet(1 .. n) /\ Cardinality(1 .. n) = n
  <2>1. n \in Nat
    BY DEF CohesionTypeOK
  <2>2. IsFiniteSet(1 .. n) /\ Cardinality(1 .. n) = IF 1 > n THEN 0 ELSE n - 1 + 1
    BY <2>1, FS_Interval
  <2> QED
    BY <2>1, <2>2
<1>2. /\ IsFiniteSet(Reaches) /\ AccessCount = Cardinality(Reaches) /\ AccessCount \in Nat
      /\ IsFiniteSet(fields) /\ Fielded \in Nat /\ Fielded = Cardinality(fields)
  BY AccessesAreCounted DEF Fielded
<1>3. Reaches \in SUBSET all
  BY DEF Reaches
<1>4. \A f \in fields, i \in 1 .. n : <<f, i>> \in Reaches <=> i \in Reaching[f]
  BY DEF Reaches, Reaching
<1>5. \A f \in fields : Reaching[f] \in SUBSET (1 .. n) /\ IsFiniteSet(Reaching[f])
  BY <1>1, FS_Subset DEF Reaching
<1>6. IsFiniteSet(all) /\ Cardinality(all) = Fielded * n /\ Fielded * n = n * Fielded
  <2>1. \A S, T : IsFiniteSet(S) /\ IsFiniteSet(T)
          => IsFiniteSet(S \X T) /\ Cardinality(S \X T) = Cardinality(S) * Cardinality(T)
    BY FS_Product
  <2>2. IsFiniteSet(fields \X (1 .. n)) /\ Cardinality(fields \X (1 .. n)) = Cardinality(fields) * Cardinality(1 .. n)
    BY <1>1, <1>2, <2>1
  <2>3. Fielded * n = n * Fielded
    BY <1>1, <1>2
  <2> QED
    BY <1>1, <1>2, <2>2, <2>3
<1>7. AccessCount <= n * Fielded /\ (AccessCount = n * Fielded => Reaches = all)
  BY <1>2, <1>3, <1>6, FS_Subset
<1>8. AccessCount = n * Fielded <=> \A f \in fields : Reaching[f] = 1 .. n
  <2>1. ASSUME Reaches = all PROVE \A f \in fields : Reaching[f] = 1 .. n
    BY <1>4, <1>5, <2>1
  <2>2. ASSUME \A f \in fields : Reaching[f] = 1 .. n PROVE Reaches = all
    <3>1. \A f \in fields, i \in 1 .. n : <<f, i>> \in Reaches
      BY <1>4, <2>2
    <3> QED
      BY <1>3, <3>1
  <2>3. Reaches = all => AccessCount = n * Fielded
    BY <1>2, <1>6
  <2> HIDE DEF all, n, fields
  <2> QED
    BY <1>7, <2>1, <2>2, <2>3
<1>9. AccessCount = 0 <=> \A f \in fields : Reaching[f] = {}
  <2>1. AccessCount = 0 <=> Reaches = {}
    BY <1>2, FS_EmptySet
  <2>2. Reaches = {} => \A f \in fields : Reaching[f] = {}
    BY <1>4, <1>5
  <2>3. (\A f \in fields : Reaching[f] = {}) => Reaches = {}
    BY <1>4 DEF Reaches
  <2> QED
    BY <2>1, <2>2, <2>3
<1>10. ASSUME \A f \in fields : Cardinality(Reaching[f]) = 1 PROVE AccessCount = Fielded
  <2>1. Reaching \in [fields -> SUBSET (1 .. n)]
    BY DEF Reaching
  <2>2. Cardinality(Counted(Reaching, fields, 1 .. n)) = Cardinality(fields)
    BY <1>2, <1>5, <1>10, <2>1, OneEach
  <2>3. Counted(Reaching, fields, 1 .. n) = Reaches
    BY <1>4 DEF Reaches, Counted
  <2> QED
    BY <1>2, <2>2, <2>3
<1>11. ASSUME \A i \in 1 .. n : Cardinality({f \in fields : i \in Reaching[f]}) = 1 PROVE AccessCount = n
  <2> DEFINE G == [i \in 1 .. n |-> {f \in fields : i \in Reaching[f]}]
             turned == Counted(G, 1 .. n, fields)
             turn == [p \in turned |-> <<p[2], p[1]>>]
  <2>1. G \in [1 .. n -> SUBSET fields] /\ \A i \in 1 .. n : IsFiniteSet(G[i]) /\ Cardinality(G[i]) = 1
    BY <1>2, <1>11, FS_Subset
  <2>2. \A i \in 1 .. n, f \in fields : f \in G[i] <=> <<f, i>> \in Reaches
    BY <1>4
  <2> HIDE DEF G
  <2>3. Cardinality(turned) = n
    BY <1>1, <2>1, OneEach
  <2>4. turned \in SUBSET ((1 .. n) \X fields) /\ IsFiniteSet((1 .. n) \X fields)
    BY <1>1, <1>2, FS_Product DEF Counted
  <2>5. IsFiniteSet(turned)
    BY <2>4, FS_Subset
  <2>6. turn \in [turned -> Reaches]
    <3>1. ASSUME NEW p \in turned PROVE <<p[2], p[1]>> \in Reaches
      <4>1. p[1] \in 1 .. n /\ p[2] \in fields /\ p[2] \in G[p[1]]
        BY DEF Counted
      <4> QED
        BY <2>2, <4>1
    <3> HIDE DEF turned
    <3> QED
      BY <3>1
  <2>7. \A p, q \in turned : turn[p] = turn[q] => p = q
    BY DEF Counted
  <2>8. ASSUME NEW z \in Reaches PROVE \E p \in turned : turn[p] = z
    <3>1. z \in all /\ z = <<z[1], z[2]>>
      BY <1>3
    <3>2. <<z[2], z[1]>> \in turned
      BY <2>2, <3>1 DEF Counted
    <3>3. turn[<<z[2], z[1]>>] = z
      BY <3>1, <3>2
    <3> QED
      BY <3>2, <3>3
  <2> HIDE DEF turn, turned
  <2>9. Cardinality(Reaches) = Cardinality(turned)
    BY <2>5, <2>6, <2>7, <2>8, SameSize
  <2> QED
    BY <1>2, <2>3, <2>9
<1> QED
  BY <1>7, <1>8, <1>9, <1>10, <1>11

\* The fields a method selects, and whether no two methods select a field in common.
FieldsReached == [i \in 1 .. Len(declared) |-> {f \in class.fields : i \in Reaching[f]}]
Apart == \A i, j \in 1 .. Len(declared) : i = j \/ FieldsReached[i] \cap FieldsReached[j] = {}

LEMMA ReachedIsRange ==
  ASSUME CohesionTypeOK
  PROVE  /\ Methods \in Seq(Seq(class.fields)) /\ Len(Methods) = Len(declared) /\ Len(declared) \in Nat
         /\ DOMAIN Methods = 1 .. Len(declared) /\ DOMAIN declared = 1 .. Len(declared)
         /\ \A i \in 1 .. Len(declared) : Range(Methods[i]) = FieldsReached[i]
<1> DEFINE n == Len(declared)
<1>1. /\ Methods \in Seq(Seq(class.fields)) /\ Len(Methods) = n
      /\ \A m \in 1 .. n : Range(Methods[m]) = Range(declared[m]) \cap class.fields
  BY MethodsAreTyped
<1>2. n \in Nat /\ DOMAIN Methods = 1 .. n /\ DOMAIN declared = 1 .. n
  BY <1>1 DEF CohesionTypeOK
<1>3. \A i \in 1 .. n : FieldsReached[i] = {f \in class.fields : f \in Range(declared[i])}
  BY DEF FieldsReached, Reaching
<1> QED
  BY <1>1, <1>2, <1>3

\* The pairs of methods, and those that share a field.
LEMMA PairsTell ==
  ASSUME CohesionTypeOK, Len(declared) > 1
  PROVE  /\ Cardinality(Pairs) \in Nat /\ Cardinality(Pairs) > 0
         /\ Cardinality(Sharing) \in Nat /\ Cardinality(Pairs \ Sharing) \in Nat
         /\ Cardinality(Pairs \ Sharing) + Cardinality(Sharing) = Cardinality(Pairs)
         /\ Cardinality(Sharing) = 0 <=> Apart
         /\ Cardinality(Pairs \ Sharing) = 0
              => \A i, j \in 1 .. Len(declared) : i = j \/ FieldsReached[i] \cap FieldsReached[j] # {}
<1> DEFINE n == Len(declared)
<1>1. /\ n \in Nat /\ DOMAIN Methods = 1 .. n /\ DOMAIN declared = 1 .. n
      /\ \A i \in 1 .. n : Range(Methods[i]) = FieldsReached[i]
  BY ReachedIsRange
<1>2. \A i, j \in 1 .. n : <<i, j>> \in Pairs <=> i < j
  BY <1>1 DEF Pairs
<1>3. \A i, j \in 1 .. n : <<i, j>> \in Sharing <=> i < j /\ FieldsReached[i] \cap FieldsReached[j] # {}
  BY <1>1, <1>2 DEF Sharing
<1>4. Sharing \in SUBSET Pairs /\ Pairs \in SUBSET ((1 .. n) \X (1 .. n))
  BY <1>1 DEF Sharing, Pairs
<1>5. IsFiniteSet((1 .. n) \X (1 .. n))
  <2>1. IsFiniteSet(1 .. n)
    BY <1>1, UpToWorks
  <2> QED
    BY <2>1, FS_Product
<1>6. IsFiniteSet(Pairs) /\ IsFiniteSet(Sharing) /\ IsFiniteSet(Pairs \ Sharing)
  <2>1. IsFiniteSet(Pairs)
    BY <1>4, <1>5, FS_Subset
  <2> QED
    BY <1>4, <2>1, FS_Subset
<1>7. /\ Cardinality(Pairs) \in Nat /\ Cardinality(Sharing) \in Nat /\ Cardinality(Pairs \ Sharing) \in Nat
  BY <1>6, FS_CardinalityType
<1>8. Cardinality(Pairs) > 0
  <2>1. <<1, 2>> \in Pairs
    BY <1>1, <1>2
  <2>2. Cardinality(Pairs) # 0
    BY <1>6, <2>1, FS_EmptySet
  <2> QED
    BY <1>7, <2>2
<1>9. Cardinality(Pairs \ Sharing) = Cardinality(Pairs) - Cardinality(Sharing)
  <2>1. Pairs \cap Sharing = Sharing
    BY <1>4
  <2>2. Cardinality(Pairs \ Sharing) = Cardinality(Pairs) - Cardinality(Pairs \cap Sharing)
    BY <1>6, FS_Difference
  <2> QED
    BY <2>1, <2>2
<1>10. Cardinality(Sharing) = 0 <=> Sharing = {}
  BY <1>6, FS_EmptySet
<1>11. Sharing = {} <=> Apart
  <2>1. ASSUME Sharing = {}, NEW i \in 1 .. n, NEW j \in 1 .. n PROVE i = j \/ FieldsReached[i] \cap FieldsReached[j] = {}
    <3>1. i = j \/ i < j \/ j < i
      BY <1>1
    <3> QED
      BY <1>3, <2>1, <3>1
  <2>2. ASSUME Apart, NEW p \in Sharing PROVE FALSE
    <3>1. p[1] \in 1 .. n /\ p[2] \in 1 .. n /\ p = <<p[1], p[2]>>
      BY <1>4
    <3>2. p[1] < p[2] /\ FieldsReached[p[1]] \cap FieldsReached[p[2]] # {}
      BY <1>3, <2>2, <3>1
    <3> QED
      BY <1>1, <2>2, <3>1, <3>2 DEF Apart
  <2> QED
    BY <2>1, <2>2 DEF Apart
<1>12. ASSUME Cardinality(Pairs \ Sharing) = 0, NEW i \in 1 .. n, NEW j \in 1 .. n
       PROVE  i = j \/ FieldsReached[i] \cap FieldsReached[j] # {}
  <2>1. Pairs \ Sharing = {}
    BY <1>6, <1>12, FS_EmptySet
  <2>2. i = j \/ i < j \/ j < i
    BY <1>1
  <2> QED
    BY <1>2, <1>3, <2>1, <2>2
<1> QED
  BY <1>7, <1>8, <1>9, <1>10, <1>11, <1>12

\* What the number of pieces says of a class that can be measured.
LEMMA PiecesTell ==
  ASSUME CohesionTypeOK, Measurable
  PROVE  /\ LCOM4 = Len(declared) <=> Apart
         /\ (\A i, j \in 1 .. Len(declared) : i = j \/ FieldsReached[i] \cap FieldsReached[j] # {}) => LCOM4 = 1
<1> DEFINE n == Len(declared)
           roots == {m \in DOMAIN Forest : RootOf(Forest, m).at = m}
<1>1. /\ Methods \in Seq(Seq(class.fields)) /\ Len(Methods) = n /\ n \in Nat /\ DOMAIN Methods = 1 .. n
      /\ \A i \in 1 .. n : Range(Methods[i]) = FieldsReached[i]
  BY ReachedIsRange
<1>2. PICK R : /\ Forested(Forest, n, n, R)
               /\ \A i, j \in 1 .. n : R[i] = R[j] <=> j \in ReachedFrom(Linked, i)
  BY <1>1, ForestIsPieces
<1>3. DOMAIN Forest = 1 .. n /\ R \in [1 .. n -> 1 .. n]
  BY <1>2 DEF Forested
<1>4. \A i \in 1 .. n : RootOf(Forest, i).at = R[i] /\ R[R[i]] = R[i]
  BY <1>1, <1>2, RootIsLabel
<1>5. roots = {i \in 1 .. n : R[i] = i}
  BY <1>3, <1>4
<1>6. n > 1 /\ LCOM4 = Cardinality(roots)
  <2>1. n > 1
    BY DEF Measurable
  <2>2. declared # << >>
    BY <2>1 DEF CohesionTypeOK
  <2> QED
    BY <2>1, <2>2 DEF LCOM4
<1>7. IsGraph(Linked)
  BY <1>1, LinksLeadBothWays
<1>8. \A i, j \in 1 .. n : <<i, j>> \in Linked <=> FieldsReached[i] \cap FieldsReached[j] # {}
  BY <1>1 DEF Linked
<1> HIDE DEF roots
<1>9. IsFiniteSet(1 .. n) /\ Cardinality(1 .. n) = n /\ roots \in SUBSET (1 .. n)
  BY <1>1, <1>5, UpToWorks
<1>10. LCOM4 = n <=> roots = 1 .. n
  BY <1>6, <1>9, FS_Subset
<1>11. ASSUME roots = 1 .. n PROVE Apart
  <2> SUFFICES ASSUME NEW i \in 1 .. n, NEW j \in 1 .. n, FieldsReached[i] \cap FieldsReached[j] # {} PROVE i = j
    BY DEF Apart
  <2>1. j \in ReachedFrom(Linked, i)
    BY <1>7, <1>8, EdgeIsReach
  <2>2. R[i] = R[j] /\ R[i] = i /\ R[j] = j
    BY <1>2, <1>5, <1>11, <2>1
  <2> QED
    BY <2>2
<1>12. ASSUME Apart PROVE roots = 1 .. n
  <2> SUFFICES ASSUME NEW i \in 1 .. n PROVE R[i] = i
    BY <1>5
  <2>1. R[i] \in 1 .. n /\ R[i] = R[R[i]]
    BY <1>3, <1>4
  <2>2. R[i] \in ReachedFrom(Linked, i)
    BY <1>2, <2>1
  <2>3. ASSUME NEW k \in {i}, NEW y \in Targets(Linked, k) PROVE y \in {i}
    <3>1. <<i, y>> \in Linked
      BY <1>7, <2>3, GraphWorks
    <3>2. y \in 1 .. n
      BY <1>1, <3>1 DEF Linked
    <3> QED
      BY <1>8, <1>12, <3>1, <3>2 DEF Apart
  <2>4. ReachedFrom(Linked, i) \subseteq {i}
    BY <1>7, <2>3, ReachIsLeast
  <2> QED
    BY <2>2, <2>4
<1>13. ASSUME \A i, j \in 1 .. n : i = j \/ FieldsReached[i] \cap FieldsReached[j] # {} PROVE LCOM4 = 1
  <2>1. 1 \in 1 .. n
    BY <1>1, <1>6
  <2>2. ASSUME NEW i \in 1 .. n PROVE R[i] = R[1]
    <3>1. i = 1 \/ <<i, 1>> \in Linked
      BY <1>8, <1>13, <2>1
    <3>2. 1 \in ReachedFrom(Linked, i)
      BY <1>7, <3>1, EdgeIsReach, ReachIsClosed
    <3> QED
      BY <1>2, <2>1, <3>2
  <2>3. R[1] \in 1 .. n /\ R[R[1]] = R[1]
    BY <1>3, <1>4, <2>1
  <2>4. roots = {R[1]}
    BY <1>5, <2>2, <2>3
  <2> QED
    BY <1>6, <2>4, FS_Singleton
<1> QED
  BY <1>10, <1>11, <1>12, <1>13

LEMMA ScoresFollow ==
  ASSUME CohesionTypeOK
  PROVE  ScoresKeepTheirScale
<1> DEFINE m == Len(declared)
           reaches(f) == {i \in 1 .. m : f \in Range(declared[i])}
           reached(i) == {f \in class.fields : i \in reaches(f)}
           evident == m > 1 /\ class.fields # {}
           cohesive == \A f \in class.fields : reaches(f) = 1 .. m
           unreached == \A f \in class.fields : reaches(f) = {}
           apart == \A i, j \in 1 .. m : i = j \/ reached(i) \cap reached(j) = {}
           oneMethod == \A f \in class.fields : Cardinality(reaches(f)) = 1
           oneField == \A i \in 1 .. m : Cardinality(reached(i)) = 1
           a == AccessCount
           p == Cardinality(Pairs)
           s == Cardinality(Sharing)
           q == Cardinality(Pairs \ Sharing)
           F == Cardinality(class.fields)
<1>1. \A f \in class.fields : reaches(f) = Reaching[f]
  BY DEF Reaching
<1>2. \A i \in 1 .. m : reached(i) = FieldsReached[i]
  BY <1>1 DEF FieldsReached
<1>3. apart <=> Apart
  BY <1>2 DEF Apart
<1>4. m \in Nat /\ F \in Nat /\ Fielded = F /\ Methodic = m /\ IsFiniteSet(class.fields) /\ a \in Nat
  BY AccessesAreCounted, ReachedIsRange DEF Fielded, Methodic
<1>5. evident <=> Measurable
  BY DEF Measurable
<1>6. /\ a <= m * F /\ (a = m * F <=> cohesive) /\ (a = 0 <=> unreached)
      /\ oneMethod => a = F
      /\ oneField => a = m
  BY <1>1, <1>2, <1>4, AccessesAreBounded DEF FieldsReached
<1> HIDE DEF reaches, reached, cohesive, unreached, apart, oneMethod, oneField, evident, m, a, p, s, q, F
<1>7. Within(Zero, 0, 2) /\ Within(Zero, 0, 1) /\ Equal(Zero, Zero) /\ Equal(<<0, 1>>, Zero)
  BY DEF Within, Equal, Zero
<1>8. Equal(LCOM2, LCOM96b) /\ Equal(LCOM3, LCOM96a)
  BY DEF Equal, LCOM2, LCOM3
<1>9. CASE ~evident
  <2>1. LCOM96a = Zero /\ LCOM96b = Zero /\ LCOM5 = Zero /\ LCOMStar = Zero /\ LCOM1 = 0
    BY <1>5, <1>9 DEF LCOM96a, LCOM96b, LCOM5, LCOMStar, LCOM1
  <2> QED
    BY <1>7, <1>8, <1>9, <2>1 DEF ScoresKeepTheirScale, evident, m
<1>10. CASE evident
  <2>1. Measurable /\ m > 1 /\ F > 0 /\ (Cardinality(class.fields) > 1 <=> F > 1)
    <3>1. Measurable /\ m > 1 /\ class.fields # {}
      BY <1>5, <1>10 DEF evident
    <3>2. F # 0
      BY <1>4, <3>1, FS_EmptySet DEF F
    <3> QED
      BY <1>4, <3>1, <3>2 DEF F
  <2>2. /\ LCOM96a = <<a - m * F, F * (1 - m)>> /\ LCOM96b = <<F * m - a, F * m>>
        /\ LCOMStar = <<q, p>> /\ LCOM1 = Max({0, q - s})
        /\ F > 1 => LCOM5 = <<F * m - a, m * (F - 1)>>
        /\ ~(F > 1) => LCOM5 = Zero
    <3>1. F >= 2 <=> F > 1
      BY <1>4
    <3> QED
      BY <1>4, <2>1, <3>1 DEF LCOM96a, LCOM96b, LCOMStar, LCOM1, LCOM5, a, p, q, s
  <2>3. /\ Within(LCOM96a, 0, 2) /\ (Equal(LCOM96a, Zero) <=> a = m * F)
        /\ Within(LCOM96b, 0, 1) /\ (Equal(LCOM96b, Zero) <=> a = m * F)
        /\ a = F => Equal(LCOM96a, <<1, 1>>)
        /\ a = 0 => Equal(LCOM96a, <<m, m - 1>>)
        /\ Equal(LCOM96b, <<1, 1>>) <=> a = 0
    BY <1>4, <1>6, <2>1, <2>2, ScaleOfAccesses
  <2>4. /\ Within(LCOM5, 0, 2)
        /\ F > 1 => (Equal(LCOM5, Zero) <=> a = m * F) /\ (a = m => Equal(LCOM5, <<1, 1>>))
    <3>1. CASE F > 1
      BY <1>4, <1>6, <2>1, <2>2, <3>1, ScaleOfMethods
    <3>2. CASE ~(F > 1)
      BY <1>7, <2>2, <3>2
    <3> QED
      BY <3>1, <3>2
  <2>5. /\ p \in Nat /\ p > 0 /\ s \in Nat /\ q \in Nat /\ q + s = p
        /\ (s = 0 <=> Apart)
        /\ q = 0 => \A i, j \in 1 .. Len(declared) : i = j \/ FieldsReached[i] \cap FieldsReached[j] # {}
    <3>1. Len(declared) > 1
      BY <2>1 DEF m
    <3> QED
      BY <3>1, PairsTell DEF p, s, q
  <2>6. Within(LCOMStar, 0, 1) /\ (Equal(LCOMStar, Zero) <=> q = 0)
    <3>1. q <= 1 * p
      BY <2>5
    <3> QED
      BY <2>2, <2>5, <3>1, RatioIsWithin
  <2>7. Equal(LCOMStar, <<1, 1>>) <=> s = 0
    <3>1. Equal(<<q, p>>, <<1, 1>>) <=> q * 1 = 1 * p
      BY DEF Equal
    <3> QED
      BY <2>2, <2>5, <3>1
  <2>8. LCOM1 = IF q - s > 0 THEN q - s ELSE 0
    <3>1. \A x \in {0, q - s} : x \in Int
      BY <2>5
    <3>2. \E x \in {0, q - s} : \A y \in {0, q - s} : x >= y
      BY <2>5
    <3>3. LCOM1 \in {0, q - s} /\ \A y \in {0, q - s} : LCOM1 >= y
      BY <2>2, <3>2 DEF Max
    <3> QED
      BY <2>5, <3>3
  <2>9. (LCOM1 > 0 <=> 2 * LCOMStar[1] > LCOMStar[2]) /\ (q = 0 => LCOM1 = 0)
    <3>1. LCOMStar[1] = q /\ LCOMStar[2] = p
      BY <2>2
    <3> QED
      BY <2>5, <2>8, <3>1
  <2>10. (LCOM4 = m <=> Apart) /\ (q = 0 => LCOM4 = 1)
    BY <2>1, <2>5, PiecesTell DEF m
  <2> HIDE DEF Zero
  <2>11. /\ Within(LCOM96a, 0, 2) /\ Within(LCOM96b, 0, 1) /\ Within(LCOM5, 0, 2) /\ Within(LCOMStar, 0, 1)
         /\ \A r \in {LCOM96a, LCOM96b} : Equal(r, Zero) <=> cohesive
         /\ oneMethod => Equal(LCOM96a, <<1, 1>>)
         /\ unreached => Equal(LCOM96a, <<m, m - 1>>)
         /\ Equal(LCOM96b, <<1, 1>>) <=> unreached
         /\ Cardinality(class.fields) > 1 =>
              /\ Equal(LCOM5, Zero) <=> cohesive
              /\ oneField => Equal(LCOM5, <<1, 1>>)
         /\ Equal(LCOMStar, <<1, 1>>) <=> apart
         /\ LCOM4 = m <=> apart
         /\ Equal(LCOMStar, Zero) => LCOM4 = 1 /\ LCOM1 = 0
         /\ LCOM1 > 0 <=> 2 * LCOMStar[1] > LCOMStar[2]
    BY <1>3, <1>6, <2>1, <2>3, <2>4, <2>5, <2>6, <2>7, <2>9, <2>10, Zenon
  <2> QED
    BY <1>8, <1>10, <2>11, Zenon DEF ScoresKeepTheirScale, reaches, reached, cohesive, unreached, apart,
       oneMethod, oneField, evident, m
<1> QED
  BY <1>9, <1>10

\* No ratio of the LCOM family divides by zero or leaves its scale, and the ends
\* of the scales mean what is said of them, for every class there may be.
THEOREM ScoresAreOnScale ==
  CohesionSpec => []ScoresKeepTheirScale
<1>1. CohesionTypeOK => ScoresKeepTheirScale
  BY ScoresFollow
<1> QED
  BY <1>1, CohesionIsTyped, PTL

-----------------------------------------------------------------------------
\* The folders of files, and the component of one of them.
FoldersOf(files) == {Dir(f) : f \in files}
ComponentOf(files, folder) ==
  [label |-> folder,
   classes |-> SumFunction([f \in InFolder(files, folder) |-> Cardinality(TypesOf(f))]),
   interfaces |-> SumFunction([f \in InFolder(files, folder) |-> Cardinality(InterfacesOf(f))]),
   dependsOn |-> {p[2] : p \in {q \in Crossing(files) : q[1] = folder}},
   dependedOnBy |-> {p[1] : p \in {q \in Crossing(files) : q[2] = folder}}]

\* The files that can be measured: there are finitely many, each with finitely
\* many types and methods.
Measurables(files) ==
  /\ IsFiniteSet(files)
  /\ \A f \in files : IsFiniteSet(project.disk[f].types) /\ IsFiniteSet(project.disk[f].methods)

SumOfSizes(G, D) == SumFunction([x \in D |-> Cardinality(G[x])])

\* Some of what is summed over.
LEMMA SumOfParts ==
  ASSUME NEW D, IsFiniteSet(D), NEW U, NEW G \in [D -> SUBSET U], \A x \in D : IsFiniteSet(G[x]),
         NEW H \in [D -> SUBSET U], \A x \in D : H[x] \subseteq G[x]
  PROVE  SumOfSizes(G, D) \in Nat /\ SumOfSizes(H, D) \in Nat /\ SumOfSizes(H, D) <= SumOfSizes(G, D)
<1>1. \A x \in D : IsFiniteSet(H[x])
  BY FS_Subset
<1>2. Counted(H, D, U) \in SUBSET Counted(G, D, U)
  BY DEF Counted
<1>3. /\ IsFiniteSet(Counted(G, D, U))
      /\ SumFunction([x \in D |-> Cardinality(G[x])]) = Cardinality(Counted(G, D, U))
  BY SumIsCount
<1>4. SumFunction([x \in D |-> Cardinality(H[x])]) = Cardinality(Counted(H, D, U))
  BY <1>1, SumIsCount
<1> QED
  BY <1>2, <1>3, <1>4, FS_Subset, FS_CardinalityType DEF SumOfSizes

\* What a component is made of.
LEMMA ComponentWorks ==
  ASSUME NEW files, Measurables(files), NEW folder, NEW c, c = ComponentOf(files, folder)
  PROVE  /\ c.classes \in Nat /\ c.interfaces \in Nat /\ c.interfaces <= c.classes
<1> DEFINE D == InFolder(files, folder)
           U == UNION {TypesOf(f) : f \in D}
           G == [f \in D |-> TypesOf(f)]
           H == [f \in D |-> InterfacesOf(f)]
<1>1. D \in SUBSET files
  BY DEF InFolder
<1>2. IsFiniteSet(D) /\ \A f \in D : IsFiniteSet(TypesOf(f))
  BY <1>1, FS_Subset DEF Measurables, TypesOf
<1> HIDE DEF D
<1>3. \A f \in D : InterfacesOf(f) \subseteq TypesOf(f) /\ TypesOf(f) \subseteq U
  BY DEF InterfacesOf
<1>4. G \in [D -> SUBSET U] /\ H \in [D -> SUBSET U]
  BY <1>3
<1>5. \A f \in D : G[f] = TypesOf(f) /\ H[f] = InterfacesOf(f)
  OBVIOUS
<1>6. /\ [f \in D |-> Cardinality(G[f])] = [f \in D |-> Cardinality(TypesOf(f))]
      /\ [f \in D |-> Cardinality(H[f])] = [f \in D |-> Cardinality(InterfacesOf(f))]
  OBVIOUS
<1>9. \A f \in D : IsFiniteSet(G[f]) /\ H[f] \subseteq G[f]
  BY <1>2, <1>3, <1>5
<1> HIDE DEF G, H, U
<1>7. SumOfSizes(G, D) \in Nat /\ SumOfSizes(H, D) \in Nat /\ SumOfSizes(H, D) <= SumOfSizes(G, D)
  BY <1>2, <1>4, <1>9, SumOfParts
<1>8. /\ c.classes = SumFunction([f \in D |-> Cardinality(TypesOf(f))])
      /\ c.interfaces = SumFunction([f \in D |-> Cardinality(InterfacesOf(f))])
  BY DEF ComponentOf, D
<1> QED
  BY <1>6, <1>7, <1>8 DEF SumOfSizes

\* The dependencies between folders.
LEMMA CrossingWorks ==
  ASSUME NEW files, IsFiniteSet(files)
  PROVE  /\ IsFiniteSet(FoldersOf(files)) /\ IsFiniteSet(Crossing(files))
         /\ Crossing(files) \subseteq FoldersOf(files) \X FoldersOf(files)
         /\ \A p \in Crossing(files) : p[1] # p[2]
<1>1. Crossing(files) \subseteq FoldersOf(files) \X FoldersOf(files)
  BY DEF Crossing, FoldersOf
<1>2. \A p \in Crossing(files) : p[1] # p[2]
  BY DEF Crossing
<1>3. IsFiniteSet(FoldersOf(files))
  <2> DEFINE f == [x \in files |-> Dir(x)]
  <2>1. f \in Surjection(files, FoldersOf(files))
    BY DEF Surjection, FoldersOf
  <2> QED
    BY <2>1, FS_Surjection
<1>4. IsFiniteSet(FoldersOf(files) \X FoldersOf(files))
  BY <1>3, FS_Product
<1> QED
  BY <1>1, <1>2, <1>3, <1>4, FS_Subset

LEMMA ComponentsAreFolders ==
  ASSUME NEW files
  PROVE  /\ SelectComponents(files) = {ComponentOf(files, folder) : folder \in FoldersOf(files)}
         /\ \A folder : ComponentOf(files, folder).label = folder
  BY DEF SelectComponents, ComponentOf, FoldersOf

LEMMA CountOfComponents ==
  ASSUME NEW files, IsFiniteSet(files)
  PROVE  /\ IsFiniteSet(SelectComponents(files))
         /\ Cardinality(SelectComponents(files)) = Cardinality(FoldersOf(files))
<1> DEFINE f == [folder \in FoldersOf(files) |-> ComponentOf(files, folder)]
<1>1. SelectComponents(files) = {ComponentOf(files, folder) : folder \in FoldersOf(files)}
  BY ComponentsAreFolders
<1>2. \A x, y \in FoldersOf(files) : ComponentOf(files, x) = ComponentOf(files, y) => x = y
  BY ComponentsAreFolders
<1>3. IsFiniteSet(FoldersOf(files))
  BY CrossingWorks
<1>4. f \in [FoldersOf(files) -> SelectComponents(files)]
  BY <1>1
<1>5. \A x, y \in FoldersOf(files) : f[x] = f[y] => x = y
  BY <1>2
<1>6. \A z \in SelectComponents(files) : \E x \in FoldersOf(files) : f[x] = z
  BY <1>1
<1> HIDE DEF f
<1> QED
  BY <1>3, <1>4, <1>5, <1>6, SameSize

\* Every dependency between two folders is efferent to one and afferent to the
\* other, and neither counts a folder as another.
LEMMA CouplingWorks ==
  ASSUME NEW files, IsFiniteSet(files)
  PROVE  /\ SumFunction([c \in SelectComponents(files) |-> Efferent(c)])
              = SumFunction([c \in SelectComponents(files) |-> Afferent(c)])
         /\ \A c \in SelectComponents(files) :
              /\ Efferent(c) \in Nat /\ Efferent(c) <= Cardinality(SelectComponents(files)) - 1
              /\ Afferent(c) \in Nat /\ Afferent(c) <= Cardinality(SelectComponents(files)) - 1
<1> DEFINE folders == FoldersOf(files)
           crossing == Crossing(files)
           components == SelectComponents(files)
           Out == [c \in components |-> c.dependsOn]
           In == [c \in components |-> c.dependedOnBy]
           out == [p \in crossing |-> <<ComponentOf(files, p[1]), p[2]>>]
           in == [p \in crossing |-> <<ComponentOf(files, p[2]), p[1]>>]
<1>1. /\ components = {ComponentOf(files, folder) : folder \in folders}
      /\ \A folder : ComponentOf(files, folder).label = folder
  BY ComponentsAreFolders
<1>2. IsFiniteSet(components) /\ Cardinality(components) = Cardinality(folders)
  BY CountOfComponents
<1>3. IsFiniteSet(folders) /\ IsFiniteSet(crossing)
  BY CrossingWorks
<1>4. \A p \in crossing : p = <<p[1], p[2]>> /\ p[1] \in folders /\ p[2] \in folders /\ p[1] # p[2]
  BY CrossingWorks
<1>5. \A folder : /\ ComponentOf(files, folder).dependsOn = {p[2] : p \in {q \in crossing : q[1] = folder}}
                  /\ ComponentOf(files, folder).dependedOnBy = {p[1] : p \in {q \in crossing : q[2] = folder}}
  BY DEF ComponentOf
<1> HIDE DEF folders, crossing, components
<1>6. \A folder : /\ ComponentOf(files, folder).dependsOn \subseteq folders \ {folder}
                  /\ ComponentOf(files, folder).dependedOnBy \subseteq folders \ {folder}
  BY <1>4, <1>5
<1>7. \A c \in components : /\ c = ComponentOf(files, c.label) /\ c.label \in folders
                            /\ c.dependsOn \subseteq folders \ {c.label}
                            /\ c.dependedOnBy \subseteq folders \ {c.label}
  BY <1>1, <1>6
<1>8. \A x \in folders : IsFiniteSet(folders \ {x}) /\ Cardinality(folders \ {x}) = Cardinality(folders) - 1
  BY <1>3, FS_RemoveElement
<1>9. ASSUME NEW c \in components
      PROVE  /\ IsFiniteSet(c.dependsOn) /\ Efferent(c) \in Nat /\ Efferent(c) <= Cardinality(components) - 1
             /\ IsFiniteSet(c.dependedOnBy) /\ Afferent(c) \in Nat /\ Afferent(c) <= Cardinality(components) - 1
  <2>1. /\ IsFiniteSet(folders \ {c.label}) /\ Cardinality(folders \ {c.label}) = Cardinality(components) - 1
        /\ c.dependsOn \in SUBSET (folders \ {c.label}) /\ c.dependedOnBy \in SUBSET (folders \ {c.label})
    BY <1>2, <1>7, <1>8
  <2>2. /\ IsFiniteSet(c.dependsOn) /\ Cardinality(c.dependsOn) <= Cardinality(folders \ {c.label})
        /\ IsFiniteSet(c.dependedOnBy) /\ Cardinality(c.dependedOnBy) <= Cardinality(folders \ {c.label})
    BY <2>1, FS_Subset
  <2> QED
    BY <2>1, <2>2, FS_CardinalityType DEF Efferent, Afferent
<1>10. Out \in [components -> SUBSET folders] /\ In \in [components -> SUBSET folders]
  BY <1>7
<1>11. \A c \in components : Out[c] = c.dependsOn /\ In[c] = c.dependedOnBy
  OBVIOUS
<1>12. /\ [c \in components |-> Cardinality(Out[c])] = [c \in components |-> Efferent(c)]
       /\ [c \in components |-> Cardinality(In[c])] = [c \in components |-> Afferent(c)]
  BY DEF Efferent, Afferent
<1> HIDE DEF Out, In
<1>13. \A c \in components : IsFiniteSet(Out[c]) /\ IsFiniteSet(In[c])
  BY <1>9, <1>11
<1>14. /\ SumFunction([c \in components |-> Cardinality(Out[c])]) = Cardinality(Counted(Out, components, folders))
       /\ SumFunction([c \in components |-> Cardinality(In[c])]) = Cardinality(Counted(In, components, folders))
  BY <1>2, <1>10, <1>13, SumIsCount
<1>15. Cardinality(Counted(Out, components, folders)) = Cardinality(crossing)
  <2>1. ASSUME NEW p \in crossing PROVE <<ComponentOf(files, p[1]), p[2]>> \in Counted(Out, components, folders)
    <3>1. ComponentOf(files, p[1]) \in components /\ p[2] \in folders
      BY <1>1, <1>4
    <3>2. p[2] \in ComponentOf(files, p[1]).dependsOn
      BY <1>4, <1>5
    <3> QED
      BY <1>11, <3>1, <3>2 DEF Counted
  <2>2. out \in [crossing -> Counted(Out, components, folders)]
    BY <2>1
  <2>3. \A p, q \in crossing : out[p] = out[q] => p = q
    <3> SUFFICES ASSUME NEW p \in crossing, NEW q \in crossing, out[p] = out[q] PROVE p = q
      OBVIOUS
    <3>1. ComponentOf(files, p[1]) = ComponentOf(files, q[1]) /\ p[2] = q[2]
      OBVIOUS
    <3>2. p[1] = q[1]
      BY <1>1, <3>1
    <3> QED
      BY <1>4, <3>1, <3>2
  <2>4. ASSUME NEW z \in Counted(Out, components, folders) PROVE \E p \in crossing : out[p] = z
    <3>1. z[1] \in components /\ z[2] \in folders /\ z = <<z[1], z[2]>> /\ z[2] \in Out[z[1]]
      BY DEF Counted
    <3>2. z[2] \in z[1].dependsOn
      BY <1>11, <3>1
    <3>3. z[1] = ComponentOf(files, z[1].label)
      BY <1>7, <3>1
    <3>4. z[2] \in {p[2] : p \in {q \in crossing : q[1] = z[1].label}}
      BY <1>5, <3>2, <3>3
    <3>5. PICK p \in crossing : p[1] = z[1].label /\ p[2] = z[2]
      BY <3>4
    <3>6. out[p] = <<ComponentOf(files, p[1]), p[2]>>
      OBVIOUS
    <3>7. out[p] = <<z[1], z[2]>>
      BY <3>3, <3>5, <3>6, Zenon
    <3> QED
      BY <3>1, <3>7
  <2> HIDE DEF out
  <2> QED
    BY <1>3, <2>2, <2>3, <2>4, SameSize
<1>16. Cardinality(Counted(In, components, folders)) = Cardinality(crossing)
  <2>1. ASSUME NEW p \in crossing PROVE <<ComponentOf(files, p[2]), p[1]>> \in Counted(In, components, folders)
    <3>1. ComponentOf(files, p[2]) \in components /\ p[1] \in folders
      BY <1>1, <1>4
    <3>2. p[1] \in ComponentOf(files, p[2]).dependedOnBy
      BY <1>4, <1>5
    <3> QED
      BY <1>11, <3>1, <3>2 DEF Counted
  <2>2. in \in [crossing -> Counted(In, components, folders)]
    BY <2>1
  <2>3. \A p, q \in crossing : in[p] = in[q] => p = q
    <3> SUFFICES ASSUME NEW p \in crossing, NEW q \in crossing, in[p] = in[q] PROVE p = q
      OBVIOUS
    <3>1. ComponentOf(files, p[2]) = ComponentOf(files, q[2]) /\ p[1] = q[1]
      OBVIOUS
    <3>2. p[2] = q[2]
      BY <1>1, <3>1
    <3> QED
      BY <1>4, <3>1, <3>2
  <2>4. ASSUME NEW z \in Counted(In, components, folders) PROVE \E p \in crossing : in[p] = z
    <3>1. z[1] \in components /\ z[2] \in folders /\ z = <<z[1], z[2]>> /\ z[2] \in In[z[1]]
      BY DEF Counted
    <3>2. z[2] \in z[1].dependedOnBy
      BY <1>11, <3>1
    <3>3. z[1] = ComponentOf(files, z[1].label)
      BY <1>7, <3>1
    <3>4. z[2] \in {p[1] : p \in {q \in crossing : q[2] = z[1].label}}
      BY <1>5, <3>2, <3>3
    <3>5. PICK p \in crossing : p[2] = z[1].label /\ p[1] = z[2]
      BY <3>4
    <3>6. in[p] = <<ComponentOf(files, p[2]), p[1]>>
      OBVIOUS
    <3>7. in[p] = <<z[1], z[2]>>
      BY <3>3, <3>5, <3>6, Zenon
    <3> QED
      BY <3>1, <3>7
  <2> HIDE DEF in
  <2> QED
    BY <1>3, <2>2, <2>3, <2>4, SameSize
<1>17. SumFunction([c \in components |-> Efferent(c)]) = SumFunction([c \in components |-> Afferent(c)])
  BY <1>12, <1>14, <1>15, <1>16
<1> QED
  BY <1>9, <1>17 DEF components

-----------------------------------------------------------------------------
\* The numbers of a component.
LEMMA SquaresArePositive ==
  ASSUME NEW u \in Int
  PROVE  u * u \in Int /\ u * u >= 0
<1>1. CASE u >= 0
  BY <1>1
<1>2. CASE u < 0
  <2>1. -u \in Nat /\ u * u = (-u) * (-u)
    BY <1>2
  <2> QED
    BY <2>1
<1> QED
  BY <1>1, <1>2

LEMMA SquareOfSum ==
  ASSUME NEW u \in Int, NEW v \in Int
  PROVE  /\ u * u \in Int /\ u * v \in Int /\ v * v \in Int
         /\ (u + v) * (u + v) = u * u + 2 * (u * v) + v * v
         /\ (u - v) * (u - v) = u * u - 2 * (u * v) + v * v
<1>1. (u + v) * (u + v) = u * (u + v) + v * (u + v)
  OBVIOUS
<1>2. u * (u + v) = u * u + u * v /\ v * (u + v) = u * v + v * v
  OBVIOUS
<1>3. (u - v) * (u - v) = u * (u - v) - v * (u - v)
  OBVIOUS
<1>4. u * (u - v) = u * u - u * v /\ v * (u - v) = u * v - v * v
  OBVIOUS
<1>5. u * u \in Int /\ u * v \in Int /\ v * v \in Int
  OBVIOUS
<1> QED
  BY <1>1, <1>2, <1>3, <1>4, <1>5

\* A point is not close to both corners, and one that is close to a corner is far
\* from the line between the other two.
LEMMA CornersAreApart ==
  ASSUME NEW x \in Nat, NEW y \in Nat, NEW D \in Nat, D > 0, x <= D, y <= D,
         NEW pain, pain <=> 100 * (x * x + y * y) <= 9 * (D * D),
         NEW useless, useless <=> 100 * ((x - D) * (x - D) + (y - D) * (y - D)) <= 9 * (D * D)
  PROVE  /\ ~(pain /\ useless)
         /\ pain \/ useless =>
              100 * ((D - Absolute(x + y - D)) * (D - Absolute(x + y - D))) <= 18 * (D * D)
<1> DEFINE r == D - Absolute(x + y - D)
           u == D - x
           v == D - y
<1>1. D * D \in Int /\ D * D > 0
  <2>1. D * D # 0
    OBVIOUS
  <2> QED
    BY <2>1, SquaresArePositive
<1>2. /\ x * x \in Int /\ x * D \in Int /\ y * y \in Int /\ y * D \in Int /\ x * y \in Int
      /\ (x - D) * (x - D) = x * x - 2 * (x * D) + D * D
      /\ (y - D) * (y - D) = y * y - 2 * (y * D) + D * D
      /\ (x + y) * (x + y) = x * x + 2 * (x * y) + y * y
      /\ (x - y) * (x - y) = x * x - 2 * (x * y) + y * y
  BY SquareOfSum
<1>3. 4 * (x * x) - 4 * (x * D) + D * D >= 0
  <2>1. (2 * x - D) * (2 * x - D) = (2 * x) * (2 * x) - 2 * ((2 * x) * D) + D * D
    BY SquareOfSum
  <2>2. (2 * x) * (2 * x) = 4 * (x * x) /\ (2 * x) * D = 2 * (x * D)
    OBVIOUS
  <2>3. 2 * x - D \in Int /\ (2 * x - D) * (2 * x - D) >= 0
    BY SquaresArePositive
  <2> QED
    BY <1>1, <1>2, <2>1, <2>2, <2>3
<1>4. 4 * (y * y) - 4 * (y * D) + D * D >= 0
  <2>1. (2 * y - D) * (2 * y - D) = (2 * y) * (2 * y) - 2 * ((2 * y) * D) + D * D
    BY SquareOfSum
  <2>2. (2 * y) * (2 * y) = 4 * (y * y) /\ (2 * y) * D = 2 * (y * D)
    OBVIOUS
  <2>3. 2 * y - D \in Int /\ (2 * y - D) * (2 * y - D) >= 0
    BY SquaresArePositive
  <2> QED
    BY <1>1, <1>2, <2>1, <2>2, <2>3
<1>5. ~(pain /\ useless)
  BY <1>1, <1>2, <1>3, <1>4
<1>6. r \in Nat /\ r <= x + y /\ r <= u + v /\ u \in Nat /\ v \in Nat
  BY DEF Absolute
<1> HIDE DEF r
<1>7. \A s \in Nat : r <= s => r * r <= s * s
  <2> SUFFICES ASSUME NEW s \in Nat, r <= s PROVE r * r <= s * s
    OBVIOUS
  <2>1. r * r <= s * r /\ r * s = s * r
    BY <1>6, ProductsGrow
  <2>2. r * s <= s * s
    BY <1>6, ProductsGrow
  <2>3. r * r \in Int /\ s * r \in Int /\ s * s \in Int
    BY <1>6
  <2> QED
    BY <2>1, <2>2, <2>3
<1>8. ASSUME pain PROVE 100 * (r * r) <= 18 * (D * D)
  <2>1. r * r <= (x + y) * (x + y) /\ r * r \in Int
    BY <1>6, <1>7
  <2>2. (x - y) * (x - y) >= 0
    BY SquaresArePositive
  <2> QED
    BY <1>1, <1>2, <1>8, <2>1, <2>2
<1>9. ASSUME useless PROVE 100 * (r * r) <= 18 * (D * D)
  <2>1. r * r <= (u + v) * (u + v) /\ r * r \in Int
    BY <1>6, <1>7
  <2>2. (u - v) * (u - v) >= 0 /\ u \in Int /\ v \in Int
    BY <1>6, SquaresArePositive
  <2> HIDE DEF u, v
  <2>3. /\ u * u \in Int /\ u * v \in Int /\ v * v \in Int
        /\ (u + v) * (u + v) = u * u + 2 * (u * v) + v * v
        /\ (u - v) * (u - v) = u * u - 2 * (u * v) + v * v
    BY <2>2, SquareOfSum
  <2>4. u * u = (x - D) * (x - D) /\ v * v = (y - D) * (y - D)
    BY DEF u, v
  <2>5. 100 * (u * u + v * v) <= 9 * (D * D)
    BY <1>9, <2>4
  <2> QED
    BY <1>1, <2>1, <2>2, <2>3, <2>5
<1> QED
  BY <1>5, <1>8, <1>9 DEF r

\* A share of something.
Shares == {v \in [n : Nat, d : Nat, halved : {FALSE}] : v.d > 0 /\ v.n <= v.d}

LEMMA AbstractnessIsShare ==
  ASSUME NEW c, c.classes \in Nat, c.interfaces \in Nat, c.interfaces <= c.classes
  PROVE  AbstractnessOf(c) \in Shares
<1> DEFINE n == c.interfaces
           d == c.classes
<1>1. AbstractnessOf(c) = IF d = 0 THEN Number(0, 1) ELSE Number(n, d)
  BY DEF AbstractnessOf
<1>2. n \in Nat /\ d \in Nat /\ n <= d
  OBVIOUS
<1> HIDE DEF n, d
<1> QED
  BY <1>1, <1>2 DEF Number, Shares

LEMMA InstabilityIsShare ==
  ASSUME NEW c, Efferent(c) \in Nat, Afferent(c) \in Nat
  PROVE  InstabilityOf(c) \in Shares
<1> DEFINE n == Efferent(c)
           m == Afferent(c)
<1>1. InstabilityOf(c) = IF n + m = 0 THEN Number(0, 1) ELSE Number(n, n + m)
  BY DEF InstabilityOf
<1>2. n \in Nat /\ m \in Nat
  OBVIOUS
<1> HIDE DEF n, m
<1> QED
  BY <1>1, <1>2 DEF Number, Shares

\* How far a component is from the main sequence, and the zones.
LEMMA DistanceWorks ==
  ASSUME NEW c, NEW a \in Shares, NEW i \in Shares, a = AbstractnessOf(c), i = InstabilityOf(c),
         NEW away, away = NormalizedDistance(c)
  PROVE  /\ away \in Shares
         /\ ~(InZone("pain", a, i) /\ InZone("uselessness", a, i))
         /\ (InZone("pain", a, i) \/ InZone("uselessness", a, i)) =>
              100 * (away.d - away.n) * (away.d - away.n) <= 18 * away.d * away.d
<1> DEFINE x == a.n * i.d
           y == i.n * a.d
           D == a.d * i.d
<1>1. /\ a.n \in Nat /\ a.d \in Nat /\ a.d > 0 /\ a.n <= a.d
      /\ i.n \in Nat /\ i.d \in Nat /\ i.d > 0 /\ i.n <= i.d
  BY DEF Shares
<1>2. x \in Nat /\ x <= D
  BY <1>1, ProductsGrow
<1>3. y \in Nat /\ y <= D
  <2>1. i.n * a.d <= i.d * a.d /\ i.n * a.d \in Nat
    BY <1>1, ProductsGrow
  <2>2. i.d * a.d = a.d * i.d
    BY <1>1
  <2> QED
    BY <2>1, <2>2
<1>4. D \in Nat /\ D > 0
  <2>1. 1 * i.d <= a.d * i.d
    BY <1>1, ProductsGrow
  <2>2. a.d * i.d \in Nat
    BY <1>1
  <2> QED
    BY <1>1, <2>1, <2>2
<1>5. /\ (a.n - 0 * a.d) * i.d = x /\ (i.n - 0 * i.d) * a.d = y
      /\ (a.n - 1 * a.d) * i.d = x - D /\ (i.n - 1 * i.d) * a.d = y - D
  BY <1>1
<1>6. 9 * a.d * a.d * i.d * i.d = 9 * (D * D)
  <2>1. \A p, q \in Nat : 9 * p * p * q * q = 9 * ((p * q) * (p * q))
    <3> SUFFICES ASSUME NEW p \in Nat, NEW q \in Nat PROVE 9 * p * p * q * q = 9 * ((p * q) * (p * q))
      OBVIOUS
    <3>1. (p * q) * (p * q) = ((p * q) * p) * q /\ (p * q) * p = (p * p) * q
      OBVIOUS
    <3>2. 9 * p * p = 9 * (p * p) /\ (9 * (p * p)) * q = 9 * ((p * p) * q)
      OBVIOUS
    <3>3. (9 * ((p * p) * q)) * q = 9 * (((p * p) * q) * q)
      OBVIOUS
    <3> QED
      BY <3>1, <3>2, <3>3
  <2> QED
    BY <1>1, <2>1
<1>7. away = Number(Absolute(x + y - D), D)
  BY DEF NormalizedDistance
<1> DEFINE pain == InZone("pain", a, i)
           useless == InZone("uselessness", a, i)
<1>8. pain <=> 100 * (x * x + y * y) <= 9 * (D * D)
  BY <1>5, <1>6 DEF InZone
<1>9. useless <=> 100 * ((x - D) * (x - D) + (y - D) * (y - D)) <= 9 * (D * D)
  BY <1>5, <1>6 DEF InZone
<1> HIDE DEF x, y, D, pain, useless
<1>10. /\ ~(pain /\ useless)
       /\ pain \/ useless =>
            100 * ((D - Absolute(x + y - D)) * (D - Absolute(x + y - D))) <= 18 * (D * D)
  BY <1>2, <1>3, <1>4, <1>8, <1>9, CornersAreApart
<1>11. away.d = D /\ away.n = Absolute(x + y - D)
  BY <1>7 DEF Number
<1>12. Absolute(x + y - D) \in Nat /\ Absolute(x + y - D) <= D
  BY <1>2, <1>3, <1>4 DEF Absolute
<1>13. away \in Shares
  BY <1>4, <1>7, <1>12 DEF Number, Shares
<1>14. \A u, v \in Int : 100 * u * u = 100 * (u * u) /\ 18 * v * v = 18 * (v * v)
  OBVIOUS
<1>15. /\ 100 * (away.d - away.n) * (away.d - away.n)
            = 100 * ((D - Absolute(x + y - D)) * (D - Absolute(x + y - D)))
       /\ 18 * away.d * away.d = 18 * (D * D)
  BY <1>4, <1>11, <1>12, <1>14
<1> QED
  BY <1>10, <1>13, <1>15 DEF pain, useless

\* The coupling factor is one where every other component is coupled both ways.
LEMMA FactorWorks ==
  ASSUME NEW c, NEW count \in Nat, Efferent(c) \in Nat, Afferent(c) \in Nat,
         Efferent(c) <= count - 1, Afferent(c) <= count - 1
  PROVE  /\ CouplingFactor(c, count) \in Shares
         /\ count > 1 => (Same(CouplingFactor(c, count), Number(1, 1))
                            <=> Efferent(c) = count - 1 /\ Afferent(c) = count - 1)
<1> DEFINE n == Efferent(c)
           m == Afferent(c)
           f == CouplingFactor(c, count)
           d == 2 * (count - 1)
<1>1. f = IF count < 2 THEN Number(0, 1) ELSE Number(n + m, d)
  BY DEF CouplingFactor
<1>2. n \in Nat /\ m \in Nat /\ n <= count - 1 /\ m <= count - 1
  OBVIOUS
<1> HIDE DEF n, m, f
<1>3. f \in Shares
  <2>1. count >= 2 => d \in Nat /\ d > 0 /\ n + m \in Nat /\ n + m <= d
    BY <1>2
  <2> HIDE DEF d
  <2> QED
    BY <1>1, <2>1 DEF Number, Shares
<1>4. ASSUME count > 1 PROVE Same(f, Number(1, 1)) <=> n = count - 1 /\ m = count - 1
  <2>1. f = [n |-> n + m, d |-> d, halved |-> FALSE] /\ Number(1, 1) = [n |-> 1, d |-> 1, halved |-> FALSE]
    BY <1>1, <1>4 DEF Number
  <2>2. d \in Nat /\ d > 0 /\ n + m \in Nat /\ n + m <= d
    BY <1>2, <1>4
  <2>3. n + m = d <=> n = count - 1 /\ m = count - 1
    BY <1>2, <1>4
  <2> HIDE DEF d
  <2>4. Same(f, Number(1, 1)) <=> d # 0 /\ ((n + m) * (n + m)) * (1 * 1 * 1) = (1 * 1) * (d * d * 1)
    <3>1. ASSUME NEW x \in Nat, NEW y, NEW v, v = [n |-> x, d |-> y, halved |-> FALSE]
          PROVE  v.d = y /\ Square(v)[1] = x * x /\ Square(v)[2] = y * y * 1
      BY <3>1 DEF Square
    <3>2. f.d = d /\ Square(f)[1] = (n + m) * (n + m) /\ Square(f)[2] = d * d * 1
      BY <2>1, <2>2, <3>1
    <3>3. Number(1, 1).d = 1 /\ Square(Number(1, 1))[1] = 1 * 1 /\ Square(Number(1, 1))[2] = 1 * 1 * 1
      BY <2>1, <3>1
    <3> QED
      BY <3>2, <3>3 DEF Same, Comparable
  <2> DEFINE k == n + m
  <2>5. k \in Nat /\ k <= d
    BY <2>2
  <2> HIDE DEF k
  <2>6. k * k = d * d <=> k = d
    <3> SUFFICES ASSUME k # d PROVE k * k # d * d
      OBVIOUS
    <3>1. k * k <= d * k /\ k * d = d * k
      BY <2>2, <2>5, ProductsGrow
    <3>2. (k + 1) * d <= d * d /\ (k + 1) * d = k * d + d
      BY <2>2, <2>5, ProductsGrow
    <3>3. k * k \in Int /\ d * k \in Int /\ d * d \in Int
      BY <2>2, <2>5
    <3> QED
      BY <2>2, <3>1, <3>2, <3>3
  <2>7. Same(f, Number(1, 1)) <=> k * k = d * d
    <3>1. (k * k) * (1 * 1 * 1) = k * k /\ (1 * 1) * (d * d * 1) = d * d
      BY <2>2, <2>5
    <3> QED
      BY <2>2, <2>4, <3>1 DEF k
  <2> QED
    BY <2>3, <2>6, <2>7 DEF k
<1> QED
  BY <1>3, <1>4 DEF n, m, f

\* What a scope without failures selects can be measured.
LEMMA SelectedIsMeasurable ==
  ASSUME project \in Projects, Failure(SelectFiles) = Unanswered
  PROVE  Measurables(SelectSubjects(SelectFiles).files)
<1> DEFINE files == SelectFiles
           measured == SelectSubjects(files).files
<1>1. /\ IsFiniteSet(project.edges)
      /\ DOMAIN project.disk = {e.source : e \in {d \in project.edges : d.source = d.target}}
      /\ \A f \in DOMAIN project.disk :
           \/ project.disk[f] \in {Gone, Unparsable}
           \/ IsFiniteSet(project.disk[f].types) /\ IsFiniteSet(project.disk[f].methods)
  BY MetricsAssumption
<1>2. files \in SUBSET DOMAIN project.disk
  BY <1>1 DEF SelectFiles
<1>3. IsFiniteSet(files)
  <2> DEFINE self == {d \in project.edges : d.source = d.target}
             f == [e \in self |-> e.source]
  <2>1. IsFiniteSet(self)
    BY <1>1, FS_Subset
  <2>2. f \in Surjection(self, DOMAIN project.disk)
    BY <1>1 DEF Surjection
  <2>3. IsFiniteSet(DOMAIN project.disk)
    BY <2>1, <2>2, FS_Surjection
  <2> QED
    BY <1>2, <2>3, FS_Subset
<1>4. measured \in SUBSET files
  <2>1. \A k \in ClassesIn(files) : k.path \in files
    BY DEF ClassesIn
  <2>2. measured = IF SelectorsFor("classes") = {} THEN files
                   ELSE {k.path : k \in {h \in ClassesIn(files) : MatchesEvery("classes", h.id)}}
    BY DEF SelectSubjects
  <2> QED
    BY <2>1, <2>2
<1>5. Failing(files, Gone) = {} /\ Failing(files, Unparsable) = {}
  <2>1. /\ chain.err # 0 => Failure(files).kind = "rejected"
        /\ chain.err = 0 /\ Failing(files, Gone) # {} => Failure(files).kind = "gone"
        /\ chain.err = 0 /\ Failing(files, Gone) = {} /\ Failing(files, Unparsable) # {}
             => Failure(files).kind = "unparsable"
    BY DEF Failure
  <2>2. Failure(files).kind = "none"
    BY DEF Unanswered
  <2> QED
    BY <2>1, <2>2
<1>6. \A f \in measured : IsFiniteSet(project.disk[f].types) /\ IsFiniteSet(project.disk[f].methods)
  BY <1>1, <1>2, <1>4, <1>5 DEF Failing
<1> QED
  BY <1>3, <1>4, <1>6, FS_Subset DEF Measurables

LEMMA ScaleFollows ==
  ASSUME project \in Projects
  PROVE  ComponentsKeepTheirScale
<1> SUFFICES ASSUME stage = "scope", Failure(SelectFiles) = Unanswered
             PROVE  ComponentsKeepTheirScale
  BY DEF ComponentsKeepTheirScale
<1> DEFINE files == SelectSubjects(SelectFiles).files
           components == SelectSubjects(SelectFiles).components
           count == Cardinality(components)
           unit(v) == v.d > 0 /\ 0 <= v.n /\ v.n <= v.d
<1>1. Measurables(files) /\ IsFiniteSet(files)
  BY SelectedIsMeasurable DEF Measurables
<1>2. components = SelectComponents(files)
  BY DEF SelectSubjects
<1> HIDE DEF files, components
<1>3. SumFunction([c \in components |-> Efferent(c)]) = SumFunction([c \in components |-> Afferent(c)])
  BY <1>1, <1>2, CouplingWorks
<1>4. count \in Nat
  BY <1>1, <1>2, CountOfComponents, FS_CardinalityType
<1>5. \A v \in Shares : unit(v)
  BY DEF Shares
<1>6. ASSUME NEW c \in components
      PROVE  LET a == AbstractnessOf(c)
                 i == InstabilityOf(c)
                 away == NormalizedDistance(c)
                 factor == CouplingFactor(c, count)
             IN  /\ \A v \in {a, i, away, factor} : unit(v)
                 /\ count > 1 => (Same(factor, Number(1, 1)) <=> Efferent(c) = count - 1 /\ Afferent(c) = count - 1)
                 /\ ~(InZone("pain", a, i) /\ InZone("uselessness", a, i))
                 /\ (InZone("pain", a, i) \/ InZone("uselessness", a, i)) =>
                      100 * (away.d - away.n) * (away.d - away.n) <= 18 * away.d * away.d
  <2> DEFINE a == AbstractnessOf(c)
             i == InstabilityOf(c)
             away == NormalizedDistance(c)
             factor == CouplingFactor(c, count)
  <2>1. PICK folder : c = ComponentOf(files, folder)
    BY <1>2, ComponentsAreFolders
  <2>2. c.classes \in Nat /\ c.interfaces \in Nat /\ c.interfaces <= c.classes
    BY <1>1, <2>1, ComponentWorks
  <2>3. Efferent(c) \in Nat /\ Efferent(c) <= count - 1 /\ Afferent(c) \in Nat /\ Afferent(c) <= count - 1
    BY <1>1, <1>2, CouplingWorks
  <2>4. a \in Shares
    BY <2>2, AbstractnessIsShare
  <2>5. i \in Shares
    BY <2>3, InstabilityIsShare
  <2>6. /\ away \in Shares
        /\ ~(InZone("pain", a, i) /\ InZone("uselessness", a, i))
        /\ (InZone("pain", a, i) \/ InZone("uselessness", a, i)) =>
             100 * (away.d - away.n) * (away.d - away.n) <= 18 * away.d * away.d
    BY <2>4, <2>5, DistanceWorks
  <2>7. /\ factor \in Shares
        /\ count > 1 => (Same(factor, Number(1, 1)) <=> Efferent(c) = count - 1 /\ Afferent(c) = count - 1)
    BY <1>4, <2>3, FactorWorks
  <2> HIDE DEF a, i, away, factor, count
  <2>8. \A v \in {a, i, away, factor} : unit(v)
    BY <1>5, <2>4, <2>5, <2>6, <2>7
  <2> HIDE DEF unit
  <2> QED
    BY <2>6, <2>7, <2>8 DEF a, i, away, factor
<1> QED
  BY <1>3, <1>6, Zenon DEF ComponentsKeepTheirScale, components, count, unit

\* The project stays what it was.
LEMMA ProjectStays ==
  MetricsSpec => [](project \in Projects)
<1>1. MetricsInit => project \in Projects
  BY DEF MetricsInit
<1>2. project \in Projects /\ [MetricsNext]_metricsVars => (project \in Projects)'
  BY DEF MetricsNext, metricsVars, Select, MetricsExcept, Choose, CustomMetric, ShouldBe, ShouldSatisfy,
     ShouldNotBeIn, Verb, Measure, Check, ExportAsHTML, Return
<1> QED
  BY <1>1, <1>2, PTL DEF MetricsSpec

\* What is efferent to one component of a scope is afferent to another, no number
\* leaves its scale and the zones lie where they say, for any project and scope.
THEOREM ComponentsAreOnScale ==
  MetricsSpec => []ComponentsKeepTheirScale
<1>1. project \in Projects => ComponentsKeepTheirScale
  BY ScaleFollows
<1> QED
  BY <1>1, ProjectStays, PTL

-----------------------------------------------------------------------------
\* What a chain can say, and what a builder and its memory hold.
CallsMade ==
  Calls \cup {ExceptCall(patterns) : patterns \in Exceptions} \cup
  {[NoCall EXCEPT !.verb = field] : field \in {"external", "self"}} \cup {BagCall(allowed) : allowed \in BOOLEAN} \cup
  {[NoCall EXCEPT !.verb = "folder", !.depth = depth] : depth \in FolderDepth}

Entries ==
  [pattern : {call.pattern : call \in Calls} \cup {"unused"}, except : SUBSET (DOMAIN Describes),
   depth : {call.depth : call \in Calls} \cup {0}, label : {call.label : call \in Calls} \cup {<< >>}]

GoSlices == [array : Nat, len : Nat]

\* The mistakes of a chain, and the first of them.
Wrong(said) == {i \in DOMAIN said : Mistake(said, i)}
First(said) == CHOOSE i \in Wrong(said) : \A j \in Wrong(said) : i <= j

\* The call a later except is about.
Newer(said, s) == said[s].verb \in Range(Lists) /\ \A j \in s + 1 .. Len(said) : said[j].verb \notin Range(Lists)

LEMMA ListsAre ==
  /\ Range(Lists) = {"focus", "from", "of", "groups"} /\ Len(Lists) = 4
  /\ \A l \in Range(Lists) : /\ (CHOOSE i \in 1 .. Len(Lists) : Lists[i] = l) \in 1 .. 4
                             /\ Lists[CHOOSE i \in 1 .. Len(Lists) : Lists[i] = l] = l
<1>1. Len(Lists) = 4 /\ DOMAIN Lists = 1 .. 4
  BY DEF Lists
<1>2. Lists[1] = "focus" /\ Lists[2] = "from" /\ Lists[3] = "of" /\ Lists[4] = "groups"
  BY DEF Lists
<1>3. Range(Lists) = {Lists[i] : i \in 1 .. 4}
  BY <1>1 DEF Range
<1>4. 1 .. 4 = {1, 2, 3, 4}
  OBVIOUS
<1>5. Range(Lists) = {"focus", "from", "of", "groups"}
  BY <1>2, <1>3, <1>4
<1>6. ASSUME NEW l \in Range(Lists)
      PROVE  /\ (CHOOSE i \in 1 .. Len(Lists) : Lists[i] = l) \in 1 .. 4
             /\ Lists[CHOOSE i \in 1 .. Len(Lists) : Lists[i] = l] = l
  <2>1. \E i \in 1 .. Len(Lists) : Lists[i] = l
    BY <1>1, <1>3
  <2> QED
    BY <1>1, <2>1
<1> QED
  BY <1>1, <1>5, <1>6

\* Whatever is called, it has one of these verbs; and only a call with a pattern
\* adds to a list.
LEMMA CallsAre ==
  ASSUME NEW call \in CallsMade
  PROVE  \/ call \in Calls /\ call.verb \in Range(Lists)
         \/ \E patterns \in Exceptions : call.verb = "except" /\ call.except = patterns
         \/ call.verb \in {"external", "self", "allowEmpty", "refuseEmpty"}
         \/ call.verb = "folder" /\ call.depth \in FolderDepth
<1>1. CASE call \in Calls
  BY <1>1, SnapshotAssumption, ListsAre
<1>2. CASE \E patterns \in Exceptions : call = ExceptCall(patterns)
  BY <1>2 DEF ExceptCall, NoCall
<1>3. CASE \E field \in {"external", "self"} : call = [NoCall EXCEPT !.verb = field]
  BY <1>3 DEF NoCall
<1>5. CASE \E allowed \in BOOLEAN : call = BagCall(allowed)
  BY <1>5 DEF BagCall, NoCall
<1>4. CASE \E depth \in FolderDepth : call = [NoCall EXCEPT !.verb = "folder", !.depth = depth]
  BY <1>4 DEF NoCall
<1> QED
  BY <1>1, <1>2, <1>3, <1>4, <1>5 DEF CallsMade

\* One more call, and every call before it.
LEMMA OneMoreCall ==
  ASSUME NEW S, NEW said \in Seq(S), NEW call \in S, NEW new, new = Append(said, call)
  PROVE  /\ new \in Seq(S) /\ Len(new) = Len(said) + 1 /\ Len(said) \in Nat
         /\ new[Len(said) + 1] = call /\ \A i \in 1 .. Len(said) : new[i] = said[i]
         /\ DOMAIN said = 1 .. Len(said) /\ DOMAIN new = 1 .. Len(said) + 1
OBVIOUS

LEMMA MistakesAreKept ==
  ASSUME NEW said \in Seq(CallsMade), NEW call \in CallsMade, NEW new, new = Append(said, call)
  PROVE  /\ \A i \in 1 .. Len(said) : Mistake(new, i) <=> Mistake(said, i)
         /\ Wrong(said) \subseteq Wrong(new)
         /\ Wrong(new) \subseteq Wrong(said) \cup {Len(said) + 1}
         /\ Len(said) + 1 \in Wrong(new) <=> Mistake(new, Len(said) + 1)
<1> DEFINE n == Len(said)
<1>1. /\ new \in Seq(CallsMade) /\ n \in Nat /\ DOMAIN said = 1 .. n /\ DOMAIN new = 1 .. n + 1
      /\ new[n + 1] = call /\ \A i \in 1 .. n : new[i] = said[i]
  BY OneMoreCall
<1> HIDE DEF n
<1>2. ASSUME NEW i \in 1 .. n PROVE Mistake(new, i) <=> Mistake(said, i)
  <2>1. new[i] = said[i] /\ \A j \in 1 .. i - 1 : new[j] = said[j]
    BY <1>1
  <2> QED
    BY <2>1, Zenon DEF Mistake
<1>3. \A i \in 1 .. n + 1 : i \in 1 .. n \/ i = n + 1
  BY <1>1
<1>4. n + 1 \in 1 .. n + 1 /\ \A i \in 1 .. n : i \in 1 .. n + 1
  BY <1>1
<1> QED
  BY <1>1, <1>2, <1>3, <1>4 DEF Wrong, n

\* The first mistake of a chain stays its first.
LEMMA FirstMistakeStays ==
  ASSUME NEW said \in Seq(CallsMade), NEW call \in CallsMade, NEW new, new = Append(said, call)
  PROVE  /\ Wrong(said) # {} => Wrong(new) # {} /\ new[First(new)] = said[First(said)]
         /\ Wrong(said) = {} /\ Wrong(new) # {} => new[First(new)] = call
<1> DEFINE n == Len(said)
<1>1. /\ n \in Nat /\ DOMAIN said = 1 .. n /\ DOMAIN new = 1 .. n + 1
      /\ new[n + 1] = call /\ \A i \in 1 .. n : new[i] = said[i]
  BY OneMoreCall
<1>2. /\ Wrong(said) \subseteq Wrong(new) /\ Wrong(new) \subseteq Wrong(said) \cup {n + 1}
  BY MistakesAreKept
<1> HIDE DEF n
<1>3. Wrong(said) \subseteq 1 .. n /\ Wrong(new) \subseteq 1 .. n + 1
  BY <1>1 DEF Wrong
<1>4. ASSUME NEW s, Wrong(s) \subseteq Nat, Wrong(s) # {}
      PROVE  First(s) \in Wrong(s) /\ \A j \in Wrong(s) : First(s) <= j
  <2>1. \E i \in Wrong(s) : \A j \in Wrong(s) : i <= j
    BY <1>4, LeastNat
  <2> QED
    BY <2>1 DEF First
<1>5. Wrong(said) \subseteq Nat /\ Wrong(new) \subseteq Nat
  BY <1>1, <1>3
<1>6. ASSUME Wrong(said) # {} PROVE Wrong(new) # {} /\ new[First(new)] = said[First(said)]
  <2>1. First(said) \in Wrong(said) /\ \A j \in Wrong(said) : First(said) <= j
    BY <1>4, <1>5, <1>6
  <2>2. First(new) \in Wrong(new) /\ \A j \in Wrong(new) : First(new) <= j
    BY <1>2, <1>4, <1>5, <1>6
  <2>3. First(new) <= First(said) /\ First(said) \in 1 .. n
    BY <1>2, <1>3, <2>1, <2>2
  <2>4. First(new) \in Wrong(said)
    BY <1>1, <1>2, <1>3, <2>2, <2>3
  <2>5. First(new) = First(said)
    BY <1>5, <2>1, <2>3, <2>4
  <2> QED
    BY <1>1, <1>2, <1>6, <2>3, <2>5
<1>7. ASSUME Wrong(said) = {}, Wrong(new) # {} PROVE new[First(new)] = call
  <2>1. First(new) \in Wrong(new)
    BY <1>4, <1>5, <1>7
  <2> QED
    BY <1>1, <1>2, <1>7, <2>1
<1> QED
  BY <1>6, <1>7

-----------------------------------------------------------------------------
\* What a chain says of one list, counted out call by call.
Gathers(w, said, list) ==
  /\ w[0] = << >>
  /\ \A k \in 1 .. Len(said) :
       w[k] = IF said[k].verb = list THEN Append(w[k - 1], Entry(said, k)) ELSE w[k - 1]

LEMMA WrittenUnfolds ==
  ASSUME NEW C, NEW said \in Seq(C), NEW list, NEW E, \A i \in 1 .. Len(said) : Entry(said, i) \in E
  PROVE  \E w \in [0 .. Len(said) -> Seq(E)] :
            Written(said, list) = w[Len(said)] /\ Gathers(w, said, list)
<1> DEFINE n == Len(said)
           T == Seq(E)
           Is(w) == w = [k \in 0 .. n |->
                           IF k = 0 THEN << >>
                           ELSE IF said[k].verb = list THEN Append(w[k - 1], Entry(said, k)) ELSE w[k - 1]]
           F == [k \in 1 .. n |->
                   [v \in T |-> IF said[k].verb = list THEN Append(v, Entry(said, k)) ELSE v]]
<1>1. n \in Nat /\ << >> \in T /\ \A k \in 1 .. n : Entry(said, k) \in E
  OBVIOUS
<1>2. Written(said, list) = (CHOOSE w : Is(w))[n]
  BY DEF Written
<1>3. \A k \in 1 .. n, v \in T : (IF said[k].verb = list THEN Append(v, Entry(said, k)) ELSE v) \in T
  <2> SUFFICES ASSUME NEW k \in 1 .. n, NEW v \in T
               PROVE  (IF said[k].verb = list THEN Append(v, Entry(said, k)) ELSE v) \in T
    OBVIOUS
  <2>1. Entry(said, k) \in E
    BY <1>1
  <2> QED
    BY <2>1
<1> HIDE DEF n, T
<1>4. F \in [1 .. n -> [T -> T]]
  BY <1>3
<1>5. \A k \in 1 .. n, v \in T :
        F[k][v] = IF said[k].verb = list THEN Append(v, Entry(said, k)) ELSE v
  OBVIOUS
<1> HIDE DEF F
<1>6. PICK w \in [0 .. n -> T] : StepByStep(w, n, << >>, F)
  BY <1>1, <1>4, RecursionExists
<1>7. \A k \in 1 .. n : k - 1 \in 0 .. n /\ w[k - 1] \in T /\ k # 0
  BY <1>1, <1>6
<1>8. Is(w)
  <2>1. w = [k \in 0 .. n |-> w[k]]
    BY <1>6
  <2>2. \A k \in 0 .. n : k = 0 \/ k \in 1 .. n
    BY <1>1
  <2>3. \A k \in 0 .. n :
          w[k] = IF k = 0 THEN << >>
                 ELSE IF said[k].verb = list THEN Append(w[k - 1], Entry(said, k)) ELSE w[k - 1]
    BY <1>5, <1>6, <1>7, <2>2 DEF StepByStep
  <2> QED
    BY <2>1, <2>3
<1>9. PICK v : v = (CHOOSE u : Is(u)) /\ Is(v)
  BY <1>8
<1>10. v[0] = << >> /\ \A k \in 1 .. n :
        v[k] = IF said[k].verb = list THEN Append(v[k - 1], Entry(said, k)) ELSE v[k - 1]
  <2> DEFINE f == [k \in 0 .. n |->
                     IF k = 0 THEN << >>
                     ELSE IF said[k].verb = list THEN Append(v[k - 1], Entry(said, k)) ELSE v[k - 1]]
  <2>1. f[0] = << >> /\ \A k \in 1 .. n :
          f[k] = IF said[k].verb = list THEN Append(v[k - 1], Entry(said, k)) ELSE v[k - 1]
    BY <1>1, <1>7
  <2>2. v = f
    BY <1>9
  <2> HIDE DEF f
  <2> QED
    BY <2>1, <2>2
<1>11. v \in [0 .. n -> T]
  <2> DEFINE Good == {k \in 0 .. n : v[k] \in T}
  <2>1. 0 \in Good
    BY <1>1, <1>10
  <2>2. ASSUME NEW k \in 1 .. n, k - 1 \in Good PROVE k \in Good
    <3>1. v[k - 1] \in T
      BY <2>2
    <3>2. v[k] = F[k][v[k - 1]]
      BY <1>5, <1>10, <3>1
    <3> QED
      BY <1>4, <3>1, <3>2
  <2> HIDE DEF Good
  <2>3. \A k \in 0 .. n : k \in Good
    BY <1>1, <2>1, <2>2, Induction
  <2>4. v = [k \in 0 .. n |->
               IF k = 0 THEN << >>
               ELSE IF said[k].verb = list THEN Append(v[k - 1], Entry(said, k)) ELSE v[k - 1]]
    BY <1>9
  <2>5. v = [k \in 0 .. n |-> v[k]]
    BY <2>4
  <2>6. \A k \in 0 .. n : v[k] \in T
    BY <2>3 DEF Good
  <2> QED
    BY <2>5, <2>6
<1> QED
  BY <1>2, <1>9, <1>10, <1>11 DEF n, T, Gathers

\* A call that is no except widens no entry, and adds its own when it has one.
LEMMA EntriesStay ==
  ASSUME NEW C, NEW said \in Seq(C), NEW call \in C, NEW new, new = Append(said, call),
         call.verb # "except", NEW i \in 1 .. Len(said)
  PROVE  Entry(new, i) = Entry(said, i)
<1> DEFINE n == Len(said)
           In(s) == {j \in DOMAIN s : Qualifies(s, j, i)}
<1>1. /\ n \in Nat /\ DOMAIN said = 1 .. n /\ DOMAIN new = 1 .. n + 1
      /\ new[n + 1] = call /\ \A j \in 1 .. n : new[j] = said[j]
  BY OneMoreCall
<1> HIDE DEF n
<1>2. ASSUME NEW j \in 1 .. n PROVE Qualifies(new, j, i) <=> Qualifies(said, j, i)
  <2>1. \A k \in i + 1 .. j : new[k] = said[k]
    BY <1>1
  <2> QED
    BY <1>1, <2>1, Zenon DEF Qualifies
<1>3. ~Qualifies(new, n + 1, i)
  BY <1>1 DEF Qualifies
<1>4. \A j \in 1 .. n + 1 : j \in 1 .. n \/ j = n + 1
  BY <1>1
<1>5. \A j \in 1 .. n : j \in 1 .. n + 1
  BY <1>1
<1>6. In(new) = In(said)
  BY <1>1, <1>2, <1>3, <1>4, <1>5
<1>7. \A j \in In(said) : j \in 1 .. n
  BY <1>1
<1>8. {new[j].except : j \in In(new)} = {said[j].except : j \in In(said)}
  BY <1>1, <1>6, <1>7
<1>9. new[i] = said[i]
  BY <1>1 DEF n
<1> QED
  BY <1>8, <1>9, Zenon DEF Entry

OwnEntry(call) == [pattern |-> call.pattern, except |-> {}, depth |-> call.depth, label |-> call.label]

LEMMA NewEntry ==
  ASSUME NEW C, NEW said \in Seq(C), NEW call \in C, NEW new, new = Append(said, call)
  PROVE  Entry(new, Len(said) + 1) = OwnEntry(call)
<1> DEFINE n == Len(said)
           In == {j \in DOMAIN new : Qualifies(new, j, n + 1)}
<1>1. n \in Nat /\ DOMAIN new = 1 .. n + 1 /\ new[n + 1] = call
  BY OneMoreCall
<1>2. In = {}
  BY <1>1 DEF Qualifies
<1>3. UNION {new[j].except : j \in In} = {}
  BY <1>2
<1> HIDE DEF In
<1>4. Entry(new, n + 1) = [pattern |-> new[n + 1].pattern, depth |-> new[n + 1].depth, label |-> new[n + 1].label,
                           except |-> UNION {new[j].except : j \in In}]
  BY DEF Entry, In
<1> HIDE DEF n
<1>5. Entry(new, n + 1) = [pattern |-> call.pattern, depth |-> call.depth, label |-> call.label, except |-> {}]
  BY <1>1, <1>3, <1>4
<1> QED
  BY <1>5 DEF n, OwnEntry

\* Except writes one more set of patterns into an entry.
Widened(entry, patterns) ==
  [pattern |-> entry.pattern, except |-> entry.except \cup patterns, depth |-> entry.depth, label |-> entry.label]

\* An except widens the entry of the newest list call and no other.
LEMMA ExceptWidens ==
  ASSUME NEW C, NEW said \in Seq(C), NEW call \in C, NEW new, new = Append(said, call),
         call.verb = "except", NEW s \in 1 .. Len(said), Newer(said, s),
         NEW i \in 1 .. Len(said), said[i].verb \in Range(Lists)
  PROVE  /\ i # s => Entry(new, i) = Entry(said, i)
         /\ i = s => Entry(new, i) = Widened(Entry(said, i), call.except)
<1> DEFINE n == Len(said)
           In(c) == {j \in DOMAIN c : Qualifies(c, j, i)}
<1>1. /\ n \in Nat /\ DOMAIN said = 1 .. n /\ DOMAIN new = 1 .. n + 1
      /\ new[n + 1] = call /\ \A j \in 1 .. n : new[j] = said[j]
  BY OneMoreCall
<1>0. s \in 1 .. n /\ i \in 1 .. n
  OBVIOUS
<1>a. said[s].verb \in Range(Lists) /\ \A j \in s + 1 .. n : said[j].verb \notin Range(Lists)
  BY DEF Newer
<1> HIDE DEF n
<1>2. ASSUME NEW j \in 1 .. n PROVE Qualifies(new, j, i) <=> Qualifies(said, j, i)
  <2>1. \A k \in i + 1 .. j : new[k] = said[k]
    BY <1>0, <1>1
  <2> QED
    BY <1>1, <2>1, Zenon DEF Qualifies
<1>4. \A j \in 1 .. n + 1 : j \in 1 .. n \/ j = n + 1
  BY <1>1
<1>5. \A j \in 1 .. n : j \in 1 .. n + 1
  BY <1>1
<1>7. \A j \in In(said) : j \in 1 .. n
  BY <1>1
<1>9. new[i] = said[i]
  BY <1>0, <1>1
<1>10. i <= s
  BY <1>0, <1>1, <1>a
<1>11. CASE i # s
  <2>1. ~Qualifies(new, n + 1, i)
    <3>1. s \in i + 1 .. n + 1 /\ new[s] = said[s]
      BY <1>0, <1>1, <1>10, <1>11
    <3> QED
      BY <1>a, <3>1 DEF Qualifies
  <2>2. In(new) = In(said)
    BY <1>1, <1>2, <1>4, <1>5, <2>1
  <2>3. {new[j].except : j \in In(new)} = {said[j].except : j \in In(said)}
    BY <1>1, <1>7, <2>2
  <2>4. Entry(new, i) = Entry(said, i)
    BY <1>9, <2>3, Zenon DEF Entry
  <2> QED
    BY <1>11, <2>4
<1>12. CASE i = s
  <2>1. Qualifies(new, n + 1, i)
    <3>1. \A k \in i + 1 .. n + 1 : new[k].verb \notin Range(Lists)
      <4> SUFFICES ASSUME NEW k \in i + 1 .. n + 1 PROVE new[k].verb \notin Range(Lists)
        OBVIOUS
      <4>1. CASE k = n + 1
        BY <1>1, <4>1, ListsAre
      <4>2. CASE k # n + 1
        BY <1>0, <1>1, <1>12, <1>a, <4>2
      <4> QED
        BY <4>1, <4>2
    <3>2. n + 1 > i
      BY <1>0, <1>1
    <3> QED
      BY <1>1, <3>1, <3>2 DEF Qualifies
  <2>2. In(new) = In(said) \cup {n + 1}
    BY <1>1, <1>2, <1>4, <1>5, <2>1
  <2>3. {new[j].except : j \in In(new)} = {said[j].except : j \in In(said)} \cup {call.except}
    <3>1. \A j \in In(said) : new[j] = said[j]
      BY <1>1, <1>7
    <3>2. ASSUME NEW A, NEW B, A = B \cup {n + 1}, \A j \in B : new[j] = said[j]
          PROVE  {new[j].except : j \in A} = {said[j].except : j \in B} \cup {call.except}
      <4>1. {new[j].except : j \in A} = {new[j].except : j \in B} \cup {new[n + 1].except}
        BY <3>2
      <4>2. {new[j].except : j \in B} = {said[j].except : j \in B}
        BY <3>2
      <4> QED
        BY <1>1, <4>1, <4>2
    <3> HIDE DEF In
    <3> QED
      BY <2>2, <3>1, <3>2
  <2> DEFINE before == UNION {said[j].except : j \in In(said)}
  <2>4. UNION {new[j].except : j \in In(new)} = before \cup call.except
    BY <2>3
  <2>5. Entry(said, i) = [pattern |-> said[i].pattern, depth |-> said[i].depth, label |-> said[i].label,
                          except |-> before]
    BY DEF Entry
  <2>6. Entry(new, i) = [pattern |-> said[i].pattern, depth |-> said[i].depth, label |-> said[i].label,
                         except |-> UNION {new[j].except : j \in In(new)}]
    BY <1>9 DEF Entry
  <2> HIDE DEF before, In
  <2>7. Entry(new, i) = Widened(Entry(said, i), call.except)
    <3>1. /\ Entry(said, i).pattern = said[i].pattern /\ Entry(said, i).depth = said[i].depth
          /\ Entry(said, i).label = said[i].label /\ Entry(said, i).except = before
      BY <2>5
    <3>2. Entry(new, i) = [pattern |-> said[i].pattern, except |-> before \cup call.except,
                           depth |-> said[i].depth, label |-> said[i].label]
      BY <2>4, <2>6
    <3> QED
      BY <3>1, <3>2, Zenon DEF Widened
  <2> QED
    BY <1>12, <2>7
<1> QED
  BY <1>11, <1>12

\* The call adds an entry to the list.
Adds(call, list) == call.verb = list

\* What a list holds after one more call that is no except.
Continued(said, call, list) ==
  IF Adds(call, list) THEN Append(Written(said, list), OwnEntry(call)) ELSE Written(said, list)

\* The call of a chain and the lists it leaves behind.
LEMMA WrittenOfOther ==
  ASSUME NEW C, NEW said \in Seq(C), NEW call \in C, NEW new, new = Append(said, call),
         call.verb # "except", NEW list
  PROVE  Written(new, list) = Continued(said, call, list)
<1> DEFINE n == Len(said)
           E == {Entry(said, i) : i \in 1 .. Len(said)} \cup {Entry(new, i) : i \in 1 .. Len(new)}
<1>1. /\ new \in Seq(C) /\ Len(new) = n + 1 /\ n \in Nat
      /\ new[n + 1] = call /\ \A i \in 1 .. n : new[i] = said[i]
  BY OneMoreCall
<1>2. (\A i \in 1 .. Len(said) : Entry(said, i) \in E) /\ (\A i \in 1 .. Len(new) : Entry(new, i) \in E)
  OBVIOUS
<1>3. Entry(new, n + 1) = OwnEntry(call) /\ \A i \in 1 .. n : Entry(new, i) = Entry(said, i)
  <2> HIDE DEF E
  <2>1. Entry(new, n + 1) = OwnEntry(call)
    BY NewEntry
  <2>2. ASSUME NEW i \in 1 .. n PROVE Entry(new, i) = Entry(said, i)
    <3>1. i \in 1 .. Len(said)
      OBVIOUS
    <3> HIDE DEF n
    <3> QED
      BY <3>1, EntriesStay
  <2> QED
    BY <2>1, <2>2
<1> HIDE DEF E
<1>4. PICK w \in [0 .. n -> Seq(E)] : Written(said, list) = w[n] /\ Gathers(w, said, list)
  BY <1>2, WrittenUnfolds
<1>5. PICK v \in [0 .. n + 1 -> Seq(E)] : Written(new, list) = v[n + 1] /\ Gathers(v, new, list)
  <2>1. \E v \in [0 .. Len(new) -> Seq(E)] : Written(new, list) = v[Len(new)] /\ Gathers(v, new, list)
    BY <1>1, <1>2, WrittenUnfolds
  <2> QED
    BY <1>1, <2>1
<1>6. /\ w[0] = << >>
      /\ \A k \in 1 .. n : w[k] = IF said[k].verb = list THEN Append(w[k - 1], Entry(said, k)) ELSE w[k - 1]
  BY <1>4 DEF Gathers
<1>7. /\ v[0] = << >>
      /\ \A k \in 1 .. n + 1 : v[k] = IF new[k].verb = list THEN Append(v[k - 1], Entry(new, k)) ELSE v[k - 1]
  BY <1>1, <1>5 DEF Gathers
<1> HIDE DEF n
<1> DEFINE Good == {k \in 0 .. n : v[k] = w[k]}
<1>8. 0 \in Good
  BY <1>1, <1>6, <1>7
<1>9. ASSUME NEW k \in 1 .. n, k - 1 \in Good PROVE k \in Good
  <2>1. k \in 1 .. n + 1 /\ k \in 0 .. n
    BY <1>1
  <2>2. v[k - 1] = w[k - 1] /\ new[k] = said[k] /\ Entry(new, k) = Entry(said, k)
    BY <1>1, <1>3, <1>9
  <2>3. v[k] = w[k]
    BY <1>6, <1>7, <2>1, <2>2
  <2> QED
    BY <2>1, <2>3
<1> HIDE DEF Good
<1>10. \A k \in 0 .. n : k \in Good
  BY <1>1, <1>8, <1>9, Induction
<1>11. v[n] = w[n]
  BY <1>1, <1>10 DEF Good
<1>12. v[n + 1] = IF call.verb = list THEN Append(v[n], OwnEntry(call)) ELSE v[n]
  <2>1. n + 1 \in 1 .. n + 1 /\ n + 1 - 1 = n
    BY <1>1
  <2> QED
    BY <1>1, <1>3, <1>7, <2>1
<1> QED
  BY <1>4, <1>5, <1>11, <1>12 DEF Adds, Continued

\* What a list holds after an except about call s of the chain.
Excepted(said, new, s, call, list) ==
  /\ ~Adds(said[s], list) => Written(new, list) = Written(said, list)
  /\ Adds(said[s], list) =>
       \E S : \E front \in Seq(S) : \E e \in S :
          /\ Written(said, list) = Append(front, e)
          /\ Written(new, list) = Append(front, Widened(e, call.except))

LEMMA WrittenOfExcept ==
  ASSUME NEW C, NEW said \in Seq(C), NEW call \in C, NEW new, new = Append(said, call),
         call.verb = "except", NEW s \in 1 .. Len(said), Newer(said, s), NEW list \in Range(Lists)
  PROVE  Excepted(said, new, s, call, list)
<1> DEFINE n == Len(said)
           E == {Entry(said, i) : i \in 1 .. Len(said)} \cup {Entry(new, i) : i \in 1 .. Len(new)}
<1>1. /\ new \in Seq(C) /\ Len(new) = n + 1 /\ n \in Nat
      /\ new[n + 1] = call /\ \A i \in 1 .. n : new[i] = said[i]
  BY OneMoreCall
<1>2. (\A i \in 1 .. Len(said) : Entry(said, i) \in E) /\ (\A i \in 1 .. Len(new) : Entry(new, i) \in E)
  OBVIOUS
<1>3. \A i \in 1 .. n : said[i].verb \in Range(Lists) =>
        /\ i # s => Entry(new, i) = Entry(said, i)
        /\ i = s => Entry(new, i) = Widened(Entry(said, i), call.except)
  <2> HIDE DEF E
  <2> SUFFICES ASSUME NEW i \in 1 .. Len(said), said[i].verb \in Range(Lists)
               PROVE  /\ i # s => Entry(new, i) = Entry(said, i)
                      /\ i = s => Entry(new, i) = Widened(Entry(said, i), call.except)
    OBVIOUS
  <2> HIDE DEF n
  <2> QED
    BY ExceptWidens, ZenonT(30)
<1>0. s \in 1 .. n
  OBVIOUS
<1>a. said[s].verb \in Range(Lists) /\ \A j \in s + 1 .. n : said[j].verb \notin Range(Lists)
  BY DEF Newer
<1> HIDE DEF E
<1>4. PICK w \in [0 .. n -> Seq(E)] : Written(said, list) = w[n] /\ Gathers(w, said, list)
  BY <1>2, WrittenUnfolds
<1>5. PICK v \in [0 .. n + 1 -> Seq(E)] : Written(new, list) = v[n + 1] /\ Gathers(v, new, list)
  <2>1. \E v \in [0 .. Len(new) -> Seq(E)] : Written(new, list) = v[Len(new)] /\ Gathers(v, new, list)
    BY <1>1, <1>2, WrittenUnfolds
  <2> QED
    BY <1>1, <2>1
<1>6. /\ w[0] = << >>
      /\ \A k \in 1 .. n : w[k] = IF said[k].verb = list THEN Append(w[k - 1], Entry(said, k)) ELSE w[k - 1]
  BY <1>4 DEF Gathers
<1>7. /\ v[0] = << >>
      /\ \A k \in 1 .. n + 1 : v[k] = IF new[k].verb = list THEN Append(v[k - 1], Entry(new, k)) ELSE v[k - 1]
  BY <1>1, <1>5 DEF Gathers
<1>8. Entry(said, s) \in E
  BY <1>0, <1>2
<1> HIDE DEF n
<1>9. \A k \in 1 .. n : k \in 1 .. n + 1 /\ k \in 0 .. n /\ k - 1 \in 0 .. n
  BY <1>1
<1>10. v[n + 1] = v[n]
  <2>1. n + 1 \in 1 .. n + 1 /\ n + 1 - 1 = n
    BY <1>1
  <2>2. call.verb # list
    BY ListsAre
  <2>3. v[n + 1] = IF new[n + 1].verb = list THEN Append(v[n], Entry(new, n + 1)) ELSE v[n]
    <3>1. PICK k \in 1 .. n + 1 : k = n + 1 /\ k - 1 = n
      BY <1>1, <2>1
    <3>2. v[k] = IF new[k].verb = list THEN Append(v[k - 1], Entry(new, k)) ELSE v[k - 1]
      BY <1>7
    <3> QED
      BY <3>1, <3>2, Zenon
  <2>4. new[n + 1].verb # list
    BY <1>1, <2>2
  <2> QED
    BY <2>3, <2>4
<1>11. ASSUME list # said[s].verb PROVE v[n] = w[n]
  <2> DEFINE Good == {k \in 0 .. n : v[k] = w[k]}
  <2>1. 0 \in Good
    BY <1>1, <1>6, <1>7
  <2>2. ASSUME NEW k \in 1 .. n, k - 1 \in Good PROVE k \in Good
    <3>1. v[k - 1] = w[k - 1] /\ new[k] = said[k]
      BY <1>1, <2>2
    <3>2. said[k].verb = list => Entry(new, k) = Entry(said, k)
      BY <1>3, <1>11
    <3>3. v[k] = w[k]
      BY <1>6, <1>7, <1>9, <3>1, <3>2
    <3> QED
      BY <1>9, <3>3
  <2> HIDE DEF Good
  <2>3. \A k \in 0 .. n : k \in Good
    BY <1>1, <2>1, <2>2, Induction
  <2> QED
    BY <1>1, <2>3 DEF Good
<1>12. ASSUME list = said[s].verb
       PROVE  w[n] = Append(w[s - 1], Entry(said, s)) /\ v[n] = Append(w[s - 1], Widened(Entry(said, s), call.except))
  <2> DEFINE one == Append(w[s - 1], Entry(said, s))
             other == Append(w[s - 1], Widened(Entry(said, s), call.except))
             Good == {k \in 0 .. n : /\ k < s => v[k] = w[k]
                                     /\ k >= s => w[k] = one /\ v[k] = other}
  <2>1. 0 \in Good
    BY <1>0, <1>1, <1>6, <1>7
  <2>2. ASSUME NEW k \in 1 .. n, k - 1 \in Good PROVE k \in Good
    <3>0. /\ w[k] = IF said[k].verb = list THEN Append(w[k - 1], Entry(said, k)) ELSE w[k - 1]
          /\ v[k] = IF said[k].verb = list THEN Append(v[k - 1], Entry(new, k)) ELSE v[k - 1]
      BY <1>1, <1>6, <1>7, <1>9
    <3>a. (k - 1 < s => v[k - 1] = w[k - 1]) /\ (k - 1 >= s => w[k - 1] = one /\ v[k - 1] = other)
      BY <2>2
    <3> HIDE DEF one, other, Good
    <3>1. CASE k < s
      <4>1. v[k - 1] = w[k - 1]
        BY <1>0, <1>1, <3>1, <3>a
      <4>2. said[k].verb = list => Entry(new, k) = Entry(said, k)
        BY <1>0, <1>1, <1>3, <3>1
      <4>3. v[k] = w[k]
        BY <3>0, <4>1, <4>2
      <4> QED
        BY <1>0, <1>1, <1>9, <3>1, <4>3 DEF Good
    <3>2. CASE k = s
      <4>1. v[k - 1] = w[k - 1]
        BY <1>0, <1>1, <3>2, <3>a
      <4>2. w[k] = one /\ v[k] = other
        BY <1>3, <1>12, <1>a, <3>0, <3>2, <4>1 DEF one, other
      <4> QED
        BY <1>0, <1>1, <1>9, <3>2, <4>2 DEF Good
    <3>3. CASE k > s
      <4>1. w[k - 1] = one /\ v[k - 1] = other
        BY <1>0, <1>1, <3>3, <3>a
      <4>2. said[k].verb # list
        <5>1. k \in s + 1 .. n
          BY <1>0, <1>1, <3>3
        <5> QED
          BY <1>a, <5>1
      <4>3. w[k] = one /\ v[k] = other
        BY <3>0, <4>1, <4>2
      <4> QED
        BY <1>0, <1>1, <1>9, <3>3, <4>3 DEF Good
    <3> QED
      BY <1>0, <1>1, <3>1, <3>2, <3>3
  <2> HIDE DEF Good
  <2>3. \A k \in 0 .. n : k \in Good
    BY <1>1, <2>1, <2>2, Induction
  <2>4. n \in Good /\ n >= s
    BY <1>0, <1>1, <2>3
  <2> QED
    BY <2>4 DEF Good
<1>13. w[s - 1] \in Seq(E)
  BY <1>0, <1>4, <1>9
<1> QED
  BY <1>4, <1>5, <1>8, <1>10, <1>11, <1>12, <1>13 DEF Adds, Excepted

-----------------------------------------------------------------------------
\* A slice lies in one array, and memory that grows keeps every array it had.
InUse(h, slice) == slice.len > 0 => slice.array \in 1 .. Len(h) /\ slice.len <= Len(h[slice.array])
Grows(h, g) == Len(h) <= Len(g) /\ \A a \in 1 .. Len(h) : g[a] = h[a]
Sliced == [Range(Lists) -> GoSlices]

LEMMA ElementsAre ==
  ASSUME NEW E, NEW h \in Seq(Seq(E)), NEW slice \in GoSlices, InUse(h, slice)
  PROVE  /\ Elements(h, slice) \in Seq(E) /\ Len(Elements(h, slice)) = slice.len /\ slice.len \in Nat
         /\ slice.len = 0 => Elements(h, slice) = << >>
         /\ \A i \in 1 .. slice.len : Elements(h, slice)[i] = h[slice.array][i]
<1>1. slice.len \in Nat /\ slice.array \in Nat
  BY DEF GoSlices
<1>2. CASE slice.len = 0
  BY <1>2 DEF Elements
<1>3. CASE slice.len # 0
  <2> DEFINE all == h[slice.array]
  <2>1. slice.len > 0
    BY <1>1, <1>3
  <2>2. slice.array \in 1 .. Len(h) /\ slice.len <= Len(all)
    BY <2>1 DEF InUse
  <2>3. all \in Seq(E)
    BY <2>2
  <2>4. Elements(h, slice) = SubSeq(all, 1, slice.len)
    BY <1>3 DEF Elements
  <2> HIDE DEF all
  <2>5. /\ SubSeq(all, 1, slice.len) \in Seq(E) /\ Len(SubSeq(all, 1, slice.len)) = slice.len
        /\ \A i \in 1 .. slice.len : SubSeq(all, 1, slice.len)[i] = all[i]
    BY <1>1, <2>1, <2>2, <2>3
  <2> QED
    BY <1>1, <1>3, <2>4, <2>5 DEF all
<1> QED
  BY <1>2, <1>3

LEMMA ElementsStay ==
  ASSUME NEW E, NEW h \in Seq(Seq(E)), NEW g \in Seq(Seq(E)), Grows(h, g), NEW slice \in GoSlices, InUse(h, slice)
  PROVE  Elements(g, slice) = Elements(h, slice) /\ InUse(g, slice)
<1>1. slice.len \in Nat /\ Len(h) \in Nat /\ Len(g) \in Nat
  BY DEF GoSlices
<1>2. CASE slice.len = 0
  BY <1>2 DEF Elements, InUse
<1>3. CASE slice.len # 0
  <2>1. slice.len > 0
    BY <1>1, <1>3
  <2>2. slice.array \in 1 .. Len(h) /\ slice.len <= Len(h[slice.array])
    BY <2>1 DEF InUse
  <2>3. g[slice.array] = h[slice.array] /\ slice.array \in 1 .. Len(g)
    BY <1>1, <2>2 DEF Grows
  <2> QED
    BY <2>2, <2>3 DEF Elements, InUse
<1> QED
  BY <1>2, <1>3

LEMMA GrowsOnAndOn ==
  ASSUME NEW S, NEW f \in Seq(S), NEW g \in Seq(S), NEW h \in Seq(S), Grows(f, g), Grows(g, h)
  PROVE  Grows(f, h)
<1>1. Len(f) \in Nat /\ Len(g) \in Nat /\ Len(h) \in Nat
  OBVIOUS
<1> QED
  BY <1>1 DEF Grows

LEMMA Concatenated ==
  ASSUME NEW S, NEW s \in Seq(S), NEW t \in Seq(S)
  PROVE  /\ s \o t \in Seq(S) /\ Len(s \o t) = Len(s) + Len(t) /\ Len(s) \in Nat
         /\ \A i \in 1 .. Len(s) : (s \o t)[i] = s[i]
         /\ \A i \in 1 .. Len(t) : (s \o t)[Len(s) + i] = t[i]
<1>1. Len(s) \in Nat /\ Len(t) \in Nat
  OBVIOUS
<1>2. ASSUME NEW i \in 1 .. Len(t) PROVE (s \o t)[Len(s) + i] = t[i]
  BY <1>1
<1> QED
  BY <1>1, <1>2

\* The copy of a query shares no array with it, nor one list with another, and
\* says the same; no array of it has room left.
Own(slices, h, copies) ==
  /\ h \in Seq(Seq(Entries)) /\ Grows(heap, h) /\ copies \in Sliced
  /\ \A l \in Range(Lists) :
       /\ copies[l].len = slices[l].len /\ InUse(h, copies[l])
       /\ Elements(h, copies[l]) = Elements(heap, slices[l])
       /\ copies[l].len > 0 => /\ copies[l].array > Len(heap)
                               /\ h[copies[l].array] = Elements(heap, slices[l])
       /\ copies[l].len = 0 => copies[l] = NoSlice
  /\ \A l, m \in Range(Lists) : l # m /\ copies[l].len > 0 => copies[l].array # copies[m].array

LEMMA CopiesAreOwn ==
  ASSUME heap \in Seq(Seq(Entries)), NEW slices \in Sliced, \A l \in Range(Lists) : InUse(heap, slices[l])
  PROVE  Own(slices, Modifying(slices).heap, Modifying(slices).slices)
<1> DEFINE place(l) == CHOOSE i \in 1 .. Len(Lists) : Lists[i] = l
           added == [i \in 1 .. Len(Lists) |-> Elements(heap, slices[Lists[i]])]
           h == heap \o added
           copies == [l \in Range(Lists) |->
                        IF slices[l].len = 0 THEN NoSlice
                        ELSE [array |-> Len(heap) + place(l), len |-> slices[l].len]]
<1>1. Modifying(slices).heap = h /\ Modifying(slices).slices = copies
  BY DEF Modifying
<1>2. Len(Lists) = 4 /\ \A l \in Range(Lists) : place(l) \in 1 .. 4 /\ Lists[place(l)] = l
  BY ListsAre
<1>3. \A i \in 1 .. 4 : Lists[i] \in Range(Lists)
  BY <1>2 DEF Range, Lists
<1> HIDE DEF place
<1>4. \A l \in Range(Lists) :
        /\ slices[l] \in GoSlices /\ slices[l].len \in Nat
        /\ Elements(heap, slices[l]) \in Seq(Entries) /\ Len(Elements(heap, slices[l])) = slices[l].len
  <2> SUFFICES ASSUME NEW l \in Range(Lists)
               PROVE  /\ slices[l] \in GoSlices /\ slices[l].len \in Nat
                      /\ Elements(heap, slices[l]) \in Seq(Entries)
                      /\ Len(Elements(heap, slices[l])) = slices[l].len
    OBVIOUS
  <2>1. slices[l] \in GoSlices
    BY DEF Sliced
  <2> QED
    BY <2>1, ElementsAre
<1>5. added \in Seq(Seq(Entries)) /\ Len(added) = 4 /\ \A l \in Range(Lists) : added[place(l)] = Elements(heap, slices[l])
  <2>1. added = [i \in 1 .. 4 |-> Elements(heap, slices[Lists[i]])]
    BY <1>2
  <2>2. \A i \in 1 .. 4 : Elements(heap, slices[Lists[i]]) \in Seq(Entries)
    BY <1>3, <1>4
  <2> HIDE DEF added
  <2>3. added \in Seq(Seq(Entries)) /\ Len(added) = 4 /\ \A i \in 1 .. 4 : added[i] = Elements(heap, slices[Lists[i]])
    BY <2>1, <2>2
  <2> QED
    BY <1>2, <2>3
<1> HIDE DEF added
<1>6. /\ h \in Seq(Seq(Entries)) /\ Len(h) = Len(heap) + 4 /\ Len(heap) \in Nat
      /\ \A a \in 1 .. Len(heap) : h[a] = heap[a]
      /\ \A i \in 1 .. 4 : h[Len(heap) + i] = added[i]
  <2>1. added \in Seq(Seq(Entries)) /\ Len(added) = 4
    BY <1>5
  <2>2. /\ heap \o added \in Seq(Seq(Entries)) /\ Len(heap \o added) = Len(heap) + Len(added) /\ Len(heap) \in Nat
        /\ \A i \in 1 .. Len(heap) : (heap \o added)[i] = heap[i]
        /\ \A i \in 1 .. Len(added) : (heap \o added)[Len(heap) + i] = added[i]
    <3> HIDE DEF copies, h
    <3> DEFINE T == Seq(Entries)
    <3>1. heap \in Seq(T) /\ added \in Seq(T)
      BY <2>1
    <3> HIDE DEF T
    <3> QED
      BY <3>1, Concatenated DEF T
  <2> QED
    BY <2>1, <2>2
<1> HIDE DEF h
<1>0. \A l \in Range(Lists) : /\ Len(heap) + place(l) \in Nat /\ Len(heap) + place(l) > Len(heap)
                              /\ Len(heap) + place(l) \in 1 .. Len(h) /\ Len(heap) + place(l) # 0
  <2>1. ASSUME NEW n \in Nat, NEW k \in 1 .. 4
        PROVE  n + k \in Nat /\ n + k > n /\ n + k \in 1 .. n + 4 /\ n + k # 0
    OBVIOUS
  <2> QED
    BY <1>2, <1>6, <2>1
<1>7. Grows(heap, h)
  BY <1>6 DEF Grows
<1>8. \A l \in Range(Lists) : /\ slices[l].len = 0 => copies[l] = NoSlice
                              /\ slices[l].len # 0 => /\ copies[l].array = Len(heap) + place(l)
                                                      /\ copies[l].len = slices[l].len
                                                      /\ copies[l] \in GoSlices
  <2> SUFFICES ASSUME NEW l \in Range(Lists)
               PROVE  /\ slices[l].len = 0 => copies[l] = NoSlice
                      /\ slices[l].len # 0 => /\ copies[l].array = Len(heap) + place(l)
                                              /\ copies[l].len = slices[l].len
                                              /\ copies[l] \in GoSlices
    OBVIOUS
  <2>1. slices[l].len \in Nat /\ Len(heap) + place(l) \in Nat
    BY <1>0, <1>4
  <2> QED
    BY <2>1 DEF GoSlices
<1>9. NoSlice \in GoSlices /\ NoSlice.len = 0
  BY DEF NoSlice, GoSlices
<1>10. copies \in Sliced
  <2>1. \A l \in Range(Lists) : copies[l] \in GoSlices
    BY <1>8, <1>9
  <2>2. copies = [l \in Range(Lists) |-> copies[l]]
    OBVIOUS
  <2> HIDE DEF copies
  <2> QED
    BY <2>1, <2>2 DEF Sliced
<1> HIDE DEF copies
<1>11. ASSUME NEW l \in Range(Lists)
       PROVE  /\ copies[l].len = slices[l].len /\ InUse(h, copies[l])
              /\ Elements(h, copies[l]) = Elements(heap, slices[l])
              /\ copies[l].len > 0 => /\ copies[l].array > Len(heap)
                                      /\ h[copies[l].array] = Elements(heap, slices[l])
              /\ copies[l].len = 0 => copies[l] = NoSlice
  <2>1. CASE slices[l].len = 0
    <3>1. copies[l] = NoSlice
      BY <1>8, <2>1
    <3>2. Elements(h, copies[l]) = << >> /\ Elements(heap, slices[l]) = << >>
      BY <1>9, <2>1, <3>1 DEF Elements
    <3> QED
      BY <1>9, <2>1, <3>1, <3>2 DEF InUse
  <2>2. CASE slices[l].len # 0
    <3>1. copies[l].array = Len(heap) + place(l) /\ copies[l].len = slices[l].len
      BY <1>8, <2>2
    <3>2. h[copies[l].array] = Elements(heap, slices[l])
      BY <1>2, <1>5, <1>6, <3>1
    <3>3. copies[l].array \in 1 .. Len(h) /\ copies[l].array > Len(heap)
      BY <1>0, <3>1
    <3>4. Len(h[copies[l].array]) = copies[l].len
      BY <1>4, <3>1, <3>2
    <3>5. Elements(h, copies[l]) = SubSeq(Elements(heap, slices[l]), 1, slices[l].len)
      BY <2>2, <3>1, <3>2 DEF Elements
    <3>6. SubSeq(Elements(heap, slices[l]), 1, slices[l].len) = Elements(heap, slices[l])
      BY <1>4, <2>2
    <3> QED
      BY <1>4, <2>2, <3>1, <3>2, <3>3, <3>4, <3>5, <3>6 DEF InUse
  <2> QED
    BY <2>1, <2>2
<1>12. ASSUME NEW l \in Range(Lists), NEW m \in Range(Lists), l # m, copies[l].len > 0
       PROVE  copies[l].array # copies[m].array
  <2>1. place(l) # place(m)
    BY <1>2, <1>12
  <2>2. slices[l].len # 0
    BY <1>4, <1>11, <1>12
  <2>3. copies[l].array = Len(heap) + place(l)
    BY <1>8, <2>2
  <2>4. copies[m].array = Len(heap) + place(m) \/ copies[m].array = 0
    BY <1>8 DEF NoSlice
  <2>5. ASSUME NEW n \in Nat, NEW i \in 1 .. 4, NEW j \in 1 .. 4, i # j PROVE n + i # n + j
    BY <2>5
  <2>6. Len(heap) + place(l) # Len(heap) + place(m)
    BY <1>2, <1>6, <2>1, <2>5
  <2> QED
    BY <1>0, <2>3, <2>4, <2>6
<1> QED
  BY <1>1, <1>6, <1>7, <1>10, <1>11, <1>12 DEF Own

\* append onto a slice that fills its array takes a new one.
LEMMA AppendedIsNew ==
  ASSUME NEW E, NEW h \in Seq(Seq(E)), NEW slice \in GoSlices, InUse(h, slice),
         slice.len > 0 => Len(h[slice.array]) = slice.len, NEW entry \in E, Unused \in E
  PROVE  /\ Appended(h, slice, entry).heap \in Seq(Seq(E)) /\ Grows(h, Appended(h, slice, entry).heap)
         /\ Appended(h, slice, entry).slice \in GoSlices /\ Appended(h, slice, entry).slice.len > 0
         /\ InUse(Appended(h, slice, entry).heap, Appended(h, slice, entry).slice)
         /\ Elements(Appended(h, slice, entry).heap, Appended(h, slice, entry).slice) =
              Append(Elements(h, slice), entry)
<1> DEFINE now == Append(Elements(h, slice), entry)
           room == [i \in 1 .. slice.len - 1 |-> Unused]
           array == now \o room
           g == Append(h, array)
           new == [array |-> Len(h) + 1, len |-> slice.len + 1]
<1>1. slice.len \in Nat /\ Len(h) \in Nat
  BY DEF GoSlices
<1>2. ~(slice.len > 0 /\ slice.len < Len(h[slice.array]))
  BY <1>1
<1>3. Appended(h, slice, entry).heap = g /\ Appended(h, slice, entry).slice = new
  BY <1>2 DEF Appended
<1>4. Elements(h, slice) \in Seq(E) /\ Len(Elements(h, slice)) = slice.len
  BY ElementsAre
<1>5. now \in Seq(E) /\ Len(now) = slice.len + 1
  BY <1>4
<1>6. room \in Seq(E)
  <2>1. CASE slice.len = 0
    <3>1. room = << >>
      BY <2>1
    <3> HIDE DEF room
    <3> QED
      BY <3>1
  <2>2. CASE slice.len # 0
    <3>1. slice.len - 1 \in Nat
      BY <1>1, <2>2
    <3> QED
      BY <3>1
  <2> QED
    BY <2>1, <2>2
<1> HIDE DEF now, room
<1>7. array \in Seq(E) /\ Len(array) >= slice.len + 1 /\ \A i \in 1 .. slice.len + 1 : array[i] = now[i]
  <2>1. Len(now) \in Nat /\ Len(room) \in Nat
    BY <1>5, <1>6
  <2>2. /\ array \in Seq(E) /\ Len(array) = Len(now) + Len(room)
        /\ \A i \in 1 .. Len(now) : array[i] = now[i]
    BY <1>5, <1>6, Concatenated
  <2> HIDE DEF array
  <2> QED
    BY <1>1, <1>5, <2>1, <2>2
<1>8. SubSeq(array, 1, slice.len + 1) = now
  <2> HIDE DEF array
  <2>1. /\ SubSeq(array, 1, slice.len + 1) \in Seq(E) /\ Len(SubSeq(array, 1, slice.len + 1)) = slice.len + 1
        /\ \A i \in 1 .. slice.len + 1 : SubSeq(array, 1, slice.len + 1)[i] = array[i]
    BY <1>1, <1>7
  <2> DEFINE cut == SubSeq(array, 1, slice.len + 1)
  <2>2. cut \in Seq(E) /\ Len(cut) = Len(now) /\ \A i \in 1 .. Len(cut) : cut[i] = now[i]
    BY <1>5, <1>7, <2>1
  <2> HIDE DEF cut
  <2>3. cut = now
    BY <1>5, <2>2, SeqEqual
  <2> QED
    BY <2>3 DEF cut
<1> HIDE DEF array
<1>9. g \in Seq(Seq(E)) /\ Len(g) = Len(h) + 1 /\ g[Len(h) + 1] = array /\ \A a \in 1 .. Len(h) : g[a] = h[a]
  BY <1>7
<1> HIDE DEF g
<1>10. Grows(h, g)
  BY <1>1, <1>9 DEF Grows
<1>11. new.array = Len(h) + 1 /\ new.len = slice.len + 1
  OBVIOUS
<1>12. new \in GoSlices
  <2>1. Len(h) + 1 \in Nat /\ slice.len + 1 \in Nat
    BY <1>1
  <2> QED
    BY <2>1 DEF GoSlices
<1> HIDE DEF new
<1>13. InUse(g, new) /\ new.len > 0
  <2>1. Len(h) + 1 \in 1 .. Len(h) + 1 /\ slice.len + 1 > 0
    BY <1>1
  <2> QED
    BY <1>7, <1>9, <1>11, <2>1 DEF InUse
<1>14. Elements(g, new) = now
  <2>1. new.len # 0
    BY <1>1, <1>11
  <2>2. Elements(g, new) = SubSeq(g[new.array], 1, new.len)
    BY <2>1 DEF Elements
  <2> QED
    BY <1>8, <1>9, <1>11, <2>2
<1> QED
  BY <1>3, <1>9, <1>10, <1>12, <1>13, <1>14 DEF now

\* The last entry of a list widened, and memory after it.
WidensLast(before, after, patterns) ==
  \A S : \A front \in Seq(S) : \A e \in S :
    before = Append(front, e) => after = Append(front, Widened(e, patterns))

LastWidened(h, slice, patterns) == [h EXCEPT ![slice.array][slice.len].except = @ \cup patterns]

\* Except writes over the last entry of one array, and no other.
LEMMA LastIsWidened ==
  ASSUME NEW h \in Seq(Seq(Entries)), NEW slice \in GoSlices, InUse(h, slice), slice.len > 0,
         NEW patterns \in SUBSET (DOMAIN Describes),
         NEW g, g = LastWidened(h, slice, patterns)
  PROVE  /\ g \in Seq(Seq(Entries)) /\ Len(g) = Len(h) /\ InUse(g, slice)
         /\ \A a \in 1 .. Len(h) : a # slice.array => g[a] = h[a]
         /\ WidensLast(Elements(h, slice), Elements(g, slice), patterns)
<1> DEFINE a0 == slice.array
           n == slice.len
           old == h[a0]
           entry == [old[n] EXCEPT !.except = @ \cup patterns]
           all == [old EXCEPT ![n] = entry]
<1>1. n \in Nat /\ n > 0 /\ a0 \in 1 .. Len(h) /\ n <= Len(old) /\ Len(h) \in Nat
  BY DEF GoSlices, InUse
<1>2. old \in Seq(Entries)
  BY <1>1
<1>3. g = [h EXCEPT ![a0] = all]
  BY DEF LastWidened
<1> HIDE DEF a0, n
<1>4. old[n] \in Entries
  BY <1>1, <1>2
<1>5. entry \in Entries /\ entry = Widened(old[n], patterns)
  <2>1. ASSUME NEW o \in Entries
        PROVE  [o EXCEPT !.except = @ \cup patterns] \in Entries /\ [o EXCEPT !.except = @ \cup patterns] = Widened(o, patterns)
    <3>1. o = [pattern |-> o.pattern, except |-> o.except, depth |-> o.depth, label |-> o.label]
      BY DEF Entries
    <3>2. /\ o.except \in SUBSET (DOMAIN Describes) /\ o.pattern \in {call.pattern : call \in Calls} \cup {"unused"}
          /\ o.depth \in {call.depth : call \in Calls} \cup {0} /\ o.label \in {call.label : call \in Calls} \cup {<< >>}
      BY DEF Entries
    <3>3. o.except \cup patterns \in SUBSET (DOMAIN Describes)
      BY <3>2
    <3>4. [o EXCEPT !.except = @ \cup patterns] = Widened(o, patterns)
      <4>1. PICK p, x, d, l, q : p = o.pattern /\ x = o.except /\ d = o.depth /\ l = o.label /\ q = x \cup patterns
        OBVIOUS
      <4>2. o = [pattern |-> p, except |-> x, depth |-> d, label |-> l]
        BY <3>1, <4>1, Zenon
      <4>3. [o EXCEPT !.except = q] = [pattern |-> p, except |-> q, depth |-> d, label |-> l]
        <5>1. [o EXCEPT !.except = q] =
                [[pattern |-> p, except |-> x, depth |-> d, label |-> l] EXCEPT !.except = q]
          BY <4>2, Zenon
        <5> QED
          BY <5>1
      <4>4. [o EXCEPT !.except = @ \cup patterns] = [o EXCEPT !.except = q]
        BY <4>1, Zenon
      <4> QED
        BY <4>1, <4>3, <4>4, Zenon DEF Widened
    <3>5. Widened(o, patterns) \in Entries
      BY <3>2, <3>3 DEF Widened, Entries
    <3> QED
      BY <3>4, <3>5
  <2> HIDE DEF old
  <2> QED
    BY <1>4, <2>1, Zenon
<1> HIDE DEF entry, old
<1>6. all \in Seq(Entries) /\ Len(all) = Len(old) /\ all[n] = entry /\ \A i \in 1 .. Len(old) : i # n => all[i] = old[i]
  BY <1>1, <1>2, <1>5
<1> HIDE DEF all
<1>7. /\ g \in Seq(Seq(Entries)) /\ Len(g) = Len(h) /\ g[a0] = all
      /\ \A a \in 1 .. Len(h) : a # a0 => g[a] = h[a]
  <2>1. g \in Seq(Seq(Entries)) /\ Len(g) = Len(h)
    <3>1. \A T : \A s \in Seq(T), x \in T : \A i \in 1 .. Len(s) :
            [s EXCEPT ![i] = x] \in Seq(T) /\ Len([s EXCEPT ![i] = x]) = Len(s)
      OBVIOUS
    <3> QED
      <4> DEFINE T == Seq(Entries)
      <4>1. h \in Seq(T) /\ all \in T
        BY <1>6
      <4> HIDE DEF T
      <4>2. [h EXCEPT ![a0] = all] \in Seq(T) /\ Len([h EXCEPT ![a0] = all]) = Len(h)
        BY <1>1, <3>1, <4>1, Zenon
      <4> QED
        BY <1>3, <4>2 DEF T
  <2>2. DOMAIN h = 1 .. Len(h)
    OBVIOUS
  <2> QED
    BY <1>1, <1>3, <2>1, <2>2
<1>8. InUse(g, slice)
  BY <1>1, <1>6, <1>7 DEF InUse, a0, n, old
<1>9. ASSUME NEW S, NEW front \in Seq(S), NEW e \in S, Elements(h, slice) = Append(front, e)
      PROVE  Elements(g, slice) = Append(front, Widened(e, patterns))
  <2>1. /\ Elements(h, slice) \in Seq(Entries) /\ Len(Elements(h, slice)) = n
        /\ \A i \in 1 .. n : Elements(h, slice)[i] = old[i]
    BY ElementsAre DEF n, old, a0
  <2>2. /\ Elements(g, slice) \in Seq(Entries) /\ Len(Elements(g, slice)) = n
        /\ \A i \in 1 .. n : Elements(g, slice)[i] = all[i]
    BY <1>7, <1>8, ElementsAre DEF n, a0
  <2>3. Len(front) + 1 = n /\ Len(front) \in Nat
    BY <1>9, <2>1
  <2>4. \A i \in 1 .. n : Append(front, e)[i] = old[i]
    BY <1>9, <2>1
  <2>5. e = old[n] /\ \A i \in 1 .. Len(front) : front[i] = old[i]
    <3>1. Append(front, e)[Len(front) + 1] = e /\ \A i \in 1 .. Len(front) : Append(front, e)[i] = front[i]
      BY <2>3
    <3>2. n \in 1 .. n /\ \A i \in 1 .. Len(front) : i \in 1 .. n
      BY <1>1, <2>3
    <3> QED
      BY <2>3, <2>4, <3>1, <3>2
  <2> DEFINE s == Elements(g, slice)
             wide == Widened(e, patterns)
             t == Append(front, wide)
  <2>6. wide = entry
    BY <1>5, <2>5
  <2> HIDE DEF wide
  <2>7. /\ t \in Seq(S \cup {wide}) /\ Len(t) = n /\ t[n] = wide
        /\ \A i \in 1 .. Len(front) : t[i] = front[i]
    <3>1. front \in Seq(S \cup {wide})
      BY SeqMonotonic
    <3> QED
      BY <2>3, <3>1
  <2> HIDE DEF t, s
  <2>8. \A i \in 1 .. n : s[i] = t[i]
    <3> SUFFICES ASSUME NEW i \in 1 .. n PROVE s[i] = t[i]
      OBVIOUS
    <3>1. s[i] = all[i]
      BY <2>2 DEF s
    <3>2. CASE i = n
      BY <1>6, <2>6, <2>7, <3>1, <3>2
    <3>3. CASE i # n
      <4>1. i \in 1 .. Len(front) /\ i \in 1 .. Len(old)
        BY <1>1, <1>6, <2>3, <3>3 DEF old
      <4> QED
        BY <1>6, <2>5, <2>7, <3>1, <3>3, <4>1
    <3> QED
      BY <3>2, <3>3
  <2>9. s \in Seq(Entries) /\ Len(s) = n
    BY <2>2 DEF s
  <2>10. s = t
    <3>1. s \in Seq(Entries \cup S \cup {wide}) /\ t \in Seq(Entries \cup S \cup {wide})
      BY <2>7, <2>9, SeqMonotonic
    <3> QED
      BY <2>7, <2>8, <2>9, <3>1, SeqEqual
  <2> QED
    BY <2>10 DEF s, t, wide
<1> QED
  BY <1>7, <1>8, <1>9 DEF a0, WidensLast

-----------------------------------------------------------------------------
MistakesMade ==
  {NoMistake} \cup ({"focus", "from", "of", "groups", "except", "folder"} \X
                    {"unnamed", "syntax", "without a selector", "without a pattern", "depth"})

Builders ==
  [slices : Sliced, qualified : Range(Lists) \cup {"none"}, err : MistakesMade, external : BOOLEAN, self : BOOLEAN,
   folder : FolderDepth \cup {0}, allowEmpty : BOOLEAN, said : Seq(CallsMade)]

LEMMA BuilderIs ==
  ASSUME NEW b \in Builders
  PROVE  /\ b.slices \in Sliced /\ b.qualified \in Range(Lists) \cup {"none"} /\ b.err \in MistakesMade
         /\ b.external \in BOOLEAN /\ b.self \in BOOLEAN /\ b.folder \in FolderDepth \cup {0}
         /\ b.allowEmpty \in BOOLEAN /\ b.said \in Seq(CallsMade)
BY DEF Builders

LEMMA BuilderSlices ==
  ASSUME NEW b \in Builders, NEW l \in Range(Lists)
  PROVE  b.slices[l] \in GoSlices
BY DEF Builders, Sliced

Folder(said) == IF Said(said, "folder") THEN said[Newest(said, "folder")].depth ELSE 0

\* What the invariant says of a builder whose chain made no mistake, and of any.
Says(h, b) ==
  /\ b.err = NoMistake
  /\ \A l \in Range(Lists) : Elements(h, b.slices[l]) = Written(b.said, l)
  /\ b.external <=> Said(b.said, "external")
  /\ b.self <=> Said(b.said, "self")
  /\ b.allowEmpty <=> AllowsEmpty(b.said)
  /\ b.folder = Folder(b.said)
  /\ b.qualified = "none" => \A j \in 1 .. Len(b.said) : b.said[j].verb \notin Range(Lists)
  /\ b.qualified # "none" => \E s \in 1 .. Len(b.said) : Newer(b.said, s) /\ b.said[s].verb = b.qualified

Faithful(h, b) ==
  /\ \A l \in Range(Lists) : InUse(h, b.slices[l])
  /\ b.qualified # "none" => b.slices[b.qualified].len > 0
  /\ Wrong(b.said) # {} => b.err # NoMistake /\ b.err[1] = b.said[First(b.said)].verb
  /\ Wrong(b.said) = {} => Says(h, b)

SnapshotInv ==
  /\ heap \in Seq(Seq(Entries)) /\ builders \in Seq(Builders)
  /\ \A b \in DOMAIN builders : Faithful(heap, builders[b])

\* What one more call says.
LEMMA SaidOnce ==
  ASSUME NEW C, NEW said \in Seq(C), NEW call \in C, NEW new, new = Append(said, call), NEW verb
  PROVE  Said(new, verb) <=> Said(said, verb) \/ call.verb = verb
<1> DEFINE n == Len(said)
<1>1. /\ n \in Nat /\ DOMAIN said = 1 .. n /\ DOMAIN new = 1 .. n + 1
      /\ new[n + 1] = call /\ \A i \in 1 .. n : new[i] = said[i]
  BY OneMoreCall
<1> HIDE DEF n
<1>2. \A i \in 1 .. n + 1 : i \in 1 .. n \/ i = n + 1
  BY <1>1
<1>3. n + 1 \in 1 .. n + 1 /\ \A i \in 1 .. n : i \in 1 .. n + 1
  BY <1>1
<1> QED
  BY <1>1, <1>2, <1>3 DEF Said

\* One more bag allows an empty report or takes the allowance back.
LEMMA AllowedOnce ==
  ASSUME NEW C, NEW said \in Seq(C), NEW call \in C, NEW new, new = Append(said, call)
  PROVE  AllowsEmpty(new) <=> call.verb = "allowEmpty" \/ (AllowsEmpty(said) /\ call.verb # "refuseEmpty")
<1> DEFINE n == Len(said)
<1>1. /\ n \in Nat /\ DOMAIN said = 1 .. n /\ DOMAIN new = 1 .. n + 1 /\ Len(new) = n + 1
      /\ new[n + 1] = call /\ \A i \in 1 .. n : new[i] = said[i]
  BY OneMoreCall
<1>2. AllowsEmpty(said) <=>
        \E i \in 1 .. n : said[i].verb = "allowEmpty" /\ \A j \in i + 1 .. n : said[j].verb # "refuseEmpty"
  BY <1>1 DEF AllowsEmpty
<1>3. AllowsEmpty(new) <=>
        \E i \in 1 .. n + 1 : new[i].verb = "allowEmpty" /\ \A j \in i + 1 .. n + 1 : new[j].verb # "refuseEmpty"
  BY <1>1 DEF AllowsEmpty
<1> HIDE DEF n
<1>4. ASSUME call.verb = "allowEmpty" PROVE AllowsEmpty(new)
  <2>1. n + 1 \in 1 .. n + 1 /\ (n + 1) + 1 .. n + 1 = {}
    BY <1>1
  <2> QED
    BY <1>1, <1>3, <1>4, <2>1
<1>5. ASSUME AllowsEmpty(said), call.verb # "refuseEmpty" PROVE AllowsEmpty(new)
  <2>1. PICK i \in 1 .. n : said[i].verb = "allowEmpty" /\ \A j \in i + 1 .. n : said[j].verb # "refuseEmpty"
    BY <1>2, <1>5
  <2>2. ASSUME NEW j \in i + 1 .. n + 1 PROVE new[j].verb # "refuseEmpty"
    <3>1. j = n + 1 \/ (j \in 1 .. n /\ j \in i + 1 .. n)
      BY <1>1
    <3> QED
      BY <1>1, <1>5, <2>1, <3>1
  <2>3. i \in 1 .. n + 1 /\ new[i].verb = "allowEmpty"
    BY <1>1, <2>1
  <2> QED
    BY <1>3, <2>2, <2>3
<1>6. ASSUME AllowsEmpty(new), call.verb # "allowEmpty" PROVE AllowsEmpty(said) /\ call.verb # "refuseEmpty"
  <2>1. PICK i \in 1 .. n + 1 : /\ new[i].verb = "allowEmpty"
                               /\ \A j \in i + 1 .. n + 1 : new[j].verb # "refuseEmpty"
    BY <1>3, <1>6
  <2>2. i \in 1 .. n
    <3>1. i # n + 1
      BY <1>1, <1>6, <2>1
    <3> QED
      BY <1>1, <3>1
  <2>3. n + 1 \in i + 1 .. n + 1 /\ \A j \in i + 1 .. n : j \in i + 1 .. n + 1 /\ j \in 1 .. n
    BY <1>1, <2>2
  <2>4. said[i].verb = "allowEmpty" /\ \A j \in i + 1 .. n : said[j].verb # "refuseEmpty"
    BY <1>1, <2>1, <2>2, <2>3
  <2> QED
    BY <1>1, <1>2, <2>1, <2>2, <2>3, <2>4
<1> QED
  BY <1>4, <1>5, <1>6

LEMMA FolderOnce ==
  ASSUME NEW C, NEW said \in Seq(C), NEW call \in C, NEW new, new = Append(said, call)
  PROVE  Folder(new) = IF call.verb = "folder" THEN call.depth ELSE Folder(said)
<1> DEFINE n == Len(said)
           LastFolder(s, m, i) == i \in 1 .. m /\ s[i].verb = "folder" /\ \A j \in i + 1 .. m : s[j].verb # "folder"
<1>1. /\ n \in Nat /\ DOMAIN said = 1 .. n /\ DOMAIN new = 1 .. n + 1 /\ Len(new) = n + 1
      /\ new[n + 1] = call /\ \A i \in 1 .. n : new[i] = said[i]
  BY OneMoreCall
<1> HIDE DEF n
<1>2. Newest(said, "folder") = (CHOOSE i \in 1 .. n : LastFolder(said, n, i))
  BY <1>1 DEF Newest, n
<1>3. Newest(new, "folder") = (CHOOSE i \in 1 .. n + 1 : LastFolder(new, n + 1, i))
  BY <1>1 DEF Newest
<1>4. ASSUME call.verb = "folder" PROVE Folder(new) = call.depth
  <2>1. Said(new, "folder")
    BY <1>4, SaidOnce
  <2>2. LastFolder(new, n + 1, n + 1)
    BY <1>1, <1>4
  <2>3. ASSUME NEW i \in 1 .. n + 1, LastFolder(new, n + 1, i) PROVE i = n + 1
    <3> SUFFICES ASSUME i # n + 1 PROVE FALSE
      OBVIOUS
    <3>1. n + 1 \in i + 1 .. n + 1
      BY <1>1
    <3> QED
      BY <1>1, <1>4, <2>3, <3>1
  <2>4. n + 1 \in 1 .. n + 1
    BY <1>1
  <2> HIDE DEF LastFolder
  <2>5. Newest(new, "folder") = n + 1
    BY <1>3, <2>2, <2>3, <2>4
  <2> QED
    BY <1>1, <2>1, <2>5 DEF Folder
<1>5. ASSUME call.verb # "folder", Said(said, "folder") PROVE Folder(new) = Folder(said)
  <2>1. Said(new, "folder")
    BY <1>5, SaidOnce
  <2>2. ASSUME NEW i \in 1 .. n PROVE LastFolder(new, n + 1, i) <=> LastFolder(said, n, i)
    <3>1. \A j \in i + 1 .. n + 1 : j = n + 1 \/ j \in i + 1 .. n
      BY <1>1
    <3>2. \A j \in i + 1 .. n : j \in i + 1 .. n + 1 /\ new[j] = said[j]
      BY <1>1
    <3>3. i \in 1 .. n + 1 /\ new[i] = said[i]
      BY <1>1
    <3> QED
      BY <1>1, <1>5, <3>1, <3>2, <3>3
  <2>3. ~LastFolder(new, n + 1, n + 1)
    BY <1>1, <1>5
  <2>4. \A i \in 1 .. n + 1 : i \in 1 .. n \/ i = n + 1
    BY <1>1
  <2>5. \A i \in 1 .. n : i \in 1 .. n + 1
    BY <1>1
  <2>6. PICK i \in 1 .. n : LastFolder(said, n, i)
    <3> DEFINE Others == {i \in 1 .. n : said[i].verb = "folder"}
               Behind == {n - i : i \in Others}
    <3>1. Others # {}
      BY <1>1, <1>5 DEF Said
    <3>2. Behind \subseteq Nat /\ Behind # {}
      BY <1>1, <3>1
    <3> HIDE DEF Behind
    <3>3. PICK d \in Behind : \A e \in Behind : d <= e
      BY <3>2, LeastNat
    <3>4. PICK i \in Others : d = n - i
      BY DEF Behind
    <3>5. \A j \in i + 1 .. n : said[j].verb # "folder"
      <4> SUFFICES ASSUME NEW j \in i + 1 .. n, said[j].verb = "folder" PROVE FALSE
        OBVIOUS
      <4>1. j \in Others /\ n - j < n - i
        BY <1>1
      <4>2. n - j \in Behind
        BY <4>1 DEF Behind
      <4> QED
        BY <1>1, <3>3, <3>4, <4>1, <4>2
    <3> QED
      BY <3>5
  <2>7. ASSUME NEW j \in 1 .. n, LastFolder(said, n, j) PROVE j = i
    <3>1. ~(i \in j + 1 .. n) /\ ~(j \in i + 1 .. n)
      BY <2>6, <2>7
    <3> QED
      BY <1>1, <3>1
  <2> HIDE DEF LastFolder
  <2>8. Newest(said, "folder") = i
    BY <1>2, <2>6, <2>7
  <2>9. Newest(new, "folder") = i
    BY <1>3, <2>2, <2>3, <2>4, <2>5, <2>6, <2>7
  <2> QED
    BY <1>1, <1>5, <2>1, <2>8, <2>9 DEF Folder
<1>6. ASSUME call.verb # "folder", ~Said(said, "folder") PROVE Folder(new) = Folder(said)
  <2>1. ~Said(new, "folder")
    BY <1>6, SaidOnce
  <2> QED
    BY <1>6, <2>1 DEF Folder
<1> QED
  BY <1>4, <1>5, <1>6

LEMMA NewerOnce ==
  ASSUME NEW C, NEW said \in Seq(C), NEW call \in C, NEW new, new = Append(said, call)
  PROVE  /\ call.verb \in Range(Lists) => Newer(new, Len(said) + 1)
         /\ call.verb \notin Range(Lists) => \A s \in 1 .. Len(said) : Newer(said, s) => Newer(new, s)
<1> DEFINE n == Len(said)
<1>1. /\ n \in Nat /\ DOMAIN said = 1 .. n /\ DOMAIN new = 1 .. n + 1 /\ Len(new) = n + 1
      /\ new[n + 1] = call /\ \A i \in 1 .. n : new[i] = said[i]
  BY OneMoreCall
<1> HIDE DEF n
<1>2. ASSUME call.verb \in Range(Lists) PROVE Newer(new, n + 1)
  BY <1>1, <1>2 DEF Newer
<1>3. ASSUME call.verb \notin Range(Lists), NEW s \in 1 .. n, Newer(said, s) PROVE Newer(new, s)
  <2>1. \A j \in s + 1 .. n + 1 : j = n + 1 \/ j \in s + 1 .. n
    BY <1>1
  <2>2. \A j \in s + 1 .. n : new[j] = said[j]
    BY <1>1
  <2>3. said[s].verb \in Range(Lists) /\ \A j \in s + 1 .. n : said[j].verb \notin Range(Lists)
    BY <1>3 DEF Newer, n
  <2>4. \A j \in s + 1 .. n + 1 : new[j].verb \notin Range(Lists)
    BY <1>1, <1>3, <2>1, <2>2, <2>3
  <2> QED
    BY <1>1, <2>3, <2>4 DEF Newer
<1> QED
  BY <1>2, <1>3 DEF n

\* A call that was right adds to what a builder says, and one that was wrong is
\* the mistake of a builder that had none.
LEMMA CallIsTold ==
  ASSUME NEW h, NEW g, NEW b \in Builders, Faithful(h, b), NEW call \in CallsMade, NEW b2,
         b2.said = Append(b.said, call), b2.err = b.err, \A l \in Range(Lists) : InUse(g, b2.slices[l]),
         b2.qualified # "none" => b2.slices[b2.qualified].len > 0,
         Wrong(b.said) = {} => ~Mistake(b2.said, Len(b.said) + 1) /\ Says(g, b2)
  PROVE  Faithful(g, b2)
<1>1. b.said \in Seq(CallsMade)
  BY DEF Builders
<1>2. CASE Wrong(b.said) # {}
  <2>1. Wrong(b2.said) # {} /\ b2.said[First(b2.said)] = b.said[First(b.said)]
    BY <1>1, <1>2, FirstMistakeStays
  <2>2. b2.err # NoMistake /\ b2.err[1] = b2.said[First(b2.said)].verb
    BY <1>2, <2>1 DEF Faithful
  <2> QED
    BY <2>1, <2>2 DEF Faithful
<1>3. CASE Wrong(b.said) = {}
  <2>1. Wrong(b2.said) \subseteq Wrong(b.said) \cup {Len(b.said) + 1}
    BY <1>1, MistakesAreKept
  <2>2. Len(b.said) + 1 \notin Wrong(b2.said)
    BY <1>3 DEF Wrong
  <2>3. Wrong(b2.said) = {}
    BY <1>3, <2>1, <2>2
  <2> QED
    BY <1>3, <2>3 DEF Faithful
<1> QED
  BY <1>2, <1>3

LEMMA MistakeIsTold ==
  ASSUME NEW h, NEW b \in Builders, Faithful(h, b), NEW call \in CallsMade, NEW cause, NEW b2,
         call.verb # "none", b2.said = Append(b.said, call), b2.slices = b.slices, b2.qualified = b.qualified,
         b2.err = IF b.err # NoMistake THEN b.err ELSE <<call.verb, cause>>,
         Wrong(b.said) = {} => Mistake(b2.said, Len(b.said) + 1)
  PROVE  Faithful(h, b2)
<1>1. b.said \in Seq(CallsMade)
  BY DEF Builders
<1>2. CASE Wrong(b.said) # {}
  <2>1. Wrong(b2.said) # {} /\ b2.said[First(b2.said)] = b.said[First(b.said)]
    BY <1>1, <1>2, FirstMistakeStays
  <2>2. b2.err # NoMistake /\ b2.err[1] = b2.said[First(b2.said)].verb
    BY <1>2, <2>1 DEF Faithful
  <2> QED
    BY <2>1, <2>2 DEF Faithful
<1>3. CASE Wrong(b.said) = {}
  <2>1. Len(b.said) + 1 \in Wrong(b2.said)
    BY <1>1, <1>3, MistakesAreKept
  <2>2. Wrong(b2.said) # {} /\ b2.said[First(b2.said)] = call
    BY <1>1, <1>3, <2>1, FirstMistakeStays
  <2>3. b2.err = <<call.verb, cause>>
    BY <1>3 DEF Faithful, Says
  <2>4. b2.err[1] = call.verb /\ b2.err # NoMistake
    <3>1. b2.err[1] = call.verb /\ NoMistake[1] = "none"
      BY <2>3 DEF NoMistake
    <3> QED
      BY <3>1
  <2> QED
    BY <2>2, <2>4 DEF Faithful
<1> QED
  BY <1>2, <1>3

\* A step adds one builder that means its chain, or none.
LEMMA OneMoreBuilder ==
  ASSUME SnapshotInv, heap' \in Seq(Seq(Entries)), Grows(heap, heap'), NEW b2 \in Builders,
         builders' = Append(builders, b2), Faithful(heap', b2)
  PROVE  SnapshotInv'
<1> DEFINE n == Len(builders)
<1>1. builders \in Seq(Builders) /\ heap \in Seq(Seq(Entries)) /\ \A b \in DOMAIN builders : Faithful(heap, builders[b])
  BY DEF SnapshotInv
<1>2. /\ builders' \in Seq(Builders) /\ DOMAIN builders' = 1 .. n + 1 /\ DOMAIN builders = 1 .. n
      /\ n \in Nat /\ builders'[n + 1] = b2 /\ \A b \in 1 .. n : builders'[b] = builders[b]
  BY <1>1
<1> HIDE DEF n
<1>3. ASSUME NEW b \in 1 .. n PROVE Faithful(heap', builders'[b])
  <2> DEFINE o == builders[b]
  <2>1. Faithful(heap, o) /\ o \in Builders /\ builders'[b] = o
    BY <1>1, <1>2
  <2> HIDE DEF o
  <2>2. \A l \in Range(Lists) : o.slices[l] \in GoSlices
    BY <2>1 DEF Builders, Sliced
  <2>3. \A l \in Range(Lists) : Elements(heap', o.slices[l]) = Elements(heap, o.slices[l]) /\ InUse(heap', o.slices[l])
    <3> SUFFICES ASSUME NEW l \in Range(Lists)
                 PROVE  Elements(heap', o.slices[l]) = Elements(heap, o.slices[l]) /\ InUse(heap', o.slices[l])
      OBVIOUS
    <3>1. InUse(heap, o.slices[l]) /\ o.slices[l] \in GoSlices
      BY <2>1, <2>2 DEF Faithful
    <3> QED
      BY <1>1, <3>1, ElementsStay
  <2>4. Says(heap, o) => Says(heap', o)
    BY <2>3 DEF Says
  <2>5. Faithful(heap', o)
    BY <2>1, <2>3, <2>4 DEF Faithful
  <2> QED
    BY <2>1, <2>5
<1>4. \A b \in 1 .. n + 1 : b = n + 1 \/ b \in 1 .. n
  BY <1>2
<1>5. \A b \in DOMAIN builders' : Faithful(heap', builders'[b])
  BY <1>2, <1>3, <1>4
<1> QED
  BY <1>2, <1>5 DEF SnapshotInv

-----------------------------------------------------------------------------
\* A builder, field by field.
Made(c, slices, qualified, err, external, self, folder, allowEmpty, said) ==
  /\ c \in Builders /\ c.slices = slices /\ c.qualified = qualified /\ c.err = err
  /\ c.external = external /\ c.self = self /\ c.folder = folder /\ c.allowEmpty = allowEmpty /\ c.said = said

LEMMA CallIsStored ==
  ASSUME NEW b \in Builders, NEW call \in CallsMade, NEW c, c = [b EXCEPT !.said = Append(@, call)]
  PROVE  Made(c, b.slices, b.qualified, b.err, b.external, b.self, b.folder, b.allowEmpty, Append(b.said, call))
<1>1. Append(b.said, call) \in Seq(CallsMade)
  <2>1. b.said \in Seq(CallsMade)
    BY DEF Builders
  <2> QED
    BY <2>1
<1> QED
  BY <1>1, Zenon DEF Builders, Made

\* What each modifier writes.
LEMMA SelectionIsMade ==
  ASSUME NEW b \in Builders, NEW s \in Sliced, NEW v \in Range(Lists), NEW call \in CallsMade, NEW c,
         c = [[b EXCEPT !.slices = s, !.qualified = v] EXCEPT !.said = Append(@, call)]
  PROVE  Made(c, s, v, b.err, b.external, b.self, b.folder, b.allowEmpty, Append(b.said, call))
<1> DEFINE d == [b EXCEPT !.slices = s, !.qualified = v]
<1>1. Made(d, s, v, b.err, b.external, b.self, b.folder, b.allowEmpty, b.said)
  BY Zenon DEF Builders, Made
<1>2. c = [d EXCEPT !.said = Append(@, call)]
  BY Zenon
<1>3. d \in Builders
  BY <1>1, Zenon DEF Made
<1> HIDE DEF d
<1>4. Made(c, d.slices, d.qualified, d.err, d.external, d.self, d.folder, d.allowEmpty, Append(d.said, call))
  BY <1>2, <1>3, CallIsStored
<1> QED
  BY <1>1, <1>4, Zenon DEF Made

LEMMA MistakeIsMade ==
  ASSUME NEW b \in Builders, NEW v \in MistakesMade, NEW call \in CallsMade, NEW c,
         c = [[b EXCEPT !.err = v] EXCEPT !.said = Append(@, call)]
  PROVE  Made(c, b.slices, b.qualified, v, b.external, b.self, b.folder, b.allowEmpty, Append(b.said, call))
<1> DEFINE d == [b EXCEPT !.err = v]
<1>1. Made(d, b.slices, b.qualified, v, b.external, b.self, b.folder, b.allowEmpty, b.said)
  BY Zenon DEF Builders, Made
<1>2. c = [d EXCEPT !.said = Append(@, call)]
  BY Zenon
<1>3. d \in Builders
  BY <1>1, Zenon DEF Made
<1> HIDE DEF d
<1>4. Made(c, d.slices, d.qualified, d.err, d.external, d.self, d.folder, d.allowEmpty, Append(d.said, call))
  BY <1>2, <1>3, CallIsStored
<1> QED
  BY <1>1, <1>4, Zenon DEF Made

LEMMA ExceptIsMade ==
  ASSUME NEW b \in Builders, NEW s \in Sliced, NEW call \in CallsMade, NEW c,
         c = [[b EXCEPT !.slices = s] EXCEPT !.said = Append(@, call)]
  PROVE  Made(c, s, b.qualified, b.err, b.external, b.self, b.folder, b.allowEmpty, Append(b.said, call))
<1> DEFINE d == [b EXCEPT !.slices = s]
<1>1. Made(d, s, b.qualified, b.err, b.external, b.self, b.folder, b.allowEmpty, b.said)
  BY Zenon DEF Builders, Made
<1>2. c = [d EXCEPT !.said = Append(@, call)]
  BY Zenon
<1>3. d \in Builders
  BY <1>1, Zenon DEF Made
<1> HIDE DEF d
<1>4. Made(c, d.slices, d.qualified, d.err, d.external, d.self, d.folder, d.allowEmpty, Append(d.said, call))
  BY <1>2, <1>3, CallIsStored
<1> QED
  BY <1>1, <1>4, Zenon DEF Made

LEMMA FolderIsMade ==
  ASSUME NEW b \in Builders, NEW s \in Sliced, NEW v \in FolderDepth, NEW call \in CallsMade, NEW c,
         c = [[b EXCEPT !.slices = s, !.folder = v] EXCEPT !.said = Append(@, call)]
  PROVE  Made(c, s, b.qualified, b.err, b.external, b.self, v, b.allowEmpty, Append(b.said, call))
<1> DEFINE d == [b EXCEPT !.slices = s, !.folder = v]
<1>1. Made(d, s, b.qualified, b.err, b.external, b.self, v, b.allowEmpty, b.said)
  BY Zenon DEF Builders, Made
<1>2. c = [d EXCEPT !.said = Append(@, call)]
  BY Zenon
<1>3. d \in Builders
  BY <1>1, Zenon DEF Made
<1> HIDE DEF d
<1>4. Made(c, d.slices, d.qualified, d.err, d.external, d.self, d.folder, d.allowEmpty, Append(d.said, call))
  BY <1>2, <1>3, CallIsStored
<1> QED
  BY <1>1, <1>4, Zenon DEF Made

LEMMA ExternalIsMade ==
  ASSUME NEW b \in Builders, NEW s \in Sliced, NEW call \in CallsMade, NEW c,
         c = [[b EXCEPT !.slices = s, !["external"] = TRUE] EXCEPT !.said = Append(@, call)]
  PROVE  Made(c, s, b.qualified, b.err, TRUE, b.self, b.folder, b.allowEmpty, Append(b.said, call))
<1> DEFINE d == [b EXCEPT !.slices = s, !["external"] = TRUE]
<1>1. Made(d, s, b.qualified, b.err, TRUE, b.self, b.folder, b.allowEmpty, b.said)
  BY Zenon DEF Builders, Made
<1>2. c = [d EXCEPT !.said = Append(@, call)]
  BY Zenon
<1>3. d \in Builders
  BY <1>1, Zenon DEF Made
<1> HIDE DEF d
<1>4. Made(c, d.slices, d.qualified, d.err, d.external, d.self, d.folder, d.allowEmpty, Append(d.said, call))
  BY <1>2, <1>3, CallIsStored
<1> QED
  BY <1>1, <1>4, Zenon DEF Made

LEMMA SelfIsMade ==
  ASSUME NEW b \in Builders, NEW s \in Sliced, NEW call \in CallsMade, NEW c,
         c = [[b EXCEPT !.slices = s, !["self"] = TRUE] EXCEPT !.said = Append(@, call)]
  PROVE  Made(c, s, b.qualified, b.err, b.external, TRUE, b.folder, b.allowEmpty, Append(b.said, call))
<1> DEFINE d == [b EXCEPT !.slices = s, !["self"] = TRUE]
<1>1. Made(d, s, b.qualified, b.err, b.external, TRUE, b.folder, b.allowEmpty, b.said)
  BY Zenon DEF Builders, Made
<1>2. c = [d EXCEPT !.said = Append(@, call)]
  BY Zenon
<1>3. d \in Builders
  BY <1>1, Zenon DEF Made
<1> HIDE DEF d
<1>4. Made(c, d.slices, d.qualified, d.err, d.external, d.self, d.folder, d.allowEmpty, Append(d.said, call))
  BY <1>2, <1>3, CallIsStored
<1> QED
  BY <1>1, <1>4, Zenon DEF Made

LEMMA AllowEmptyIsMade ==
  ASSUME NEW b \in Builders, NEW s \in Sliced, NEW call \in CallsMade, NEW c,
         NEW allowed \in BOOLEAN,
         c = [[b EXCEPT !.slices = s, !.allowEmpty = allowed] EXCEPT !.said = Append(@, call)]
  PROVE  Made(c, s, b.qualified, b.err, b.external, b.self, b.folder, allowed, Append(b.said, call))
<1> DEFINE d == [b EXCEPT !.slices = s, !.allowEmpty = allowed]
<1>1. Made(d, s, b.qualified, b.err, b.external, b.self, b.folder, allowed, b.said)
  BY Zenon DEF Builders, Made
<1>2. c = [d EXCEPT !.said = Append(@, call)]
  BY Zenon
<1>3. d \in Builders
  BY <1>1, Zenon DEF Made
<1> HIDE DEF d
<1>4. Made(c, d.slices, d.qualified, d.err, d.external, d.self, d.folder, d.allowEmpty, Append(d.said, call))
  BY <1>2, <1>3, CallIsStored
<1> QED
  BY <1>1, <1>4, Zenon DEF Made

-----------------------------------------------------------------------------
LEMMA OtherIsWritten ==
  ASSUME NEW said \in Seq(CallsMade), NEW call \in CallsMade, NEW new, new = Append(said, call),
         call.verb # "except", NEW l
  PROVE  Written(new, l) = Continued(said, call, l)
BY WrittenOfOther

\* A call that is no except says of every list what it said, and its own entry.
LEMMA OtherCallIsSaid ==
  ASSUME NEW h, NEW g, NEW b \in Builders, Says(h, b), NEW call \in CallsMade, call.verb # "except",
         NEW b2, b2.said = Append(b.said, call), b2.err = b.err,
         \A l \in Range(Lists) :
           Elements(g, b2.slices[l]) =
             IF call.verb = l
             THEN Append(Elements(h, b.slices[l]), OwnEntry(call))
             ELSE Elements(h, b.slices[l]),
         b2.external <=> b.external \/ call.verb = "external", b2.self <=> b.self \/ call.verb = "self",
         b2.allowEmpty <=> call.verb = "allowEmpty" \/ (b.allowEmpty /\ call.verb # "refuseEmpty"),
         b2.folder = IF call.verb = "folder" THEN call.depth ELSE b.folder,
         b2.qualified = IF call.verb \in Range(Lists) THEN call.verb ELSE b.qualified
  PROVE  Says(g, b2)
<1> DEFINE n == Len(b.said)
           said == b.said
           new == b2.said
<1>1. said \in Seq(CallsMade) /\ new = Append(said, call)
  BY DEF Builders
<1> HIDE DEF said, new
<1>2. /\ n \in Nat /\ DOMAIN said = 1 .. n /\ DOMAIN new = 1 .. n + 1 /\ Len(new) = n + 1
      /\ new[n + 1] = call /\ \A i \in 1 .. n : new[i] = said[i]
  BY <1>1, OneMoreCall DEF said
<1>3. ASSUME NEW l \in Range(Lists) PROVE Elements(g, b2.slices[l]) = Written(new, l)
  <2>1. Elements(h, b.slices[l]) = Written(said, l)
    BY DEF Says, said
  <2>2. Written(new, l) = Continued(said, call, l)
    BY <1>1, OtherIsWritten
  <2> QED
    BY <2>1, <2>2 DEF Adds, Continued
<1>4. /\ b2.external <=> Said(new, "external")
      /\ b2.self <=> Said(new, "self")
      /\ b2.allowEmpty <=> AllowsEmpty(new)
  <2>1. \A verb : Said(new, verb) <=> Said(said, verb) \/ call.verb = verb
    BY <1>1, SaidOnce
  <2>2. AllowsEmpty(new) <=> call.verb = "allowEmpty" \/ (AllowsEmpty(said) /\ call.verb # "refuseEmpty")
    BY <1>1, AllowedOnce
  <2> QED
    BY <2>1, <2>2 DEF Says, said
<1>5. b2.folder = Folder(new)
  <2>1. Folder(new) = IF call.verb = "folder" THEN call.depth ELSE Folder(said)
    BY <1>1, FolderOnce
  <2> QED
    BY <2>1 DEF Says, said
<1>6. \A i \in 1 .. n + 1 : i \in 1 .. n \/ i = n + 1
  BY <1>2
<1>7. n + 1 \in 1 .. n + 1 /\ \A i \in 1 .. n : i \in 1 .. n + 1
  BY <1>2
<1>8. "none" \notin Range(Lists)
  BY ListsAre
<1>9. /\ call.verb \in Range(Lists) => Newer(new, n + 1)
      /\ call.verb \notin Range(Lists) => \A s \in 1 .. n : Newer(said, s) => Newer(new, s)
  BY <1>1, NewerOnce DEF said
<1> HIDE DEF n
<1>10. /\ b.qualified = "none" => \A j \in 1 .. n : said[j].verb \notin Range(Lists)
       /\ b.qualified # "none" => \E s \in 1 .. n : Newer(said, s) /\ said[s].verb = b.qualified
  BY DEF Says, said, n
<1>11. b2.qualified = "none" => \A j \in 1 .. Len(new) : new[j].verb \notin Range(Lists)
  BY <1>2, <1>6, <1>8, <1>10
<1>12. b2.qualified # "none" => \E s \in 1 .. Len(new) : Newer(new, s) /\ new[s].verb = b2.qualified
  BY <1>2, <1>7, <1>9, <1>10
<1> QED
  BY <1>3, <1>4, <1>5, <1>11, <1>12 DEF Says, new

\* The builder a call is made on, and the copy the call writes into.
LEMMA CalledBuilder ==
  ASSUME SnapshotInv, NEW b \in DOMAIN builders, NEW old, old = builders[b]
  PROVE  /\ heap \in Seq(Seq(Entries)) /\ old \in Builders /\ Faithful(heap, old)
         /\ Own(old.slices, Modifying(old.slices).heap, Modifying(old.slices).slices)
<1>1. heap \in Seq(Seq(Entries)) /\ builders \in Seq(Builders) /\ Faithful(heap, old)
  BY DEF SnapshotInv
<1>2. old \in Builders
  BY <1>1
<1>3. old.slices \in Sliced /\ \A l \in Range(Lists) : InUse(heap, old.slices[l])
  BY <1>1, <1>2, BuilderIs DEF Faithful
<1> QED
  BY <1>1, <1>2, <1>3, CopiesAreOwn

LEMMA CallsAreMade ==
  /\ Calls \subseteq CallsMade
  /\ \A patterns \in Exceptions : ExceptCall(patterns) \in CallsMade
  /\ \A field \in {"external", "self"} : [NoCall EXCEPT !.verb = field] \in CallsMade
  /\ \A allowed \in BOOLEAN : BagCall(allowed) \in CallsMade
  /\ \A depth \in FolderDepth : [NoCall EXCEPT !.verb = "folder", !.depth = depth] \in CallsMade
  /\ \A call \in Calls : call.verb \in Range(Lists)
<1>1. \A call \in Calls : call.verb \in Range(Lists)
  BY SnapshotAssumption, ListsAre
<1> QED
  BY <1>1, Zenon DEF CallsMade

\* FocusOn, ReachableFrom, DependentsOf and CollapseByPattern.
LEMMA SelectingKeeps ==
  ASSUME SnapshotInv, NEW b \in DOMAIN builders, NEW call \in Calls, Selecting(b, call)
  PROVE  SnapshotInv'
<1> DEFINE old == builders[b]
           own == Modifying(old.slices)
           entry == OwnEntry(call)
           grown == Appended(own.heap, own.slices[call.verb], entry)
           copies == [own.slices EXCEPT ![call.verb] = grown.slice]
           made == [[old EXCEPT !.slices = copies, !.qualified = call.verb] EXCEPT !.said = Append(@, call)]
<1>1. /\ heap' = grown.heap /\ builders' = Append(builders, made) /\ call.pattern \in DOMAIN Describes
      /\ call.verb = "groups" => call.label # << >>
  BY DEF Selecting, Stored, OwnEntry
<1>2. call \in CallsMade /\ call.verb \in Range(Lists)
  BY CallsAreMade
<1>3. /\ heap \in Seq(Seq(Entries)) /\ old \in Builders /\ Faithful(heap, old)
      /\ Own(old.slices, own.heap, own.slices)
  BY CalledBuilder
<1>4. entry \in Entries /\ Unused \in Entries
  BY DEF Entries, Unused, OwnEntry
<1> HIDE DEF own, entry
<1>5. own.heap \in Seq(Seq(Entries)) /\ Grows(heap, own.heap) /\ own.slices \in Sliced
  BY <1>3 DEF Own
<1>6. \A l \in Range(Lists) :
        /\ own.slices[l] \in GoSlices /\ InUse(own.heap, own.slices[l])
        /\ Elements(own.heap, own.slices[l]) = Elements(heap, old.slices[l])
        /\ own.slices[l].len > 0 => own.heap[own.slices[l].array] = Elements(heap, old.slices[l])
        /\ own.slices[l].len = old.slices[l].len
  BY <1>3, <1>5 DEF Own, Sliced
<1>7. own.slices[call.verb].len > 0 => Len(own.heap[own.slices[call.verb].array]) = own.slices[call.verb].len
  <2>1. old.slices[call.verb] \in GoSlices /\ InUse(heap, old.slices[call.verb])
    BY <1>2, <1>3, BuilderSlices DEF Faithful
  <2>2. Len(Elements(heap, old.slices[call.verb])) = old.slices[call.verb].len
    BY <1>3, <2>1, ElementsAre
  <2> QED
    BY <1>2, <1>6, <2>2
<1>8. /\ grown.heap \in Seq(Seq(Entries)) /\ Grows(own.heap, grown.heap)
      /\ grown.slice \in GoSlices /\ grown.slice.len > 0 /\ InUse(grown.heap, grown.slice)
      /\ Elements(grown.heap, grown.slice) = Append(Elements(own.heap, own.slices[call.verb]), entry)
  <2> DEFINE slice == own.slices[call.verb]
  <2>1. slice \in GoSlices /\ InUse(own.heap, slice) /\ (slice.len > 0 => Len(own.heap[slice.array]) = slice.len)
    BY <1>2, <1>6, <1>7
  <2> HIDE DEF slice
  <2>2. /\ Appended(own.heap, slice, entry).heap \in Seq(Seq(Entries))
        /\ Grows(own.heap, Appended(own.heap, slice, entry).heap)
        /\ Appended(own.heap, slice, entry).slice \in GoSlices /\ Appended(own.heap, slice, entry).slice.len > 0
        /\ InUse(Appended(own.heap, slice, entry).heap, Appended(own.heap, slice, entry).slice)
        /\ Elements(Appended(own.heap, slice, entry).heap, Appended(own.heap, slice, entry).slice) =
             Append(Elements(own.heap, slice), entry)
    BY <1>4, <1>5, <2>1, AppendedIsNew
  <2> QED
    BY <2>2, Zenon DEF slice
<1> HIDE DEF grown
<1>9. Grows(heap, heap') /\ heap' \in Seq(Seq(Entries))
  <2>1. Grows(heap, grown.heap)
    BY <1>3, <1>5, <1>8, GrowsOnAndOn
  <2> QED
    BY <1>1, <1>8, <2>1
<1>10. copies \in Sliced
  BY <1>2, <1>5, <1>8 DEF Sliced
<1>11. ASSUME NEW l \in Range(Lists)
       PROVE  /\ InUse(heap', copies[l])
              /\ Elements(heap', copies[l]) =
                   IF call.verb = l THEN Append(Elements(heap, old.slices[l]), entry) ELSE Elements(heap, old.slices[l])
  <2>1. CASE l = call.verb
    <3>1. copies[l] = grown.slice
      BY <1>2, <1>5, <2>1 DEF Sliced
    <3> QED
      BY <1>1, <1>6, <1>8, <2>1, <3>1
  <2>2. CASE l # call.verb
    <3>1. copies[l] = own.slices[l]
      BY <1>2, <1>5, <2>2 DEF Sliced
    <3>2. Elements(heap', own.slices[l]) = Elements(own.heap, own.slices[l]) /\ InUse(heap', own.slices[l])
      BY <1>1, <1>5, <1>6, <1>8, ElementsStay
    <3> QED
      BY <1>6, <2>2, <3>1, <3>2
  <2> QED
    BY <2>1, <2>2
<1>12. Made(made, copies, call.verb, old.err, old.external, old.self, old.folder, old.allowEmpty,
            Append(old.said, call))
  <2> HIDE DEF old, copies
  <2> QED
    BY <1>2, <1>3, <1>10, SelectionIsMade
<1>13. copies[call.verb].len > 0
  BY <1>2, <1>5, <1>8 DEF Sliced
<1> HIDE DEF made, copies, old
<1>14. /\ made \in Builders /\ made.slices = copies /\ made.qualified = call.verb /\ made.err = old.err
       /\ made.external = old.external /\ made.self = old.self /\ made.folder = old.folder
       /\ made.allowEmpty = old.allowEmpty /\ made.said = Append(old.said, call)
  BY <1>12, Zenon DEF Made
<1>15. ASSUME Wrong(old.said) = {} PROVE ~Mistake(made.said, Len(old.said) + 1) /\ Says(heap', made)
  <2>1. made.said[Len(old.said) + 1] = call
    BY <1>2, <1>3, <1>14, BuilderIs, OneMoreCall
  <2>2. call.verb # "except" /\ call.verb # "folder" /\ call.verb # "external" /\ call.verb # "self"
        /\ call.verb # "allowEmpty" /\ call.verb # "refuseEmpty"
    BY <1>2, ListsAre
  <2>3. ~Mistake(made.said, Len(old.said) + 1)
    BY <1>1, <2>1, <2>2, Zenon DEF Mistake
  <2>4. Says(heap, old)
    BY <1>3, <1>15 DEF Faithful
  <2>5. Says(heap', made)
    BY <1>2, <1>3, <1>11, <1>14, <2>2, <2>4, OtherCallIsSaid DEF entry
  <2> QED
    BY <2>3, <2>5
<1>16. Faithful(heap', made)
  BY <1>2, <1>3, <1>11, <1>13, <1>14, <1>15, CallIsTold
<1> QED
  BY <1>1, <1>9, <1>14, <1>16, OneMoreBuilder

-----------------------------------------------------------------------------
LEMMA SaidIsCounted ==
  ASSUME NEW b \in Builders
  PROVE  Len(b.said) \in Nat
BY DEF Builders

\* Said after a chain that made no mistake, the call is one.
Errs(h, b, call) ==
  \A new : (/\ Wrong(b.said) = {} /\ Says(h, b) /\ new = Append(b.said, call)
            /\ new[Len(b.said) + 1] = call /\ \A i \in 1 .. Len(b.said) : new[i] = b.said[i])
           => Mistake(new, Len(b.said) + 1)

LEMMA ExceptNeedsOne ==
  ASSUME NEW b \in Builders, NEW new, NEW call, new[Len(b.said) + 1] = call, call.verb = "except",
         \A j \in 1 .. Len(b.said) : new[j].verb \notin Range(Lists)
  PROVE  Mistake(new, Len(b.said) + 1)
<1> DEFINE n == Len(b.said)
<1>1. n \in Nat
  BY SaidIsCounted
<1>2. new[n + 1] = call /\ \A j \in 1 .. n : new[j].verb \notin Range(Lists)
  OBVIOUS
<1> HIDE DEF n
<1>3. \A j \in 1 .. (n + 1) - 1 : new[j].verb \notin Range(Lists)
  BY <1>1, <1>2
<1>4. Mistake(new, n + 1)
  BY <1>2, <1>3 DEF Mistake
<1> QED
  BY <1>4 DEF n

\* A call that was wrong keeps the memory and the query there was.
LEMMA RejectedKeeps ==
  ASSUME SnapshotInv, NEW b \in DOMAIN builders, NEW call \in CallsMade, NEW cause,
         call.verb # "none", <<call.verb, cause>> \in MistakesMade,
         Stored(Rejecting(builders[b], call.verb, cause), call), UNCHANGED heap,
         Errs(heap, builders[b], call)
  PROVE  SnapshotInv'
<1> DEFINE old == builders[b]
           err == IF old.err # NoMistake THEN old.err ELSE <<call.verb, cause>>
           made == [Rejecting(old, call.verb, cause) EXCEPT !.said = Append(@, call)]
<1>1. builders' = Append(builders, made) /\ heap' = heap
  BY DEF Stored
<1>2. heap \in Seq(Seq(Entries)) /\ old \in Builders /\ Faithful(heap, old)
  BY CalledBuilder
<1>3. Made(made, old.slices, old.qualified, err, old.external, old.self, old.folder, old.allowEmpty,
           Append(old.said, call))
  <2>1. CASE old.err # NoMistake
    <3>1. made = [old EXCEPT !.said = Append(@, call)] /\ err = old.err
      BY <2>1 DEF Rejecting
    <3> HIDE DEF made, err, old
    <3> QED
      BY <1>2, <3>1, CallIsStored
  <2>2. CASE old.err = NoMistake
    <3>1. made = [[old EXCEPT !.err = <<call.verb, cause>>] EXCEPT !.said = Append(@, call)] /\ err = <<call.verb, cause>>
      BY <2>2, Zenon DEF Rejecting
    <3> HIDE DEF made, err, old
    <3> QED
      BY <1>2, <3>1, MistakeIsMade
  <2> QED
    BY <2>1, <2>2
<1>4. Wrong(old.said) = {} => Mistake(Append(old.said, call), Len(old.said) + 1)
  <2> SUFFICES ASSUME Wrong(old.said) = {} PROVE Mistake(Append(old.said, call), Len(old.said) + 1)
    OBVIOUS
  <2>1. Says(heap, old) /\ old.said \in Seq(CallsMade)
    BY <1>2, BuilderIs DEF Faithful
  <2>2. PICK new : new = Append(old.said, call)
    OBVIOUS
  <2>3. new[Len(old.said) + 1] = call /\ \A i \in 1 .. Len(old.said) : new[i] = old.said[i]
    <3> HIDE DEF old
    <3> QED
      BY <2>1, <2>2, OneMoreCall
  <2> QED
    BY <2>1, <2>2, <2>3 DEF Errs
<1> HIDE DEF made, old
<1>5. /\ made \in Builders /\ made.slices = old.slices /\ made.qualified = old.qualified
      /\ made.err = err /\ made.said = Append(old.said, call)
  BY <1>3, Zenon DEF Made
<1>6. Faithful(heap', made)
  <2> HIDE DEF err
  <2>1. made.err = IF old.err # NoMistake THEN old.err ELSE <<call.verb, cause>>
    BY <1>5, Zenon DEF err
  <2> QED
    BY <1>1, <1>2, <1>4, <1>5, <2>1, MistakeIsTold
<1>7. Grows(heap, heap')
  BY <1>1, <1>2 DEF Grows
<1> QED
  BY <1>1, <1>2, <1>5, <1>6, <1>7, OneMoreBuilder

LEMMA SelectingRejectedKeeps ==
  ASSUME SnapshotInv, NEW b \in DOMAIN builders, NEW call \in Calls, SelectingRejected(b, call)
  PROVE  SnapshotInv'
<1>1. call \in CallsMade /\ call.verb \in Range(Lists) /\ call.verb # "none"
  BY CallsAreMade, ListsAre
<1>2. PICK cause \in {"unnamed", "syntax"} : Stored(Rejecting(builders[b], call.verb, cause), call)
  BY DEF SelectingRejected
<1>3. <<call.verb, cause>> \in MistakesMade
  BY <1>1, ListsAre DEF MistakesMade
<1>4. Errs(heap, builders[b], call)
  <2> SUFFICES ASSUME NEW new, Wrong(builders[b].said) = {}, Says(heap, builders[b]), new = Append(builders[b].said, call),
                      new[Len(builders[b].said) + 1] = call,
                      \A i \in 1 .. Len(builders[b].said) : new[i] = builders[b].said[i]
               PROVE  Mistake(new, Len(builders[b].said) + 1)
    BY Zenon DEF Errs
  <2>1. ASSUME NEW i, new[i] = call PROVE Mistake(new, i)
    BY <1>1, <2>1 DEF Mistake, SelectingRejected
  <2> QED
    BY <2>1
<1>5. UNCHANGED heap
  BY DEF SelectingRejected
<1> QED
  BY <1>1, <1>2, <1>3, <1>4, <1>5, RejectedKeeps

LEMMA ExceptRejectedKeeps ==
  ASSUME SnapshotInv, NEW b \in DOMAIN builders, NEW patterns \in Exceptions, ExceptRejected(b, patterns)
  PROVE  SnapshotInv'
<1>1. PICK call \in CallsMade : call = ExceptCall(patterns)
  BY CallsAreMade
<1>2. call.verb = "except" /\ call.except = patterns
  BY <1>1 DEF ExceptCall, NoCall
<1>3. PICK cause \in {"without a selector", "without a pattern", "syntax"} :
        Stored(Rejecting(builders[b], call.verb, cause), call)
  BY <1>1, <1>2 DEF ExceptRejected
<1>4. <<call.verb, cause>> \in MistakesMade /\ call.verb # "none"
  BY <1>2 DEF MistakesMade
<1>5. Errs(heap, builders[b], call)
  <2> SUFFICES ASSUME NEW new, Wrong(builders[b].said) = {}, Says(heap, builders[b]), new = Append(builders[b].said, call),
                      new[Len(builders[b].said) + 1] = call,
                      \A i \in 1 .. Len(builders[b].said) : new[i] = builders[b].said[i]
               PROVE  Mistake(new, Len(builders[b].said) + 1)
    BY Zenon DEF Errs
  <2>1. ASSUME NEW old, old = builders[b], Says(heap, old), new[Len(old.said) + 1] = call,
               \A i \in 1 .. Len(old.said) : new[i] = old.said[i]
        PROVE  Mistake(new, Len(old.said) + 1)
    <3>1. old.qualified = "none" \/ patterns = {} \/ ~(patterns \subseteq DOMAIN Describes)
      BY <2>1 DEF ExceptRejected
    <3>2. CASE patterns = {} \/ ~(patterns \subseteq DOMAIN Describes)
      BY <1>2, <2>1, <3>2 DEF Mistake
    <3>3. CASE old.qualified = "none"
      <4>1. \A j \in 1 .. Len(old.said) : new[j].verb \notin Range(Lists)
        BY <2>1, <3>3 DEF Says
      <4>2. old \in Builders
        BY <2>1, CalledBuilder
      <4> QED
        BY <1>2, <2>1, <4>1, <4>2, ExceptNeedsOne
    <3> QED
      BY <3>1, <3>2, <3>3
  <2> QED
    BY <2>1
<1>6. UNCHANGED heap
  BY DEF ExceptRejected
<1> QED
  BY <1>3, <1>4, <1>5, <1>6, RejectedKeeps

-----------------------------------------------------------------------------
\* A call that adds to no list writes a builder over the copied slices.
LEMMA CopyIsTold ==
  ASSUME NEW old \in Builders, Faithful(heap, old), NEW h, NEW copies, Own(old.slices, h, copies),
         NEW call \in CallsMade, call.verb \notin Range(Lists), call.verb # "except", NEW b2,
         b2.slices = copies, b2.qualified = old.qualified, b2.err = old.err, b2.said = Append(old.said, call),
         b2.external <=> old.external \/ call.verb = "external", b2.self <=> old.self \/ call.verb = "self",
         b2.allowEmpty <=> call.verb = "allowEmpty" \/ (old.allowEmpty /\ call.verb # "refuseEmpty"),
         b2.folder = IF call.verb = "folder" THEN call.depth ELSE old.folder,
         ~Mistake(b2.said, Len(old.said) + 1)
  PROVE  Faithful(h, b2)
<1>1. \A l \in Range(Lists) : /\ InUse(h, b2.slices[l]) /\ b2.slices[l].len = old.slices[l].len
                              /\ Elements(h, b2.slices[l]) = Elements(heap, old.slices[l])
  BY DEF Own
<1>2. b2.qualified # "none" => b2.slices[b2.qualified].len > 0
  <2>1. b2.qualified # "none" => b2.qualified \in Range(Lists)
    BY BuilderIs
  <2> QED
    BY <1>1, <2>1 DEF Faithful
<1>3. Wrong(old.said) = {} => Says(h, b2)
  <2> SUFFICES ASSUME Wrong(old.said) = {} PROVE Says(h, b2)
    OBVIOUS
  <2>1. Says(heap, old)
    BY DEF Faithful
  <2>2. \A l \in Range(Lists) :
          Elements(h, b2.slices[l]) =
            IF call.verb = l THEN Append(Elements(heap, old.slices[l]), OwnEntry(call))
            ELSE Elements(heap, old.slices[l])
    BY <1>1
  <2>3. b2.qualified = IF call.verb \in Range(Lists) THEN call.verb ELSE old.qualified
    OBVIOUS
  <2> QED
    BY <2>1, <2>2, <2>3, OtherCallIsSaid
<1> QED
  BY <1>1, <1>2, <1>3, CallIsTold

LEMMA RightIsNoMistake ==
  ASSUME NEW S, NEW said \in Seq(S), NEW call \in S, NEW new, new = Append(said, call),
         \/ call.verb \in {"external", "self", "allowEmpty", "refuseEmpty"}
         \/ call.verb = "folder" /\ call.depth \in Int /\ call.depth >= 1
  PROVE  ~Mistake(new, Len(said) + 1)
<1>1. new[Len(said) + 1] = call
  BY OneMoreCall
<1>2. call.verb \notin Range(Lists) /\ call.verb # "groups" /\ call.verb # "except"
  BY ListsAre
<1>3. ~(call.verb = "folder" /\ call.depth < 1)
  OBVIOUS
<1> QED
  BY <1>1, <1>2, <1>3, Zenon DEF Mistake

\* IncludingExternalDependencies and IncludingSelfDependencies.
LEMMA SwitchKeeps ==
  ASSUME SnapshotInv, NEW b \in DOMAIN builders, NEW field \in {"external", "self"}, Switch(b, field)
  PROVE  SnapshotInv'
<1> DEFINE own == Modifying(builders[b].slices)
<1>1. PICK old : old = builders[b]
  OBVIOUS
<1>2. PICK call \in CallsMade : call = [NoCall EXCEPT !.verb = field]
  BY CallsAreMade
<1>3. call.verb = field /\ call.verb \notin Range(Lists)
  BY <1>2, ListsAre DEF NoCall
<1>4. /\ heap \in Seq(Seq(Entries)) /\ old \in Builders /\ Faithful(heap, old)
      /\ Own(old.slices, own.heap, own.slices)
  BY <1>1, CalledBuilder
<1>5. PICK made : made = [[old EXCEPT !.slices = own.slices, ![field] = TRUE] EXCEPT !.said = Append(@, call)]
  OBVIOUS
<1>6. heap' = own.heap /\ builders' = Append(builders, made)
  BY <1>1, <1>2, <1>5, Zenon DEF Switch, Stored
<1> HIDE DEF own
<1>7. own.heap \in Seq(Seq(Entries)) /\ Grows(heap, own.heap) /\ own.slices \in Sliced
  BY <1>4 DEF Own
<1>8. PICK copies \in Sliced : copies = own.slices
  BY <1>7
<1>9. /\ field = "external" => Made(made, copies, old.qualified, old.err, TRUE, old.self, old.folder, old.allowEmpty,
                                    Append(old.said, call))
      /\ field = "self" => Made(made, copies, old.qualified, old.err, old.external, TRUE, old.folder, old.allowEmpty,
                                Append(old.said, call))
  <2>1. CASE field = "external"
    <3>1. made = [[old EXCEPT !.slices = copies, !["external"] = TRUE] EXCEPT !.said = Append(@, call)]
      BY <1>5, <1>8, <2>1, Zenon
    <3> QED
      BY <1>4, <2>1, <3>1, ExternalIsMade
  <2>2. CASE field = "self"
    <3>1. made = [[old EXCEPT !.slices = copies, !["self"] = TRUE] EXCEPT !.said = Append(@, call)]
      BY <1>5, <1>8, <2>2, Zenon
    <3> QED
      BY <1>4, <2>2, <3>1, SelfIsMade
  <2> QED
    BY <2>1, <2>2
<1>10. /\ made \in Builders /\ made.slices = copies /\ made.qualified = old.qualified /\ made.err = old.err
       /\ made.said = Append(old.said, call) /\ made.folder = old.folder
  BY <1>9, Zenon DEF Made
<1>11. /\ made.external <=> old.external \/ field = "external"
       /\ made.self <=> old.self \/ field = "self"
       /\ made.allowEmpty = old.allowEmpty
  <2>1. CASE field = "external"
    <3>1. made.external = TRUE /\ made.self = old.self /\ made.allowEmpty = old.allowEmpty
      BY <1>9, <2>1, Zenon DEF Made
    <3>2. field # "self"
      BY <2>1
    <3> QED
      BY <2>1, <3>1, <3>2, Zenon
  <2>2. CASE field = "self"
    <3>1. made.external = old.external /\ made.self = TRUE /\ made.allowEmpty = old.allowEmpty
      BY <1>9, <2>2, Zenon DEF Made
    <3>2. field # "external"
      BY <2>2
    <3> QED
      BY <2>2, <3>1, <3>2, Zenon
  <2> QED
    BY <2>1, <2>2
<1>12. ~Mistake(made.said, Len(old.said) + 1)
  <2>1. old.said \in Seq(CallsMade)
    BY <1>4, BuilderIs
  <2> QED
    BY <1>3, <1>10, <2>1, RightIsNoMistake
<1>13. Faithful(own.heap, made)
  <2>1. Own(old.slices, own.heap, copies)
    BY <1>4, <1>8, Zenon
  <2>2. call.verb \notin {"except", "folder", "allowEmpty", "refuseEmpty"}
    BY <1>3
  <2>3. made.folder = IF call.verb = "folder" THEN call.depth ELSE old.folder
    BY <1>10, <2>2
  <2>4. /\ made.external <=> old.external \/ call.verb = "external"
        /\ made.self <=> old.self \/ call.verb = "self"
        /\ made.allowEmpty <=> call.verb = "allowEmpty" \/ (old.allowEmpty /\ call.verb # "refuseEmpty")
    BY <1>3, <1>11, <2>2
  <2> QED
    BY <1>3, <1>4, <1>10, <1>12, <2>1, <2>2, <2>3, <2>4, CopyIsTold
<1> QED
  BY <1>6, <1>7, <1>10, <1>13, OneMoreBuilder

\* WithCheckOptions.
LEMMA CheckOptionsKeep ==
  ASSUME SnapshotInv, NEW b \in DOMAIN builders, NEW allowed \in BOOLEAN, WithCheckOptions(b, allowed)
  PROVE  SnapshotInv'
<1> DEFINE own == Modifying(builders[b].slices)
<1>1. PICK old : old = builders[b]
  OBVIOUS
<1>2. PICK call \in CallsMade : call = BagCall(allowed)
  BY CallsAreMade
<1>3. call.verb = (IF allowed THEN "allowEmpty" ELSE "refuseEmpty") /\ call.verb \notin Range(Lists)
  BY <1>2, ListsAre DEF BagCall, NoCall
<1>4. /\ heap \in Seq(Seq(Entries)) /\ old \in Builders /\ Faithful(heap, old)
      /\ Own(old.slices, own.heap, own.slices)
  BY <1>1, CalledBuilder
<1>5. PICK made : made = [[old EXCEPT !.slices = own.slices, !.allowEmpty = allowed] EXCEPT !.said = Append(@, call)]
  OBVIOUS
<1>6. heap' = own.heap /\ builders' = Append(builders, made)
  BY <1>1, <1>2, <1>5, Zenon DEF WithCheckOptions, Stored
<1> HIDE DEF own
<1>7. own.heap \in Seq(Seq(Entries)) /\ Grows(heap, own.heap) /\ own.slices \in Sliced
  BY <1>4 DEF Own
<1>8. PICK copies \in Sliced : copies = own.slices
  BY <1>7
<1>9. Made(made, copies, old.qualified, old.err, old.external, old.self, old.folder, allowed, Append(old.said, call))
  <2>1. made = [[old EXCEPT !.slices = copies, !.allowEmpty = allowed] EXCEPT !.said = Append(@, call)]
    BY <1>5, <1>8, Zenon
  <2> QED
    BY <1>4, <2>1, AllowEmptyIsMade
<1>10. /\ made \in Builders /\ made.slices = copies /\ made.qualified = old.qualified /\ made.err = old.err
       /\ made.said = Append(old.said, call) /\ made.folder = old.folder
       /\ made.external = old.external /\ made.self = old.self /\ made.allowEmpty = allowed
  BY <1>9, Zenon DEF Made
<1>11. ~Mistake(made.said, Len(old.said) + 1)
  <2>1. old.said \in Seq(CallsMade)
    BY <1>4, BuilderIs
  <2>2. call.verb \in {"external", "self", "allowEmpty", "refuseEmpty"}
    BY <1>3
  <2> QED
    BY <1>10, <2>1, <2>2, RightIsNoMistake
<1>12. Faithful(own.heap, made)
  <2>1. Own(old.slices, own.heap, copies)
    BY <1>4, <1>8, Zenon
  <2>2. call.verb \notin {"except", "folder", "external", "self"}
    BY <1>3
  <2>3. made.folder = IF call.verb = "folder" THEN call.depth ELSE old.folder
    BY <1>10, <2>2
  <2>4. /\ made.external <=> old.external \/ call.verb = "external"
        /\ made.self <=> old.self \/ call.verb = "self"
        /\ made.allowEmpty <=> call.verb = "allowEmpty" \/ (old.allowEmpty /\ call.verb # "refuseEmpty")
    BY <1>3, <1>10, <2>2
  <2> QED
    BY <1>3, <1>4, <1>10, <1>11, <2>1, <2>2, <2>3, <2>4, CopyIsTold
<1> QED
  BY <1>6, <1>7, <1>10, <1>12, OneMoreBuilder

-----------------------------------------------------------------------------
LEMMA FolderCall ==
  ASSUME NEW depth \in FolderDepth
  PROVE  \E call \in CallsMade : /\ call = [NoCall EXCEPT !.verb = "folder", !.depth = depth]
                                 /\ call.verb = "folder" /\ call.depth = depth /\ depth \in Int
<1>1. PICK call \in CallsMade : call = [NoCall EXCEPT !.verb = "folder", !.depth = depth]
  BY CallsAreMade
<1>2. call.verb = "folder" /\ call.depth = depth
  BY <1>1 DEF NoCall
<1>3. depth \in Int
  BY SnapshotAssumption
<1> QED
  BY <1>1, <1>2, <1>3

\* CollapseToFolderDepth, of a depth that names no folder and of one that does.
LEMMA FolderRejectedKeeps ==
  ASSUME SnapshotInv, NEW b \in DOMAIN builders, NEW depth \in FolderDepth, depth < 1, UNCHANGED heap,
         Stored(Rejecting(builders[b], "folder", "depth"), [NoCall EXCEPT !.verb = "folder", !.depth = depth])
  PROVE  SnapshotInv'
<1>1. PICK call \in CallsMade : /\ call = [NoCall EXCEPT !.verb = "folder", !.depth = depth]
                                /\ call.verb = "folder" /\ call.depth = depth /\ depth \in Int
  BY FolderCall
<1>2. Stored(Rejecting(builders[b], call.verb, "depth"), call)
  BY <1>1, Zenon
<1>3. <<call.verb, "depth">> \in MistakesMade /\ call.verb # "none"
  <2>1. call.verb = "folder"
    BY <1>1
  <2> QED
    BY <2>1 DEF MistakesMade
<1>4. Errs(heap, builders[b], call)
  <2> SUFFICES ASSUME NEW new, Wrong(builders[b].said) = {}, Says(heap, builders[b]), new = Append(builders[b].said, call),
                      new[Len(builders[b].said) + 1] = call,
                      \A i \in 1 .. Len(builders[b].said) : new[i] = builders[b].said[i]
               PROVE  Mistake(new, Len(builders[b].said) + 1)
    BY Zenon DEF Errs
  <2>1. ASSUME NEW i, new[i] = call PROVE Mistake(new, i)
    BY <1>1, <2>1 DEF Mistake
  <2> QED
    BY <2>1
<1> QED
  BY <1>2, <1>3, <1>4, RejectedKeeps

LEMMA CollapseToFolderDepthKeeps ==
  ASSUME SnapshotInv, NEW b \in DOMAIN builders, NEW depth \in FolderDepth, CollapseToFolderDepth(b, depth)
  PROVE  SnapshotInv'
<1> DEFINE own == Modifying(builders[b].slices)
           said == [NoCall EXCEPT !.verb = "folder", !.depth = depth]
<1>1. CASE depth < 1 /\ Stored(Rejecting(builders[b], "folder", "depth"), said) /\ UNCHANGED heap
  BY <1>1, FolderRejectedKeeps
<1>2. CASE depth >= 1 /\ heap' = own.heap /\ Stored([builders[b] EXCEPT !.slices = own.slices, !.folder = depth], said)
  <2>1. PICK old : old = builders[b]
    OBVIOUS
  <2>2. PICK call \in CallsMade : call = said /\ call.verb = "folder" /\ call.depth = depth /\ depth \in Int
    BY FolderCall
  <2>3. /\ heap \in Seq(Seq(Entries)) /\ old \in Builders /\ Faithful(heap, old)
        /\ Own(old.slices, own.heap, own.slices)
    BY <2>1, CalledBuilder
  <2>4. PICK made : made = [[old EXCEPT !.slices = own.slices, !.folder = depth] EXCEPT !.said = Append(@, call)]
    OBVIOUS
  <2>5. heap' = own.heap /\ builders' = Append(builders, made)
    BY <1>2, <2>1, <2>2, <2>4, Zenon DEF Stored
  <2> HIDE DEF own
  <2>6. own.heap \in Seq(Seq(Entries)) /\ Grows(heap, own.heap) /\ own.slices \in Sliced
    BY <2>3 DEF Own
  <2>7. PICK copies \in Sliced : copies = own.slices
    BY <2>6
  <2>8. Made(made, copies, old.qualified, old.err, old.external, old.self, depth, old.allowEmpty,
             Append(old.said, call))
    <3>1. made = [[old EXCEPT !.slices = copies, !.folder = depth] EXCEPT !.said = Append(@, call)]
      BY <2>4, <2>7, Zenon
    <3> QED
      BY <2>3, <3>1, FolderIsMade
  <2>9. /\ made \in Builders /\ made.slices = copies /\ made.qualified = old.qualified /\ made.err = old.err
        /\ made.said = Append(old.said, call) /\ made.folder = depth
        /\ made.external = old.external /\ made.self = old.self /\ made.allowEmpty = old.allowEmpty
    BY <2>8, Zenon DEF Made
  <2>10. ~Mistake(made.said, Len(old.said) + 1)
    <3>1. old.said \in Seq(CallsMade)
      BY <2>3, BuilderIs
    <3> QED
      BY <1>2, <2>2, <2>9, <3>1, RightIsNoMistake
  <2>11. Faithful(own.heap, made)
    <3>1. Own(old.slices, own.heap, copies)
      BY <2>3, <2>7, Zenon
    <3>2. /\ call.verb # "except" /\ call.verb # "external" /\ call.verb # "self"
          /\ call.verb # "allowEmpty" /\ call.verb # "refuseEmpty" /\ call.verb \notin Range(Lists)
      BY <2>2, ListsAre
    <3>3. made.folder = IF call.verb = "folder" THEN call.depth ELSE old.folder
      BY <2>2, <2>9
    <3>4. /\ made.external <=> old.external \/ call.verb = "external"
          /\ made.self <=> old.self \/ call.verb = "self"
          /\ made.allowEmpty <=> call.verb = "allowEmpty" \/ (old.allowEmpty /\ call.verb # "refuseEmpty")
      BY <2>9, <3>2, Zenon
    <3> QED
      BY <2>3, <2>9, <2>10, <3>1, <3>2, <3>3, <3>4, CopyIsTold
  <2> QED
    BY <2>5, <2>6, <2>9, <2>11, OneMoreBuilder
<1> QED
  BY <1>1, <1>2, Zenon DEF CollapseToFolderDepth

-----------------------------------------------------------------------------
LEMMA ExceptIsWritten ==
  ASSUME NEW said \in Seq(CallsMade), NEW call \in CallsMade, NEW new, new = Append(said, call),
         call.verb = "except", NEW s \in 1 .. Len(said), Newer(said, s), NEW list \in Range(Lists)
  PROVE  Excepted(said, new, s, call, list)
BY WrittenOfExcept

\* Except says of the list qualified last what it said with its last entry
\* widened, and of every other list what it said.
LEMMA ExceptIsSaid ==
  ASSUME NEW h, NEW g, NEW b \in Builders, Says(h, b), NEW call \in CallsMade, call.verb = "except",
         b.qualified # "none", NEW b2, b2.said = Append(b.said, call), b2.err = b.err,
         \A l \in Range(Lists) : l # b.qualified => Elements(g, b2.slices[l]) = Elements(h, b.slices[l]),
         WidensLast(Elements(h, b.slices[b.qualified]), Elements(g, b2.slices[b.qualified]), call.except),
         b2.external = b.external, b2.self = b.self, b2.allowEmpty = b.allowEmpty, b2.folder = b.folder,
         b2.qualified = b.qualified
  PROVE  Says(g, b2)
<1> DEFINE n == Len(b.said)
           said == b.said
           new == b2.said
<1>1. said \in Seq(CallsMade) /\ new = Append(said, call)
  BY DEF Builders
<1> HIDE DEF said, new
<1>2. /\ n \in Nat /\ DOMAIN said = 1 .. n /\ DOMAIN new = 1 .. n + 1 /\ Len(new) = n + 1
      /\ new[n + 1] = call /\ \A i \in 1 .. n : new[i] = said[i]
  BY <1>1, OneMoreCall DEF said
<1>3. PICK s \in 1 .. n : Newer(said, s) /\ said[s].verb = b.qualified
  BY DEF Says, said
<1>4. ASSUME NEW l \in Range(Lists) PROVE Elements(g, b2.slices[l]) = Written(new, l)
  <2>1. Elements(h, b.slices[l]) = Written(said, l)
    BY DEF Says, said
  <2>2. /\ ~Adds(said[s], l) => Written(new, l) = Written(said, l)
        /\ Adds(said[s], l) =>
             \E S : \E front \in Seq(S) : \E e \in S :
                /\ Written(said, l) = Append(front, e)
                /\ Written(new, l) = Append(front, Widened(e, call.except))
    <3>1. s \in 1 .. Len(said)
      BY DEF said
    <3>2. Excepted(said, new, s, call, l)
      BY <1>1, <1>3, <3>1, ExceptIsWritten
    <3> QED
      BY <3>2 DEF Excepted
  <2>3. CASE l # b.qualified
    <3>1. ~Adds(said[s], l)
      BY <1>3, <2>3 DEF Adds
    <3> QED
      BY <2>1, <2>2, <2>3, <3>1
  <2>4. CASE l = b.qualified
    <3>1. Adds(said[s], l)
      BY <1>3, <2>4 DEF Adds
    <3>2. PICK S : \E front \in Seq(S) : \E e \in S :
                     /\ Written(said, l) = Append(front, e)
                     /\ Written(new, l) = Append(front, Widened(e, call.except))
      BY <2>2, <3>1
    <3>3. PICK front \in Seq(S) : \E e \in S :
                     /\ Written(said, l) = Append(front, e)
                     /\ Written(new, l) = Append(front, Widened(e, call.except))
      BY <3>2
    <3>4. PICK e \in S : /\ Written(said, l) = Append(front, e)
                         /\ Written(new, l) = Append(front, Widened(e, call.except))
      BY <3>3
    <3>5. Elements(h, b.slices[b.qualified]) = Append(front, e)
      BY <2>1, <2>4, <3>4
    <3>6. Elements(g, b2.slices[b.qualified]) = Append(front, Widened(e, call.except))
      BY <3>5, Zenon DEF WidensLast
    <3> QED
      BY <2>4, <3>4, <3>6
  <2> QED
    BY <2>3, <2>4
<1>5. /\ b2.external <=> Said(new, "external")
      /\ b2.self <=> Said(new, "self")
      /\ b2.allowEmpty <=> AllowsEmpty(new)
  <2>1. \A verb : Said(new, verb) <=> Said(said, verb) \/ call.verb = verb
    BY <1>1, SaidOnce
  <2>2. AllowsEmpty(new) <=> call.verb = "allowEmpty" \/ (AllowsEmpty(said) /\ call.verb # "refuseEmpty")
    BY <1>1, AllowedOnce
  <2> QED
    BY <2>1, <2>2 DEF Says, said
<1>6. b2.folder = Folder(new)
  <2>1. Folder(new) = IF call.verb = "folder" THEN call.depth ELSE Folder(said)
    BY <1>1, FolderOnce
  <2> QED
    BY <2>1 DEF Says, said
<1>7. Newer(new, s)
  <2>1. call.verb \notin Range(Lists)
    BY ListsAre
  <2> QED
    BY <1>1, <1>3, <2>1, NewerOnce DEF said
<1>8. s \in 1 .. Len(new) /\ new[s].verb = b2.qualified
  BY <1>2, <1>3
<1> QED
  BY <1>4, <1>5, <1>6, <1>7, <1>8 DEF Says, new

-----------------------------------------------------------------------------
LEMMA ExceptIsRight ==
  ASSUME NEW b \in Builders, NEW new, NEW call, new[Len(b.said) + 1] = call, call.verb = "except",
         call.except # {}, call.except \subseteq DOMAIN Describes,
         NEW s \in 1 .. Len(b.said), new[s].verb \in Range(Lists)
  PROVE  ~Mistake(new, Len(b.said) + 1)
<1> DEFINE n == Len(b.said)
<1>1. n \in Nat
  BY SaidIsCounted
<1>2. new[n + 1] = call /\ s \in 1 .. n
  OBVIOUS
<1> HIDE DEF n
<1>3. s \in 1 .. (n + 1) - 1
  BY <1>1, <1>2
<1>4. call.verb \notin Range(Lists) /\ call.verb # "groups" /\ call.verb # "folder"
  BY ListsAre
<1>5. ~Mistake(new, n + 1)
  BY <1>2, <1>3, <1>4 DEF Mistake
<1> QED
  BY <1>5 DEF n

\* Except writes into the copy, and over no array a builder holds.
LEMMA ExceptKeeps ==
  ASSUME SnapshotInv, NEW b \in DOMAIN builders, NEW patterns \in Exceptions, Except(b, patterns)
  PROVE  SnapshotInv'
<1> DEFINE own == Modifying(builders[b].slices)
<1>1. PICK old : old = builders[b]
  OBVIOUS
<1>2. PICK call \in CallsMade : call = ExceptCall(patterns) /\ call.verb = "except" /\ call.except = patterns
  <2>1. ExceptCall(patterns) \in CallsMade
    BY CallsAreMade
  <2> QED
    BY <2>1 DEF ExceptCall, NoCall
<1>3. /\ heap \in Seq(Seq(Entries)) /\ old \in Builders /\ Faithful(heap, old)
      /\ Own(old.slices, own.heap, own.slices)
  BY <1>1, CalledBuilder
<1>4. PICK q : q = old.qualified
  OBVIOUS
<1>5. q \in Range(Lists) /\ q # "none" /\ patterns \in SUBSET (DOMAIN Describes) /\ patterns # {}
  <2>1. old.qualified # "none" /\ patterns # {} /\ patterns \subseteq DOMAIN Describes
    BY <1>1, Zenon DEF Except
  <2> QED
    BY <1>3, <1>4, <2>1, BuilderIs
<1>6. PICK h : h = own.heap
  OBVIOUS
<1>7. PICK copies : copies = own.slices
  OBVIOUS
<1>8. PICK last : last = copies[q]
  OBVIOUS
<1>9. PICK made : made = [[old EXCEPT !.slices = copies] EXCEPT !.said = Append(@, call)]
  OBVIOUS
<1>10. /\ heap' = [h EXCEPT ![last.array][last.len].except = @ \cup patterns]
       /\ builders' = Append(builders, made)
  BY <1>1, <1>2, <1>4, <1>6, <1>7, <1>8, <1>9, Zenon DEF Except, Stored
<1>11. Own(old.slices, h, copies)
  BY <1>3, <1>6, <1>7, Zenon
<1> HIDE DEF own
<1>12. h \in Seq(Seq(Entries)) /\ Grows(heap, h) /\ copies \in Sliced
  BY <1>11 DEF Own
<1>13. /\ last \in GoSlices /\ last.len > 0 /\ InUse(h, last) /\ last.array > Len(heap)
       /\ \A l \in Range(Lists) : l # q => copies[l].array # last.array
  <2>1. last \in GoSlices
    BY <1>5, <1>8, <1>12 DEF Sliced
  <2>2. old.slices[q].len > 0
    BY <1>3, <1>4, <1>5 DEF Faithful
  <2>3. last.len > 0
    BY <1>5, <1>8, <1>11, <2>2 DEF Own
  <2> QED
    BY <1>5, <1>8, <1>11, <2>1, <2>3 DEF Own
<1>14. PICK g : g = heap'
  OBVIOUS
<1>15. /\ g \in Seq(Seq(Entries)) /\ Len(g) = Len(h) /\ InUse(g, last)
       /\ \A a \in 1 .. Len(h) : a # last.array => g[a] = h[a]
       /\ WidensLast(Elements(h, last), Elements(g, last), patterns)
  <2>1. g = LastWidened(h, last, patterns)
    BY <1>10, <1>14 DEF LastWidened
  <2> QED
    BY <1>5, <1>12, <1>13, <2>1, LastIsWidened
<1>16. Grows(heap, g)
  <2>1. Len(heap) \in Nat /\ Len(h) \in Nat
    BY <1>3, <1>12
  <2>2. \A a \in 1 .. Len(heap) : a \in 1 .. Len(h) /\ a # last.array
    BY <1>12, <1>13, <2>1 DEF Grows, GoSlices
  <2> QED
    BY <1>12, <1>15, <2>1, <2>2 DEF Grows
<1>17. ASSUME NEW l \in Range(Lists), l # q
       PROVE  InUse(g, copies[l]) /\ Elements(g, copies[l]) = Elements(heap, old.slices[l])
  <2>1. /\ InUse(h, copies[l]) /\ Elements(h, copies[l]) = Elements(heap, old.slices[l])
        /\ copies[l] \in GoSlices /\ copies[l].array # last.array
    BY <1>11, <1>12, <1>13, <1>17 DEF Own, Sliced
  <2>2. copies[l].len \in Nat
    BY <2>1 DEF GoSlices
  <2>3. CASE copies[l].len = 0
    BY <2>1, <2>3 DEF InUse, Elements
  <2>4. CASE copies[l].len # 0
    <3>1. copies[l].len > 0
      BY <2>2, <2>4
    <3>2. copies[l].array \in 1 .. Len(h) /\ g[copies[l].array] = h[copies[l].array]
      BY <1>15, <2>1, <3>1 DEF InUse
    <3> QED
      BY <1>15, <2>1, <3>1, <3>2 DEF InUse, Elements
  <2> QED
    BY <2>3, <2>4
<1>18. Made(made, copies, old.qualified, old.err, old.external, old.self, old.folder, old.allowEmpty,
            Append(old.said, call))
  BY <1>3, <1>9, <1>12, ExceptIsMade
<1>19. /\ made \in Builders /\ made.slices = copies /\ made.qualified = old.qualified /\ made.err = old.err
       /\ made.external = old.external /\ made.self = old.self /\ made.folder = old.folder
       /\ made.allowEmpty = old.allowEmpty /\ made.said = Append(old.said, call)
  BY <1>18, Zenon DEF Made
<1>20. ASSUME Wrong(old.said) = {} PROVE ~Mistake(made.said, Len(old.said) + 1) /\ Says(g, made)
  <2>1. Says(heap, old)
    BY <1>3, <1>20 DEF Faithful
  <2>2. /\ Len(old.said) \in Nat /\ made.said[Len(old.said) + 1] = call
        /\ \A i \in 1 .. Len(old.said) : made.said[i] = old.said[i]
    BY <1>3, <1>19, BuilderIs, OneMoreCall
  <2>3. PICK s \in 1 .. Len(old.said) : Newer(old.said, s) /\ old.said[s].verb = q
    BY <1>4, <1>5, <2>1 DEF Says
  <2>4. ~Mistake(made.said, Len(old.said) + 1)
    <3>1. made.said[s].verb \in Range(Lists) /\ call.except # {} /\ call.except \subseteq DOMAIN Describes
      BY <1>2, <1>5, <2>2, <2>3
    <3> QED
      BY <1>2, <1>3, <2>2, <3>1, ExceptIsRight
  <2>5. WidensLast(Elements(heap, old.slices[q]), Elements(g, made.slices[q]), call.except)
    <3>1. Elements(h, last) = Elements(heap, old.slices[q])
      BY <1>5, <1>8, <1>11 DEF Own
    <3>2. made.slices[q] = last
      BY <1>8, <1>19
    <3> QED
      BY <1>2, <1>15, <3>1, <3>2, Zenon
  <2>6. \A l \in Range(Lists) : l # q => Elements(g, made.slices[l]) = Elements(heap, old.slices[l])
    BY <1>17, <1>19
  <2>7. Says(g, made)
    BY <1>2, <1>3, <1>4, <1>5, <1>19, <2>1, <2>5, <2>6, ExceptIsSaid
  <2> QED
    BY <2>4, <2>7
<1>21. \A l \in Range(Lists) : InUse(g, made.slices[l])
  BY <1>8, <1>15, <1>17, <1>19
<1>22. made.qualified # "none" => made.slices[made.qualified].len > 0
  BY <1>4, <1>8, <1>13, <1>19
<1>23. Faithful(g, made)
  BY <1>3, <1>19, <1>20, <1>21, <1>22, CallIsTold
<1> QED
  BY <1>10, <1>14, <1>15, <1>16, <1>19, <1>23, OneMoreBuilder

-----------------------------------------------------------------------------
LEMMA NothingIsWritten ==
  ASSUME NEW list
  PROVE  Written(<< >>, list) = << >>
<1>1. \E w \in [0 .. Len(<< >>) -> Seq({})] : Written(<< >>, list) = w[Len(<< >>)] /\ Gathers(w, << >>, list)
  <2>1. << >> \in Seq({}) /\ \A i \in 1 .. Len(<< >>) : Entry(<< >>, i) \in {}
    OBVIOUS
  <2> QED
    BY <2>1, WrittenUnfolds
<1> QED
  BY <1>1 DEF Gathers

LEMMA ProjectGraphIsABuilder == ProjectGraph \in Builders
<1>1. [l \in Range(Lists) |-> NoSlice] \in Sliced
  BY DEF NoSlice, Sliced, GoSlices
<1>2. NoMistake \in MistakesMade
  BY DEF MistakesMade
<1>3. << >> \in Seq(CallsMade)
  OBVIOUS
<1> QED
  BY <1>1, <1>2, <1>3, Zenon DEF ProjectGraph, Builders

LEMMA SnapshotStarts == SnapshotInit => SnapshotInv
<1> SUFFICES ASSUME SnapshotInit PROVE SnapshotInv
  OBVIOUS
<1>1. heap = << >> /\ builders = <<ProjectGraph>>
  BY DEF SnapshotInit
<1>2. PICK b : b = ProjectGraph
  OBVIOUS
<1>3. /\ b.slices = [l \in Range(Lists) |-> NoSlice] /\ b.qualified = "none" /\ b.err = NoMistake
      /\ b.external = FALSE /\ b.self = FALSE /\ b.folder = 0 /\ b.allowEmpty = FALSE /\ b.said = << >>
  BY <1>2 DEF ProjectGraph
<1>4. DOMAIN b.said = {} /\ Len(b.said) = 0
  BY <1>3
<1>5. Wrong(b.said) = {} /\ ~AllowsEmpty(b.said) /\ \A verb : ~Said(b.said, verb)
  BY <1>4 DEF Wrong, AllowsEmpty, Said
<1>6. \A l \in Range(Lists) : b.slices[l] = NoSlice
  BY <1>3
<1>7. NoSlice.len = 0
  BY DEF NoSlice
<1>8. \A l \in Range(Lists) : InUse(heap, b.slices[l]) /\ Elements(heap, b.slices[l]) = << >>
  BY <1>6, <1>7 DEF InUse, Elements
<1>9. \A l \in Range(Lists) : Written(b.said, l) = << >>
  BY <1>3, NothingIsWritten
<1>10. b.folder = Folder(b.said)
  BY <1>3, <1>5 DEF Folder
<1>11. Says(heap, b)
  <2>1. \A j \in 1 .. Len(b.said) : b.said[j].verb \notin Range(Lists)
    BY <1>4
  <2>2. \A l \in Range(Lists) : Elements(heap, b.slices[l]) = Written(b.said, l)
    BY <1>8, <1>9
  <2>3. /\ b.external <=> Said(b.said, "external")
        /\ b.self <=> Said(b.said, "self")
        /\ b.allowEmpty <=> AllowsEmpty(b.said)
    BY <1>3, <1>5
  <2> QED
    BY <1>3, <1>10, <2>1, <2>2, <2>3 DEF Says
<1>12. Faithful(heap, b)
  BY <1>3, <1>5, <1>8, <1>11 DEF Faithful
<1>13. heap \in Seq(Seq(Entries))
  BY <1>1
<1>14. builders \in Seq(Builders) /\ \A i \in DOMAIN builders : builders[i] = b
  BY <1>1, <1>2, ProjectGraphIsABuilder
<1> QED
  BY <1>12, <1>13, <1>14 DEF SnapshotInv

\* No step undoes what a builder means.
LEMMA SnapshotKeeps == SnapshotInv /\ [SnapshotNext]_snapshotVars => SnapshotInv'
<1> SUFFICES ASSUME SnapshotInv, [SnapshotNext]_snapshotVars PROVE SnapshotInv'
  OBVIOUS
<1>1. CASE UNCHANGED snapshotVars
  BY <1>1 DEF snapshotVars, SnapshotInv
<1>2. ASSUME NEW b \in DOMAIN builders, NEW call \in Calls, Selecting(b, call) PROVE SnapshotInv'
  BY <1>2, SelectingKeeps
<1>3. ASSUME NEW b \in DOMAIN builders, NEW call \in Calls, SelectingRejected(b, call) PROVE SnapshotInv'
  BY <1>3, SelectingRejectedKeeps
<1>4. ASSUME NEW b \in DOMAIN builders, NEW patterns \in Exceptions, Except(b, patterns) PROVE SnapshotInv'
  BY <1>4, ExceptKeeps
<1>5. ASSUME NEW b \in DOMAIN builders, NEW patterns \in Exceptions, ExceptRejected(b, patterns) PROVE SnapshotInv'
  BY <1>5, ExceptRejectedKeeps
<1>6. ASSUME NEW b \in DOMAIN builders, NEW field \in {"external", "self"}, Switch(b, field)
      PROVE  SnapshotInv'
  BY <1>6, SwitchKeeps
<1>7. ASSUME NEW b \in DOMAIN builders, NEW depth \in FolderDepth, CollapseToFolderDepth(b, depth)
      PROVE  SnapshotInv'
  BY <1>7, CollapseToFolderDepthKeeps
<1>8. ASSUME NEW b \in DOMAIN builders, Snapshot(b) \/ SnapshotFails(b) PROVE SnapshotInv'
  BY <1>8 DEF Snapshot, SnapshotFails, SnapshotInv
<1>9. ASSUME NEW b \in DOMAIN builders, NEW allowed \in BOOLEAN, WithCheckOptions(b, allowed) PROVE SnapshotInv'
  BY <1>9, CheckOptionsKeep
<1> QED
  BY <1>1, <1>2, <1>3, <1>4, <1>5, <1>6, <1>7, <1>8, <1>9, Zenon DEF SnapshotNext

LEMMA FaithfulIsMeant == SnapshotInv => EveryBuilderMeansItsChain
<1> SUFFICES ASSUME SnapshotInv, NEW b \in DOMAIN builders
             PROVE  LET said == builders[b].said
                        wrong == {i \in DOMAIN said : Mistake(said, i)}
                    IN  IF wrong = {} THEN builders[b].err = NoMistake /\ Query(b) = Asked(said)
                        ELSE builders[b].err[1] = said[CHOOSE i \in wrong : \A j \in wrong : i <= j].verb
  BY Zenon DEF EveryBuilderMeansItsChain
<1>1. PICK old : old = builders[b]
  OBVIOUS
<1>2. old \in Builders /\ Faithful(heap, old)
  BY <1>1, CalledBuilder
<1>3. ASSUME Wrong(old.said) = {} PROVE old.err = NoMistake /\ Query(b) = Asked(old.said)
  <2>1. Says(heap, old)
    BY <1>2, <1>3 DEF Faithful
  <2>2. [l \in Range(Lists) |-> Elements(heap, old.slices[l])] = [l \in Range(Lists) |-> Written(old.said, l)]
    BY <2>1 DEF Says
  <2>3. /\ old.external = Said(old.said, "external") /\ old.self = Said(old.said, "self")
        /\ old.folder = IF Said(old.said, "folder") THEN old.said[Newest(old.said, "folder")].depth ELSE 0
    <3>1. old.external \in BOOLEAN /\ old.self \in BOOLEAN
      BY <1>2, BuilderIs
    <3>2. Said(old.said, "external") \in BOOLEAN /\ Said(old.said, "self") \in BOOLEAN
      BY DEF Said
    <3> QED
      BY <2>1, <3>1, <3>2 DEF Says, Folder
  <2>4. Query(b) = [lists |-> [l \in Range(Lists) |-> Elements(heap, old.slices[l])],
                    external |-> old.external, self |-> old.self, folder |-> old.folder]
    BY <1>1, Zenon DEF Query
  <2>5. Query(b) = Asked(old.said)
    BY <2>2, <2>3, <2>4, Zenon DEF Asked
  <2> QED
    BY <2>1, <2>5 DEF Says
<1>4. ASSUME Wrong(old.said) # {}
      PROVE  old.err[1] = old.said[CHOOSE i \in Wrong(old.said) : \A j \in Wrong(old.said) : i <= j].verb
  BY <1>2, <1>4, Zenon DEF Faithful, First
<1> QED
  BY <1>1, <1>3, <1>4, Zenon DEF Wrong

\* Every builder of every chain of calls, branched anywhere, means what its
\* chain says: a copy owns its arrays, and memory in use is never written over.
THEOREM BuildersMeanTheirChains == SnapshotSpec => []EveryBuilderMeansItsChain
<1>1. SnapshotInit => SnapshotInv
  BY SnapshotStarts
<1>2. SnapshotInv /\ [SnapshotNext]_snapshotVars => SnapshotInv'
  BY SnapshotKeeps
<1>3. SnapshotInv => EveryBuilderMeansItsChain
  BY FaithfulIsMeant
<1> QED
  BY <1>1, <1>2, <1>3, PTL DEF SnapshotSpec

-----------------------------------------------------------------------------
\* One turn of the loop of reach, and the turns from the first on.
Turn(at, h, links, depth) ==
  IF at.frontier = {} \/ (depth >= 0 /\ h - 1 >= depth) THEN at
  ELSE [reached |-> at.reached \cup {n \in Nodes : \E m \in at.frontier : <<m, n>> \in links},
        frontier |-> {n \in Nodes \ at.reached : \E m \in at.frontier : <<m, n>> \in links}]

Stages == [reached : SUBSET Nodes, frontier : SUBSET Nodes]

Turns(w, last, seeds, links, depth) ==
  /\ w \in [0 .. last -> Stages]
  /\ w[0] = [reached |-> seeds, frontier |-> seeds]
  /\ \A h \in 1 .. last : w[h] = Turn(w[h - 1], h, links, depth)

LEMMA TurnIsStage ==
  ASSUME NEW at \in Stages, NEW h, NEW links, NEW depth
  PROVE  Turn(at, h, links, depth) \in Stages
BY DEF Turn, Stages

LEMMA ReachUnfolds ==
  ASSUME IsFiniteSet(Nodes), NEW seeds \in SUBSET Nodes, NEW links, NEW depth \in Int
  PROVE  \E w : /\ Turns(w, Cardinality(Nodes), seeds, links, depth)
                /\ Reach(seeds, links, depth) = w[Cardinality(Nodes)].reached
<1> DEFINE last == Cardinality(Nodes)
           base == [reached |-> seeds, frontier |-> seeds]
           Is(w) == w = [h \in 0 .. last |-> IF h = 0 THEN base ELSE Turn(w[h - 1], h, links, depth)]
           F == [h \in 1 .. last |-> [at \in Stages |-> Turn(at, h, links, depth)]]
<1>1. last \in Nat
  BY FS_CardinalityType
<1>2. base \in Stages
  BY DEF Stages
<1>3. Reach(seeds, links, depth) = (CHOOSE w : Is(w))[last].reached
  BY Zenon DEF Reach, Turn
<1> HIDE DEF last, base
<1>4. F \in [1 .. last -> [Stages -> Stages]]
  BY TurnIsStage
<1>5. \A h \in 1 .. last, at \in Stages : F[h][at] = Turn(at, h, links, depth)
  OBVIOUS
<1> HIDE DEF F
<1>6. PICK v \in [0 .. last -> Stages] : StepByStep(v, last, base, F)
  BY <1>1, <1>2, <1>4, RecursionExists
<1>7. \A h \in 1 .. last : h \in 0 .. last /\ h - 1 \in 0 .. last /\ h # 0
  BY <1>1
<1>8. \A h \in 0 .. last : h = 0 \/ h \in 1 .. last
  BY <1>1
<1>9. Is(v)
  <2>1. v = [h \in 0 .. last |-> v[h]]
    BY <1>6
  <2>2. v[0] = base /\ \A h \in 1 .. last : v[h] = F[h][v[h - 1]]
    BY <1>6 DEF StepByStep
  <2>3. ASSUME NEW h \in 0 .. last
        PROVE  v[h] = IF h = 0 THEN base ELSE Turn(v[h - 1], h, links, depth)
    <3>1. CASE h = 0
      BY <2>2, <3>1
    <3>2. CASE h \in 1 .. last
      <4>1. v[h - 1] \in Stages /\ h # 0
        BY <1>6, <1>7, <3>2
      <4>2. v[h] = F[h][v[h - 1]] /\ F[h][v[h - 1]] = Turn(v[h - 1], h, links, depth)
        BY <1>5, <2>2, <3>2, <4>1
      <4> QED
        BY <4>1, <4>2
    <3> QED
      BY <1>8, <3>1, <3>2
  <2> QED
    BY <2>1, <2>3
<1>10. PICK w : w = (CHOOSE u : Is(u)) /\ Is(w)
  BY <1>9, Zenon
<1>11. w[0] = base /\ \A h \in 1 .. last : w[h] = Turn(w[h - 1], h, links, depth)
  <2> DEFINE f == [h \in 0 .. last |-> IF h = 0 THEN base ELSE Turn(w[h - 1], h, links, depth)]
  <2>1. 0 \in 0 .. last
    BY <1>1
  <2>2. f[0] = base /\ \A h \in 1 .. last : f[h] = Turn(w[h - 1], h, links, depth)
    BY <1>7, <2>1
  <2>3. w = f
    BY <1>10
  <2> HIDE DEF f
  <2> QED
    BY <2>2, <2>3
<1>12. w \in [0 .. last -> Stages]
  <2> DEFINE Good == {h \in 0 .. last : w[h] \in Stages}
  <2>1. 0 \in Good
    BY <1>1, <1>2, <1>11
  <2>2. \A h \in 1 .. last : h - 1 \in Good => h \in Good
    BY <1>7, <1>11, TurnIsStage
  <2> HIDE DEF Good
  <2>3. \A h \in 0 .. last : h \in Good
    BY <1>1, <2>1, <2>2, Induction
  <2>4. w = [h \in 0 .. last |-> IF h = 0 THEN base ELSE Turn(w[h - 1], h, links, depth)]
    BY <1>10
  <2>5. w = [h \in 0 .. last |-> w[h]]
    BY <2>4
  <2>6. \A h \in 0 .. last : w[h] \in Stages
    BY <2>3 DEF Good
  <2> QED
    BY <2>5, <2>6
<1> HIDE DEF Is
<1> QED
  BY <1>3, <1>10, <1>11, <1>12, Zenon DEF Turns, last, base

\* What a turn does to what has been reached.
Advances(at, new, h, links, depth) ==
  /\ at.reached \subseteq new.reached
  /\ at.frontier = {} \/ (depth >= 0 /\ h - 1 >= depth) => new = at
  /\ at.frontier # {} /\ ~(depth >= 0 /\ h - 1 >= depth) =>
       /\ \A x \in Nodes : x \in new.reached <=> x \in at.reached \/ \E m \in at.frontier : <<m, x>> \in links
       /\ new.frontier = new.reached \ at.reached

LEMMA TurnWorks ==
  ASSUME NEW at \in Stages, NEW h, NEW links, NEW depth, NEW new, new = Turn(at, h, links, depth)
  PROVE  Advances(at, new, h, links, depth)
<1>1. CASE at.frontier = {} \/ (depth >= 0 /\ h - 1 >= depth)
  <2>1. new = at
    BY <1>1 DEF Turn
  <2> QED
    BY <1>1, <2>1 DEF Advances
<1>2. CASE ~(at.frontier = {} \/ (depth >= 0 /\ h - 1 >= depth))
  <2> DEFINE more == {n \in Nodes : \E m \in at.frontier : <<m, n>> \in links}
             fresh == {n \in Nodes \ at.reached : \E m \in at.frontier : <<m, n>> \in links}
  <2>1. new = [reached |-> at.reached \cup more, frontier |-> fresh]
    BY <1>2, Zenon DEF Turn
  <2>2. new.reached = at.reached \cup more /\ new.frontier = fresh
    BY <2>1
  <2>3. fresh = more \ at.reached
    OBVIOUS
  <2> QED
    BY <1>2, <2>2, <2>3 DEF Advances
<1> QED
  BY <1>1, <1>2

\* After any number of turns: nothing is lost, what is behind the frontier has
\* had its links followed, and the loop goes on only while it finds something.
LEMMA TurnsWork ==
  ASSUME IsFiniteSet(Nodes), NEW seeds \in SUBSET Nodes, NEW links, NEW depth \in Int, NEW last \in Nat, NEW w,
         Turns(w, last, seeds, links, depth)
  PROVE  \A h \in 0 .. last :
           /\ w[h] \in Stages /\ seeds \subseteq w[h].reached /\ w[h].frontier \subseteq w[h].reached
           /\ \A m \in w[h].reached \ w[h].frontier : \A x \in Nodes : <<m, x>> \in links => x \in w[h].reached
           /\ w[h].frontier # {} /\ (depth < 0 \/ h <= depth) => Cardinality(w[h].reached) >= h + 1
<1> DEFINE Good ==
      {h \in 0 .. last :
         /\ seeds \subseteq w[h].reached /\ w[h].frontier \subseteq w[h].reached
         /\ \A m \in w[h].reached \ w[h].frontier : \A x \in Nodes : <<m, x>> \in links => x \in w[h].reached
         /\ w[h].frontier # {} /\ (depth < 0 \/ h <= depth) => Cardinality(w[h].reached) >= h + 1}
<1>1. /\ \A h \in 0 .. last : w[h] \in Stages
      /\ w[0] = [reached |-> seeds, frontier |-> seeds]
      /\ \A h \in 1 .. last : w[h] = Turn(w[h - 1], h, links, depth)
  BY DEF Turns
<1>2. \A h \in 1 .. last : h \in 0 .. last /\ h - 1 \in 0 .. last /\ h \in Nat
  OBVIOUS
<1>3. \A h \in 0 .. last :
        /\ w[h].reached \in SUBSET Nodes /\ w[h].frontier \in SUBSET Nodes
        /\ IsFiniteSet(w[h].reached) /\ Cardinality(w[h].reached) \in Nat
  BY <1>1, FS_Subset, FS_CardinalityType DEF Stages
<1>4. 0 \in Good
  <2>1. w[0].reached = seeds /\ w[0].frontier = seeds /\ 0 \in 0 .. last
    BY <1>1
  <2>2. seeds # {} => Cardinality(seeds) >= 1
    <3>1. IsFiniteSet(seeds) /\ Cardinality(seeds) \in Nat
      BY <1>3, <2>1
    <3>2. Cardinality(seeds) = 0 <=> seeds = {}
      BY <3>1, FS_EmptySet
    <3> QED
      BY <3>1, <3>2
  <2> QED
    BY <2>1, <2>2
<1>5. ASSUME NEW h \in 1 .. last, h - 1 \in Good PROVE h \in Good
  <2>1. PICK at, new : at = w[h - 1] /\ new = w[h]
    OBVIOUS
  <2>2. /\ at \in Stages /\ new \in Stages /\ new = Turn(at, h, links, depth) /\ h \in Nat /\ h \in 0 .. last
    BY <1>1, <1>2, <2>1
  <2>3. /\ seeds \subseteq at.reached /\ at.frontier \subseteq at.reached
        /\ \A m \in at.reached \ at.frontier : \A x \in Nodes : <<m, x>> \in links => x \in at.reached
        /\ at.frontier # {} /\ (depth < 0 \/ h - 1 <= depth) => Cardinality(at.reached) >= (h - 1) + 1
    BY <1>5, <2>1
  <2>4. Advances(at, new, h, links, depth)
    BY <2>2, TurnWorks
  <2>5. /\ IsFiniteSet(new.reached) /\ Cardinality(new.reached) \in Nat /\ Cardinality(at.reached) \in Nat
    BY <1>2, <1>3, <2>1
  <2>6. CASE at.frontier = {} \/ (depth >= 0 /\ h - 1 >= depth)
    <3>1. new = at
      BY <2>4, <2>6 DEF Advances
    <3>2. ~(at.frontier # {} /\ (depth < 0 \/ h <= depth))
      BY <2>2, <2>6
    <3>3. /\ seeds \subseteq new.reached /\ new.frontier \subseteq new.reached
          /\ \A m \in new.reached \ new.frontier : \A x \in Nodes : <<m, x>> \in links => x \in new.reached
          /\ ~(new.frontier # {} /\ (depth < 0 \/ h <= depth))
      BY <2>3, <3>1, <3>2
    <3> QED
      BY <2>1, <2>2, <3>3
  <2>7. CASE ~(at.frontier = {} \/ (depth >= 0 /\ h - 1 >= depth))
    <3>1. /\ \A x \in Nodes : x \in new.reached <=> x \in at.reached \/ \E m \in at.frontier : <<m, x>> \in links
          /\ new.frontier = new.reached \ at.reached
      BY <2>4, <2>7 DEF Advances
    <3>2. seeds \subseteq new.reached /\ new.frontier \subseteq new.reached
      BY <2>3, <2>4, <3>1 DEF Advances
    <3>3. ASSUME NEW m \in new.reached \ new.frontier, NEW x \in Nodes, <<m, x>> \in links PROVE x \in new.reached
      <4>1. m \in at.reached
        BY <3>1, <3>3
      <4>2. CASE m \in at.frontier
        BY <3>1, <3>3, <4>2
      <4>3. CASE m \notin at.frontier
        BY <2>3, <2>4, <3>3, <4>1, <4>3 DEF Advances
      <4> QED
        BY <4>2, <4>3
    <3>4. ASSUME new.frontier # {} PROVE Cardinality(new.reached) >= h + 1
      <4>1. at.reached \subseteq new.reached /\ at.reached # new.reached
        BY <2>4, <3>1, <3>4 DEF Advances
      <4>2. Cardinality(at.reached) <= Cardinality(new.reached) /\ Cardinality(at.reached) # Cardinality(new.reached)
        BY <2>5, <4>1, FS_Subset
      <4>3. at.frontier # {} /\ (depth < 0 \/ h - 1 <= depth)
        BY <2>2, <2>7
      <4>4. Cardinality(at.reached) >= (h - 1) + 1
        BY <2>3, <4>3
      <4> QED
        BY <2>2, <2>5, <4>2, <4>4
    <3> QED
      BY <2>1, <2>2, <3>2, <3>3, <3>4
  <2> QED
    BY <2>6, <2>7
<1> HIDE DEF Good
<1>6. \A h \in 0 .. last : h \in Good
  BY <1>4, <1>5, Induction
<1> QED
  BY <1>1, <1>6 DEF Good

-----------------------------------------------------------------------------
FollowsLinks(S, links) == \A m \in S : \A x \in Nodes : <<m, x>> \in links => x \in S

\* What is reached never leaves a set that the links do not leave.
LEMMA ReachStaysIn ==
  ASSUME IsFiniteSet(Nodes), NEW seeds \in SUBSET Nodes, NEW links, NEW depth \in Int,
         NEW S, seeds \subseteq S, FollowsLinks(S, links)
  PROVE  Reach(seeds, links, depth) \subseteq S
<1> DEFINE last == Cardinality(Nodes)
<1>1. PICK w : Turns(w, last, seeds, links, depth) /\ Reach(seeds, links, depth) = w[last].reached
  BY ReachUnfolds
<1>2. last \in Nat
  BY FS_CardinalityType
<1> HIDE DEF last
<1>3. \A h \in 0 .. last : w[h] \in Stages /\ w[h].frontier \subseteq w[h].reached
  BY <1>1, <1>2, TurnsWork
<1> DEFINE Good == {h \in 0 .. last : w[h].reached \subseteq S}
<1>4. 0 \in Good
  BY <1>1, <1>2 DEF Turns
<1>5. ASSUME NEW h \in 1 .. last, h - 1 \in Good PROVE h \in Good
  <2>1. PICK at, new : at = w[h - 1] /\ new = w[h]
    OBVIOUS
  <2>2. h - 1 \in 0 .. last /\ h \in 0 .. last
    BY <1>2
  <2>3. /\ at \in Stages /\ new \in Stages /\ new = Turn(at, h, links, depth)
        /\ at.reached \subseteq S /\ at.frontier \subseteq at.reached
    BY <1>1, <1>3, <1>5, <2>1, <2>2 DEF Turns
  <2>4. Advances(at, new, h, links, depth)
    BY <2>3, TurnWorks
  <2>5. new.reached \subseteq S
    BY <2>3, <2>4 DEF Advances, FollowsLinks, Stages
  <2> QED
    BY <2>1, <2>2, <2>5
<1> HIDE DEF Good
<1>6. \A h \in 0 .. last : h \in Good
  BY <1>2, <1>4, <1>5, Induction
<1> QED
  BY <1>1, <1>2, <1>6 DEF Good

\* A bound that more turns than there are nodes would not meet is no bound.
LEMMA ReachFollowsLinks ==
  ASSUME IsFiniteSet(Nodes), NEW seeds \in SUBSET Nodes, NEW links, NEW depth \in Int,
         depth < 0 \/ Cardinality(Nodes) <= depth
  PROVE  FollowsLinks(Reach(seeds, links, depth), links)
<1> DEFINE last == Cardinality(Nodes)
<1>1. PICK w : Turns(w, last, seeds, links, depth) /\ Reach(seeds, links, depth) = w[last].reached
  BY ReachUnfolds
<1>2. last \in Nat
  BY FS_CardinalityType
<1>3. Cardinality(w[last].reached) <= last /\ Cardinality(w[last].reached) \in Nat
  <2>1. w[last] \in Stages
    BY <1>1, <1>2 DEF Turns
  <2>2. w[last].reached \in SUBSET Nodes
    BY <2>1 DEF Stages
  <2> QED
    BY <2>2, FS_Subset, FS_CardinalityType
<1> HIDE DEF last
<1>4. /\ \A m \in w[last].reached \ w[last].frontier : \A x \in Nodes : <<m, x>> \in links => x \in w[last].reached
      /\ w[last].frontier # {} /\ (depth < 0 \/ last <= depth) => Cardinality(w[last].reached) >= last + 1
  <2>1. last \in 0 .. last
    BY <1>2
  <2> QED
    BY <1>1, <1>2, <2>1, TurnsWork
<1>5. w[last].frontier = {}
  BY <1>2, <1>3, <1>4 DEF last
<1> QED
  BY <1>1, <1>4, <1>5 DEF FollowsLinks

LEMMA ReachHoldsSeeds ==
  ASSUME IsFiniteSet(Nodes), NEW seeds \in SUBSET Nodes, NEW links, NEW depth \in Int
  PROVE  seeds \subseteq Reach(seeds, links, depth) /\ Reach(seeds, links, depth) \subseteq Nodes
<1> DEFINE last == Cardinality(Nodes)
<1>1. PICK w : Turns(w, last, seeds, links, depth) /\ Reach(seeds, links, depth) = w[last].reached
  BY ReachUnfolds
<1>2. last \in Nat /\ last \in 0 .. last
  BY FS_CardinalityType
<1> HIDE DEF last
<1>3. seeds \subseteq w[last].reached /\ w[last] \in Stages
  BY <1>1, <1>2, TurnsWork
<1> QED
  BY <1>1, <1>3 DEF Stages

-----------------------------------------------------------------------------
\* Walks: none at all, one step more, and one step less.
LEMMA WalkOfNone ==
  ASSUME NEW links, NEW s \in Nodes, NEW n \in Nat
  PROVE  Walk(links, s, s, n)
<1>1. [i \in 0 .. 0 |-> s] \in [0 .. 0 -> Nodes] /\ [i \in 0 .. 0 |-> s][0] = s /\ 0 \in 0 .. n
  OBVIOUS
<1>2. \A i \in 1 .. 0 : <<[j \in 0 .. 0 |-> s][i - 1], [j \in 0 .. 0 |-> s][i]>> \in links
  OBVIOUS
<1> QED
  BY <1>1, <1>2, Zenon DEF Walk

LEMMA WalkOneMore ==
  ASSUME NEW links, NEW s, NEW m, NEW n \in Nat, Walk(links, s, m, n), NEW x \in Nodes, <<m, x>> \in links
  PROVE  Walk(links, s, x, n + 1)
<1>1. PICK k \in 0 .. n : \E w \in [0 .. k -> Nodes] :
        w[0] = s /\ w[k] = m /\ \A i \in 1 .. k : <<w[i - 1], w[i]>> \in links
  BY Zenon DEF Walk
<1>2. PICK w \in [0 .. k -> Nodes] : w[0] = s /\ w[k] = m /\ \A i \in 1 .. k : <<w[i - 1], w[i]>> \in links
  BY <1>1
<1> DEFINE v == [i \in 0 .. k + 1 |-> IF i = k + 1 THEN x ELSE w[i]]
<1>3. k \in Nat /\ k + 1 \in 0 .. n + 1 /\ \A i \in 0 .. k : i \in 0 .. k + 1 /\ i # k + 1
  OBVIOUS
<1>4. \A i \in 0 .. k + 1 : i = k + 1 \/ i \in 0 .. k
  BY <1>3
<1>5. v \in [0 .. k + 1 -> Nodes]
  BY <1>2, <1>4
<1>6. v[k + 1] = x /\ \A i \in 0 .. k : v[i] = w[i]
  BY <1>3
<1> HIDE DEF v
<1>7. v[0] = s
  BY <1>2, <1>3, <1>6
<1>8. ASSUME NEW i \in 1 .. k + 1 PROVE <<v[i - 1], v[i]>> \in links
  <2>1. CASE i = k + 1
    <3>1. v[i - 1] = m
      BY <1>2, <1>3, <1>6, <2>1
    <3> QED
      BY <1>6, <2>1, <3>1
  <2>2. CASE i # k + 1
    <3>1. i \in 1 .. k /\ i \in 0 .. k /\ i - 1 \in 0 .. k
      BY <1>3, <2>2
    <3> QED
      BY <1>2, <1>6, <3>1
  <2> QED
    BY <2>1, <2>2
<1> QED
  BY <1>3, <1>5, <1>6, <1>7, <1>8 DEF Walk

LEMMA WalkOneLess ==
  ASSUME NEW links, NEW s, NEW x, NEW n \in Nat, Walk(links, s, x, n)
  PROVE  x = s \/ (n # 0 /\ \E m \in Nodes : Walk(links, s, m, n - 1) /\ <<m, x>> \in links)
<1>1. PICK k \in 0 .. n : \E w \in [0 .. k -> Nodes] :
        w[0] = s /\ w[k] = x /\ \A i \in 1 .. k : <<w[i - 1], w[i]>> \in links
  BY Zenon DEF Walk
<1>2. PICK w \in [0 .. k -> Nodes] : w[0] = s /\ w[k] = x /\ \A i \in 1 .. k : <<w[i - 1], w[i]>> \in links
  BY <1>1
<1>3. CASE k = 0
  BY <1>2, <1>3
<1>4. CASE k # 0
  <2> DEFINE v == [i \in 0 .. k - 1 |-> w[i]]
  <2>1. /\ k - 1 \in 0 .. n - 1 /\ k \in 1 .. k /\ n # 0 /\ k - 1 \in 0 .. k - 1 /\ 0 \in 0 .. k - 1
        /\ \A i \in 0 .. k - 1 : i \in 0 .. k
        /\ \A i \in 1 .. k - 1 : i \in 1 .. k /\ i \in 0 .. k - 1 /\ i - 1 \in 0 .. k - 1
    BY <1>4
  <2>2. v \in [0 .. k - 1 -> Nodes] /\ \A i \in 0 .. k - 1 : v[i] = w[i]
    BY <2>1
  <2> HIDE DEF v
  <2>3. v[0] = s /\ v[k - 1] = w[k - 1] /\ \A i \in 1 .. k - 1 : <<v[i - 1], v[i]>> \in links
    BY <1>2, <2>1, <2>2
  <2>4. Walk(links, s, w[k - 1], n - 1)
    BY <2>1, <2>2, <2>3, Zenon DEF Walk
  <2>5. w[k - 1] \in Nodes /\ <<w[k - 1], x>> \in links
    BY <1>2, <2>1
  <2> QED
    BY <2>1, <2>4, <2>5
<1> QED
  BY <1>3, <1>4

LEMMA WalkMayBeShorter ==
  ASSUME NEW links, NEW s, NEW x, NEW n \in Nat, NEW d \in Nat, n <= d, Walk(links, s, x, n)
  PROVE  Walk(links, s, x, d)
<1>1. \A k \in 0 .. n : k \in 0 .. d
  OBVIOUS
<1> QED
  BY <1>1, Zenon DEF Walk

-----------------------------------------------------------------------------
OnWalk(seeds, links, depth) == {x \in Nodes : \E s \in seeds : Walk(links, s, x, depth)}

\* No node that is reached is further away than the bound.
LEMMA ReachIsWithin ==
  ASSUME IsFiniteSet(Nodes), NEW seeds \in SUBSET Nodes, NEW links, NEW depth \in Nat
  PROVE  Reach(seeds, links, depth) \subseteq OnWalk(seeds, links, depth)
<1> DEFINE last == Cardinality(Nodes)
<1>1. PICK w : Turns(w, last, seeds, links, depth) /\ Reach(seeds, links, depth) = w[last].reached
  BY ReachUnfolds
<1>2. last \in Nat
  BY FS_CardinalityType
<1> HIDE DEF last
<1>0. depth \in Int
  OBVIOUS
<1>3. \A h \in 0 .. last : w[h] \in Stages /\ w[h].frontier \subseteq w[h].reached
  BY <1>0, <1>1, <1>2, TurnsWork
<1> DEFINE Near(x, h) == \E s \in seeds : Walk(links, s, x, IF h <= depth THEN h ELSE depth)
           Good == {h \in 0 .. last : \A x \in w[h].reached : Near(x, h)}
<1>4. 0 \in Good
  <2>1. w[0].reached = seeds /\ 0 \in 0 .. last /\ 0 <= depth
    BY <1>1, <1>2 DEF Turns
  <2>2. \A s \in seeds : Walk(links, s, s, 0)
    BY WalkOfNone
  <2> QED
    BY <2>1, <2>2
<1>5. ASSUME NEW h \in 1 .. last, h - 1 \in Good PROVE h \in Good
  <2>1. PICK at, new : at = w[h - 1] /\ new = w[h]
    OBVIOUS
  <2>2. h - 1 \in 0 .. last /\ h \in 0 .. last /\ h \in Nat /\ h - 1 \in Nat
    BY <1>2
  <2>3. /\ at \in Stages /\ new \in Stages /\ new = Turn(at, h, links, depth) /\ at.frontier \subseteq at.reached
    BY <1>1, <1>3, <2>1, <2>2 DEF Turns
  <2>4. Advances(at, new, h, links, depth)
    BY <2>3, TurnWorks
  <2>5. \A x \in at.reached : Near(x, h - 1)
    BY <1>5, <2>1
  <2>6. \A x \in at.reached : Near(x, h)
    <3> SUFFICES ASSUME NEW x \in at.reached PROVE Near(x, h)
      OBVIOUS
    <3>1. PICK s \in seeds : Walk(links, s, x, IF h - 1 <= depth THEN h - 1 ELSE depth)
      BY <2>5
    <3>2. /\ (IF h - 1 <= depth THEN h - 1 ELSE depth) \in Nat /\ (IF h <= depth THEN h ELSE depth) \in Nat
          /\ (IF h - 1 <= depth THEN h - 1 ELSE depth) <= (IF h <= depth THEN h ELSE depth)
      BY <2>2
    <3>3. Walk(links, s, x, IF h <= depth THEN h ELSE depth)
      BY <3>1, <3>2, WalkMayBeShorter
    <3> QED
      BY <3>3
  <2>7. CASE at.frontier = {} \/ (depth >= 0 /\ h - 1 >= depth)
    <3>1. new = at
      BY <2>4, <2>7 DEF Advances
    <3> QED
      BY <2>1, <2>2, <2>6, <3>1
  <2>8. CASE ~(at.frontier = {} \/ (depth >= 0 /\ h - 1 >= depth))
    <3>1. \A x \in Nodes : x \in new.reached <=> x \in at.reached \/ \E m \in at.frontier : <<m, x>> \in links
      BY <2>4, <2>8 DEF Advances
    <3>2. ASSUME NEW x \in Nodes, NEW m \in at.frontier, <<m, x>> \in links PROVE Near(x, h)
      <4>1. h - 1 <= depth /\ h <= depth
        BY <2>2, <2>8
      <4>2. m \in at.reached
        BY <2>3
      <4>3. PICK s \in seeds : Walk(links, s, m, h - 1)
        BY <2>5, <4>1, <4>2
      <4>4. Walk(links, s, x, (h - 1) + 1) /\ (h - 1) + 1 = h
        BY <2>2, <3>2, <4>3, WalkOneMore
      <4> QED
        BY <4>1, <4>4
    <3>3. new.reached \subseteq Nodes
      BY <2>3 DEF Stages
    <3>4. \A x \in new.reached : Near(x, h)
      BY <2>6, <3>1, <3>2, <3>3
    <3> QED
      BY <2>1, <2>2, <3>4
  <2> QED
    BY <2>7, <2>8
<1> HIDE DEF Good, Near
<1>6. \A h \in 0 .. last : h \in Good
  BY <1>2, <1>4, <1>5, Induction
<1>7. \A x \in w[last].reached : Near(x, last)
  BY <1>2, <1>6 DEF Good
<1>8. ASSUME NEW x \in w[last].reached PROVE x \in OnWalk(seeds, links, depth)
  <2>1. PICK s \in seeds : Walk(links, s, x, IF last <= depth THEN last ELSE depth)
    BY <1>7 DEF Near
  <2>2. Walk(links, s, x, depth)
    <3>1. (IF last <= depth THEN last ELSE depth) \in Nat /\ (IF last <= depth THEN last ELSE depth) <= depth
      BY <1>2
    <3> QED
      BY <2>1, <3>1, WalkMayBeShorter
  <2>3. x \in Nodes
    BY <1>1, ReachHoldsSeeds
  <2> QED
    BY <2>2, <2>3 DEF OnWalk
<1> QED
  BY <1>1, <1>8

\* And no node within it is missed.
LEMMA WithinIsReached ==
  ASSUME IsFiniteSet(Nodes), NEW seeds \in SUBSET Nodes, NEW links, NEW depth \in Nat
  PROVE  OnWalk(seeds, links, depth) \subseteq Reach(seeds, links, depth)
<1> DEFINE last == Cardinality(Nodes)
           reach == Reach(seeds, links, depth)
<1>1. last \in Nat
  BY FS_CardinalityType
<1>2. CASE last <= depth
  <2>1. FollowsLinks(reach, links) /\ seeds \subseteq reach
    BY <1>2, ReachFollowsLinks, ReachHoldsSeeds
  <2> HIDE DEF reach
  <2> DEFINE Good == {d \in 0 .. depth : OnWalk(seeds, links, d) \subseteq reach}
  <2>2. 0 \in Good
    <3>1. \A x \in OnWalk(seeds, links, 0) : x \in seeds
      BY WalkOneLess DEF OnWalk
    <3> QED
      BY <2>1, <3>1
  <2>3. ASSUME NEW d \in 1 .. depth, d - 1 \in Good PROVE d \in Good
    <3>1. ASSUME NEW x \in Nodes, NEW s \in seeds, Walk(links, s, x, d) PROVE x \in reach
      <4>1. x = s \/ \E m \in Nodes : Walk(links, s, m, d - 1) /\ <<m, x>> \in links
        <5>1. d \in Nat
          OBVIOUS
        <5> QED
          BY <3>1, <5>1, WalkOneLess
      <4>2. CASE x = s
        BY <2>1, <4>2
      <4>3. ASSUME NEW m \in Nodes, Walk(links, s, m, d - 1), <<m, x>> \in links PROVE x \in reach
        <5>1. m \in reach
          BY <2>3, <4>3 DEF OnWalk
        <5> QED
          BY <2>1, <4>3, <5>1 DEF FollowsLinks
      <4> QED
        BY <4>1, <4>2, <4>3
    <3>2. d \in 0 .. depth
      OBVIOUS
    <3> QED
      BY <3>1, <3>2 DEF OnWalk
  <2> HIDE DEF Good
  <2>4. \A d \in 0 .. depth : d \in Good
    BY <2>2, <2>3, Induction
  <2>5. depth \in 0 .. depth
    OBVIOUS
  <2> QED
    BY <2>4, <2>5 DEF Good, reach
<1>3. CASE ~(last <= depth)
  <2>0. depth \in Int
    OBVIOUS
  <2>1. PICK w : Turns(w, last, seeds, links, depth) /\ reach = w[last].reached
    BY ReachUnfolds
  <2> HIDE DEF last, reach
  <2>2. \A h \in 0 .. last :
          /\ w[h] \in Stages /\ seeds \subseteq w[h].reached /\ w[h].frontier \subseteq w[h].reached
          /\ \A m \in w[h].reached \ w[h].frontier : \A x \in Nodes : <<m, x>> \in links => x \in w[h].reached
    BY <1>1, <2>0, <2>1, TurnsWork
  <2> DEFINE Met(h) == \A d \in 0 .. depth : d <= h => OnWalk(seeds, links, d) \subseteq w[h].reached
             Good == {h \in 0 .. last : Met(h)}
  <2>3. 0 \in Good
    <3>1. \A x \in OnWalk(seeds, links, 0) : x \in seeds
      BY WalkOneLess DEF OnWalk
    <3>2. 0 \in 0 .. last /\ \A d \in 0 .. depth : d <= 0 => d = 0
      BY <1>1
    <3> QED
      BY <2>2, <3>1, <3>2
  <2>4. ASSUME NEW h \in 1 .. last, h - 1 \in Good PROVE h \in Good
    <3>1. PICK at, new : at = w[h - 1] /\ new = w[h]
      OBVIOUS
    <3>2. h - 1 \in 0 .. last /\ h \in 0 .. last /\ h \in Nat
      BY <1>1
    <3>3. /\ at \in Stages /\ new = Turn(at, h, links, depth) /\ seeds \subseteq at.reached
          /\ at.frontier \subseteq at.reached
          /\ \A m \in at.reached \ at.frontier : \A x \in Nodes : <<m, x>> \in links => x \in at.reached
      BY <2>1, <2>2, <3>1, <3>2 DEF Turns
    <3>4. Advances(at, new, h, links, depth)
      BY <3>3, TurnWorks
    <3>5. \A d \in 0 .. depth : d <= h - 1 => OnWalk(seeds, links, d) \subseteq at.reached
      BY <2>4, <3>1
    <3>6. ASSUME h <= depth, NEW x \in Nodes, NEW s \in seeds, Walk(links, s, x, h) PROVE x \in new.reached
      <4>1. x = s \/ \E m \in Nodes : Walk(links, s, m, h - 1) /\ <<m, x>> \in links
        BY <3>2, <3>6, WalkOneLess
      <4>2. at.reached \subseteq new.reached
        BY <3>4 DEF Advances
      <4>3. ASSUME NEW m \in Nodes, Walk(links, s, m, h - 1), <<m, x>> \in links PROVE x \in new.reached
        <5>1. h - 1 \in 0 .. depth /\ h - 1 <= h - 1
          BY <3>2, <3>6
        <5>2. m \in at.reached
          BY <3>5, <4>3, <5>1 DEF OnWalk
        <5>3. CASE m \in at.frontier
          <6>1. at.frontier # {} /\ ~(depth >= 0 /\ h - 1 >= depth)
            BY <3>2, <3>6, <5>3
          <6> QED
            BY <3>4, <4>3, <5>3, <6>1 DEF Advances
        <5>4. CASE m \notin at.frontier
          BY <3>3, <4>2, <4>3, <5>2, <5>4
        <5> QED
          BY <5>3, <5>4
      <4> QED
        BY <3>3, <4>1, <4>2, <4>3
    <3>7. ASSUME NEW d \in 0 .. depth, d <= h PROVE OnWalk(seeds, links, d) \subseteq new.reached
      <4>1. CASE d = h
        BY <3>6, <4>1 DEF OnWalk
      <4>2. CASE d # h
        <5>1. d <= h - 1
          BY <3>2, <3>7, <4>2
        <5> QED
          BY <3>4, <3>5, <5>1 DEF Advances
      <4> QED
        BY <4>1, <4>2
    <3> QED
      BY <3>1, <3>2, <3>7
  <2> HIDE DEF Good, Met
  <2>5. \A h \in 0 .. last : h \in Good
    BY <1>1, <2>3, <2>4, Induction
  <2>6. depth <= last
    BY <1>1, <1>3
  <2>7. depth \in 0 .. depth /\ last \in 0 .. last
    BY <1>1
  <2> QED
    BY <2>1, <2>5, <2>6, <2>7 DEF Good, Met, reach
<1> QED
  BY <1>2, <1>3

-----------------------------------------------------------------------------
LEMMA NodesAreFinite ==
  ASSUME IsFiniteSet(graph)
  PROVE  IsFiniteSet(Nodes)
<1> DEFINE from == [e \in graph |-> e.source]
           to == [e \in graph |-> e.target]
<1>1. from \in Surjection(graph, {e.source : e \in graph}) /\ to \in Surjection(graph, {e.target : e \in graph})
  BY DEF Surjection
<1>2. IsFiniteSet({e.source : e \in graph}) /\ IsFiniteSet({e.target : e \in graph})
  BY <1>1, FS_Surjection
<1> QED
  BY <1>2, FS_Union DEF Nodes

\* The links of some dependencies, with and against them.
LEMMA LinksWork ==
  ASSUME NEW D \in SUBSET graph
  PROVE  /\ \A m, x : <<m, x>> \in Links(D, "forward") <=> \E e \in D : m = e.source /\ x = e.target
         /\ \A m, x : <<m, x>> \in Links(D, "backward") <=> <<x, m>> \in Links(D, "forward")
         /\ \A m, x : <<m, x>> \in Links(D, "forward") => m \in Nodes /\ x \in Nodes
         /\ \A l \in Links(D, "forward") : l = <<l[1], l[2]>>
<1>1. Links(D, "forward") = {<<e.source, e.target>> : e \in D}
  BY DEF Links
<1>2. Links(D, "backward") = {<<e.target, e.source>> : e \in D}
  BY DEF Links
<1> QED
  BY <1>1, <1>2 DEF Nodes

\* The same with one node more, which may have no link.
LEMMA LinksAreDigraph ==
  ASSUME IsFiniteSet(graph), NEW D \in SUBSET graph, NEW s
  PROVE  /\ IsDigraph(Links(D, "forward") \cup {<<s, s>>})
         /\ \A m, x : x \in Targets(Links(D, "forward") \cup {<<s, s>>}, m) <=> <<m, x>> \in Links(D, "forward") /\ m # x
<1> DEFINE forward == Links(D, "forward")
           with == forward \cup {<<s, s>>}
           link == [e \in D |-> <<e.source, e.target>>]
<1>1. forward = {<<e.source, e.target>> : e \in D}
  BY DEF Links
<1>2. link \in Surjection(D, forward) /\ IsFiniteSet(D)
  BY <1>1, FS_Subset DEF Surjection
<1>3. IsFiniteSet(forward)
  BY <1>2, FS_Surjection
<1>4. IsFiniteSet({<<s, s>>})
  BY FS_Singleton
<1>5. IsFiniteSet(with)
  BY <1>3, <1>4, FS_Union
<1>6. \A e \in with : e = <<e[1], e[2]>>
  BY <1>1
<1>7. IsDigraph(with)
  BY <1>5, <1>6 DEF IsDigraph
<1> HIDE DEF forward
<1>8. \A m, x : x \in Targets(with, m) <=> <<m, x>> \in with /\ m # x
  <2> HIDE DEF with
  <2> QED
    BY <1>7, DigraphWorks
<1>9. \A m, x : m # x => (<<m, x>> \in with <=> <<m, x>> \in forward)
  OBVIOUS
<1> QED
  BY <1>7, <1>8, <1>9 DEF forward

\* What is reached from a node along the links.
AlongLinks(D, s) == ReachedFrom(Links(D, "forward") \cup {<<s, s>>}, s)

LEMMA AlongLinksWorks ==
  ASSUME IsFiniteSet(graph), NEW D \in SUBSET graph, NEW s \in Nodes
  PROVE  /\ s \in AlongLinks(D, s) /\ AlongLinks(D, s) \subseteq Nodes
         /\ FollowsLinks(AlongLinks(D, s), Links(D, "forward"))
         /\ \A S \in SUBSET Nodes : s \in S /\ FollowsLinks(S, Links(D, "forward")) => AlongLinks(D, s) \subseteq S
<1> DEFINE with == Links(D, "forward") \cup {<<s, s>>}
<1>1. PICK E : E = with
  OBVIOUS
<1>2. /\ IsDigraph(E)
      /\ \A m, x : x \in Targets(E, m) <=> <<m, x>> \in Links(D, "forward") /\ m # x
  BY <1>1, LinksAreDigraph
<1>3. AlongLinks(D, s) = ReachedFrom(E, s)
  BY <1>1 DEF AlongLinks
<1>4. /\ s \in ReachedFrom(E, s)
      /\ \A y \in ReachedFrom(E, s) : Targets(E, y) \subseteq ReachedFrom(E, s)
  BY <1>2, ClosedReach
<1>5. ASSUME NEW S \in SUBSET Nodes, s \in S, FollowsLinks(S, Links(D, "forward")) PROVE ReachedFrom(E, s) \subseteq S
  <2>1. \A m \in S : \A x : <<m, x>> \in Links(D, "forward") => x \in S
    BY <1>5, LinksWork DEF FollowsLinks
  <2>2. \A y \in S : Targets(E, y) \subseteq S
    BY <1>2, <2>1
  <2> QED
    BY <1>2, <1>5, <2>2, LeastReach
<1>6. FollowsLinks(Nodes, Links(D, "forward"))
  BY DEF FollowsLinks
<1>7. ReachedFrom(E, s) \subseteq Nodes
  BY <1>5, <1>6
<1>8. FollowsLinks(ReachedFrom(E, s), Links(D, "forward"))
  <2> SUFFICES ASSUME NEW m \in ReachedFrom(E, s), NEW x \in Nodes, <<m, x>> \in Links(D, "forward")
               PROVE  x \in ReachedFrom(E, s)
    BY DEF FollowsLinks
  <2>1. CASE m = x
    BY <2>1
  <2>2. CASE m # x
    BY <1>2, <1>4, <2>2
  <2> QED
    BY <2>1, <2>2
<1> QED
  BY <1>3, <1>4, <1>5, <1>7, <1>8

\* ReachableFrom: what the seeds lead to.
LEMMA FromIsReached ==
  ASSUME IsFiniteSet(graph), NEW D \in SUBSET graph, NEW seeds \in SUBSET Nodes
  PROVE  Reach(seeds, Links(D, "forward"), Unlimited) = {x \in Nodes : \E s \in seeds : x \in AlongLinks(D, s)}
<1> DEFINE reach == Reach(seeds, Links(D, "forward"), Unlimited)
           wanted == {x \in Nodes : \E s \in seeds : x \in AlongLinks(D, s)}
<1>1. IsFiniteSet(Nodes) /\ Unlimited \in Int /\ Unlimited < 0
  BY NodesAreFinite DEF Unlimited
<1>2. seeds \subseteq reach /\ reach \subseteq Nodes /\ FollowsLinks(reach, Links(D, "forward"))
  BY <1>1, ReachHoldsSeeds, ReachFollowsLinks
<1>3. seeds \subseteq wanted /\ FollowsLinks(wanted, Links(D, "forward"))
  <2>1. seeds \subseteq wanted
    BY AlongLinksWorks
  <2>2. ASSUME NEW m \in wanted, NEW x \in Nodes, <<m, x>> \in Links(D, "forward") PROVE x \in wanted
    <3>1. PICK s \in seeds : m \in AlongLinks(D, s)
      OBVIOUS
    <3>2. x \in AlongLinks(D, s)
      BY <2>2, <3>1, AlongLinksWorks DEF FollowsLinks
    <3> QED
      BY <3>2
  <2> QED
    BY <2>1, <2>2 DEF FollowsLinks
<1>4. reach \subseteq wanted
  <2> HIDE DEF wanted
  <2> QED
    BY <1>1, <1>3, ReachStaysIn
<1>5. wanted \subseteq reach
  BY <1>2, AlongLinksWorks
<1> QED
  BY <1>4, <1>5

\* DependentsOf: what leads to the seeds.
LEMMA OfIsReached ==
  ASSUME IsFiniteSet(graph), NEW D \in SUBSET graph, NEW seeds \in SUBSET Nodes
  PROVE  Reach(seeds, Links(D, "backward"), Unlimited) = {x \in Nodes : seeds \cap AlongLinks(D, x) # {}}
<1> DEFINE reach == Reach(seeds, Links(D, "backward"), Unlimited)
           wanted == {x \in Nodes : seeds \cap AlongLinks(D, x) # {}}
<1>1. IsFiniteSet(Nodes) /\ Unlimited \in Int /\ Unlimited < 0
  BY NodesAreFinite DEF Unlimited
<1>2. seeds \subseteq reach /\ reach \subseteq Nodes /\ FollowsLinks(reach, Links(D, "backward"))
  BY <1>1, ReachHoldsSeeds, ReachFollowsLinks
<1>3. seeds \subseteq wanted /\ FollowsLinks(wanted, Links(D, "backward"))
  <2>1. seeds \subseteq wanted
    BY AlongLinksWorks
  <2>2. ASSUME NEW m \in wanted, NEW x \in Nodes, <<m, x>> \in Links(D, "backward") PROVE x \in wanted
    <3>1. <<x, m>> \in Links(D, "forward")
      BY <2>2, LinksWork
    <3>2. m \in AlongLinks(D, x)
      BY <3>1, AlongLinksWorks DEF FollowsLinks
    <3>3. AlongLinks(D, m) \subseteq AlongLinks(D, x)
      <4>1. AlongLinks(D, x) \in SUBSET Nodes /\ FollowsLinks(AlongLinks(D, x), Links(D, "forward"))
        BY AlongLinksWorks
      <4> QED
        BY <3>2, <4>1, AlongLinksWorks
    <3> QED
      BY <3>3
  <2> QED
    BY <2>1, <2>2 DEF FollowsLinks
<1>4. reach \subseteq wanted
  <2> HIDE DEF wanted
  <2> QED
    BY <1>1, <1>3, ReachStaysIn
\* What does not lead there leads nowhere that does.
<1>5. ASSUME NEW x \in wanted PROVE x \in reach
  <2> SUFFICES ASSUME x \notin reach PROVE FALSE
    OBVIOUS
  <2> DEFINE others == Nodes \ reach
  <2>1. FollowsLinks(others, Links(D, "forward"))
    BY <1>2, LinksWork DEF FollowsLinks
  <2>2. x \in others /\ others \in SUBSET Nodes /\ x \in Nodes
    OBVIOUS
  <2>3. others \cap seeds = {}
    BY <1>2
  <2> HIDE DEF others
  <2>4. AlongLinks(D, x) \subseteq others
    BY <2>1, <2>2, AlongLinksWorks
  <2> QED
    BY <2>3, <2>4
<1> QED
  BY <1>4, <1>5

\* FocusOn: what is near the seeds, whichever way the dependencies point.
LEMMA FocusIsReached ==
  ASSUME IsFiniteSet(graph), NEW links, NEW seeds \in SUBSET Nodes, NEW depth \in Int
  PROVE  Reach(seeds, links, Hops(depth)) = {x \in Nodes : \E s \in seeds : Walk(links, s, x, Hops(depth))}
<1>1. IsFiniteSet(Nodes) /\ Hops(depth) \in Nat
  BY NodesAreFinite DEF Hops
<1>2. PICK d \in Nat : d = Hops(depth)
  BY <1>1
<1>3. Reach(seeds, links, d) \subseteq OnWalk(seeds, links, d) /\ OnWalk(seeds, links, d) \subseteq Reach(seeds, links, d)
  BY <1>1, ReachIsWithin, WithinIsReached
<1> QED
  BY <1>2, <1>3 DEF OnWalk

-----------------------------------------------------------------------------
\* The nodes keptNodes keeps are the ones the chain asks for.
LEMMA KeptAreWanted ==
  ASSUME IsFiniteSet(graph), NEW said, NEW query,
         \A list \in {"focus", "from", "of"} : query.lists[list] \in Seq(Entries)
  PROVE  KeptNodes(query) = {n \in Universe(query) : Wanted(said, query, n)}
<1> DEFINE D == KeptDependencies(query)
           seeds(entry) == Selected(entry, Universe(query))
<1>1. D \in SUBSET graph /\ Universe(query) \subseteq Nodes /\ \A entry : seeds(entry) \in SUBSET Nodes
  BY DEF KeptDependencies, Universe, Selected
<1>2. \A entry \in Entries : entry.depth \in Int
  BY SnapshotAssumption DEF Entries
<1>3. ASSUME NEW entry, NEW x \in Nodes
      PROVE  /\ x \in Reached(query, "from", entry) <=> \E s \in seeds(entry) : x \in AlongLinks(D, s)
             /\ x \in Reached(query, "of", entry) <=> seeds(entry) \cap AlongLinks(D, x) # {}
             /\ entry.depth \in Int =>
                  (x \in Reached(query, "focus", entry) <=>
                     \E s \in seeds(entry) : Walk(Links(D, "both"), s, x, Hops(entry.depth)))
  <2>1. /\ Reached(query, "from", entry) = Reach(seeds(entry), Links(D, "forward"), Unlimited)
        /\ Reached(query, "of", entry) = Reach(seeds(entry), Links(D, "backward"), Unlimited)
        /\ Reached(query, "focus", entry) = Reach(seeds(entry), Links(D, "both"), Hops(entry.depth))
    BY DEF Reached
  <2>2. seeds(entry) \in SUBSET Nodes
    BY <1>1
  <2> HIDE DEF D, seeds
  <2> QED
    BY <1>1, <2>1, <2>2, FromIsReached, OfIsReached, FocusIsReached
<1>4. ASSUME NEW list \in {"focus", "from", "of"}
      PROVE  /\ \A i \in 1 .. Len(query.lists[list]) : query.lists[list][i] \in Range(query.lists[list])
             /\ \A entry \in Range(query.lists[list]) :
                  entry \in Entries /\ \E i \in 1 .. Len(query.lists[list]) : entry = query.lists[list][i]
  <2>1. PICK q : q = query.lists[list]
    OBVIOUS
  <2>2. q \in Seq(Entries)
    BY <2>1
  <2>3. \A i \in 1 .. Len(q) : q[i] \in Range(q)
    BY <2>2 DEF Range
  <2>4. \A entry \in Range(q) : entry \in Entries /\ \E i \in 1 .. Len(q) : entry = q[i]
    BY <2>2 DEF Range
  <2> QED
    BY <2>1, <2>3, <2>4
<1>5. ASSUME NEW n \in Nodes
      PROVE  Wanted(said, query, n) <=>
               \A list \in {"focus", "from", "of"} : \A i \in 1 .. Len(query.lists[list]) :
                 n \in Reached(query, list, query.lists[list][i])
  <2>1. \A list \in {"focus", "from", "of"} :
          (\A i \in 1 .. Len(query.lists[list]) : n \in Reached(query, list, query.lists[list][i]))
            <=> \A entry \in Range(query.lists[list]) : n \in Reached(query, list, entry)
    BY <1>4
  <2>2. /\ \A entry \in Range(query.lists["from"]) :
             n \in Reached(query, "from", entry) <=> \E s \in seeds(entry) : n \in AlongLinks(D, s)
        /\ \A entry \in Range(query.lists["of"]) :
             n \in Reached(query, "of", entry) <=> seeds(entry) \cap AlongLinks(D, n) # {}
        /\ \A entry \in Range(query.lists["focus"]) :
             n \in Reached(query, "focus", entry) <=>
               \E s \in seeds(entry) : Walk(Links(D, "both"), s, n, Hops(entry.depth))
    <3> HIDE DEF seeds, D
    <3> QED
      BY <1>2, <1>3, <1>4
  <2>3. Wanted(said, query, n) <=>
          /\ \A entry \in Range(query.lists["from"]) : \E s \in seeds(entry) : n \in AlongLinks(D, s)
          /\ \A entry \in Range(query.lists["of"]) : seeds(entry) \cap AlongLinks(D, n) # {}
          /\ \A entry \in Range(query.lists["focus"]) :
               \E s \in seeds(entry) : Walk(Links(D, "both"), s, n, Hops(entry.depth))
    BY Zenon DEF Wanted, AlongLinks
  <2> HIDE DEF seeds, D
  <2>4. Wanted(said, query, n) <=>
          \A list \in {"focus", "from", "of"} :
             \A entry \in Range(query.lists[list]) : n \in Reached(query, list, entry)
    BY <2>2, <2>3
  <2> QED
    BY <2>1, <2>4
<1> QED
  BY <1>1, <1>5 DEF KeptNodes

-----------------------------------------------------------------------------
\* The arrow a dependency stands behind, and the dependencies behind an arrow.
Ends(query, e) == <<Label(query, e.source), Label(query, e.target)>>
Behind(query, p) == {e \in Collected(query) : Ends(query, e) = p}
Arrow(query, p) ==
  [source |-> p[1], target |-> p[2], count |-> Cardinality(Behind(query, p)),
   external |-> \E e \in Behind(query, p) : e.external,
   kinds |-> UNION {e.kinds : e \in Behind(query, p)}]
Drawn(query) == {p \in {Ends(query, e) : e \in Collected(query)} : query.self \/ p[1] # p[2]}

LEMMA EdgesAreArrows ==
  ASSUME NEW query
  PROVE  SnapshotEdges(query) = {Arrow(query, p) : p \in Drawn(query)}
BY Zenon DEF SnapshotEdges, Arrow, Drawn, Behind, Ends

LEMMA ArrowIs ==
  ASSUME NEW query, NEW p
  PROVE  /\ Arrow(query, p).source = p[1] /\ Arrow(query, p).target = p[2]
         /\ Arrow(query, p).count = Cardinality(Behind(query, p))
         /\ (\E e \in Behind(query, p) : e.external) => Arrow(query, p).external
         /\ \A e \in Behind(query, p) : e.kinds \subseteq Arrow(query, p).kinds
<1>1. Arrow(query, p).external = (\E e \in Behind(query, p) : e.external)
  BY DEF Arrow
<1>2. Arrow(query, p).kinds = UNION {e.kinds : e \in Behind(query, p)}
  BY DEF Arrow
<1> QED
  BY <1>1, <1>2 DEF Arrow

\* Every dependency is counted once, behind the arrow between its boxes.
LEMMA ArrowsCount ==
  ASSUME IsFiniteSet(graph), NEW query,
         NEW shown, shown = {e \in Collected(query) : query.self \/ Ends(query, e)[1] # Ends(query, e)[2]}
  PROVE  SumCounts(SnapshotEdges(query)) = Cardinality(shown)
<1> DEFINE edges == SnapshotEdges(query)
           all == Collected(query)
           pair(e) == <<e.source, e.target>>
           G == [e \in edges |-> Behind(query, pair(e))]
<1>1. IsFiniteSet(all) /\ IsFiniteSet(shown) /\ all \subseteq graph
  <2>1. all \in SUBSET graph /\ shown \in SUBSET graph
    BY DEF Collected, KeptDependencies
  <2> QED
    BY <2>1, FS_Subset
<1>2. edges = {Arrow(query, p) : p \in Drawn(query)}
  BY EdgesAreArrows
<1>3. \A p \in Drawn(query) : p = <<p[1], p[2]>>
  BY DEF Drawn, Ends
<1>4. \A p \in Drawn(query) : pair(Arrow(query, p)) = p
  BY <1>3, ArrowIs
<1>5. \A e \in edges : pair(e) \in Drawn(query) /\ e = Arrow(query, pair(e))
  BY <1>2, <1>4
<1>6. \A e \in edges : e.count = Cardinality(Behind(query, pair(e)))
  BY <1>5, ArrowIs
<1>7. \A e \in shown : Ends(query, e) \in Drawn(query)
  BY DEF Drawn
<1>8. IsFiniteSet(Drawn(query))
  <2>1. \A p \in Drawn(query) : \E e \in shown : Ends(query, e) = p
    BY DEF Drawn
  <2>2. [e \in shown |-> Ends(query, e)] \in Surjection(shown, Drawn(query))
    BY <1>7, <2>1 DEF Surjection
  <2> QED
    BY <1>1, <2>2, FS_Surjection
<1>9. IsFiniteSet(edges)
  <2>1. [p \in Drawn(query) |-> Arrow(query, p)] \in Surjection(Drawn(query), edges)
    BY <1>2 DEF Surjection
  <2> QED
    BY <1>8, <2>1, FS_Surjection
<1>10. \A p : Behind(query, p) \in SUBSET all
  BY DEF Behind
<1>11. \A p : IsFiniteSet(Behind(query, p))
  BY <1>1, <1>10, FS_Subset
<1>12. \A e \in Collected(query) : e \in Behind(query, Ends(query, e))
  BY DEF Behind
<1>13. \A p \in Drawn(query) : \A e \in Behind(query, p) : e \in shown /\ Ends(query, e) = p
  BY DEF Drawn, Behind
<1>14. [e \in edges |-> e.count] = [e \in edges |-> Cardinality(G[e])]
  BY <1>6
<1>15. G \in [edges -> SUBSET all] /\ \A e \in edges : IsFiniteSet(G[e]) /\ G[e] = Behind(query, pair(e))
  BY <1>10, <1>11
<1> HIDE DEF G, all, edges
<1>16. SumFunction([e \in edges |-> Cardinality(G[e])]) = Cardinality(Counted(G, edges, all))
  BY <1>9, <1>15, SumIsCount
<1>17. Cardinality(Counted(G, edges, all)) = Cardinality(shown)
  <2> DEFINE f == [e \in shown |-> <<Arrow(query, Ends(query, e)), e>>]
  <2>1. f \in [shown -> Counted(G, edges, all)]
    <3> SUFFICES ASSUME NEW e \in shown
                 PROVE  <<Arrow(query, Ends(query, e)), e>> \in Counted(G, edges, all)
      OBVIOUS
    <3>1. Ends(query, e) \in Drawn(query) /\ e \in all /\ e \in Behind(query, Ends(query, e))
      BY <1>7, <1>12 DEF all
    <3>2. Arrow(query, Ends(query, e)) \in edges /\ pair(Arrow(query, Ends(query, e))) = Ends(query, e)
      BY <1>2, <1>4, <3>1
    <3>3. e \in G[Arrow(query, Ends(query, e))]
      BY <1>15, <3>1, <3>2
    <3> QED
      BY <3>1, <3>2, <3>3 DEF Counted
  <2>2. \A x, y \in shown : f[x] = f[y] => x = y
    OBVIOUS
  <2>3. ASSUME NEW z \in Counted(G, edges, all) PROVE \E x \in shown : f[x] = z
    <3>1. PICK a \in edges, e \in all : z = <<a, e>> /\ e \in G[a]
      BY DEF Counted
    <3>2. a = Arrow(query, pair(a)) /\ pair(a) \in Drawn(query) /\ e \in Behind(query, pair(a))
      BY <1>5, <1>15, <3>1
    <3>3. e \in shown /\ Ends(query, e) = pair(a)
      BY <1>13, <3>2
    <3>4. f[e] = <<Arrow(query, pair(a)), e>>
      BY <3>3
    <3>5. f[e] = z
      BY <3>1, <3>2, <3>4
    <3> QED
      BY <3>3, <3>5
  <2> HIDE DEF f
  <2> QED
    BY <1>1, <2>1, <2>2, <2>3, SameSize
<1> QED
  BY <1>14, <1>16, <1>17 DEF SumCounts, edges

\* One box to a label.
LEMMA BoxesAreLabels ==
  ASSUME IsFiniteSet(graph), NEW query, NEW labels, labels = {n.label : n \in SnapshotNodes(query)}
  PROVE  /\ labels = {Label(query, n) : n \in KeptNodes(query)}
         /\ Cardinality(SnapshotNodes(query)) = Cardinality(labels)
         /\ \A n \in SnapshotNodes(query) :
              n.external <=> {m \in KeptNodes(query) \ ExternalNodes : Label(query, m) = n.label} = {}
<1> DEFINE kept == KeptNodes(query)
           boxes == SnapshotNodes(query)
           L == {Label(query, n) : n \in kept}
           Outside(l) == \A n \in kept : Label(query, n) = l => n \in ExternalNodes
           Box(l) == [label |-> l, external |-> Outside(l)]
<1>1. boxes = {Box(l) : l \in L}
  BY Zenon DEF SnapshotNodes
<1>2. \A l : Box(l).label = l /\ Box(l).external = Outside(l)
  OBVIOUS
<1>3. IsFiniteSet(kept)
  <2>1. kept \in SUBSET Nodes
    BY DEF KeptNodes, Universe
  <2> QED
    BY <2>1, NodesAreFinite, FS_Subset
<1>4. IsFiniteSet(L)
  <2>1. [n \in kept |-> Label(query, n)] \in Surjection(kept, L)
    BY DEF Surjection
  <2> QED
    BY <1>3, <2>1, FS_Surjection
<1>5. \A n \in boxes :
        n.external <=> {m \in kept \ ExternalNodes : Label(query, m) = n.label} = {}
  <2> SUFFICES ASSUME NEW l \in L
               PROVE  Box(l).external <=> {m \in kept \ ExternalNodes : Label(query, m) = Box(l).label} = {}
    BY <1>1
  <2>1. Outside(l) <=> {m \in kept \ ExternalNodes : Label(query, m) = l} = {}
    OBVIOUS
  <2> QED
    BY <1>2, <2>1
<1> HIDE DEF kept, Outside
<1> DEFINE f == [l \in L |-> Box(l)]
<1>6. f \in [L -> boxes] /\ \A z \in boxes : \E l \in L : f[l] = z
  BY <1>1
<1>7. \A x, y \in L : f[x] = f[y] => x = y
  <2>1. \A x, y \in L : Box(x) = Box(y) => x = y
    BY <1>2
  <2> QED
    BY <2>1
<1> HIDE DEF f
<1>8. Cardinality(boxes) = Cardinality(L)
  BY <1>4, <1>6, <1>7, SameSize
<1>9. labels = L
  <2> HIDE DEF L, Box
  <2>1. labels = {n.label : n \in boxes}
    OBVIOUS
  <2> HIDE DEF boxes
  <2>2. \A l \in L : Box(l) \in boxes /\ Box(l).label = l
    BY <1>1, <1>2
  <2>3. \A n \in boxes : n.label \in L
    BY <1>1, <1>2
  <2> QED
    BY <2>1, <2>2, <2>3
<1> QED
  BY <1>5, <1>8, <1>9 DEF kept

-----------------------------------------------------------------------------
\* What Snapshot answers.
Given(b) ==
  IF builders[b].err # NoMistake THEN [NoAnswer EXCEPT !.of = b, !.error = builders[b].err]
  ELSE IF SnapshotNodes(Query(b)) = {} /\ ~builders[b].allowEmpty
  THEN [NoAnswer EXCEPT !.of = b, !.error = <<"snapshot", "empty">>]
  ELSE [of |-> b, error |-> NoMistake, nodes |-> SnapshotNodes(Query(b)), edges |-> SnapshotEdges(Query(b))]

\* The project could not be read.
Unread(b) == [NoAnswer EXCEPT !.of = b, !.error = <<"project", "unread">>]

\* The last answer is about the project and the builders as they are.
AnswerInv ==
  /\ IsFiniteSet(graph)
  /\ answer # NoAnswer => /\ answer.of \in DOMAIN builders
                          /\ answer = Given(answer.of) \/ answer = Unread(answer.of)

LEMMA GivenIs ==
  ASSUME NEW b
  PROVE  /\ Given(b).of = b
         /\ builders[b].err # NoMistake => Given(b).error = builders[b].err
         /\ builders[b].err = NoMistake =>
              IF SnapshotNodes(Query(b)) = {} /\ ~builders[b].allowEmpty
              THEN Given(b).error = <<"snapshot", "empty">>
              ELSE /\ Given(b).error = NoMistake /\ Given(b).nodes = SnapshotNodes(Query(b))
                   /\ Given(b).edges = SnapshotEdges(Query(b))
<1>1. CASE builders[b].err # NoMistake
  <2>1. Given(b) = [NoAnswer EXCEPT !.of = b, !.error = builders[b].err]
    BY <1>1, Zenon DEF Given
  <2> QED
    BY <1>1, <2>1 DEF NoAnswer
<1>2. CASE builders[b].err = NoMistake /\ SnapshotNodes(Query(b)) = {} /\ ~builders[b].allowEmpty
  <2>1. Given(b) = [NoAnswer EXCEPT !.of = b, !.error = <<"snapshot", "empty">>]
    BY <1>2, Zenon DEF Given
  <2> QED
    BY <1>2, <2>1 DEF NoAnswer
<1>3. CASE builders[b].err = NoMistake /\ ~(SnapshotNodes(Query(b)) = {} /\ ~builders[b].allowEmpty)
  <2>1. Given(b) = [of |-> b, error |-> NoMistake, nodes |-> SnapshotNodes(Query(b)), edges |-> SnapshotEdges(Query(b))]
    BY <1>3, Zenon DEF Given
  <2> QED
    BY <1>3, <2>1
<1> QED
  BY <1>1, <1>2, <1>3

\* What SnapshotIsTheQuery says of the nodes a query wants, of the dependencies
\* between them, of those inside one box, and of the labels of the boxes.
Shows(said, query, wanted, between, inside, labels) ==
  IF answer.error # NoMistake THEN wanted = {} /\ ~AllowsEmpty(said)
  ELSE /\ wanted = {} => AllowsEmpty(said)
       /\ labels = {Label(query, n) : n \in wanted}
       /\ Cardinality(answer.nodes) = Cardinality(labels)
       /\ \A n \in answer.nodes : n.external <=> {m \in wanted \ ExternalNodes : Label(query, m) = n.label} = {}
       /\ \A e \in answer.edges : {e.source, e.target} \subseteq labels
       /\ SumCounts(answer.edges) = Cardinality(IF query.self THEN between ELSE between \ inside)
       /\ \A e \in between : \/ e \in inside /\ ~query.self
                             \/ \E a \in answer.edges : /\ a.source = Label(query, e.source)
                                                        /\ a.target = Label(query, e.target)
                                                        /\ e.external => a.external
                                                        /\ e.kinds \subseteq a.kinds

\* The report is the query, read against the graph.
LEMMA AnswersAreQueries == SnapshotInv /\ AnswerInv => SnapshotIsTheQuery
<1> SUFFICES ASSUME SnapshotInv, AnswerInv, answer.of # 0, answer.error[1] \in {"none", "snapshot"}
             PROVE  SnapshotIsTheQuery
  BY Zenon DEF SnapshotIsTheQuery
<1>1. answer # NoAnswer
  BY DEF NoAnswer
<1>2. PICK b \in DOMAIN builders : b = answer.of /\ answer = Given(b)
  <2>1. ASSUME answer = Unread(answer.of) PROVE FALSE
    <3>1. answer.error = <<"project", "unread">>
      BY <2>1 DEF Unread, NoAnswer
    <3>2. answer.error[1] = "project"
      BY <3>1
    <3> QED
      BY <3>2
  <2> QED
    BY <1>1, <2>1 DEF AnswerInv
<1>3. PICK old : old = builders[b]
  OBVIOUS
<1>4. old \in Builders /\ Faithful(heap, old)
  BY <1>2, <1>3, CalledBuilder
<1>5. old.err = NoMistake
  <2> SUFFICES ASSUME old.err # NoMistake PROVE FALSE
    OBVIOUS
  <2>1. answer.error = old.err
    BY <1>2, <1>3, GivenIs
  <2>2. old.err \in {"focus", "from", "of", "groups", "except", "folder"} \X
                     {"unnamed", "syntax", "without a selector", "without a pattern", "depth"}
    BY <1>4, BuilderIs DEF MistakesMade
  <2>3. old.err[1] \in {"focus", "from", "of", "groups", "except", "folder"}
    BY <2>2
  <2> QED
    BY <2>1, <2>3
<1>6. PICK said : said = builders[answer.of].said
  OBVIOUS
<1>7. said = old.said /\ Wrong(said) = {} /\ Says(heap, old)
  BY <1>2, <1>3, <1>4, <1>5, <1>6 DEF Faithful
<1>8. PICK query : query = Asked(said)
  OBVIOUS
<1>9. Query(b) = query
  BY <1>2, <1>3, <1>7, <1>8, FaithfulIsMeant, Zenon DEF EveryBuilderMeansItsChain, Wrong
<1>10. \A list \in {"focus", "from", "of"} : query.lists[list] \in Seq(Entries)
  <2> SUFFICES ASSUME NEW list \in {"focus", "from", "of"} PROVE query.lists[list] \in Seq(Entries)
    OBVIOUS
  <2>1. list \in Range(Lists)
    BY ListsAre
  <2>2. query.lists[list] = Elements(heap, old.slices[list])
    <3>1. query.lists = [l \in Range(Lists) |-> Elements(heap, builders[b].slices[l])]
      BY <1>9 DEF Query
    <3> QED
      BY <1>3, <2>1, <3>1
  <2>3. heap \in Seq(Seq(Entries)) /\ old.slices[list] \in GoSlices /\ InUse(heap, old.slices[list])
    BY <1>4, <2>1, BuilderSlices DEF SnapshotInv, Faithful
  <2> QED
    BY <2>2, <2>3, ElementsAre
<1> DEFINE wanted == {n \in Universe(query) : Wanted(said, query, n)}
           between == {e \in KeptDependencies(query) : e.source \in wanted /\ e.target \in wanted}
           inside == {e \in between : Label(query, e.source) = Label(query, e.target)}
           labels == {n.label : n \in answer.nodes}
<1>0. SUFFICES Shows(said, query, wanted, between, inside, labels)
  BY <1>6, <1>8, Zenon DEF SnapshotIsTheQuery, Shows
<1>11. IsFiniteSet(graph) /\ KeptNodes(query) = wanted
  BY <1>10, KeptAreWanted DEF AnswerInv
<1>12. Collected(query) = between
  BY <1>11, Zenon DEF Collected
<1>13. old.allowEmpty <=> AllowsEmpty(said)
  BY <1>7 DEF Says
<1>14. SnapshotNodes(query) = {} <=> wanted = {}
  <2>1. {n.label : n \in SnapshotNodes(query)} = {Label(query, n) : n \in KeptNodes(query)}
    BY <1>11, BoxesAreLabels
  <2> HIDE DEF wanted
  <2>2. SnapshotNodes(query) = {} <=> {n.label : n \in SnapshotNodes(query)} = {}
    OBVIOUS
  <2>3. wanted = {} <=> {Label(query, n) : n \in KeptNodes(query)} = {}
    BY <1>11
  <2> QED
    BY <2>1, <2>2, <2>3
<1> HIDE DEF wanted
<1>15. CASE SnapshotNodes(query) = {} /\ ~old.allowEmpty
  <2>1. answer.error = <<"snapshot", "empty">>
    BY <1>2, <1>3, <1>5, <1>9, <1>15, GivenIs
  <2>2. answer.error # NoMistake
    BY <2>1 DEF NoMistake
  <2>3. wanted = {} /\ ~AllowsEmpty(said)
    BY <1>13, <1>14, <1>15
  <2> QED
    BY <2>2, <2>3 DEF Shows
<1>16. CASE ~(SnapshotNodes(query) = {} /\ ~old.allowEmpty)
  <2>1. answer.error = NoMistake /\ answer.nodes = SnapshotNodes(query) /\ answer.edges = SnapshotEdges(query)
    BY <1>2, <1>3, <1>5, <1>9, <1>16, GivenIs
  <2>2. wanted = {} => AllowsEmpty(said)
    BY <1>13, <1>14, <1>16
  <2>3. /\ labels = {Label(query, n) : n \in wanted} /\ Cardinality(answer.nodes) = Cardinality(labels)
        /\ \A n \in answer.nodes : n.external <=> {m \in wanted \ ExternalNodes : Label(query, m) = n.label} = {}
    BY <1>11, <2>1, BoxesAreLabels
  <2>4. answer.edges = {Arrow(query, p) : p \in Drawn(query)}
    BY <2>1, EdgesAreArrows
  <2>5. Drawn(query) = {p \in {Ends(query, e) : e \in between} : query.self \/ p[1] # p[2]}
    BY <1>12 DEF Drawn
  <2>6. \A e \in between : {Ends(query, e)[1], Ends(query, e)[2]} \subseteq labels
    BY <2>3 DEF Ends
  <2>7. \A e \in answer.edges : {e.source, e.target} \subseteq labels
    <3> HIDE DEF labels, between
    <3>1. \A p \in Drawn(query) : {p[1], p[2]} \subseteq labels
      BY <2>5, <2>6
    <3>2. \A p \in Drawn(query) : {Arrow(query, p).source, Arrow(query, p).target} \subseteq labels
      BY <3>1, ArrowIs
    <3> QED
      BY <2>4, <3>2
  <2>8. SumCounts(answer.edges) = Cardinality(IF query.self THEN between ELSE between \ inside)
    <3>1. PICK shown : shown = {e \in Collected(query) : query.self \/ Ends(query, e)[1] # Ends(query, e)[2]}
      OBVIOUS
    <3>2. SumCounts(answer.edges) = Cardinality(shown)
      BY <1>11, <2>1, <3>1, ArrowsCount
    <3>3. \A e : Ends(query, e)[1] = Label(query, e.source) /\ Ends(query, e)[2] = Label(query, e.target)
      BY DEF Ends
    <3>4. shown = IF query.self THEN between ELSE between \ inside
      <4> HIDE DEF between
      <4> QED
        BY <1>12, <3>1, <3>3
    <3> QED
      BY <3>2, <3>4
  <2>9. ASSUME NEW e \in between, ~(e \in inside /\ ~query.self)
        PROVE  \E a \in answer.edges : /\ a.source = Label(query, e.source) /\ a.target = Label(query, e.target)
                                       /\ e.external => a.external
                                       /\ e.kinds \subseteq a.kinds
    <3>1. PICK p : p = Ends(query, e)
      OBVIOUS
    <3>2. p[1] = Label(query, e.source) /\ p[2] = Label(query, e.target)
      BY <3>1 DEF Ends
    <3>3. p \in Drawn(query)
      BY <2>5, <2>9, <3>1, <3>2
    <3>4. e \in Behind(query, p)
      BY <1>12, <3>1 DEF Behind
    <3>5. Arrow(query, p) \in answer.edges
      BY <2>4, <3>3
    <3>6. e.kinds \subseteq Arrow(query, p).kinds /\ (e.external => Arrow(query, p).external)
      BY <3>4, ArrowIs
    <3>7. Arrow(query, p).source = p[1] /\ Arrow(query, p).target = p[2]
      BY ArrowIs
    <3> QED
      BY <3>2, <3>5, <3>6, <3>7
  <2>10. \A e \in between : \/ e \in inside /\ ~query.self
                            \/ \E a \in answer.edges : /\ a.source = Label(query, e.source)
                                                       /\ a.target = Label(query, e.target)
                                                       /\ e.external => a.external
                                                       /\ e.kinds \subseteq a.kinds
    <3> HIDE DEF between, inside
    <3> QED
      BY <2>9
  <2> QED
    <3> HIDE DEF between, inside, labels
    <3> QED
      BY <2>1, <2>2, <2>3, <2>7, <2>8, <2>10 DEF Shows
<1> QED
  BY <1>15, <1>16

-----------------------------------------------------------------------------
\* An answer stays what it was while the project and the builders do.
LEMMA GivenStays ==
  ASSUME graph' = graph, heap' = heap, builders' = builders, NEW CONSTANT b
  PROVE  Given(b)' = Given(b)
<1>1. Nodes' = Nodes /\ ExternalNodes' = ExternalNodes
  BY DEF Nodes, ExternalNodes
<1>2. ASSUME NEW CONSTANT query
      PROVE  SnapshotNodes(query)' = SnapshotNodes(query) /\ SnapshotEdges(query)' = SnapshotEdges(query)
  <2>1. KeptDependencies(query)' = KeptDependencies(query) /\ Universe(query)' = Universe(query)
    BY <1>1 DEF KeptDependencies, Universe
  <2>2. ASSUME NEW CONSTANT list, NEW CONSTANT entry PROVE Reached(query, list, entry)' = Reached(query, list, entry)
    BY <1>1, <2>1 DEF Reached, Reach
  <2>3. KeptNodes(query)' = KeptNodes(query)
    BY <2>1, <2>2 DEF KeptNodes
  <2>4. ASSUME NEW CONSTANT n PROVE Label(query, n)' = Label(query, n)
    BY <1>1 DEF Label
  <2>5. Collected(query)' = Collected(query)
    BY <2>1, <2>3 DEF Collected
  <2>6. SnapshotNodes(query)' = SnapshotNodes(query)
    BY <1>1, <2>3, <2>4 DEF SnapshotNodes
  <2>7. SnapshotEdges(query)' = SnapshotEdges(query)
    <3>1. ASSUME NEW CONSTANT e PROVE Ends(query, e)' = Ends(query, e)
      BY <2>4 DEF Ends
    <3>2. ASSUME NEW CONSTANT p PROVE Behind(query, p)' = Behind(query, p)
      BY <2>5, <3>1 DEF Behind
    <3>3. Drawn(query)' = Drawn(query)
      BY <2>5, <3>1 DEF Drawn
    <3>4. ASSUME NEW CONSTANT p PROVE Arrow(query, p)' = Arrow(query, p)
      BY <3>2 DEF Arrow
    <3>5. SnapshotEdges(query)' = {Arrow(query, p)' : p \in Drawn(query)'}
      BY Zenon DEF SnapshotEdges, Arrow, Drawn, Behind, Ends
    <3>6. SnapshotEdges(query) = {Arrow(query, p) : p \in Drawn(query)}
      BY EdgesAreArrows
    <3> QED
      BY <3>3, <3>4, <3>5, <3>6
  <2> QED
    BY <2>6, <2>7
<1>3. PICK query : query = Query(b)
  OBVIOUS
<1>4. Query(b)' = Query(b)
  BY DEF Query
<1> QED
  BY <1>2, <1>3, <1>4 DEF Given

LEMMA AnswersStart == SnapshotInit => AnswerInv
<1> SUFFICES ASSUME SnapshotInit PROVE AnswerInv
  OBVIOUS
<1>1. graph \in Graphs /\ answer = NoAnswer
  BY DEF SnapshotInit
<1> QED
  BY <1>1, SnapshotAssumption DEF AnswerInv

\* Every call takes the answer back, and Snapshot gives the one it should.
LEMMA AnswersStay == AnswerInv /\ [SnapshotNext]_snapshotVars => AnswerInv'
<1> SUFFICES ASSUME AnswerInv, [SnapshotNext]_snapshotVars PROVE AnswerInv'
  OBVIOUS
<1>1. /\ IsFiniteSet(graph)
      /\ answer # NoAnswer => /\ answer.of \in DOMAIN builders
                              /\ answer = Given(answer.of) \/ answer = Unread(answer.of)
  BY DEF AnswerInv
<1>2. ASSUME graph' = graph, answer' = NoAnswer PROVE AnswerInv'
  BY <1>1, <1>2 DEF AnswerInv, NoAnswer, NoMistake
<1>3. ASSUME graph' = graph, heap' = heap, builders' = builders, NEW CONSTANT b \in DOMAIN builders,
             answer' = Given(b)
      PROVE  AnswerInv'
  <2>1. Given(b)' = Given(b)
    BY <1>3, GivenStays
  <2>2. answer'.of = b
    BY <1>3, GivenIs
  <2>3. Given(answer.of)' = Given(b)'
    BY <2>2
  <2> QED
    BY <1>1, <1>3, <2>1, <2>2, <2>3 DEF AnswerInv
<1>11. ASSUME graph' = graph, builders' = builders, NEW CONSTANT b \in DOMAIN builders, answer' = Unread(b)
       PROVE  AnswerInv'
  <2>1. answer'.of = b
    BY <1>11 DEF Unread, NoAnswer
  <2>2. answer' = Unread(answer.of)'
    BY <1>11, <2>1 DEF Unread
  <2> QED
    BY <1>1, <1>11, <2>1, <2>2 DEF AnswerInv
<1>4. CASE UNCHANGED snapshotVars
  <2>1. graph' = graph /\ heap' = heap /\ builders' = builders /\ answer' = answer
    BY <1>4 DEF snapshotVars
  <2>2. CASE answer = NoAnswer
    BY <1>2, <2>1, <2>2
  <2>3. CASE answer # NoAnswer
    BY <1>1, <1>3, <1>11, <2>1, <2>3
  <2> QED
    BY <2>2, <2>3
<1>5. ASSUME NEW b \in DOMAIN builders, Snapshot(b) PROVE AnswerInv'
  <2>1. graph' = graph /\ heap' = heap /\ builders' = builders
    BY <1>5 DEF Snapshot
  <2>2. answer' = Given(b)
    BY <1>5, Zenon DEF Snapshot, Given
  <2> QED
    BY <1>3, <2>1, <2>2
<1>6. ASSUME NEW b \in DOMAIN builders, NEW call \in Calls, Selecting(b, call) \/ SelectingRejected(b, call)
      PROVE  AnswerInv'
  BY <1>2, <1>6 DEF Selecting, SelectingRejected, Stored
<1>7. ASSUME NEW b \in DOMAIN builders, NEW patterns \in Exceptions, Except(b, patterns) \/ ExceptRejected(b, patterns)
      PROVE  AnswerInv'
  BY <1>2, <1>7 DEF Except, ExceptRejected, Stored
<1>8. ASSUME NEW b \in DOMAIN builders, NEW field \in {"external", "self"}, Switch(b, field)
      PROVE  AnswerInv'
  BY <1>2, <1>8 DEF Switch, Stored
<1>9. ASSUME NEW b \in DOMAIN builders, NEW depth \in FolderDepth, CollapseToFolderDepth(b, depth)
      PROVE  AnswerInv'
  BY <1>2, <1>9 DEF CollapseToFolderDepth, Stored
<1>10. ASSUME NEW b \in DOMAIN builders, NEW allowed \in BOOLEAN, WithCheckOptions(b, allowed) PROVE AnswerInv'
  BY <1>2, <1>10 DEF WithCheckOptions, Stored
<1>12. ASSUME NEW b \in DOMAIN builders, SnapshotFails(b) PROVE AnswerInv'
  BY <1>11, <1>12, Zenon DEF SnapshotFails, Unread
<1> QED
  BY <1>4, <1>5, <1>6, <1>7, <1>8, <1>9, <1>10, <1>12, Zenon DEF SnapshotNext

\* For any finite project, any patterns and any chain of calls, branched anywhere:
\* a snapshot holds the nodes its chain asks for and no others, counts every
\* dependency between two of them behind one arrow, and is empty only where the
\* last bag of the chain allows it (ProjectSnapshot, Snapshot).
THEOREM SnapshotsAreTheirQueries == SnapshotSpec => []SnapshotIsTheQuery
<1>1. SnapshotInit => SnapshotInv /\ AnswerInv
  BY SnapshotStarts, AnswersStart
<1>2. SnapshotInv /\ AnswerInv /\ [SnapshotNext]_snapshotVars => SnapshotInv' /\ AnswerInv'
  BY SnapshotKeeps, AnswersStay
<1>3. SnapshotInv /\ AnswerInv => SnapshotIsTheQuery
  BY AnswersAreQueries
<1> QED
  BY <1>1, <1>2, <1>3, PTL DEF SnapshotSpec

-----------------------------------------------------------------------------
\* The sentence of a rule about numbers, read off any verbs: the selects an
\* exclusion is about, the mistakes, and what each select comes to stand for.
QualifiedIn(said, k) ==
  {i \in 1 .. k - 1 : said[i].verb = "select" /\ \A j \in i + 1 .. k - 1 : said[j].verb = "except"}
MistakenIn(said, k) ==
  LET call == said[k]
  IN  CASE call.verb \in {"select", "except"} ->
             \/ ~(call.patterns \subseteq Compiles) \/ call.patterns = {}
             \/ /\ call.verb = "except"
                /\ \A i \in QualifiedIn(said, k) : call.population \notin {"plain", said[i].population}
        [] call.verb \in {"metric", "satisfy"} -> ~call.given
        [] call.verb = "compare" -> call.limit = NaN
        [] OTHER -> FALSE
MistakesIn(said) == {k \in DOMAIN said : MistakenIn(said, k)}
SelectsIn(said) == {i \in DOMAIN said : said[i].verb = "select"}
ExceptsIn(said, i) == {k \in DOMAIN said : said[k].verb = "except" /\ i \in QualifiedIn(said, k)}
StandsIn(said, i) ==
  [population |-> said[i].population, patterns |-> said[i].patterns,
   except |-> UNION {said[k].patterns : k \in ExceptsIn(said, i)}]

\* The first of the mistakes, or none.
FirstMistake(err, said) ==
  IF MistakesIn(said) = {} THEN err = 0 ELSE err \in MistakesIn(said) /\ \A k \in MistakesIn(said) : err <= k

\* The selectors a chain holds are its selects, and in a scope the last of them
\* is the select that the next exclusion is about.
Mean(selectors, said) == {selectors[j] : j \in 1 .. Len(selectors)} = {StandsIn(said, i) : i \in SelectsIn(said)}
EndsLike(selectors, said) ==
  \/ selectors = << >> /\ SelectsIn(said) = {}
  \/ \E i \in SelectsIn(said) :
       /\ QualifiedIn(said, Len(said) + 1) = {i}
       /\ selectors # << >> /\ selectors[Len(selectors)] = StandsIn(said, i)
       /\ {selectors[j] : j \in 1 .. Len(selectors) - 1} = {StandsIn(said, k) : k \in SelectsIn(said) \ {i}}

LEMMA EndsMean ==
  ASSUME NEW said, NEW U, NEW selectors \in Seq(U), EndsLike(selectors, said)
  PROVE  Mean(selectors, said)
<1> DEFINE n == Len(selectors)
<1>1. n \in Nat
  OBVIOUS
<1>2. CASE selectors = << >> /\ SelectsIn(said) = {}
  BY <1>2 DEF Mean
<1>3. ASSUME NEW i \in SelectsIn(said), selectors # << >>, selectors[n] = StandsIn(said, i),
             {selectors[j] : j \in 1 .. n - 1} = {StandsIn(said, k) : k \in SelectsIn(said) \ {i}}
      PROVE  Mean(selectors, said)
  <2>1. n >= 1 /\ 1 .. n = (1 .. n - 1) \cup {n}
    BY <1>3
  <2> HIDE DEF n
  <2>2. {selectors[j] : j \in 1 .. n} = {selectors[j] : j \in 1 .. n - 1} \cup {selectors[n]}
    BY <2>1
  <2>3. {StandsIn(said, k) : k \in SelectsIn(said)} = {StandsIn(said, k) : k \in SelectsIn(said) \ {i}} \cup {StandsIn(said, i)}
    BY <1>3
  <2> QED
    BY <1>3, <2>2, <2>3 DEF Mean, n
<1> QED
  BY <1>2, <1>3 DEF EndsLike

\* One more verb.
OneMore(said, call, more) ==
  /\ Len(said) \in Nat /\ Len(more) = Len(said) + 1
  /\ DOMAIN said = 1 .. Len(said) /\ DOMAIN more = 1 .. Len(said) + 1
  /\ \A k \in 1 .. Len(said) : more[k] = said[k]
  /\ more[Len(said) + 1] = call
  /\ \A k \in 1 .. Len(said) + 1 : QualifiedIn(more, k) = QualifiedIn(said, k)
  /\ \A k \in 1 .. Len(said) : MistakenIn(more, k) <=> MistakenIn(said, k)
  /\ SelectsIn(more) = SelectsIn(said) \cup (IF call.verb = "select" THEN {Len(said) + 1} ELSE {})
  /\ SelectsIn(said) \subseteq 1 .. Len(said)

LEMMA OneMoreVerb ==
  ASSUME NEW U, NEW said \in Seq(U), NEW call \in U, NEW more, more = Append(said, call)
  PROVE  OneMore(said, call, more)
<1> DEFINE n == Len(said)
<1>1. /\ more \in Seq(U) /\ n \in Nat /\ Len(more) = n + 1
      /\ DOMAIN said = 1 .. n /\ DOMAIN more = 1 .. n + 1
      /\ \A k \in 1 .. n : more[k] = said[k]
      /\ more[n + 1] = call
  OBVIOUS
<1> HIDE DEF n
<1>2. ASSUME NEW k \in 1 .. n + 1 PROVE QualifiedIn(more, k) = QualifiedIn(said, k)
  <2>1. \A i \in 1 .. k - 1 : more[i] = said[i]
    BY <1>1
  <2>2. \A i \in 1 .. k - 1 : \A j \in i + 1 .. k - 1 : more[j] = said[j]
    BY <1>1
  <2> QED
    BY <2>1, <2>2 DEF QualifiedIn
<1>3. ASSUME NEW k \in 1 .. n PROVE MistakenIn(more, k) <=> MistakenIn(said, k)
  <2>1. more[k] = said[k] /\ QualifiedIn(more, k) = QualifiedIn(said, k)
    BY <1>1, <1>2
  <2>2. \A i \in QualifiedIn(said, k) : more[i] = said[i]
    BY <1>1 DEF QualifiedIn
  <2> QED
    BY <2>1, <2>2 DEF MistakenIn
<1>4. SelectsIn(more) = SelectsIn(said) \cup (IF call.verb = "select" THEN {n + 1} ELSE {})
  BY <1>1 DEF SelectsIn
<1>5. SelectsIn(said) \subseteq 1 .. n
  BY <1>1 DEF SelectsIn
<1> QED
  BY <1>1, <1>2, <1>3, <1>4, <1>5 DEF OneMore, n

\* The first mistake stays the first.
LEMMA MistakeAdded ==
  ASSUME NEW said, NEW call, NEW more, OneMore(said, call, more),
         NEW err, FirstMistake(err, said), NEW after,
         after = IF MistakenIn(more, Len(said) + 1) /\ err = 0 THEN Len(said) + 1 ELSE err
  PROVE  FirstMistake(after, more)
<1> DEFINE n == Len(said)
<1>1. /\ n \in Nat /\ DOMAIN said = 1 .. n /\ DOMAIN more = 1 .. n + 1
      /\ \A k \in 1 .. n : MistakenIn(more, k) <=> MistakenIn(said, k)
  BY DEF OneMore
<1> HIDE DEF n
<1>2. MistakesIn(said) \subseteq 1 .. n
  BY <1>1 DEF MistakesIn
<1>3. MistakesIn(more) = MistakesIn(said) \cup (IF MistakenIn(more, n + 1) THEN {n + 1} ELSE {})
  BY <1>1 DEF MistakesIn
<1>4. CASE MistakesIn(said) = {}
  BY <1>1, <1>3, <1>4 DEF FirstMistake, n
<1>5. CASE MistakesIn(said) # {}
  <2>1. err \in 1 .. n /\ err \in MistakesIn(said) /\ \A k \in MistakesIn(said) : err <= k
    BY <1>2, <1>5 DEF FirstMistake
  <2>2. after = err /\ err <= n + 1
    BY <1>1, <2>1
  <2> QED
    BY <1>3, <2>1, <2>2 DEF FirstMistake
<1> QED
  BY <1>4, <1>5

\* What the selects stand for after one more verb.
LEMMA StandsAfter ==
  ASSUME NEW said, NEW call, NEW more, OneMore(said, call, more),
         NEW i \in SelectsIn(said)
  PROVE  StandsIn(more, i) =
           IF call.verb = "except" /\ i \in QualifiedIn(said, Len(said) + 1)
           THEN [StandsIn(said, i) EXCEPT !.except = @ \cup call.patterns] ELSE StandsIn(said, i)
<1> DEFINE n == Len(said)
           counts == call.verb = "except" /\ i \in QualifiedIn(said, n + 1)
<1>1. /\ n \in Nat /\ DOMAIN said = 1 .. n /\ DOMAIN more = 1 .. n + 1
      /\ \A k \in 1 .. n : more[k] = said[k]
      /\ more[n + 1] = call
      /\ \A k \in 1 .. n + 1 : QualifiedIn(more, k) = QualifiedIn(said, k)
      /\ i \in 1 .. n
  BY DEF OneMore
<1> HIDE DEF n
<1>2. ExceptsIn(more, i) = ExceptsIn(said, i) \cup (IF counts THEN {n + 1} ELSE {})
  BY <1>1 DEF ExceptsIn
<1>3. \A k \in ExceptsIn(said, i) : more[k] = said[k]
  BY <1>1 DEF ExceptsIn
<1>4. {more[k].patterns : k \in ExceptsIn(said, i)} = {said[k].patterns : k \in ExceptsIn(said, i)}
  BY <1>3
<1>5. (UNION {more[k].patterns : k \in ExceptsIn(more, i)})
        = (UNION {said[k].patterns : k \in ExceptsIn(said, i)}) \cup (IF counts THEN call.patterns ELSE {})
  <2>1. CASE counts
    <3>1. {more[k].patterns : k \in ExceptsIn(said, i) \cup {n + 1}}
            = {more[k].patterns : k \in ExceptsIn(said, i)} \cup {more[n + 1].patterns}
      OBVIOUS
    <3> QED
      BY <1>1, <1>2, <1>4, <2>1, <3>1
  <2>2. CASE ~counts
    BY <1>2, <1>4, <2>2
  <2> QED
    BY <2>1, <2>2
<1>6. more[i] = said[i]
  BY <1>1
<1> QED
  BY <1>5, <1>6, Zenon DEF StandsIn, n

LEMMA SelectAdded ==
  ASSUME NEW said, NEW call, NEW more, OneMore(said, call, more),
         NEW V, NEW selectors \in Seq(V), EndsLike(selectors, said), call.verb = "select",
         NEW fresh \in V, fresh = [population |-> call.population, patterns |-> call.patterns, except |-> {}]
  PROVE  EndsLike(Append(selectors, fresh), more)
<1> DEFINE n == Len(said)
           m == Len(selectors)
           longer == Append(selectors, fresh)
<1>1. /\ n \in Nat /\ Len(more) = n + 1 /\ DOMAIN more = 1 .. n + 1
      /\ \A k \in 1 .. n : more[k] = said[k]
      /\ more[n + 1] = call
      /\ \A k \in 1 .. n + 1 : QualifiedIn(more, k) = QualifiedIn(said, k)
      /\ SelectsIn(more) = SelectsIn(said) \cup {n + 1}
      /\ SelectsIn(said) \subseteq 1 .. n
  BY DEF OneMore
<1>2. /\ m \in Nat /\ Len(longer) = m + 1 /\ longer # << >> /\ longer[m + 1] = fresh
      /\ \A j \in 1 .. m : longer[j] = selectors[j]
  OBVIOUS
<1>3. Mean(selectors, said)
  BY EndsMean
<1>4. \A i \in SelectsIn(said) : StandsIn(more, i) = StandsIn(said, i)
  BY StandsAfter
<1> HIDE DEF n, m, longer
<1>5. QualifiedIn(more, n + 2) = {n + 1}
  <2>1. n + 1 \in QualifiedIn(more, n + 2)
    BY <1>1 DEF QualifiedIn
  <2>2. ASSUME NEW i \in QualifiedIn(more, n + 2) PROVE i = n + 1
    <3>1. i \in 1 .. n + 1 /\ (n + 1 \in i + 1 .. n + 1 => more[n + 1].verb = "except")
      BY <1>1 DEF QualifiedIn
    <3> QED
      BY <1>1, <3>1
  <2> QED
    BY <2>1, <2>2
<1>6. ExceptsIn(more, n + 1) = {}
  BY <1>1 DEF ExceptsIn, QualifiedIn
<1>7. StandsIn(more, n + 1) = fresh
  BY <1>1, <1>6 DEF StandsIn
<1>8. {longer[j] : j \in 1 .. m} = {StandsIn(more, k) : k \in SelectsIn(more) \ {n + 1}}
  <2>1. SelectsIn(more) \ {n + 1} = SelectsIn(said)
    BY <1>1
  <2>2. {longer[j] : j \in 1 .. m} = {selectors[j] : j \in 1 .. m}
    BY <1>2
  <2>3. {StandsIn(more, k) : k \in SelectsIn(said)} = {StandsIn(said, k) : k \in SelectsIn(said)}
    BY <1>4
  <2> QED
    BY <1>3, <2>1, <2>2, <2>3 DEF Mean, m
<1>9. Len(longer) - 1 = m /\ Len(more) + 1 = n + 2
  BY <1>1, <1>2
<1> QED
  BY <1>1, <1>2, <1>5, <1>7, <1>8, <1>9 DEF EndsLike, longer

LEMMA ExceptAdded ==
  ASSUME NEW said, NEW call, NEW more, OneMore(said, call, more),
         NEW V, NEW selectors \in Seq(V), EndsLike(selectors, said), call.verb = "except",
         selectors # << >>, NEW fresh \in V,
         fresh = [selectors[Len(selectors)] EXCEPT !.except = @ \cup call.patterns]
  PROVE  EndsLike([selectors EXCEPT ![Len(selectors)] = fresh], more)
<1> DEFINE n == Len(said)
           m == Len(selectors)
           other == [selectors EXCEPT ![m] = fresh]
<1>1. /\ n \in Nat /\ Len(more) = n + 1 /\ DOMAIN more = 1 .. n + 1
      /\ \A k \in 1 .. n : more[k] = said[k]
      /\ more[n + 1] = call
      /\ \A k \in 1 .. n + 1 : QualifiedIn(more, k) = QualifiedIn(said, k)
      /\ SelectsIn(more) = SelectsIn(said)
      /\ SelectsIn(said) \subseteq 1 .. n
  BY DEF OneMore
<1>2. PICK i \in SelectsIn(said) :
        /\ QualifiedIn(said, n + 1) = {i}
        /\ selectors[m] = StandsIn(said, i)
        /\ {selectors[j] : j \in 1 .. m - 1} = {StandsIn(said, k) : k \in SelectsIn(said) \ {i}}
  BY DEF EndsLike
<1>3. /\ m \in Nat /\ m >= 1 /\ other \in Seq(V) /\ Len(other) = m /\ other # << >> /\ other[m] = fresh
      /\ \A j \in 1 .. m - 1 : other[j] = selectors[j]
  <2>1. m \in Nat /\ m # 0 /\ DOMAIN selectors = 1 .. m /\ selectors \in [1 .. m -> V]
    OBVIOUS
  <2>2. m >= 1 /\ m \in 1 .. m
    BY <2>1
  <2> HIDE DEF m
  <2>3. other \in [1 .. m -> V] /\ other[m] = fresh /\ \A j \in 1 .. m - 1 : other[j] = selectors[j]
    BY <2>1, <2>2
  <2> HIDE DEF other
  <2>4. other \in Seq(V) /\ Len(other) = m
    BY <2>1, <2>3
  <2> QED
    BY <2>1, <2>2, <2>3, <2>4
<1>4. /\ StandsIn(more, i) = [StandsIn(said, i) EXCEPT !.except = @ \cup call.patterns]
      /\ \A k \in SelectsIn(said) \ {i} : StandsIn(more, k) = StandsIn(said, k)
  BY <1>2, StandsAfter
<1> HIDE DEF n, m, other
<1>5. QualifiedIn(more, n + 2) = {i}
  <2>1. QualifiedIn(more, n + 1) = {i}
    BY <1>1, <1>2
  <2>2. ASSUME NEW h PROVE h \in QualifiedIn(more, n + 2) <=> h \in QualifiedIn(more, n + 1)
    <3>1. ASSUME h \in QualifiedIn(more, n + 2) PROVE h \in QualifiedIn(more, n + 1)
      <4>1. h \in 1 .. n + 1 /\ more[h].verb = "select" /\ \A j \in h + 1 .. n + 1 : more[j].verb = "except"
        BY <1>1, <3>1 DEF QualifiedIn
      <4>2. h # n + 1
        BY <1>1, <4>1
      <4> QED
        BY <1>1, <4>1, <4>2 DEF QualifiedIn
    <3>2. ASSUME h \in QualifiedIn(more, n + 1) PROVE h \in QualifiedIn(more, n + 2)
      <4>1. h \in 1 .. n /\ more[h].verb = "select" /\ \A j \in h + 1 .. n : more[j].verb = "except"
        BY <1>1, <3>2 DEF QualifiedIn
      <4>2. \A j \in h + 1 .. n + 1 : more[j].verb = "except"
        BY <1>1, <4>1
      <4> QED
        BY <1>1, <4>1, <4>2 DEF QualifiedIn
    <3> QED
      BY <3>1, <3>2
  <2> QED
    BY <2>1, <2>2
<1>6. other[m] = StandsIn(more, i)
  BY <1>2, <1>3, <1>4 DEF m
<1>7. {other[j] : j \in 1 .. m - 1} = {StandsIn(more, k) : k \in SelectsIn(more) \ {i}}
  <2>1. {other[j] : j \in 1 .. m - 1} = {selectors[j] : j \in 1 .. m - 1}
    BY <1>3
  <2>2. {StandsIn(more, k) : k \in SelectsIn(said) \ {i}} = {StandsIn(said, k) : k \in SelectsIn(said) \ {i}}
    BY <1>4
  <2> QED
    BY <1>1, <1>2, <2>1, <2>2
<1>8. Len(more) + 1 = n + 2
  BY <1>1
<1> QED
  BY <1>1, <1>3, <1>5, <1>6, <1>7, <1>8 DEF EndsLike, other, m

\* The verbs that follow a scope select nothing.
LEMMA ScopeClosed ==
  ASSUME NEW said, NEW call, NEW more, OneMore(said, call, more),
         NEW selectors, Mean(selectors, said), call.verb \notin {"select", "except"}
  PROVE  Mean(selectors, more)
<1>1. SelectsIn(more) = SelectsIn(said)
  BY DEF OneMore
<1>2. \A i \in SelectsIn(said) : StandsIn(more, i) = StandsIn(said, i)
  BY StandsAfter
<1> QED
  BY <1>1, <1>2 DEF Mean

-----------------------------------------------------------------------------
\* What a chain holds: the first mistake of its sentence and, where there is none,
\* its selects, with a metric and a condition as far as they were said.
AllMetrics == FileMetrics \cup ClassMetrics \cup ComponentMetrics
TypedCalls ==
  Scopes \cup Conditions \cup
  {[verb |-> "metric", metric |-> metric, given |-> given] : metric \in AllMetrics, given \in BOOLEAN}
HeldSelectors ==
  [population : {call.population : call \in Scopes}, patterns : SUBSET Compiles, except : SUBSET Compiles]
HeldChains ==
  [selectors : Seq(HeldSelectors), metric : AllMetrics \cup {"none"},
   condition : Conditions \cup {[verb |-> "none"]}, err : Nat]

SaidSoFar ==
  /\ stage = "scope" => chain.metric = "none" /\ chain.condition.verb = "none"
  /\ stage = "metric" => chain.metric \in AllMetrics /\ chain.condition.verb = "none"
  /\ stage = "condition" =>
       /\ chain.condition \in Conditions /\ chain.condition.verb \in {"compare", "satisfy", "zone"}
       /\ chain.condition.verb # "zone" => chain.metric \in AllMetrics
       /\ chain.condition.verb = "compare" /\ chain.err = 0 => chain.condition.limit.d # 0

SentenceInv ==
  /\ typed \in Seq(TypedCalls) /\ chain \in HeldChains /\ project \in Projects
  /\ FirstMistake(chain.err, typed)
  /\ chain.err = 0 => Mean(chain.selectors, typed)
  /\ stage = "scope" /\ chain.err = 0 => EndsLike(chain.selectors, typed)
  /\ SaidSoFar

LEMMA WhatIsMistaken ==
  ASSUME NEW said, NEW k
  PROVE  /\ said[k].verb = "select" =>
              (MistakenIn(said, k) <=> ~(said[k].patterns \subseteq Compiles) \/ said[k].patterns = {})
         /\ said[k].verb = "except" =>
              (MistakenIn(said, k) <=>
                 \/ ~(said[k].patterns \subseteq Compiles) \/ said[k].patterns = {}
                 \/ \A i \in QualifiedIn(said, k) : said[k].population \notin {"plain", said[i].population})
         /\ said[k].verb \in {"metric", "satisfy"} => (MistakenIn(said, k) <=> ~said[k].given)
         /\ said[k].verb = "compare" => (MistakenIn(said, k) <=> said[k].limit = NaN)
         /\ said[k].verb = "zone" => ~MistakenIn(said, k)
BY DEF MistakenIn

LEMMA SentenceInit ==
  ASSUME MetricsInit
  PROVE  SentenceInv
<1>1. typed = << >> /\ chain = [selectors |-> << >>, metric |-> "none", condition |-> [verb |-> "none"], err |-> 0]
  BY DEF MetricsInit
<1>2. MistakesIn(typed) = {} /\ SelectsIn(typed) = {}
  BY <1>1 DEF MistakesIn, SelectsIn
<1>3. typed \in Seq(TypedCalls) /\ chain \in HeldChains
  BY <1>1 DEF HeldChains
<1>4. chain.err = 0 /\ chain.selectors = << >> /\ chain.metric = "none" /\ chain.condition.verb = "none"
  BY <1>1
<1>5. EndsLike(chain.selectors, typed)
  BY <1>2, <1>4 DEF EndsLike
<1>6. Mean(chain.selectors, typed)
  BY <1>2, <1>4 DEF Mean
<1> QED
  BY <1>2, <1>3, <1>4, <1>5, <1>6 DEF SentenceInv, SaidSoFar, FirstMistake, MetricsInit

\* Every verb is one more of the sentence.
LEMMA VerbIsOneMore ==
  ASSUME SentenceInv, NEW call \in TypedCalls, NEW next, NEW given, Verb(call, next, given)
  PROVE  /\ typed' \in Seq(TypedCalls) /\ OneMore(typed, call, typed') /\ project' \in Projects
         /\ chain' = given /\ stage' = next
<1>1. typed' = Append(typed, call) /\ typed \in Seq(TypedCalls) /\ project' = project /\ project \in Projects
  BY DEF Verb, SentenceInv
<1>2. typed' \in Seq(TypedCalls)
  BY <1>1
<1>3. OneMore(typed, call, typed')
  BY <1>1, OneMoreVerb
<1> QED
  BY <1>1, <1>2, <1>3 DEF Verb

LEMMA ScopeSelectKeeps ==
  ASSUME SentenceInv, NEW call \in Scopes, Select(call)
  PROVE  SentenceInv'
<1> DEFINE n == Len(typed)
           fresh == [population |-> call.population, patterns |-> call.patterns, except |-> {}]
           sound == call.patterns \subseteq Compiles
           given == IF sound THEN [chain EXCEPT !.selectors = Append(@, fresh)] ELSE MetricsRejecting(chain)
<1>1. /\ stage = "scope" /\ call.verb = "select" /\ call \in TypedCalls
      /\ Verb(call, "scope", given)
  BY DEF Select, TypedCalls
<1>2. /\ typed' \in Seq(TypedCalls) /\ OneMore(typed, call, typed') /\ project' \in Projects
      /\ chain' = given /\ stage' = "scope"
  BY <1>1, VerbIsOneMore
<1>3. /\ chain \in HeldChains /\ FirstMistake(chain.err, typed) /\ chain.err \in Nat
      /\ chain.err = 0 => EndsLike(chain.selectors, typed)
      /\ chain.metric = "none" /\ chain.condition.verb = "none"
      /\ chain.selectors \in Seq(HeldSelectors)
  BY <1>1 DEF SentenceInv, SaidSoFar, HeldChains
<1>4. n \in Nat /\ typed'[n + 1] = call
  BY <1>2 DEF OneMore
<1>5. MistakenIn(typed', n + 1) <=> ~sound
  BY <1>1, <1>4, WhatIsMistaken, MetricsCallsAssumption
<1>6. CASE sound
  <2>1. fresh \in HeldSelectors
    BY <1>6 DEF HeldSelectors
  <2> HIDE DEF fresh
  <2>2. /\ chain' = [chain EXCEPT !.selectors = Append(chain.selectors, fresh)]
    BY <1>2, <1>6
  <2>3. /\ chain' \in HeldChains /\ chain'.err = chain.err /\ chain'.metric = "none" /\ chain'.condition = chain.condition
        /\ chain'.selectors = Append(chain.selectors, fresh)
    <3> DEFINE longer == Append(chain.selectors, fresh)
    <3>1. longer \in Seq(HeldSelectors) /\ chain' = [chain EXCEPT !.selectors = longer]
      BY <1>3, <2>1, <2>2
    <3> HIDE DEF longer
    <3>2. /\ chain' \in HeldChains /\ chain'.err = chain.err /\ chain'.metric = "none" /\ chain'.condition = chain.condition
          /\ chain'.selectors = longer
      BY <1>3, <3>1 DEF HeldChains
    <3> QED
      BY <3>2 DEF longer
  <2>4. FirstMistake(chain'.err, typed')
    BY <1>2, <1>3, <1>5, <1>6, <2>3, MistakeAdded DEF n
  <2>5. ASSUME chain'.err = 0 PROVE EndsLike(chain'.selectors, typed') /\ Mean(chain'.selectors, typed')
    <3>0. EndsLike(chain.selectors, typed)
      BY <1>3, <2>3, <2>5
    <3>1. EndsLike(Append(chain.selectors, fresh), typed')
      BY <1>1, <1>2, <1>3, <2>1, <3>0, SelectAdded DEF fresh
    <3>2. chain'.selectors \in Seq(HeldSelectors)
      BY <2>3 DEF HeldChains
    <3>3. EndsLike(chain'.selectors, typed')
      BY <2>3, <3>1
    <3> QED
      BY <3>2, <3>3, EndsMean
  <2> QED
    BY <1>2, <1>3, <2>3, <2>4, <2>5 DEF SentenceInv, SaidSoFar
<1>7. CASE ~sound
  <2>1. chain' = [chain EXCEPT !.err = IF @ = 0 THEN n + 1 ELSE @]
    BY <1>2, <1>7 DEF MetricsRejecting
  <2>2. /\ chain' \in HeldChains /\ chain'.err = (IF chain.err = 0 THEN n + 1 ELSE chain.err) /\ chain'.err # 0
        /\ chain'.metric = "none" /\ chain'.condition = chain.condition
    BY <1>3, <1>4, <2>1 DEF HeldChains
  <2>3. FirstMistake(chain'.err, typed')
    BY <1>2, <1>3, <1>5, <1>7, <2>2, MistakeAdded DEF n
  <2> QED
    BY <1>2, <1>3, <2>2, <2>3 DEF SentenceInv, SaidSoFar
<1> QED
  BY <1>6, <1>7

LEMMA ScopeExceptKeeps ==
  ASSUME SentenceInv, NEW call \in Scopes, MetricsExcept(call)
  PROVE  SentenceInv'
<1> DEFINE n == Len(typed)
           m == Len(chain.selectors)
           last == Last(chain.selectors)
           sound == /\ chain.selectors # << >> /\ call.patterns # {} /\ call.patterns \subseteq Compiles
                    /\ call.population \in {"plain", last.population}
           given == IF sound THEN [chain EXCEPT !.selectors[m].except = @ \cup call.patterns]
                    ELSE MetricsRejecting(chain)
<1>1. /\ stage = "scope" /\ call.verb = "except" /\ call \in TypedCalls
      /\ Verb(call, "scope", given)
  BY DEF MetricsExcept, TypedCalls
<1>2. /\ typed' \in Seq(TypedCalls) /\ OneMore(typed, call, typed') /\ project' \in Projects
      /\ chain' = given /\ stage' = "scope"
  BY <1>1, VerbIsOneMore
<1>3. /\ chain \in HeldChains /\ FirstMistake(chain.err, typed) /\ chain.err \in Nat
      /\ chain.err = 0 => EndsLike(chain.selectors, typed)
      /\ chain.metric = "none" /\ chain.condition.verb = "none"
      /\ chain.selectors \in Seq(HeldSelectors)
  BY <1>1 DEF SentenceInv, SaidSoFar, HeldChains
<1>4. n \in Nat /\ typed'[n + 1] = call /\ QualifiedIn(typed', n + 1) = QualifiedIn(typed, n + 1)
  BY <1>2 DEF OneMore
<1>5. ASSUME chain.err = 0 PROVE MistakenIn(typed', n + 1) <=> ~sound
  <2>1. MistakenIn(typed', n + 1) <=>
          \/ ~(call.patterns \subseteq Compiles) \/ call.patterns = {}
          \/ \A i \in QualifiedIn(typed, n + 1) : call.population \notin {"plain", typed'[i].population}
    BY <1>1, <1>4, WhatIsMistaken
  <2>2. CASE chain.selectors = << >>
    <3>1. SelectsIn(typed) = {}
      BY <1>3, <1>5, <2>2 DEF EndsLike
    <3>2. QualifiedIn(typed, n + 1) = {}
      BY <1>2, <3>1 DEF QualifiedIn, SelectsIn, OneMore
    <3> QED
      BY <2>1, <2>2, <3>2
  <2>3. CASE chain.selectors # << >>
    <3>1. PICK i \in SelectsIn(typed) : QualifiedIn(typed, n + 1) = {i} /\ chain.selectors[m] = StandsIn(typed, i)
      BY <1>3, <1>5, <2>3 DEF EndsLike
    <3>2. last = StandsIn(typed, i)
      BY <3>1 DEF Last
    <3>3. last.population = typed[i].population /\ typed'[i] = typed[i]
      BY <1>2, <3>2 DEF StandsIn, OneMore
    <3> QED
      BY <2>1, <2>3, <3>1, <3>3
  <2> QED
    BY <2>2, <2>3
<1>6. CASE sound
  <2> DEFINE fresh == [chain.selectors[m] EXCEPT !.except = @ \cup call.patterns]
  <2>1. m \in Nat /\ m # 0 /\ m \in DOMAIN chain.selectors /\ chain.selectors[m] \in HeldSelectors
    BY <1>3, <1>6
  <2>2. fresh \in HeldSelectors
    BY <1>6, <2>1 DEF HeldSelectors
  <2>3. chain' = [chain EXCEPT !.selectors[m].except = @ \cup call.patterns]
    BY <1>2, <1>6
  <2>4. [chain.selectors EXCEPT ![m] = fresh] \in Seq(HeldSelectors)
    <3> HIDE DEF fresh, m
    <3>1. chain.selectors \in [1 .. Len(chain.selectors) -> HeldSelectors] /\ Len(chain.selectors) \in Nat
      BY <1>3
    <3> DEFINE other == [chain.selectors EXCEPT ![m] = fresh]
    <3>2. other \in [1 .. Len(chain.selectors) -> HeldSelectors]
      BY <2>2, <3>1
    <3> HIDE DEF other
    <3>3. other \in Seq(HeldSelectors)
      BY <3>1, <3>2
    <3> QED
      BY <3>3 DEF other
  <2>5. chain' = [chain EXCEPT !.selectors = [chain.selectors EXCEPT ![m] = fresh]]
    BY <1>3, <2>1, <2>3 DEF HeldChains
  <2> HIDE DEF fresh
  <2>6. /\ chain' \in HeldChains /\ chain'.err = chain.err /\ chain'.metric = "none" /\ chain'.condition = chain.condition
        /\ chain'.selectors = [chain.selectors EXCEPT ![m] = fresh]
    <3> DEFINE other == [chain.selectors EXCEPT ![m] = fresh]
    <3>1. other \in Seq(HeldSelectors) /\ chain' = [chain EXCEPT !.selectors = other]
      BY <2>4, <2>5
    <3> HIDE DEF other
    <3>2. /\ chain' \in HeldChains /\ chain'.err = chain.err /\ chain'.metric = "none" /\ chain'.condition = chain.condition
          /\ chain'.selectors = other
      BY <1>3, <3>1 DEF HeldChains
    <3> QED
      BY <3>2 DEF other
  <2>7. FirstMistake(chain'.err, typed')
    BY <1>2, <1>3, <1>5, <1>6, <2>6, MistakeAdded DEF n
  <2>8. ASSUME chain'.err = 0 PROVE EndsLike(chain'.selectors, typed') /\ Mean(chain'.selectors, typed')
    <3>0. EndsLike(chain.selectors, typed) /\ chain.selectors # << >>
      BY <1>3, <1>6, <2>6, <2>8
    <3>1. EndsLike([chain.selectors EXCEPT ![m] = fresh], typed')
      BY <1>1, <1>2, <1>3, <2>2, <3>0, ExceptAdded DEF fresh, m
    <3>2. chain'.selectors \in Seq(HeldSelectors)
      BY <2>6 DEF HeldChains
    <3>3. EndsLike(chain'.selectors, typed')
      BY <2>6, <3>1
    <3> QED
      BY <3>2, <3>3, EndsMean
  <2> QED
    BY <1>2, <1>3, <2>6, <2>7, <2>8 DEF SentenceInv, SaidSoFar
<1>7. CASE ~sound
  <2>1. chain' = [chain EXCEPT !.err = IF @ = 0 THEN n + 1 ELSE @]
    BY <1>2, <1>7 DEF MetricsRejecting
  <2>2. /\ chain' \in HeldChains /\ chain'.err = (IF chain.err = 0 THEN n + 1 ELSE chain.err) /\ chain'.err # 0
        /\ chain'.metric = "none" /\ chain'.condition = chain.condition
    BY <1>3, <1>4, <2>1 DEF HeldChains
  <2>3. FirstMistake(chain'.err, typed')
    BY <1>2, <1>3, <1>5, <1>7, <2>2, MistakeAdded DEF n
  <2> QED
    BY <1>2, <1>3, <2>2, <2>3 DEF SentenceInv, SaidSoFar
<1> QED
  BY <1>6, <1>7

\* The verbs that close a scope, and those that follow.
LEMMA LaterVerb ==
  ASSUME SentenceInv, NEW call \in TypedCalls, call.verb \notin {"select", "except"}, NEW next, next # "scope",
         NEW given \in HeldChains, Verb(call, next, given), given.selectors = chain.selectors,
         given.err = IF MistakenIn(typed', Len(typed) + 1) /\ chain.err = 0 THEN Len(typed) + 1 ELSE chain.err
  PROVE  /\ SaidSoFar' => SentenceInv'
         /\ stage' = next /\ chain' = given
<1>1. /\ typed' \in Seq(TypedCalls) /\ OneMore(typed, call, typed') /\ project' \in Projects
      /\ chain' = given /\ stage' = next
  BY VerbIsOneMore
<1>2. FirstMistake(chain.err, typed) /\ chain.err \in Nat /\ (chain.err = 0 => Mean(chain.selectors, typed))
  BY DEF SentenceInv, HeldChains
<1>3. FirstMistake(chain'.err, typed')
  BY <1>1, <1>2, MistakeAdded
<1>4. ASSUME chain'.err = 0 PROVE Mean(chain'.selectors, typed')
  <2>1. chain.err = 0
    BY <1>1, <1>2, <1>4 DEF OneMore
  <2>2. Mean(chain.selectors, typed')
    BY <1>1, <1>2, <2>1, ScopeClosed
  <2> QED
    BY <1>1, <2>2
<1> QED
  BY <1>1, <1>3, <1>4 DEF SentenceInv

\* A call that is refused or not, as its own mistake says.
LEMMA RefusedOrNot ==
  ASSUME NEW refused \in BOOLEAN, SentenceInv,
         NEW c, c = IF refused THEN MetricsRejecting(chain) ELSE chain
  PROVE  /\ c \in HeldChains /\ c.selectors = chain.selectors /\ c.condition = chain.condition
         /\ c.metric = chain.metric
         /\ c.err = IF refused /\ chain.err = 0 THEN Len(typed) + 1 ELSE chain.err
<1>1. chain \in HeldChains /\ Len(typed) \in Nat
  BY DEF SentenceInv
<1> QED
  BY <1>1 DEF MetricsRejecting, HeldChains

LEMMA MetricKeeps ==
  ASSUME SentenceInv,
         NEW call \in TypedCalls, call.verb = "metric", NEW metric \in AllMetrics, call.given \in BOOLEAN,
         NEW c, c = IF ~call.given THEN MetricsRejecting(chain) ELSE chain,
         stage = "scope", Verb(call, "metric", [c EXCEPT !.metric = metric])
  PROVE  SentenceInv'
<1> DEFINE given == [c EXCEPT !.metric = metric]
<1>1. /\ c \in HeldChains /\ c.selectors = chain.selectors /\ c.condition = chain.condition
      /\ c.err = IF ~call.given /\ chain.err = 0 THEN Len(typed) + 1 ELSE chain.err
  BY RefusedOrNot
<1>2. /\ given \in HeldChains /\ given.selectors = chain.selectors /\ given.condition = chain.condition
      /\ given.metric = metric /\ given.err = c.err
  BY <1>1 DEF HeldChains
<1> HIDE DEF given
<1>3. Verb(call, "metric", given) /\ chain.condition.verb = "none"
  BY DEF given, SentenceInv, SaidSoFar
<1>4. OneMore(typed, call, typed')
  BY <1>3, VerbIsOneMore
<1>5. typed'[Len(typed) + 1] = call
  BY <1>4 DEF OneMore
<1>6. MistakenIn(typed', Len(typed) + 1) <=> ~call.given
  BY <1>5, WhatIsMistaken
<1>7. (SaidSoFar' => SentenceInv') /\ stage' = "metric" /\ chain' = given
  BY <1>1, <1>2, <1>3, <1>6, LaterVerb
<1> QED
  BY <1>2, <1>3, <1>7 DEF SaidSoFar

LEMMA ConditionKeeps ==
  ASSUME SentenceInv, NEW call \in Conditions, call.verb \in {"compare", "satisfy", "zone"},
         NEW refused \in BOOLEAN,
         call.verb = "compare" => (refused <=> call.limit.d = 0),
         call.verb = "satisfy" => (refused <=> ~call.given),
         call.verb = "zone" => ~refused,
         NEW c, c = IF refused THEN MetricsRejecting(chain) ELSE chain,
         call.verb # "zone" => stage = "metric", 
         Verb(call, "condition", [c EXCEPT !.condition = call])
  PROVE  SentenceInv'
<1> DEFINE given == [c EXCEPT !.condition = call]
<1>1. /\ c \in HeldChains /\ c.selectors = chain.selectors /\ c.metric = chain.metric
      /\ c.err = IF refused /\ chain.err = 0 THEN Len(typed) + 1 ELSE chain.err
  BY RefusedOrNot
<1>2. /\ given \in HeldChains /\ given.selectors = chain.selectors /\ given.condition = call
      /\ given.metric = chain.metric /\ given.err = c.err
  BY <1>1 DEF HeldChains
<1> HIDE DEF given
<1>3. Verb(call, "condition", given) /\ (call.verb # "zone" => chain.metric \in AllMetrics) /\ call \in TypedCalls
  BY DEF given, SentenceInv, SaidSoFar, TypedCalls
<1>4. OneMore(typed, call, typed')
  BY <1>3, VerbIsOneMore
<1>5. typed'[Len(typed) + 1] = call
  BY <1>4 DEF OneMore
<1>6. call.verb = "compare" => (call.limit = NaN <=> call.limit.d = 0)
  <2>1. ASSUME call.verb = "compare", call.limit.d = 0 PROVE call.limit = NaN
    <3>1. call.limit \in [n : Int, d : Nat, halved : {FALSE}] /\ call.limit.n = 0
      BY <2>1, MetricsCallsAssumption
    <3>2. call.limit = [n |-> call.limit.n, d |-> call.limit.d, halved |-> call.limit.halved] /\ call.limit.halved = FALSE
      BY <3>1
    <3> QED
      BY <2>1, <3>1, <3>2 DEF NaN, Number
  <2>2. ASSUME call.limit = NaN PROVE call.limit.d = 0
    BY <2>2 DEF NaN, Number
  <2> QED
    BY <2>1, <2>2
<1>7. MistakenIn(typed', Len(typed) + 1) <=> refused
  BY <1>5, <1>6, WhatIsMistaken
<1>8. (SaidSoFar' => SentenceInv') /\ stage' = "condition" /\ chain' = given
  BY <1>1, <1>2, <1>3, <1>7, LaterVerb
<1>9. call.verb = "compare" /\ given.err = 0 => call.limit.d # 0
  BY <1>1, <1>2, <1>4 DEF OneMore
<1> QED
  BY <1>2, <1>3, <1>8, <1>9 DEF SaidSoFar

LEMMA MetricIsTyped ==
  ASSUME NEW metric \in AllMetrics, NEW given \in BOOLEAN
  PROVE  [verb |-> "metric", metric |-> metric, given |-> given] \in TypedCalls
<1>1. [verb |-> "metric", metric |-> metric, given |-> given]
        \in {[verb |-> "metric", metric |-> m, given |-> g] : m \in AllMetrics, g \in BOOLEAN}
  OBVIOUS
<1> QED
  BY <1>1 DEF TypedCalls

\* Every step keeps the sentence.
LEMMA SentenceStep ==
  ASSUME SentenceInv, [MetricsNext]_metricsVars
  PROVE  SentenceInv'
<1>1. CASE UNCHANGED metricsVars
  BY <1>1 DEF metricsVars, SentenceInv, SaidSoFar
<1>2. ASSUME chain' = chain, typed' = typed, project' = project, stage' = "done" PROVE SentenceInv'
  BY <1>2 DEF SentenceInv, SaidSoFar
<1>3. ASSUME NEW call \in Scopes, Select(call) \/ MetricsExcept(call) PROVE SentenceInv'
  BY <1>3, ScopeSelectKeeps, ScopeExceptKeeps
<1>4. ASSUME NEW metric \in CountGroup \cup ComponentMetrics, Choose(metric) PROVE SentenceInv'
  <2> DEFINE call == [verb |-> "metric", metric |-> metric, given |-> TRUE]
  <2>0. metric \in AllMetrics
    BY DEF AllMetrics, CountGroup, ClassMetrics
  <2>1. call \in TypedCalls
    BY <2>0, MetricIsTyped, TRUE \in BOOLEAN
  <2>2. stage = "scope" /\ Verb(call, "metric", [chain EXCEPT !.metric = metric])
    BY <1>4 DEF Choose
  <2>3. call.verb = "metric" /\ call.given
    OBVIOUS
  <2> HIDE DEF call
  <2> QED
    BY <2>0, <2>1, <2>2, <2>3, MetricKeeps
<1>5. ASSUME NEW given \in BOOLEAN, CustomMetric(given) PROVE SentenceInv'
  <2> DEFINE call == [verb |-> "metric", metric |-> "custom", given |-> given]
             c == IF ~given THEN MetricsRejecting(chain) ELSE chain
  <2>0. "custom" \in AllMetrics
    BY DEF AllMetrics, ClassMetrics
  <2>1. call \in TypedCalls
    BY <2>0, MetricIsTyped
  <2>2. stage = "scope" /\ Verb(call, "metric", [c EXCEPT !.metric = "custom"])
    BY <1>5 DEF CustomMetric
  <2>3. call.verb = "metric" /\ call.given = given
    OBVIOUS
  <2> HIDE DEF call
  <2> QED
    BY <2>0, <2>1, <2>2, <2>3, MetricKeeps
<1>6. ASSUME NEW call \in Conditions, ShouldBe(call) \/ ShouldSatisfy(call) \/ ShouldNotBeIn(call) PROVE SentenceInv'
  <2>1. CASE ShouldBe(call)
    BY <2>1, ConditionKeeps DEF ShouldBe
  <2>2. CASE ShouldSatisfy(call)
    <3>1. call.given \in BOOLEAN
      BY <2>2, MetricsCallsAssumption DEF ShouldSatisfy
    <3> QED
      BY <2>2, <3>1, ConditionKeeps DEF ShouldSatisfy
  <2>3. CASE ShouldNotBeIn(call)
    BY <2>3, ConditionKeeps DEF ShouldNotBeIn
  <2> QED
    BY <1>6, <2>1, <2>2, <2>3
<1>7. CASE Measure
  BY <1>2, <1>7 DEF Measure, Return
<1>8. ASSUME NEW lenient \in BOOLEAN, Check(lenient) PROVE SentenceInv'
  BY <1>2, <1>8 DEF Check, Return
<1>9. ASSUME NEW group, NEW path, NEW lenient, ExportAsHTML(group, path, lenient) PROVE SentenceInv'
  BY <1>2, <1>9 DEF ExportAsHTML, Return
<1> QED
  BY <1>1, <1>3, <1>4, <1>5, <1>6, <1>7, <1>8, <1>9 DEF MetricsNext

-----------------------------------------------------------------------------
\* The sentence of the typed verbs is the one the rule is judged by.
LEMMA SentenceRead ==
  /\ \A k : Qualified(k) = QualifiedIn(typed, k)
  /\ Mistakes = MistakesIn(typed)
  /\ \A population : Selects(population) = {i \in SelectsIn(typed) : typed[i].population = population}
  /\ \A i : ExceptsIn(typed, i) = {k \in DOMAIN typed : typed[k].verb = "except" /\ i \in Qualified(k)}
<1>1. \A k : Qualified(k) = QualifiedIn(typed, k)
  BY DEF Qualified, QualifiedIn
<1>2. \A k : Mistaken(k) <=> MistakenIn(typed, k)
  BY <1>1, Zenon DEF Mistaken, MistakenIn
<1>3. Mistakes = MistakesIn(typed)
  BY <1>2 DEF Mistakes, MistakesIn
<1> QED
  BY <1>1, <1>3 DEF Selects, SelectsIn, ExceptsIn

\* A selector matches what its select names.
LEMMA SelectorNames ==
  ASSUME NEW i \in SelectsIn(typed), NEW subject
  PROVE  Matches(StandsIn(typed, i), subject) <=> NamesSubject(i, subject)
<1>1. /\ StandsIn(typed, i).population = typed[i].population
      /\ StandsIn(typed, i).patterns = typed[i].patterns
      /\ StandsIn(typed, i).except = UNION {typed[k].patterns : k \in ExceptsIn(typed, i)}
  BY DEF StandsIn
<1>2. \A k : k \in ExceptsIn(typed, i) <=> k \in DOMAIN typed /\ typed[k].verb = "except" /\ i \in Qualified(k)
  BY SentenceRead
<1>3. NamesSubject(i, subject) <=>
        /\ \A p \in typed[i].patterns : subject \in MetricsDescribes[p][typed[i].population]
        /\ \A k \in ExceptsIn(typed, i) : \A p \in typed[k].patterns :
             subject \notin MetricsDescribes[p][typed[i].population]
  BY <1>2 DEF NamesSubject
<1>4. (\A p \in UNION {typed[k].patterns : k \in ExceptsIn(typed, i)} :
         subject \notin MetricsDescribes[p][typed[i].population])
        <=> \A k \in ExceptsIn(typed, i) : \A p \in typed[k].patterns :
              subject \notin MetricsDescribes[p][typed[i].population]
  OBVIOUS
<1> QED
  BY <1>1, <1>3, <1>4 DEF Matches

\* A chain without a mistake selects what its sentence names.
LEMMA ScopeIsSentence ==
  ASSUME SentenceInv, chain.err = 0, NEW population
  PROVE  /\ \A subject : MatchesEvery(population, subject) <=> \A i \in Selects(population) : NamesSubject(i, subject)
         /\ SelectorsFor(population) = {} <=> Selects(population) = {}
<1>1. {chain.selectors[j] : j \in 1 .. Len(chain.selectors)} = {StandsIn(typed, i) : i \in SelectsIn(typed)}
  BY DEF SentenceInv, Mean
<1>2. chain.selectors \in Seq(HeldSelectors)
  BY DEF SentenceInv, HeldChains
<1>3. Range(chain.selectors) = {StandsIn(typed, i) : i \in SelectsIn(typed)}
  <2>1. DOMAIN chain.selectors = 1 .. Len(chain.selectors)
    BY <1>2
  <2>2. Range(chain.selectors) = {chain.selectors[j] : j \in 1 .. Len(chain.selectors)}
    BY <2>1, Zenon DEF Range
  <2> QED
    BY <1>1, <2>2
<1>4. \A i : StandsIn(typed, i).population = typed[i].population
  BY DEF StandsIn
<1>5. SelectorsFor(population) = {StandsIn(typed, i) : i \in Selects(population)}
  BY <1>3, <1>4, SentenceRead DEF SelectorsFor
<1>6. Selects(population) \subseteq SelectsIn(typed)
  BY SentenceRead
<1>7. ASSUME NEW subject
      PROVE  MatchesEvery(population, subject) <=> \A i \in Selects(population) : NamesSubject(i, subject)
  BY <1>5, <1>6, SelectorNames DEF MatchesEvery
<1> QED
  BY <1>5, <1>7

LEMMA FilesAreWanted ==
  ASSUME SentenceInv
  PROVE  /\ WantedFiles \in SUBSET DOMAIN project.disk /\ IsFiniteSet(WantedFiles)
         /\ chain.err = 0 => SelectFiles = WantedFiles
<1>1. /\ project \in Projects /\ IsFiniteSet(project.edges)
      /\ DOMAIN project.disk = {e.source : e \in {d \in project.edges : d.source = d.target}}
  BY MetricsAssumption DEF SentenceInv
<1>2. IsFiniteSet(DOMAIN project.disk)
  <2> DEFINE own == {d \in project.edges : d.source = d.target}
             f == [e \in own |-> e.source]
  <2>1. IsFiniteSet(own) /\ f \in Surjection(own, DOMAIN project.disk)
    BY <1>1, FS_Subset DEF Surjection
  <2> QED
    BY <2>1, FS_Surjection
<1>3. WantedFiles \in SUBSET DOMAIN project.disk
  BY DEF WantedFiles
<1>4. ASSUME chain.err = 0 PROVE SelectFiles = WantedFiles
  <2>1. \A f : MatchesEvery("files", f) <=> \A i \in Selects("files") : NamesSubject(i, f)
    BY <1>4, ScopeIsSentence
  <2> QED
    BY <1>1, <2>1 DEF SelectFiles, WantedFiles
<1> QED
  BY <1>2, <1>3, <1>4, FS_Subset

\* What fails, fails as the sentence says.
Kinds == {project.disk[f] : f \in WantedFiles}
LEMMA FailureIs ==
  ASSUME SentenceInv
  PROVE  /\ chain.err # 0 => Failure(SelectFiles) = [kind |-> "rejected", call |-> chain.err]
         /\ chain.err = 0 /\ Gone \in Kinds => Failure(SelectFiles) = [kind |-> "gone"]
         /\ chain.err = 0 /\ Gone \notin Kinds /\ Unparsable \in Kinds => Failure(SelectFiles) = [kind |-> "unparsable"]
         /\ chain.err = 0 /\ Gone \notin Kinds /\ Unparsable \notin Kinds =>
              /\ Failure(SelectFiles) = Unanswered
              /\ Readable(SelectFiles) = WantedFiles
<1>1. CASE chain.err # 0
  BY <1>1 DEF Failure
<1>2. CASE chain.err = 0
  <2>1. SelectFiles = WantedFiles
    BY <1>2, FilesAreWanted
  <2>2. \A kind : Failing(WantedFiles, kind) # {} <=> kind \in Kinds
    BY DEF Failing, Kinds
  <2>3. Gone \notin Kinds /\ Unparsable \notin Kinds => Readable(WantedFiles) = WantedFiles
    BY DEF Readable, Kinds
  <2> QED
    BY <1>2, <2>1, <2>2, <2>3 DEF Failure
<1> QED
  BY <1>1, <1>2

-----------------------------------------------------------------------------
\* Everything that was wanted was read.
AllRead == Gone \notin Kinds /\ Unparsable \notin Kinds

LEMMA ReadIsMeasurable ==
  ASSUME SentenceInv, AllRead
  PROVE  /\ Measurables(WantedFiles)
         /\ \A f \in WantedFiles : /\ f \in DOMAIN project.disk /\ project.disk[f] \notin {Gone, Unparsable}
                                   /\ project.disk[f].code \in Nat
                                   /\ \A t \in project.disk[f].types : t.fields \in Nat /\ t.members \in Nat
<1>1. IsFiniteSet(WantedFiles) /\ WantedFiles \in SUBSET DOMAIN project.disk
  BY FilesAreWanted
<1>2. \A f \in WantedFiles : project.disk[f] \notin {Gone, Unparsable}
  BY DEF AllRead, Kinds
<1>3. project \in Projects
  BY DEF SentenceInv
<1> QED
  BY <1>1, <1>2, <1>3, MetricsAssumption DEF Measurables

\* The types that files declare, and the class of one of them.
DeclaredBy(files) == UNION {{<<f, t>> : t \in project.disk[f].types} : f \in files}
ClassOf(files, ft) ==
  [id |-> TypeId(ft), path |-> ft[1], interface |-> ft[2].interface, fields |-> ft[2].fields,
   methods |-> ft[2].members + Tallied(files, ft[1], ft[2].name)]

LEMMA ClassesAre ==
  ASSUME NEW files
  PROVE  /\ ClassesIn(files) = {ClassOf(files, ft) : ft \in DeclaredBy(files)}
         /\ \A x : x \in DeclaredBy(files) <=> \E f \in files : \E t \in project.disk[f].types : x = <<f, t>>
         /\ \A x \in DeclaredBy(files) : x = <<x[1], x[2]>> /\ x[1] \in files /\ x[2] \in project.disk[x[1]].types
<1>1. \A x : x \in DeclaredBy(files) <=> \E f \in files : \E t \in project.disk[f].types : x = <<f, t>>
  BY DEF DeclaredBy
<1>2. \A x \in DeclaredBy(files) : x = <<x[1], x[2]>> /\ x[1] \in files /\ x[2] \in project.disk[x[1]].types
  BY <1>1
<1> DEFINE C(f, t) == [id |-> Qualify(Dir(f), t.name), path |-> f, interface |-> t.interface, fields |-> t.fields,
                       methods |-> t.members + Tallied(files, f, t.name)]
<1>3. \A f, t : ClassOf(files, <<f, t>>) = C(f, t)
  BY DEF ClassOf, TypeId
<1>4. ClassesIn(files) = UNION {{C(f, t) : t \in project.disk[f].types} : f \in files}
  BY DEF ClassesIn
<1> HIDE DEF C
<1>5. \A x : x \in ClassesIn(files) <=> \E f \in files : \E t \in project.disk[f].types : x = C(f, t)
  BY <1>4
<1>6. \A x : x \in {ClassOf(files, ft) : ft \in DeclaredBy(files)}
               <=> \E f \in files : \E t \in project.disk[f].types : x = C(f, t)
  <2>1. ASSUME NEW ft \in DeclaredBy(files)
        PROVE  \E f \in files : \E t \in project.disk[f].types : ClassOf(files, ft) = C(f, t)
    <3>1. PICK f \in files : \E t \in project.disk[f].types : ft = <<f, t>>
      BY <1>1
    <3>2. PICK t \in project.disk[f].types : ft = <<f, t>>
      BY <3>1
    <3> QED
      BY <1>3, <3>2
  <2>2. ASSUME NEW f \in files, NEW t \in project.disk[f].types
        PROVE  C(f, t) \in {ClassOf(files, ft) : ft \in DeclaredBy(files)}
    <3>1. <<f, t>> \in DeclaredBy(files)
      BY <1>1
    <3>2. C(f, t) = ClassOf(files, <<f, t>>)
      BY <1>3
    <3> QED
      BY <3>1, <3>2
  <2> QED
    BY <2>1, <2>2
<1> QED
  BY <1>1, <1>2, <1>5, <1>6

LEMMA SubjectsAre ==
  ASSUME SentenceInv, chain.err = 0, NEW subjects, subjects = SelectSubjects(WantedFiles)
  PROVE  /\ subjects.classes = {ClassOf(WantedFiles, ft) : ft \in MeantTypes}
         /\ subjects.files = MeantFiles
         /\ subjects.components = SelectComponents(MeantFiles)
         /\ MeantTypes \in SUBSET DeclaredBy(WantedFiles) /\ MeantFiles \in SUBSET WantedFiles
<1> DEFINE classes == {c \in ClassesIn(WantedFiles) : MatchesEvery("classes", c.id)}
           measured == IF SelectorsFor("classes") = {} THEN WantedFiles ELSE {c.path : c \in classes}
<1>1. /\ subjects.classes = classes /\ subjects.files = measured /\ subjects.components = SelectComponents(measured)
  BY Zenon DEF SelectSubjects
<1>2. /\ \A subject : MatchesEvery("classes", subject) <=> \A i \in Selects("classes") : NamesSubject(i, subject)
      /\ SelectorsFor("classes") = {} <=> Selects("classes") = {}
  BY ScopeIsSentence
<1>3. MeantTypes = {ft \in DeclaredBy(WantedFiles) : MatchesEvery("classes", TypeId(ft))}
  BY <1>2, Zenon DEF MeantTypes, DeclaredBy, TypeId
<1>4. \A ft : ClassOf(WantedFiles, ft).id = TypeId(ft) /\ ClassOf(WantedFiles, ft).path = ft[1]
  BY DEF ClassOf
<1>5. ClassesIn(WantedFiles) = {ClassOf(WantedFiles, ft) : ft \in DeclaredBy(WantedFiles)}
  BY ClassesAre
<1>6. classes = {ClassOf(WantedFiles, ft) : ft \in MeantTypes}
  BY <1>3, <1>4, <1>5
<1>7. {c.path : c \in classes} = {ft[1] : ft \in MeantTypes}
  BY <1>4, <1>6
<1> HIDE DEF classes
<1>8. measured = MeantFiles
  BY <1>2, <1>7 DEF MeantFiles
<1>9. MeantFiles \in SUBSET WantedFiles
  <2>1. \A ft \in MeantTypes : ft[1] \in WantedFiles
    BY <1>3, ClassesAre
  <2> QED
    BY <2>1 DEF MeantFiles
<1> HIDE DEF measured
<1> QED
  BY <1>1, <1>3, <1>6, <1>8, <1>9

-----------------------------------------------------------------------------
\* The methods of a type are those of the files of its folder.
LEMMA MethodsCounted ==
  ASSUME NEW files, Measurables(files), NEW file, NEW name,
         NEW methods, methods = {fm \in UNION {{f} \X project.disk[f].methods : f \in files} :
                                   Dir(fm[1]) = Dir(file) /\ fm[2].on = name}
  PROVE  Tallied(files, file, name) = Cardinality(methods) /\ Cardinality(methods) \in Nat
<1> DEFINE D == InFolder(files, Dir(file))
           U == UNION {project.disk[f].methods : f \in files}
           G == [f \in D |-> MethodsOf(f, name)]
<1>1. D \in SUBSET files /\ \A f : f \in D <=> f \in files /\ Dir(f) = Dir(file)
  BY DEF InFolder
<1>2. IsFiniteSet(D)
  BY <1>1, FS_Subset DEF Measurables
<1>3. Tallied(files, file, name) = SumFunction([f \in D |-> Cardinality(MethodsOf(f, name))])
  BY DEF Tallied
<1> HIDE DEF D
<1>4. \A f \in D : MethodsOf(f, name) \in SUBSET project.disk[f].methods
  BY DEF MethodsOf
<1>5. \A f \in D : IsFiniteSet(MethodsOf(f, name)) /\ MethodsOf(f, name) \in SUBSET U
  BY <1>1, <1>4, FS_Subset DEF Measurables
<1>6. G \in [D -> SUBSET U] /\ \A f \in D : G[f] = MethodsOf(f, name)
  BY <1>5
<1>7. [f \in D |-> Cardinality(G[f])] = [f \in D |-> Cardinality(MethodsOf(f, name))]
  OBVIOUS
<1>8. methods = Counted(G, D, U)
  <2>1. ASSUME NEW x \in methods PROVE x \in Counted(G, D, U)
    <3>1. PICK f \in files : x \in {f} \X project.disk[f].methods
      OBVIOUS
    <3>2. x = <<x[1], x[2]>> /\ x[1] = f /\ x[2] \in project.disk[f].methods /\ Dir(f) = Dir(file) /\ x[2].on = name
      BY <3>1
    <3>3. f \in D /\ x[2] \in MethodsOf(f, name) /\ x[2] \in U
      BY <1>1, <3>2 DEF MethodsOf
    <3>4. x[1] \in D /\ x[2] \in G[x[1]]
      BY <1>6, <3>2, <3>3
    <3>5. x \in D \X U
      BY <3>2, <3>3, <3>4
    <3> QED
      BY <3>4, <3>5 DEF Counted
  <2>2. ASSUME NEW x \in Counted(G, D, U) PROVE x \in methods
    <3>1. x = <<x[1], x[2]>> /\ x[1] \in D /\ x[2] \in G[x[1]]
      BY DEF Counted
    <3>2. x[1] \in files /\ Dir(x[1]) = Dir(file) /\ x[2] \in project.disk[x[1]].methods /\ x[2].on = name
      BY <1>1, <1>6, <3>1 DEF MethodsOf
    <3>3. x \in {x[1]} \X project.disk[x[1]].methods
      BY <3>1, <3>2
    <3> QED
      BY <3>2, <3>3
  <2> QED
    BY <2>1, <2>2
<1>9. \A f \in D : IsFiniteSet(G[f])
  BY <1>5, <1>6
<1> HIDE DEF G, U
<1>10. /\ IsFiniteSet(Counted(G, D, U))
       /\ SumFunction([f \in D |-> Cardinality(G[f])]) = Cardinality(Counted(G, D, U))
  BY <1>2, <1>6, <1>9, SumIsCount
<1> QED
  BY <1>3, <1>7, <1>8, <1>10, FS_CardinalityType

\* The types of a folder.
TypesUnder(files, folder) == UNION {{f} \X project.disk[f].types : f \in {g \in files : Dir(g) = folder}}

LEMMA TypesCounted ==
  ASSUME NEW files, Measurables(files), NEW folder
  PROVE  /\ ComponentOf(files, folder).classes = Cardinality(TypesUnder(files, folder))
         /\ ComponentOf(files, folder).interfaces = Cardinality({ft \in TypesUnder(files, folder) : ft[2].interface})
         /\ Cardinality(TypesUnder(files, folder)) = 0 <=> TypesUnder(files, folder) = {}
<1> DEFINE types == TypesUnder(files, folder)
           D == InFolder(files, folder)
           U == UNION {project.disk[f].types : f \in files}
           G == [f \in D |-> TypesOf(f)]
           H == [f \in D |-> InterfacesOf(f)]
<1>1. D \in SUBSET files /\ D = {g \in files : Dir(g) = folder}
  BY DEF InFolder
<1>0. types = UNION {{f} \X project.disk[f].types : f \in D}
  BY <1>1 DEF TypesUnder
<1>2. IsFiniteSet(D)
  BY <1>1, FS_Subset DEF Measurables
<1>3. /\ ComponentOf(files, folder).classes = SumFunction([f \in D |-> Cardinality(TypesOf(f))])
      /\ ComponentOf(files, folder).interfaces = SumFunction([f \in D |-> Cardinality(InterfacesOf(f))])
  BY DEF ComponentOf
<1> HIDE DEF D, types
<1>4. \A f \in D : InterfacesOf(f) \in SUBSET TypesOf(f) /\ IsFiniteSet(TypesOf(f)) /\ TypesOf(f) \in SUBSET U
  BY <1>1 DEF InterfacesOf, TypesOf, Measurables
<1>5. \A f \in D : IsFiniteSet(InterfacesOf(f)) /\ InterfacesOf(f) \in SUBSET U
  BY <1>4, FS_Subset
<1>6. /\ G \in [D -> SUBSET U] /\ \A f \in D : G[f] = TypesOf(f) /\ IsFiniteSet(G[f])
      /\ H \in [D -> SUBSET U] /\ \A f \in D : H[f] = InterfacesOf(f) /\ IsFiniteSet(H[f])
  BY <1>4, <1>5
<1>7. /\ [f \in D |-> Cardinality(G[f])] = [f \in D |-> Cardinality(TypesOf(f))]
      /\ [f \in D |-> Cardinality(H[f])] = [f \in D |-> Cardinality(InterfacesOf(f))]
  OBVIOUS
<1> HIDE DEF G, H
<1>8. \A x : x \in types <=> x = <<x[1], x[2]>> /\ x[1] \in D /\ x[2] \in TypesOf(x[1])
  <2>1. ASSUME NEW x \in types PROVE x = <<x[1], x[2]>> /\ x[1] \in D /\ x[2] \in TypesOf(x[1])
    <3>1. PICK f \in D : x \in {f} \X project.disk[f].types
      BY <1>0
    <3> QED
      BY <3>1 DEF TypesOf
  <2>2. ASSUME NEW x, x = <<x[1], x[2]>>, x[1] \in D, x[2] \in TypesOf(x[1]) PROVE x \in types
    <3>1. x \in {x[1]} \X project.disk[x[1]].types
      BY <2>2 DEF TypesOf
    <3> QED
      BY <1>0, <2>2, <3>1
  <2> QED
    BY <2>1, <2>2
<1>9. types = Counted(G, D, U)
  BY <1>4, <1>6, <1>8 DEF Counted
<1>10. {ft \in types : ft[2].interface} = Counted(H, D, U)
  <2>1. \A x : x \in Counted(H, D, U) <=> x = <<x[1], x[2]>> /\ x[1] \in D /\ x[2] \in InterfacesOf(x[1])
    BY <1>5, <1>6 DEF Counted
  <2>2. \A f, t : t \in InterfacesOf(f) <=> t \in TypesOf(f) /\ t.interface
    BY DEF InterfacesOf
  <2> QED
    BY <1>8, <2>1, <2>2
<1> HIDE DEF U
<1>11. /\ IsFiniteSet(Counted(G, D, U))
       /\ SumFunction([f \in D |-> Cardinality(G[f])]) = Cardinality(Counted(G, D, U))
  BY <1>2, <1>6, SumIsCount
<1>12. SumFunction([f \in D |-> Cardinality(H[f])]) = Cardinality(Counted(H, D, U))
  BY <1>2, <1>6, SumIsCount
<1>13. Cardinality(types) = 0 <=> types = {}
  BY <1>9, <1>11, FS_EmptySet
<1> QED
  BY <1>3, <1>7, <1>9, <1>10, <1>11, <1>12, <1>13 DEF types

\* The folders a folder is coupled to.
ImportsOf(files, from, to) ==
  \E e \in project.edges : /\ {e.source, e.target} \subseteq files
                           /\ Dir(e.source) = from /\ Dir(e.target) = to

LEMMA CouplingCounted ==
  ASSUME NEW files, NEW folder
  PROVE  /\ ComponentOf(files, folder).dependsOn
              = {g \in FoldersOf(files) \ {folder} : ImportsOf(files, folder, g)}
         /\ ComponentOf(files, folder).dependedOnBy
              = {g \in FoldersOf(files) \ {folder} : ImportsOf(files, g, folder)}
<1>1. \A x : x \in Crossing(files) <=>
               \E e \in project.edges : /\ {e.source, e.target} \subseteq files /\ Dir(e.source) # Dir(e.target)
                                        /\ x = <<Dir(e.source), Dir(e.target)>>
  BY DEF Crossing
<1>2. \A from, to : <<from, to>> \in Crossing(files) <=> ImportsOf(files, from, to) /\ from # to
  BY <1>1 DEF ImportsOf
<1>3. \A x \in Crossing(files) : x = <<x[1], x[2]>>
  BY <1>1
<1>4. \A from, to : ImportsOf(files, from, to) => from \in FoldersOf(files) /\ to \in FoldersOf(files)
  BY DEF ImportsOf, FoldersOf
<1>5. /\ ComponentOf(files, folder).dependsOn = {p[2] : p \in {q \in Crossing(files) : q[1] = folder}}
      /\ ComponentOf(files, folder).dependedOnBy = {p[1] : p \in {q \in Crossing(files) : q[2] = folder}}
  BY DEF ComponentOf
<1>6. \A g : g \in {p[2] : p \in {q \in Crossing(files) : q[1] = folder}} <=> <<folder, g>> \in Crossing(files)
  BY <1>3
<1>7. \A g : g \in {p[1] : p \in {q \in Crossing(files) : q[2] = folder}} <=> <<g, folder>> \in Crossing(files)
  BY <1>3
<1> QED
  BY <1>2, <1>4, <1>5, <1>6, <1>7

\* A number is a ratio, or no number at all.
IsFigure(v) == v.n \in Nat /\ v.d \in Nat /\ (v.d = 0 => v = NaN)

LEMMA HalvedNumber ==
  ASSUME NEW x, NEW y, NEW v, v = [n |-> x, d |-> y, halved |-> FALSE], NEW b
  PROVE  [v EXCEPT !.halved = b] = [n |-> x, d |-> y, halved |-> b]
<1> DEFINE w == [v EXCEPT !.halved = b]
           u == [n |-> x, d |-> y, halved |-> b]
<1>1. DOMAIN v = {"n", "d", "halved"} /\ v.n = x /\ v.d = y
  OBVIOUS
<1>2. DOMAIN w = {"n", "d", "halved"} /\ w.n = x /\ w.d = y /\ w.halved = b
  BY <1>1
<1>3. w = [i \in {"n", "d", "halved"} |-> w[i]]
  BY <1>1
<1>4. u = [i \in {"n", "d", "halved"} |-> u[i]]
  OBVIOUS
<1> QED
  BY <1>1, <1>2, <1>3, <1>4

\* The numbers of a component are those of its folder.
LEMMA FolderMeant ==
  ASSUME Measurables(MeantFiles), NEW folder \in FoldersOf(MeantFiles), NEW c, c = ComponentOf(MeantFiles, folder),
         NEW metric \in ComponentMetrics, NEW count, count = Cardinality(SelectComponents(MeantFiles))
  PROVE  /\ MeasureComponent(metric, c, count) = MeantOfFolder(metric, folder)
         /\ AbstractnessOf(c) = MeantOfFolder("abstractness", folder)
         /\ InstabilityOf(c) = MeantOfFolder("instability", folder)
         /\ IsFigure(MeasureComponent(metric, c, count))
<1> DEFINE others == {Dir(f) : f \in MeantFiles} \ {folder}
           imports(from, to) == \E e \in project.edges : /\ {e.source, e.target} \subseteq MeantFiles
                                                        /\ Dir(e.source) = from /\ Dir(e.target) = to
           out == Cardinality({g \in others : imports(folder, g)})
           coupled == out + Cardinality({g \in others : imports(g, folder)})
           types == UNION {{f} \X project.disk[f].types : f \in {g \in MeantFiles : Dir(g) = folder}}
           abstract == IF types = {} THEN Number(0, 1)
                       ELSE Number(Cardinality({ft \in types : ft[2].interface}), Cardinality(types))
           instable == IF coupled = 0 THEN Number(0, 1) ELSE Number(out, coupled)
           away == abstract.d * instable.d - abstract.n * instable.d - instable.n * abstract.d
<1>1. /\ MeantOfFolder("abstractness", folder) = abstract
      /\ MeantOfFolder("instability", folder) = instable
      /\ MeantOfFolder("normalized", folder) = Number(Absolute(away), abstract.d * instable.d)
      /\ MeantOfFolder("distance", folder) = [n |-> Absolute(away), d |-> abstract.d * instable.d, halved |-> TRUE]
      /\ MeantOfFolder("coupling", folder) = IF others = {} THEN Number(0, 1) ELSE Number(coupled, 2 * Cardinality(others))
  BY DEF MeantOfFolder
<1>2. c.dependsOn = {g \in others : imports(folder, g)} /\ c.dependedOnBy = {g \in others : imports(g, folder)}
  BY CouplingCounted DEF ImportsOf, FoldersOf
<1>3. Efferent(c) = out /\ Efferent(c) + Afferent(c) = coupled
  BY <1>2 DEF Efferent, Afferent
<1>4. /\ c.classes = Cardinality(types) /\ c.interfaces = Cardinality({ft \in types : ft[2].interface})
      /\ Cardinality(types) = 0 <=> types = {}
  <2>1. types = TypesUnder(MeantFiles, folder)
    BY DEF TypesUnder
  <2> HIDE DEF types
  <2> QED
    BY <2>1, TypesCounted
<1>5. AbstractnessOf(c) = abstract
  BY <1>4 DEF AbstractnessOf
<1>6. InstabilityOf(c) = instable
  BY <1>3 DEF InstabilityOf
<1>7. IsFiniteSet(MeantFiles) /\ IsFiniteSet(FoldersOf(MeantFiles)) /\ count = Cardinality(FoldersOf(MeantFiles))
  BY CountOfComponents, CrossingWorks DEF Measurables
<1>8. /\ others = FoldersOf(MeantFiles) \ {folder}
      /\ IsFiniteSet(others) /\ Cardinality(others) \in Nat /\ count = Cardinality(others) + 1
      /\ Cardinality(others) = 0 <=> others = {}
  <2>1. others = FoldersOf(MeantFiles) \ {folder}
    BY DEF FoldersOf
  <2> HIDE DEF others
  <2>2. IsFiniteSet(others) /\ Cardinality(others) = Cardinality(FoldersOf(MeantFiles)) - 1
    BY <1>7, <2>1, FS_RemoveElement
  <2>3. Cardinality(others) \in Nat /\ Cardinality(FoldersOf(MeantFiles)) \in Nat
    BY <1>7, <2>2, FS_CardinalityType
  <2> QED
    BY <1>7, <2>1, <2>2, <2>3, FS_EmptySet
<1>9. abstract \in Shares
  <2>1. c.classes \in Nat /\ c.interfaces \in Nat /\ c.interfaces <= c.classes
    BY ComponentWorks
  <2> QED
    BY <1>5, <2>1, AbstractnessIsShare
<1>10. c \in SelectComponents(MeantFiles)
  BY ComponentsAreFolders
<1>11. Efferent(c) \in Nat /\ Efferent(c) <= count - 1 /\ Afferent(c) \in Nat /\ Afferent(c) <= count - 1
  BY <1>7, <1>10, CouplingWorks
<1>12. instable \in Shares
  BY <1>6, <1>11, InstabilityIsShare
<1> HIDE DEF others, imports, types, abstract, instable, out, coupled
<1>13. NormalizedDistance(c) = Number(Absolute(away), abstract.d * instable.d)
  <2> DEFINE p == abstract.n * instable.d
             q == instable.n * abstract.d
             r == abstract.d * instable.d
  <2>1. p \in Int /\ q \in Int /\ r \in Int
    <3>1. abstract.n \in Nat /\ abstract.d \in Nat /\ instable.n \in Nat /\ instable.d \in Nat
      BY <1>9, <1>12 DEF Shares
    <3> QED
      BY <3>1
  <2>2. NormalizedDistance(c) = Number(Absolute(p + q - r), r)
    BY <1>5, <1>6 DEF NormalizedDistance
  <2>3. away = r - p - q
    OBVIOUS
  <2> HIDE DEF p, q, r, away
  <2>4. Absolute(p + q - r) = Absolute(away)
    BY <2>1, <2>3 DEF Absolute
  <2> QED
    BY <2>2, <2>4 DEF r
<1>14. NormalizedDistance(c) \in Shares
  BY <1>5, <1>6, <1>9, <1>12, DistanceWorks
<1>15. [NormalizedDistance(c) EXCEPT !.halved = TRUE]
         = [n |-> Absolute(away), d |-> abstract.d * instable.d, halved |-> TRUE]
  <2> DEFINE far == Absolute(away)
             scale == abstract.d * instable.d
  <2>1. NormalizedDistance(c) = [n |-> far, d |-> scale, halved |-> FALSE]
    BY <1>13, Zenon DEF Number
  <2> HIDE DEF far, scale
  <2>2. [NormalizedDistance(c) EXCEPT !.halved = TRUE] = [n |-> far, d |-> scale, halved |-> TRUE]
    <3> DEFINE half == TRUE
    <3> HIDE DEF half
    <3>1. [NormalizedDistance(c) EXCEPT !.halved = half] = [n |-> far, d |-> scale, halved |-> half]
      BY <2>1, HalvedNumber
    <3> QED
      BY <3>1, Zenon DEF half
  <2> QED
    BY <2>2, Zenon DEF far, scale
<1>16. CouplingFactor(c, count) = IF others = {} THEN Number(0, 1) ELSE Number(coupled, 2 * Cardinality(others))
  BY <1>3, <1>8 DEF CouplingFactor
<1>17. CouplingFactor(c, count) \in Shares
  BY <1>8, <1>11, FactorWorks
<1>18. \A v \in Shares : IsFigure(v)
  BY DEF Shares, IsFigure
<1>19. IsFigure([NormalizedDistance(c) EXCEPT !.halved = TRUE])
  BY <1>14 DEF Shares, IsFigure
<1> HIDE DEF away
<1>20. /\ MeasureComponent("abstractness", c, count) = AbstractnessOf(c)
       /\ MeasureComponent("instability", c, count) = InstabilityOf(c)
       /\ MeasureComponent("normalized", c, count) = NormalizedDistance(c)
       /\ MeasureComponent("distance", c, count) = [NormalizedDistance(c) EXCEPT !.halved = TRUE]
       /\ MeasureComponent("coupling", c, count) = CouplingFactor(c, count)
  BY DEF MeasureComponent
<1>21. metric \in {"abstractness", "instability", "normalized", "distance", "coupling"}
  BY DEF ComponentMetrics
<1>22. /\ MeasureComponent("abstractness", c, count) = MeantOfFolder("abstractness", folder)
       /\ MeasureComponent("instability", c, count) = MeantOfFolder("instability", folder)
       /\ MeasureComponent("normalized", c, count) = MeantOfFolder("normalized", folder)
       /\ MeasureComponent("distance", c, count) = MeantOfFolder("distance", folder)
       /\ MeasureComponent("coupling", c, count) = MeantOfFolder("coupling", folder)
  BY <1>1, <1>5, <1>6, <1>13, <1>15, <1>16, <1>20
<1>23. /\ IsFigure(MeasureComponent("abstractness", c, count)) /\ IsFigure(MeasureComponent("instability", c, count))
       /\ IsFigure(MeasureComponent("normalized", c, count)) /\ IsFigure(MeasureComponent("distance", c, count))
       /\ IsFigure(MeasureComponent("coupling", c, count))
  BY <1>5, <1>6, <1>9, <1>12, <1>14, <1>17, <1>18, <1>19, <1>20
<1> QED
  BY <1>1, <1>5, <1>6, <1>21, <1>22, <1>23

-----------------------------------------------------------------------------
\* The scope of a rule that is judged: nothing mistaken, everything read, no namesakes.
Judging == SentenceInv /\ chain.err = 0 /\ AllRead /\ NoNamesakes(project)

LEMMA MeantAreDeclared ==
  ASSUME Judging
  PROVE  /\ \A ft \in MeantTypes : ft \in DeclaredBy(WantedFiles) /\ ft \in DeclaredIn(project)
         /\ \A a, b \in MeantTypes : TypeId(a) = TypeId(b) => a = b
         /\ \A ft \in MeantTypes, f \in MeantFiles : TypeId(ft) \notin {f, Dir(f)}
         /\ MeantFiles \in SUBSET WantedFiles
<1>1. MeantTypes \in SUBSET DeclaredBy(WantedFiles) /\ MeantFiles \in SUBSET WantedFiles
  BY SubjectsAre DEF Judging
<1>2. \A f \in WantedFiles : f \in DOMAIN project.disk /\ project.disk[f] \notin {Gone, Unparsable}
  BY ReadIsMeasurable DEF Judging
<1>3. DeclaredBy(WantedFiles) \in SUBSET DeclaredIn(project)
  <2> SUFFICES ASSUME NEW x \in DeclaredBy(WantedFiles) PROVE x \in DeclaredIn(project)
    OBVIOUS
  <2>1. PICK f \in WantedFiles : x \in {<<f, t>> : t \in project.disk[f].types}
    BY DEF DeclaredBy
  <2> QED
    BY <1>2, <2>1 DEF DeclaredIn
<1> QED
  BY <1>1, <1>2, <1>3 DEF Judging, NoNamesakes

\* The number of a type is the one of its class.
LEMMA TypeMeant ==
  ASSUME Judging, NEW ft \in MeantTypes, NEW metric \in ClassMetrics
  PROVE  /\ MeasureClass(metric, ClassOf(WantedFiles, ft)) = MeantOfType(metric, TypeId(ft))
         /\ IsFigure(MeasureClass(metric, ClassOf(WantedFiles, ft)))
<1> DEFINE methodsOf(t) == {fm \in UNION {{f} \X project.disk[f].methods : f \in WantedFiles} :
                               Dir(fm[1]) = Dir(t[1]) /\ fm[2].on = t[2].name}
           methods == methodsOf(ft)
           c == ClassOf(WantedFiles, ft)
           chosen == CHOOSE t \in MeantTypes : Qualify(Dir(t[1]), t[2].name) = TypeId(ft)
           counted == ft[2].members + Cardinality(methods)
<1>1. chosen = ft
  BY MeantAreDeclared, Zenon DEF TypeId
<1>2. /\ MeantOfType("methods", TypeId(ft)) = Number(counted, 1)
      /\ MeantOfType("fields", TypeId(ft)) = Number(ft[2].fields, 1)
      /\ MeantOfType("custom", TypeId(ft)) = IF ft[2].fields = 0 THEN NaN ELSE Number(counted, ft[2].fields)
  <2> DEFINE sum == chosen[2].members + Cardinality(methodsOf(chosen))
  <2>1. /\ MeantOfType("methods", TypeId(ft)) = Number(sum, 1)
        /\ MeantOfType("fields", TypeId(ft)) = Number(chosen[2].fields, 1)
        /\ MeantOfType("custom", TypeId(ft)) = IF chosen[2].fields = 0 THEN NaN ELSE Number(sum, chosen[2].fields)
    BY DEF MeantOfType
  <2> HIDE DEF chosen
  <2>2. sum = counted
    BY <1>1
  <2> HIDE DEF sum, counted
  <2> QED
    BY <1>1, <2>1, <2>2
<1> HIDE DEF chosen
<1>3. Measurables(WantedFiles) /\ \A f \in WantedFiles : \A t \in project.disk[f].types : t.fields \in Nat /\ t.members \in Nat
  BY ReadIsMeasurable DEF Judging
<1>4. Tallied(WantedFiles, ft[1], ft[2].name) = Cardinality(methods) /\ Cardinality(methods) \in Nat
  BY <1>3, MethodsCounted
<1>5. ft[2].fields \in Nat /\ ft[2].members \in Nat
  BY <1>3, MeantAreDeclared, ClassesAre
<1> HIDE DEF methods
<1>6. c.methods = counted /\ c.fields = ft[2].fields /\ counted \in Nat
  BY <1>4, <1>5 DEF ClassOf
<1> HIDE DEF c, counted
<1>7. /\ MeasureClass("methods", c) = Number(c.methods, 1)
      /\ MeasureClass("fields", c) = Number(c.fields, 1)
      /\ MeasureClass("custom", c) = IF c.fields = 0 THEN NaN ELSE Number(c.methods, c.fields)
  BY DEF MeasureClass
<1>8. metric \in {"methods", "fields", "custom"}
  BY DEF ClassMetrics
<1>9. MeasureClass(metric, c) = MeantOfType(metric, TypeId(ft))
  BY <1>2, <1>6, <1>7, <1>8
<1>10. IsFigure(NaN) /\ \A n, d \in Nat : d # 0 => IsFigure(Number(n, d))
  BY DEF IsFigure, NaN, Number
<1>11. IsFigure(MeasureClass(metric, c))
  BY <1>5, <1>6, <1>7, <1>8, <1>10
<1> QED
  BY <1>9, <1>11 DEF c

\* The number of a file.
LEMMA FileMeant ==
  ASSUME Judging, NEW f \in MeantFiles, NEW metric \in FileMetrics
  PROVE  MeasureFile(metric, f) = MeantNumber(metric, f) /\ IsFigure(MeasureFile(metric, f))
<1>1. /\ MeasureFile("code", f) = Number(project.disk[f].code, 1)
      /\ MeasureFile("classes", f) = Number(Cardinality(TypesOf(f)), 1)
      /\ MeasureFile("interfaces", f) = Number(Cardinality(InterfacesOf(f)), 1)
  BY DEF MeasureFile
<1>2. metric \in {"code", "classes", "interfaces"}
  BY DEF FileMetrics
<1>3. /\ MeantNumber("code", f) = Number(project.disk[f].code, 1)
      /\ MeantNumber("classes", f) = Number(Cardinality(TypesOf(f)), 1)
      /\ MeantNumber("interfaces", f) = Number(Cardinality(InterfacesOf(f)), 1)
  BY DEF MeantNumber, FileMetrics, TypesOf, InterfacesOf
<1>4. f \in WantedFiles
  BY MeantAreDeclared
<1>5. project.disk[f].code \in Nat /\ IsFiniteSet(TypesOf(f))
  BY <1>4, ReadIsMeasurable DEF Judging, Measurables, TypesOf
<1>6. InterfacesOf(f) \in SUBSET TypesOf(f)
  BY DEF InterfacesOf
<1>7. Cardinality(TypesOf(f)) \in Nat /\ Cardinality(InterfacesOf(f)) \in Nat
  BY <1>5, <1>6, FS_Subset, FS_CardinalityType
<1>8. \A n \in Nat : IsFigure(Number(n, 1))
  BY DEF IsFigure, Number
<1> QED
  BY <1>1, <1>2, <1>3, <1>5, <1>7, <1>8

\* The readings of a metric are about what is meant, and are its numbers.
AreMeant(metric, readings) ==
  /\ {r.subject : r \in readings} = MeantSubjects(metric)
  /\ \A r \in readings : r.value = MeantNumber(metric, r.subject) /\ IsFigure(r.value)

MadeFrom(metric, S, a, b, readings) ==
  /\ readings = {[subject |-> a[x], value |-> b[x]] : x \in S}
  /\ MeantSubjects(metric) = {a[x] : x \in S}
  /\ \A x \in S : b[x] = MeantNumber(metric, a[x]) /\ IsFigure(b[x])

LEMMA MadeOf ==
  ASSUME NEW metric, NEW S, NEW a, NEW b, NEW readings, MadeFrom(metric, S, a, b, readings)
  PROVE  AreMeant(metric, readings)
<1>0. /\ readings = {[subject |-> a[x], value |-> b[x]] : x \in S}
      /\ MeantSubjects(metric) = {a[x] : x \in S}
      /\ \A x \in S : b[x] = MeantNumber(metric, a[x]) /\ IsFigure(b[x])
  BY DEF MadeFrom
<1>1. \A r \in readings : \E x \in S : r.subject = a[x] /\ r.value = b[x]
  BY <1>0
<1>2. ASSUME NEW x \in S PROVE \E r \in readings : r.subject = a[x]
  <2>1. [subject |-> a[x], value |-> b[x]] \in readings
    BY <1>0
  <2> QED
    BY <2>1
<1>3. {r.subject : r \in readings} = {a[x] : x \in S}
  BY <1>1, <1>2
<1>4. \A r \in readings : r.value = MeantNumber(metric, r.subject) /\ IsFigure(r.value)
  BY <1>0, <1>1
<1> QED
  BY <1>0, <1>3, <1>4 DEF AreMeant

LEMMA MetricsAreOfOneKind ==
  /\ \A metric \in ClassMetrics : metric \notin FileMetrics
  /\ \A metric \in ComponentMetrics : metric \notin FileMetrics /\ metric \notin ClassMetrics
  /\ \A metric \in AllMetrics : metric \in FileMetrics \/ metric \in ClassMetrics \/ metric \in ComponentMetrics
BY DEF FileMetrics, ClassMetrics, ComponentMetrics, AllMetrics

LEMMA ReadingsMeant ==
  ASSUME Judging, NEW metric \in AllMetrics, NEW subjects, subjects = SelectSubjects(WantedFiles)
  PROVE  AreMeant(metric, Readings(metric, subjects))
<1>1. /\ subjects.classes = {ClassOf(WantedFiles, ft) : ft \in MeantTypes}
      /\ subjects.files = MeantFiles
      /\ subjects.components = SelectComponents(MeantFiles)
  BY SubjectsAre DEF Judging
<1>2. CASE metric \in FileMetrics
  <2>1. Readings(metric, subjects) = {[subject |-> f, value |-> MeasureFile(metric, f)] : f \in MeantFiles}
    BY <1>1, <1>2 DEF Readings
  <2>2. MeantSubjects(metric) = MeantFiles
    BY <1>2 DEF MeantSubjects
  <2>3. \A f \in MeantFiles : MeasureFile(metric, f) = MeantNumber(metric, f) /\ IsFigure(MeasureFile(metric, f))
    BY <1>2, FileMeant
  <2> DEFINE a == [f \in MeantFiles |-> f]
             b == [f \in MeantFiles |-> MeasureFile(metric, f)]
  <2>4. Readings(metric, subjects) = {[subject |-> a[f], value |-> b[f]] : f \in MeantFiles}
    BY <2>1
  <2>5. MeantSubjects(metric) = {a[f] : f \in MeantFiles}
    BY <2>2
  <2>6. \A f \in MeantFiles : b[f] = MeantNumber(metric, a[f]) /\ IsFigure(b[f])
    BY <2>3
  <2> HIDE DEF a, b
  <2>11. MadeFrom(metric, MeantFiles, a, b, Readings(metric, subjects))
    BY <2>4, <2>5, <2>6, Zenon DEF MadeFrom
  <2> QED
    BY <2>11, MadeOf
<1>3. CASE metric \in ClassMetrics
  <2>0. metric \notin FileMetrics
    BY <1>3, MetricsAreOfOneKind
  <2> DEFINE C(ft) == ClassOf(WantedFiles, ft)
  <2>1. Readings(metric, subjects) = {[subject |-> C(ft).id, value |-> MeasureClass(metric, C(ft))] : ft \in MeantTypes}
    BY <1>1, <1>3, <2>0 DEF Readings
  <2>2. MeantSubjects(metric) = {TypeId(ft) : ft \in MeantTypes}
    BY <1>3, <2>0 DEF MeantSubjects, TypeId
  <2>3. \A ft \in MeantTypes : /\ MeasureClass(metric, C(ft)) = MeantOfType(metric, TypeId(ft))
                               /\ IsFigure(MeasureClass(metric, C(ft)))
    BY <1>3, TypeMeant
  <2>4. \A id : MeantNumber(metric, id) = MeantOfType(metric, id)
    BY <1>3, <2>0 DEF MeantNumber
  <2>5. \A ft : C(ft).id = TypeId(ft)
    BY DEF ClassOf
  <2> HIDE DEF C
  <2> DEFINE a == [ft \in MeantTypes |-> TypeId(ft)]
             b == [ft \in MeantTypes |-> MeasureClass(metric, C(ft))]
  <2>6. Readings(metric, subjects) = {[subject |-> a[ft], value |-> b[ft]] : ft \in MeantTypes}
    BY <2>1, <2>5
  <2>7. MeantSubjects(metric) = {a[ft] : ft \in MeantTypes}
    BY <2>2
  <2>8. \A ft \in MeantTypes : b[ft] = MeantNumber(metric, a[ft]) /\ IsFigure(b[ft])
    BY <2>3, <2>4
  <2> HIDE DEF a, b
  <2>11. MadeFrom(metric, MeantTypes, a, b, Readings(metric, subjects))
    BY <2>6, <2>7, <2>8, Zenon DEF MadeFrom
  <2> QED
    BY <2>11, MadeOf
<1>4. CASE metric \in ComponentMetrics
  <2>0. metric \notin FileMetrics /\ metric \notin ClassMetrics
    BY <1>4, MetricsAreOfOneKind
  <2> DEFINE count == Cardinality(SelectComponents(MeantFiles))
             C(folder) == ComponentOf(MeantFiles, folder)
  <2>1. SelectComponents(MeantFiles) = {C(folder) : folder \in FoldersOf(MeantFiles)} /\ \A folder : C(folder).label = folder
    BY ComponentsAreFolders
  <2>2. Readings(metric, subjects) = {[subject |-> c.label, value |-> MeasureComponent(metric, c, count)] : c \in SelectComponents(MeantFiles)}
    BY <1>1, <2>0 DEF Readings
  <2>3. MeantSubjects(metric) = FoldersOf(MeantFiles)
    BY <2>0 DEF MeantSubjects, FoldersOf
  <2>4. Measurables(MeantFiles)
    <3>1. Measurables(WantedFiles) /\ MeantFiles \in SUBSET WantedFiles
      BY ReadIsMeasurable, MeantAreDeclared DEF Judging
    <3> QED
      BY <3>1, FS_Subset DEF Measurables
  <2>5. \A folder \in FoldersOf(MeantFiles) :
          /\ MeasureComponent(metric, C(folder), count) = MeantOfFolder(metric, folder)
          /\ IsFigure(MeasureComponent(metric, C(folder), count))
    BY <1>4, <2>4, FolderMeant
  <2>6. \A folder : MeantNumber(metric, folder) = MeantOfFolder(metric, folder)
    BY <2>0 DEF MeantNumber
  <2> HIDE DEF C, count
  <2>7. Readings(metric, subjects)
          = {[subject |-> C(folder).label, value |-> MeasureComponent(metric, C(folder), count)] : folder \in FoldersOf(MeantFiles)}
    BY <2>1, <2>2
  <2> DEFINE a == [folder \in FoldersOf(MeantFiles) |-> folder]
             b == [folder \in FoldersOf(MeantFiles) |-> MeasureComponent(metric, C(folder), count)]
  <2>8. Readings(metric, subjects) = {[subject |-> a[folder], value |-> b[folder]] : folder \in FoldersOf(MeantFiles)}
    BY <2>1, <2>7
  <2>9. MeantSubjects(metric) = {a[folder] : folder \in FoldersOf(MeantFiles)}
    BY <2>3
  <2>10. \A folder \in FoldersOf(MeantFiles) : b[folder] = MeantNumber(metric, a[folder]) /\ IsFigure(b[folder])
    BY <2>5, <2>6
  <2> HIDE DEF a, b
  <2>11. MadeFrom(metric, FoldersOf(MeantFiles), a, b, Readings(metric, subjects))
    BY <2>8, <2>9, <2>10, Zenon DEF MadeFrom
  <2> QED
    BY <2>11, MadeOf
<1> QED
  BY <1>2, <1>3, <1>4, MetricsAreOfOneKind

-----------------------------------------------------------------------------
\* Two numbers are one less than the other, or the same.
LEMMA NumbersAreOrdered ==
  ASSUME NEW v, NEW w, IsFigure(v), w.n \in Int, w.d \in Nat
  PROVE  /\ Less(v, w) => v.d # 0 /\ w.d # 0
         /\ Less(w, v) => v.d # 0 /\ w.d # 0
         /\ Same(v, w) => v.d # 0 /\ w.d # 0
         /\ v.d # 0 /\ w.d # 0 => Less(v, w) \/ Same(v, w) \/ Less(w, v)
         /\ ~(Less(v, w) /\ Less(w, v)) /\ ~(Less(v, w) /\ Same(v, w)) /\ ~(Less(w, v) /\ Same(v, w))
<1> DEFINE x == Square(v)[1] * Square(w)[2]
           y == Square(w)[1] * Square(v)[2]
<1>1. \A u : u.n \in Int /\ u.d \in Nat => Square(u)[1] \in Int /\ Square(u)[2] \in Int
  BY DEF Square
<1>2. Square(v)[1] \in Int /\ Square(v)[2] \in Int /\ Square(w)[1] \in Int /\ Square(w)[2] \in Int
  BY <1>1 DEF IsFigure
<1>3. x \in Int /\ y \in Int
  BY <1>2
<1>4. /\ Less(v, w) <=> v.d # 0 /\ w.d # 0 /\ x < y
      /\ Less(w, v) <=> v.d # 0 /\ w.d # 0 /\ y < x
      /\ Same(v, w) <=> v.d # 0 /\ w.d # 0 /\ x = y
  BY DEF Less, Same, Comparable
<1> HIDE DEF x, y
<1> QED
  BY <1>3, <1>4

LEMMA SameAsItself ==
  ASSUME NEW v, v.d # 0
  PROVE  Same(v, v)
BY DEF Same, Comparable

\* A comparison holds of a number, or the number breaks it.
BreaksComparison(comparison, v, limit) ==
  CASE comparison = "below" -> ~Less(v, limit)
    [] comparison = "above" -> ~Less(limit, v)
    [] comparison = "exactly" -> ~Same(v, limit)
    [] comparison = "belowOrEqual" -> v = NaN \/ Less(limit, v)
    [] comparison = "aboveOrEqual" -> v = NaN \/ Less(v, limit)

LEMMA HoldsOrBreaks ==
  ASSUME NEW v, NEW limit, IsFigure(v), limit.n \in Int, limit.d \in Nat \ {0},
         NEW comparison \in {"below", "above", "exactly", "belowOrEqual", "aboveOrEqual"}
  PROVE  ~Holds(comparison, v, limit) <=> BreaksComparison(comparison, v, limit)
<1>1. /\ Thresholds["below"] = {"below"} /\ Thresholds["above"] = {"above"} /\ Thresholds["exactly"] = {"equal"}
      /\ Thresholds["belowOrEqual"] = {"below", "equal"} /\ Thresholds["aboveOrEqual"] = {"above", "equal"}
  BY DEF Thresholds
<1>2. /\ Holds("below", v, limit) <=> Less(v, limit)
      /\ Holds("above", v, limit) <=> Less(limit, v)
      /\ Holds("exactly", v, limit) <=> Same(v, limit)
      /\ Holds("belowOrEqual", v, limit) <=> Less(v, limit) \/ Same(v, limit)
      /\ Holds("aboveOrEqual", v, limit) <=> Less(limit, v) \/ Same(v, limit)
  BY <1>1 DEF Holds
<1>3. v = NaN <=> v.d = 0
  BY DEF IsFigure, NaN, Number
<1>4. /\ v = NaN => ~Less(v, limit) /\ ~Same(v, limit) /\ ~Less(limit, v)
      /\ v # NaN => Less(v, limit) \/ Same(v, limit) \/ Less(limit, v)
      /\ ~(Less(v, limit) /\ Less(limit, v)) /\ ~(Less(v, limit) /\ Same(v, limit)) /\ ~(Less(limit, v) /\ Same(v, limit))
  BY <1>3, NumbersAreOrdered
<1>5. /\ BreaksComparison("below", v, limit) <=> ~Less(v, limit)
      /\ BreaksComparison("above", v, limit) <=> ~Less(limit, v)
      /\ BreaksComparison("exactly", v, limit) <=> ~Same(v, limit)
      /\ BreaksComparison("belowOrEqual", v, limit) <=> v = NaN \/ Less(limit, v)
      /\ BreaksComparison("aboveOrEqual", v, limit) <=> v = NaN \/ Less(v, limit)
  BY DEF BreaksComparison
<1> QED
  BY <1>2, <1>4, <1>5

-----------------------------------------------------------------------------
\* What a condition is judged over, and what breaks it.
Judged == IF chain.condition.verb = "zone" THEN "abstractness" ELSE chain.metric

LEMMA ComparisonMeant ==
  ASSUME Judging, stage = "condition", chain.condition.verb = "compare", NEW readings, AreMeant(chain.metric, readings)
  PROVE  \A r \in readings : ~Holds(chain.condition.comparison, r.value, chain.condition.limit)
                               <=> Breaks(chain.condition, chain.metric, r.subject)
<1> DEFINE comparison == chain.condition.comparison
           limit == chain.condition.limit
<1>1. /\ comparison \in {"below", "above", "exactly", "belowOrEqual", "aboveOrEqual"}
      /\ limit.n \in Int /\ limit.d \in Nat \ {0}
  <2>1. chain.condition \in Conditions /\ limit.d # 0
    BY DEF Judging, SentenceInv, SaidSoFar
  <2>2. /\ comparison \in {"below", "above", "exactly", "belowOrEqual", "aboveOrEqual"}
        /\ limit \in [n : Int, d : Nat, halved : {FALSE}]
    BY <2>1, MetricsCallsAssumption
  <2> QED
    BY <2>1, <2>2
<1>2. ASSUME NEW s
      PROVE  Breaks(chain.condition, chain.metric, s) <=> BreaksComparison(comparison, MeantNumber(chain.metric, s), limit)
  BY <1>1 DEF Breaks, BreaksComparison
<1>3. ASSUME NEW r \in readings
      PROVE  ~Holds(comparison, r.value, limit) <=> BreaksComparison(comparison, MeantNumber(chain.metric, r.subject), limit)
  <2>1. r.value = MeantNumber(chain.metric, r.subject) /\ IsFigure(r.value)
    BY DEF AreMeant
  <2> HIDE DEF comparison, limit
  <2> QED
    BY <1>1, <2>1, HoldsOrBreaks
<1> QED
  BY <1>2, <1>3

\* The class a predicate is handed is the one the reading is about, or none.
LEMMA PredicateMeant ==
  ASSUME Judging, stage = "condition", chain.condition.verb = "satisfy",
         NEW subjects, subjects = SelectSubjects(WantedFiles), NEW readings, AreMeant(chain.metric, readings)
  PROVE  \A r \in readings : ~Satisfied(r.value, ClassNamed(subjects.classes, r.subject))
                               <=> Breaks(chain.condition, chain.metric, r.subject)
<1> DEFINE metric == chain.metric
           C(ft) == ClassOf(WantedFiles, ft)
           interface(s) == \E ft \in MeantTypes : /\ metric \in ClassMetrics /\ ft[2].interface
                                                  /\ s = TypeId(ft)
<1>1. metric \in AllMetrics
  BY DEF Judging, SentenceInv, SaidSoFar
<1>2. subjects.classes = {C(ft) : ft \in MeantTypes}
  BY SubjectsAre DEF Judging
<1>3. \A ft : C(ft).id = TypeId(ft) /\ (C(ft).interface <=> ft[2].interface)
  BY DEF ClassOf
<1>4. ASSUME NEW s \in MeantSubjects(metric)
      PROVE  ClassNamed(subjects.classes, s).interface <=> interface(s)
  <2> DEFINE named == {c \in subjects.classes : c.id = s}
  <2>1. ClassNamed(subjects.classes, s) = IF named = {} THEN NoClass ELSE CHOOSE c \in named : TRUE
    BY DEF ClassNamed
  <2>2. CASE metric \in ClassMetrics
    <3>1. metric \notin FileMetrics
      BY <2>2, MetricsAreOfOneKind
    <3>2. MeantSubjects(metric) = {TypeId(ft) : ft \in MeantTypes}
      BY <2>2, <3>1 DEF MeantSubjects, TypeId
    <3>3. PICK ft \in MeantTypes : s = TypeId(ft)
      BY <3>2
    <3>4. \A other \in MeantTypes : TypeId(other) = s => other = ft
      BY <3>3, MeantAreDeclared
    <3> HIDE DEF C
    <3>5. named = {C(ft)}
      BY <1>2, <1>3, <3>3, <3>4
    <3> HIDE DEF named
    <3>6. ClassNamed(subjects.classes, s) = C(ft)
      BY <2>1, <3>5
    <3>7. interface(s) <=> ft[2].interface
      BY <2>2, <3>3, <3>4
    <3> QED
      BY <1>3, <3>6, <3>7
  <2>3. CASE metric \notin ClassMetrics
    <3>1. s \in MeantFiles \/ \E f \in MeantFiles : s = Dir(f)
      BY <2>3 DEF MeantSubjects
    <3>2. \A ft \in MeantTypes : TypeId(ft) # s
      BY <3>1, MeantAreDeclared
    <3> HIDE DEF C
    <3>3. named = {}
      BY <1>2, <1>3, <3>2
    <3>4. ClassNamed(subjects.classes, s) = NoClass
      BY <2>1, <3>3
    <3>5. ~NoClass.interface
      BY DEF NoClass
    <3> QED
      BY <2>3, <3>4, <3>5
  <2> QED
    BY <2>2, <2>3
<1>5. ASSUME NEW s PROVE Breaks(chain.condition, metric, s) <=>
                           /\ MeantNumber(metric, s) = NaN \/ ~Less(MeantNumber(metric, s), Number(2, 1))
                           /\ ~interface(s)
  <2>1. interface(s) <=> \E ft \in MeantTypes : /\ metric \in ClassMetrics /\ ft[2].interface
                                                /\ s = Qualify(Dir(ft[1]), ft[2].name)
    BY DEF TypeId
  <2> HIDE DEF interface
  <2> QED
    BY <2>1 DEF Breaks
<1>6. Number(2, 1).n \in Int /\ Number(2, 1).d \in Nat
  BY DEF Number
<1>7. ASSUME NEW r \in readings
      PROVE  /\ r.subject \in MeantSubjects(metric) /\ r.value = MeantNumber(metric, r.subject)
             /\ (r.value = NaN => ~Less(r.value, Number(2, 1)))
  <2>1. r.subject \in MeantSubjects(metric) /\ r.value = MeantNumber(metric, r.subject) /\ IsFigure(r.value)
    BY DEF AreMeant
  <2>2. NaN.d = 0
    BY DEF NaN, Number
  <2> QED
    BY <1>6, <2>1, <2>2, NumbersAreOrdered
<1> HIDE DEF interface, metric, C
<1>8. ASSUME NEW r \in readings
      PROVE  Satisfied(r.value, ClassNamed(subjects.classes, r.subject))
               <=> Less(r.value, Number(2, 1)) \/ interface(r.subject)
  BY <1>4, <1>7 DEF Satisfied
<1> QED
  BY <1>5, <1>7, <1>8 DEF metric

\* What offends is what breaks the condition.
LEMMA OffendingMeant ==
  ASSUME Judging, stage = "condition", NEW subjects, subjects = SelectSubjects(WantedFiles)
  PROVE  Offending(subjects) = {s \in MeantSubjects(Judged) : Breaks(chain.condition, Judged, s)}
<1> DEFINE readings == Readings(chain.metric, subjects)
           condition == chain.condition
<1>1. condition.verb \in {"compare", "satisfy", "zone"} /\ (condition.verb # "zone" => chain.metric \in AllMetrics)
  BY DEF Judging, SentenceInv, SaidSoFar
<1>2. condition.verb # "zone" => AreMeant(chain.metric, readings) /\ Judged = chain.metric
  BY <1>1, ReadingsMeant DEF Judged
<1>3. CASE condition.verb = "compare"
  <2>1. Offending(subjects) = {r.subject : r \in {m \in readings : ~Holds(condition.comparison, m.value, condition.limit)}}
    BY <1>3 DEF Offending
  <2>2. \A r \in readings : ~Holds(condition.comparison, r.value, condition.limit) <=> Breaks(condition, chain.metric, r.subject)
    BY <1>2, <1>3, ComparisonMeant
  <2>3. MeantSubjects(chain.metric) = {r.subject : r \in readings}
    BY <1>2, <1>3 DEF AreMeant
  <2> HIDE DEF readings
  <2> QED
    BY <1>2, <1>3, <2>1, <2>2, <2>3
<1>4. CASE condition.verb = "satisfy"
  <2>1. Offending(subjects)
          = {r.subject : r \in {m \in readings : ~Satisfied(m.value, ClassNamed(subjects.classes, m.subject))}}
    BY <1>4 DEF Offending
  <2>2. \A r \in readings : ~Satisfied(r.value, ClassNamed(subjects.classes, r.subject))
                              <=> Breaks(condition, chain.metric, r.subject)
    BY <1>2, <1>4, PredicateMeant
  <2>3. MeantSubjects(chain.metric) = {r.subject : r \in readings}
    BY <1>2, <1>4 DEF AreMeant
  <2> HIDE DEF readings
  <2> QED
    BY <1>2, <1>4, <2>1, <2>2, <2>3
<1>5. CASE condition.verb = "zone"
  <2> DEFINE C(folder) == ComponentOf(MeantFiles, folder)
  <2>1. Offending(subjects) = {c.label : c \in {d \in SelectComponents(MeantFiles) :
                                                  InZone(condition.zone, AbstractnessOf(d), InstabilityOf(d))}}
    BY <1>5, SubjectsAre DEF Offending, Judging
  <2>2. SelectComponents(MeantFiles) = {C(folder) : folder \in FoldersOf(MeantFiles)} /\ \A folder : C(folder).label = folder
    BY ComponentsAreFolders
  <2>3. Measurables(MeantFiles)
    <3>1. Measurables(WantedFiles) /\ MeantFiles \in SUBSET WantedFiles
      BY ReadIsMeasurable, MeantAreDeclared DEF Judging
    <3> QED
      BY <3>1, FS_Subset DEF Measurables
  <2>4. \A folder \in FoldersOf(MeantFiles) :
          /\ AbstractnessOf(C(folder)) = MeantOfFolder("abstractness", folder)
          /\ InstabilityOf(C(folder)) = MeantOfFolder("instability", folder)
    <3>1. "abstractness" \in ComponentMetrics
      BY DEF ComponentMetrics
    <3> QED
      BY <2>3, <3>1, FolderMeant
  <2>5. Judged = "abstractness" /\ MeantSubjects("abstractness") = FoldersOf(MeantFiles)
    BY <1>5 DEF Judged, MeantSubjects, FoldersOf, FileMetrics, ClassMetrics
  <2>6. \A s : Breaks(condition, "abstractness", s)
                 <=> InZone(condition.zone, MeantOfFolder("abstractness", s), MeantOfFolder("instability", s))
    BY <1>5 DEF Breaks
  <2> HIDE DEF C
  <2> QED
    BY <2>1, <2>2, <2>4, <2>5, <2>6
<1> QED
  BY <1>1, <1>3, <1>4, <1>5

\* There is something to judge when there is something meant.
LEMMA PopulationMeant ==
  ASSUME Judging, stage = "condition", NEW subjects, subjects = SelectSubjects(WantedFiles)
  PROVE  (IF chain.condition.verb = "zone" THEN subjects.components ELSE Readings(chain.metric, subjects)) = {}
           <=> MeantSubjects(Judged) = {}
<1>1. CASE chain.condition.verb = "zone"
  <2>1. subjects.components = {ComponentOf(MeantFiles, folder) : folder \in FoldersOf(MeantFiles)}
    BY SubjectsAre, ComponentsAreFolders DEF Judging
  <2>2. MeantSubjects(Judged) = FoldersOf(MeantFiles)
    BY <1>1 DEF Judged, MeantSubjects, FoldersOf, FileMetrics, ClassMetrics
  <2> QED
    BY <1>1, <2>1, <2>2
<1>2. CASE chain.condition.verb # "zone"
  <2>1. chain.metric \in AllMetrics
    BY <1>2 DEF Judging, SentenceInv, SaidSoFar
  <2>2. AreMeant(chain.metric, Readings(chain.metric, subjects))
    BY <2>1, ReadingsMeant
  <2>3. MeantSubjects(Judged) = {r.subject : r \in Readings(chain.metric, subjects)}
    BY <1>2, <2>2 DEF Judged, AreMeant
  <2> QED
    BY <1>2, <2>3
<1> QED
  BY <1>1, <1>2

\* A metric has something to measure where there are files, and some metric of a
\* group has.
LEMMA MeasuredAreFiles ==
  ASSUME Judging, NEW metric
  PROVE  /\ MeantSubjects(metric) # {} => MeantFiles # {}
         /\ metric \notin ClassMetrics /\ MeantFiles # {} => MeantSubjects(metric) # {}
<1>1. \A ft \in MeantTypes : ft[1] \in WantedFiles
  BY MeantAreDeclared, ClassesAre
<1>2. MeantTypes # {} => MeantFiles # {}
  BY <1>1 DEF MeantFiles
<1> QED
  BY <1>2 DEF MeantSubjects

-----------------------------------------------------------------------------
\* What a terminal may say: the verdict, of anything it returns.
IsRight(metric, readings) ==
  /\ {r.subject : r \in readings} = MeantSubjects(metric)
  /\ \A r \in readings : LET v == MeantNumber(metric, r.subject)
                          IN  Same(v, r.value) \/ (v = NaN /\ r.value = NaN)
Answers(o) ==
  CASE o.kind = "measured" -> IsRight(chain.metric, o.readings)
    [] o.kind = "empty" /\ Judged # "none" -> MeantSubjects(Judged) = {}
    [] o.kind = "empty" /\ Judged = "none" -> WantedFiles = {} \/ MeantFiles = {}
    [] o.kind = "violations" ->
         /\ o.subjects = {s \in MeantSubjects(Judged) : Breaks(chain.condition, Judged, s)}
         /\ o.lenient \/ MeantSubjects(Judged) # {}
    [] o.kind = "page" ->
         /\ \A metric \in DOMAIN o.data : IsRight(metric, o.data[metric])
         /\ o.lenient \/ MeantFiles # {}
    [] OTHER -> FALSE
FirstOne == IF Mistakes = {} THEN 0 ELSE Min(Mistakes)
Judges(o) ==
  o.kind \notin {"none", "nopath", "refused"} =>
    IF FirstOne # 0 THEN o = [kind |-> "rejected", call |-> FirstOne]
    ELSE IF Gone \in Kinds THEN o.kind = "gone"
    ELSE IF Unparsable \in Kinds THEN o.kind = "unparsable"
    ELSE Answers(o)

LEMMA FirstIsReported ==
  ASSUME SentenceInv
  PROVE  FirstOne = chain.err
<1>1. typed \in Seq(TypedCalls) /\ FirstMistake(chain.err, typed) /\ Mistakes = MistakesIn(typed)
  BY SentenceRead DEF SentenceInv
<1>2. CASE Mistakes = {}
  BY <1>1, <1>2 DEF FirstMistake, FirstOne
<1>3. CASE Mistakes # {}
  <2>1. chain.err \in Mistakes /\ \A k \in Mistakes : chain.err <= k
    BY <1>1, <1>3 DEF FirstMistake
  <2>2. Mistakes \subseteq 1 .. Len(typed) /\ Len(typed) \in Nat
    BY <1>1 DEF MistakesIn
  <2> DEFINE err == chain.err
  <2> HIDE DEF err
  <2>3. ASSUME NEW x \in Mistakes, \A y \in Mistakes : x <= y
        PROVE  x = err
    <3>1. err \in Mistakes /\ err <= x
      BY <2>1 DEF err
    <3>2. x <= err
      BY <2>3, <3>1
    <3>3. x \in Int /\ err \in Int
      BY <2>2, <3>1
    <3> QED
      BY <3>1, <3>2, <3>3
  <2>4. Min(Mistakes) = chain.err
    <3>1. err \in Mistakes /\ \A k \in Mistakes : err <= k
      BY <2>1 DEF err
    <3>2. (CHOOSE x \in Mistakes : \A y \in Mistakes : x <= y) = err
      BY <2>3, <3>1
    <3> QED
      BY <3>2 DEF Min, err
  <2> QED
    BY <1>3, <2>4 DEF FirstOne
<1> QED
  BY <1>2, <1>3

LEMMA MeantIsRight ==
  ASSUME NEW metric, NEW readings, AreMeant(metric, readings)
  PROVE  IsRight(metric, readings)
<1>1. ASSUME NEW r \in readings
      PROVE  Same(MeantNumber(metric, r.subject), r.value) \/ (MeantNumber(metric, r.subject) = NaN /\ r.value = NaN)
  <2>1. r.value = MeantNumber(metric, r.subject) /\ (r.value.d = 0 => r.value = NaN)
    BY DEF AreMeant, IsFigure
  <2>2. r.value.d # 0 => Same(r.value, r.value)
    BY SameAsItself
  <2> QED
    BY <2>1, <2>2
<1> QED
  BY <1>1 DEF AreMeant, IsRight

\* A terminal that fails.
LEMMA FailureJudges ==
  ASSUME SentenceInv, NEW o, o = Failure(SelectFiles), o # Unanswered
  PROVE  Judges(o)
<1>1. CASE chain.err # 0
  BY <1>1, FailureIs, FirstIsReported DEF Judges
<1>2. CASE chain.err = 0 /\ Gone \in Kinds
  BY <1>2, FailureIs, FirstIsReported DEF Judges
<1>3. CASE chain.err = 0 /\ Gone \notin Kinds /\ Unparsable \in Kinds
  BY <1>3, FailureIs, FirstIsReported DEF Judges
<1>4. CASE chain.err = 0 /\ Gone \notin Kinds /\ Unparsable \notin Kinds
  BY <1>4, FailureIs
<1> QED
  BY <1>1, <1>2, <1>3, <1>4

\* One that does not, has read everything that was wanted.
LEMMA AnswerJudges ==
  ASSUME SentenceInv, NoNamesakes(project), Failure(SelectFiles) = Unanswered
  PROVE  /\ Judging /\ Readable(SelectFiles) = WantedFiles
         /\ \A o : Answers(o) => Judges(o)
<1>1. chain.err = 0 /\ Gone \notin Kinds /\ Unparsable \notin Kinds
  <2>1. /\ [kind |-> "rejected", call |-> chain.err] # Unanswered
        /\ [kind |-> "gone"] # Unanswered /\ [kind |-> "unparsable"] # Unanswered
    <3>1. /\ [kind |-> "rejected", call |-> chain.err].kind = "rejected" /\ [kind |-> "gone"].kind = "gone"
          /\ [kind |-> "unparsable"].kind = "unparsable" /\ Unanswered.kind = "none"
      BY DEF Unanswered
    <3> QED
      BY <3>1
  <2> QED
    BY <2>1, FailureIs
<1>2. Judging /\ Readable(SelectFiles) = WantedFiles
  BY <1>1, FailureIs DEF Judging, AllRead
<1>3. FirstOne = 0
  BY <1>1, FirstIsReported
<1> QED
  BY <1>1, <1>2, <1>3 DEF Judges

LEMMA MetricsAreNamed ==
  \A metric \in AllMetrics : metric # "none"
BY DEF AllMetrics, FileMetrics, ClassMetrics, ComponentMetrics

\* What each terminal returns is judged rightly.
LEMMA MeasureJudges ==
  ASSUME SentenceInv, NoNamesakes(project), Measure
  PROVE  Judges(outcome')
<1> DEFINE failure == Failure(SelectFiles)
           readings == Readings(chain.metric, SelectSubjects(Readable(SelectFiles)))
<1>1. stage = "metric" /\ outcome' = IF failure # Unanswered THEN failure
                                     ELSE [kind |-> "measured", readings |-> readings]
  BY DEF Measure, Return
<1>2. CASE failure # Unanswered
  BY <1>1, <1>2, FailureJudges
<1>3. CASE failure = Unanswered
  <2>1. Judging /\ Readable(SelectFiles) = WantedFiles /\ \A o : Answers(o) => Judges(o)
    BY <1>3, AnswerJudges
  <2>2. chain.metric \in AllMetrics
    BY <1>1 DEF SentenceInv, SaidSoFar
  <2>3. IsRight(chain.metric, readings)
    BY <2>1, <2>2, ReadingsMeant, MeantIsRight
  <2> HIDE DEF readings
  <2>4. outcome'.kind = "measured" /\ outcome'.readings = readings
    BY <1>1, <1>3
  <2>5. Answers(outcome')
    BY <2>3, <2>4 DEF Answers
  <2> QED
    BY <2>1, <2>5
<1> QED
  BY <1>2, <1>3

LEMMA CheckJudges ==
  ASSUME SentenceInv, NoNamesakes(project), NEW lenient \in BOOLEAN, Check(lenient)
  PROVE  Judges(outcome')
<1> DEFINE failure == Failure(SelectFiles)
           subjects == SelectSubjects(Readable(SelectFiles))
           population == IF chain.condition.verb = "zone" THEN subjects.components
                         ELSE Readings(chain.metric, subjects)
<1>1. /\ stage = "condition"
      /\ outcome' = IF failure # Unanswered THEN failure
                    ELSE IF population = {} /\ ~lenient THEN [kind |-> "empty"]
                    ELSE [kind |-> "violations", subjects |-> Offending(subjects), lenient |-> lenient]
  BY DEF Check, Return
<1>2. CASE failure # Unanswered
  BY <1>1, <1>2, FailureJudges
<1>3. CASE failure = Unanswered
  <2>1. Judging /\ Readable(SelectFiles) = WantedFiles /\ \A o : Answers(o) => Judges(o)
    BY <1>3, AnswerJudges
  <2>2. /\ Offending(subjects) = {s \in MeantSubjects(Judged) : Breaks(chain.condition, Judged, s)}
        /\ population = {} <=> MeantSubjects(Judged) = {}
    BY <1>1, <2>1, OffendingMeant, PopulationMeant
  <2>3. Judged # "none"
    BY <1>1, MetricsAreNamed DEF Judged, SentenceInv, SaidSoFar
  <2> HIDE DEF population, subjects, failure
  <2>4. CASE population = {} /\ ~lenient
    <3>1. outcome'.kind = "empty"
      BY <1>1, <1>3, <2>4
    <3>2. Answers(outcome')
      BY <2>2, <2>3, <2>4, <3>1 DEF Answers
    <3> QED
      BY <2>1, <3>2
  <2>5. CASE ~(population = {} /\ ~lenient)
    <3>1. outcome'.kind = "violations" /\ outcome'.subjects = Offending(subjects) /\ outcome'.lenient = lenient
      BY <1>1, <1>3, <2>5
    <3>2. Answers(outcome')
      BY <2>2, <2>5, <3>1 DEF Answers
    <3> QED
      BY <2>1, <3>2
  <2> QED
    BY <2>4, <2>5
<1> QED
  BY <1>2, <1>3

LEMMA ExportJudges ==
  ASSUME SentenceInv, NoNamesakes(project), NEW group \in {CountGroup, ComponentMetrics},
         NEW path \in BOOLEAN, NEW lenient \in BOOLEAN, ExportAsHTML(group, path, lenient)
  PROVE  Judges(outcome')
<1> DEFINE failure == Failure(SelectFiles)
           subjects == SelectSubjects(Readable(SelectFiles))
           data == [metric \in group |-> Readings(metric, subjects)]
           nothing == \A metric \in group : data[metric] = {}
<1>1. /\ stage = "scope"
      /\ \/ outcome' = [kind |-> "nopath"]
         \/ failure # Unanswered /\ outcome' = failure
         \/ failure = Unanswered /\ ~lenient /\ nothing /\ outcome' = [kind |-> "empty"]
         \/ failure = Unanswered /\ (lenient \/ ~nothing) /\ outcome' = [kind |-> "page", data |-> data, lenient |-> lenient]
         \/ outcome' = [kind |-> "refused"]
  BY DEF ExportAsHTML, Return
<1>2. CASE outcome' = [kind |-> "nopath"] \/ outcome' = [kind |-> "refused"]
  BY <1>2 DEF Judges
<1>3. CASE failure # Unanswered /\ outcome' = failure
  BY <1>3, FailureJudges
<1>4. CASE failure = Unanswered
  <2>1. Judging /\ Readable(SelectFiles) = WantedFiles /\ \A o : Answers(o) => Judges(o)
    BY <1>4, AnswerJudges
  <2>2. \A metric \in group : metric \in AllMetrics
    BY DEF AllMetrics, CountGroup, ClassMetrics
  <2>3. \A metric \in group : data[metric] = Readings(metric, subjects) /\ AreMeant(metric, data[metric])
    BY <2>1, <2>2, ReadingsMeant
  <2>4. \A metric \in group : data[metric] = {} <=> MeantSubjects(metric) = {}
    BY <2>3 DEF AreMeant
  <2>5. Judged = "none"
    BY <1>1 DEF Judged, SentenceInv, SaidSoFar
  <2>6. DOMAIN data = group
    OBVIOUS
  <2> HIDE DEF data, failure, subjects
  <2>7. nothing => MeantFiles = {}
    <3>1. PICK metric \in group : metric \notin ClassMetrics
      <4>1. "code" \in CountGroup /\ "code" \notin ClassMetrics
        BY DEF CountGroup, FileMetrics, ClassMetrics
      <4>2. "distance" \in ComponentMetrics /\ "distance" \notin ClassMetrics
        BY DEF ComponentMetrics, ClassMetrics
      <4> QED
        BY <4>1, <4>2
    <3> QED
      BY <2>1, <2>4, <3>1, MeasuredAreFiles
  <2>8. ~nothing => MeantFiles # {}
    BY <2>1, <2>4, MeasuredAreFiles
  <2>9. CASE ~lenient /\ nothing /\ outcome' = [kind |-> "empty"]
    <3>1. outcome'.kind = "empty"
      BY <2>9
    <3>2. Answers(outcome')
      BY <2>5, <2>7, <2>9, <3>1 DEF Answers
    <3> QED
      BY <2>1, <3>2
  <2>10. CASE (lenient \/ ~nothing) /\ outcome' = [kind |-> "page", data |-> data, lenient |-> lenient]
    <3>1. outcome'.kind = "page" /\ outcome'.data = data /\ outcome'.lenient = lenient
      BY <2>10
    <3>2. \A metric \in DOMAIN data : IsRight(metric, data[metric])
      BY <2>3, <2>6, MeantIsRight
    <3> HIDE DEF nothing
    <3>3. lenient \/ MeantFiles # {}
      BY <2>8, <2>10
    <3>4. Answers(outcome')
      BY <3>1, <3>2, <3>3 DEF Answers
    <3> QED
      BY <2>1, <3>4
  <2> QED
    BY <1>1, <1>2, <1>4, <2>9, <2>10
<1> QED
  BY <1>1, <1>2, <1>3, <1>4

-----------------------------------------------------------------------------
\* What a verdict says stays what it says.
LEMMA JudgesStays ==
  ASSUME chain' = chain, typed' = typed, project' = project, NEW CONSTANT o
  PROVE  Judges(o)' <=> Judges(o)
<1>1. ASSUME NEW CONSTANT k PROVE Qualified(k)' = Qualified(k)
  BY DEF Qualified
<1>2. ASSUME NEW CONSTANT k PROVE Mistaken(k)' <=> Mistaken(k)
  BY <1>1 DEF Mistaken
<1>3. Mistakes' = Mistakes
  BY <1>2 DEF Mistakes
<1>4. ASSUME NEW CONSTANT i, NEW CONSTANT s PROVE NamesSubject(i, s)' <=> NamesSubject(i, s)
  BY <1>1 DEF NamesSubject
<1>5. ASSUME NEW CONSTANT population PROVE Selects(population)' = Selects(population)
  BY DEF Selects
<1>6. WantedFiles' = WantedFiles
  BY <1>4, <1>5 DEF WantedFiles
<1>7. MeantTypes' = MeantTypes
  BY <1>4, <1>5, <1>6 DEF MeantTypes
<1>8. MeantFiles' = MeantFiles
  BY <1>5, <1>6, <1>7 DEF MeantFiles
<1>9. ASSUME NEW CONSTANT metric PROVE MeantSubjects(metric)' = MeantSubjects(metric)
  BY <1>7, <1>8 DEF MeantSubjects
<1>10. ASSUME NEW CONSTANT metric, NEW CONSTANT id PROVE MeantOfType(metric, id)' = MeantOfType(metric, id)
  BY <1>6, <1>7 DEF MeantOfType
<1>11. ASSUME NEW CONSTANT metric, NEW CONSTANT folder PROVE MeantOfFolder(metric, folder)' = MeantOfFolder(metric, folder)
  BY <1>8 DEF MeantOfFolder
<1>12. ASSUME NEW CONSTANT metric, NEW CONSTANT s PROVE MeantNumber(metric, s)' = MeantNumber(metric, s)
  BY <1>10, <1>11 DEF MeantNumber
<1>13. ASSUME NEW CONSTANT condition, NEW CONSTANT metric, NEW CONSTANT s
       PROVE  Breaks(condition, metric, s)' <=> Breaks(condition, metric, s)
  BY <1>7, <1>11, <1>12 DEF Breaks
<1>14. FirstOne' = FirstOne /\ Kinds' = Kinds /\ Judged' = Judged
  BY <1>3, <1>6 DEF FirstOne, Kinds, Judged
<1>15. ASSUME NEW CONSTANT metric, NEW CONSTANT readings PROVE IsRight(metric, readings)' <=> IsRight(metric, readings)
  BY <1>9, <1>12 DEF IsRight
<1>16. Answers(o)' <=> Answers(o)
  BY <1>6, <1>8, <1>9, <1>13, <1>14, <1>15 DEF Answers
<1> QED
  BY <1>14, <1>16 DEF Judges

-----------------------------------------------------------------------------
LEMMA JudgesIsTheProperty ==
  VerdictIsTheNumbers <=> Judges(outcome)
<1>1. \A metric, readings :
        IsRight(metric, readings) <=>
          /\ {r.subject : r \in readings} = MeantSubjects(metric)
          /\ \A r \in readings : Same(MeantNumber(metric, r.subject), r.value)
                                   \/ (MeantNumber(metric, r.subject) = NaN /\ r.value = NaN)
  BY DEF IsRight
<1> QED
  BY <1>1 DEF VerdictIsTheNumbers, Judges, Answers, FirstOne, Kinds, Judged

\* And so is it of what is returned next.
LEMMA NextJudgesIsTheProperty ==
  ASSUME NEW CONSTANT o, o = outcome'
  PROVE  VerdictIsTheNumbers' <=> Judges(o)'
<1>1. \A metric, readings :
        IsRight(metric, readings)' <=>
          /\ {r.subject : r \in readings} = MeantSubjects(metric)'
          /\ \A r \in readings : Same(MeantNumber(metric, r.subject)', r.value)
                                   \/ (MeantNumber(metric, r.subject)' = NaN /\ r.value = NaN)
  BY DEF IsRight
<1> QED
  BY <1>1 DEF VerdictIsTheNumbers, Judges, Answers, FirstOne, Kinds, Judged

VerdictInv ==
  /\ SentenceInv
  /\ stage # "done" => outcome = Unanswered
  /\ VerdictIsTheNumbers

\* A verb answers nothing, and only a terminal ends the chain.
LEMMA NextIsVerbOrTerminal ==
  ASSUME MetricsNext
  PROVE  \/ stage # "done" /\ stage' # "done" /\ outcome' = outcome
         \/ /\ chain' = chain /\ typed' = typed /\ project' = project /\ stage' = "done"
            /\ \/ Measure
               \/ \E lenient \in BOOLEAN : Check(lenient)
               \/ \E group \in {CountGroup, ComponentMetrics}, path, lenient \in BOOLEAN :
                    ExportAsHTML(group, path, lenient)
<1>1. ASSUME NEW call \in Scopes, Select(call) \/ MetricsExcept(call)
      PROVE  stage # "done" /\ stage' # "done" /\ outcome' = outcome
  BY <1>1 DEF Select, MetricsExcept, Verb
<1>2. ASSUME NEW metric, Choose(metric)
      PROVE  stage # "done" /\ stage' # "done" /\ outcome' = outcome
  BY <1>2 DEF Choose, Verb
<1>3. ASSUME NEW given, CustomMetric(given)
      PROVE  stage # "done" /\ stage' # "done" /\ outcome' = outcome
  BY <1>3 DEF CustomMetric, Verb
<1>4. ASSUME NEW call \in Conditions, ShouldBe(call) \/ ShouldSatisfy(call) \/ ShouldNotBeIn(call)
      PROVE  stage # "done" /\ stage' # "done" /\ outcome' = outcome
  BY <1>4 DEF ShouldBe, ShouldSatisfy, ShouldNotBeIn, Verb
<1>5. ASSUME Measure
      PROVE  chain' = chain /\ typed' = typed /\ project' = project /\ stage' = "done"
  BY <1>5 DEF Measure, Return
<1>6. ASSUME NEW lenient, Check(lenient)
      PROVE  chain' = chain /\ typed' = typed /\ project' = project /\ stage' = "done"
  BY <1>6 DEF Check, Return
<1>7. ASSUME NEW group, NEW path, NEW lenient, ExportAsHTML(group, path, lenient)
      PROVE  chain' = chain /\ typed' = typed /\ project' = project /\ stage' = "done"
  BY <1>7 DEF ExportAsHTML, Return
<1> QED
  BY <1>1, <1>2, <1>3, <1>4, <1>5, <1>6, <1>7 DEF MetricsNext

LEMMA VerdictStep ==
  ASSUME VerdictInv, [MetricsNext]_metricsVars, \A p \in Projects : NoNamesakes(p)
  PROVE  VerdictInv'
<1>1. SentenceInv /\ SentenceInv' /\ NoNamesakes(project)
  BY SentenceStep DEF VerdictInv, SentenceInv
<1>2. Judges(outcome)
  BY JudgesIsTheProperty DEF VerdictInv
<1>3. PICK o : o = outcome'
  OBVIOUS
<1>4. VerdictIsTheNumbers' <=> Judges(o)'
  BY <1>3, NextJudgesIsTheProperty
<1>5. CASE UNCHANGED metricsVars
  <2>1. chain' = chain /\ typed' = typed /\ project' = project /\ outcome' = outcome /\ stage' = stage
    BY <1>5 DEF metricsVars
  <2> QED
    BY <1>1, <1>2, <1>3, <1>4, <2>1, JudgesStays DEF VerdictInv
<1>6. CASE stage # "done" /\ stage' # "done" /\ outcome' = outcome
  BY <1>1, <1>6 DEF VerdictInv, VerdictIsTheNumbers, Unanswered
<1>7. CASE /\ chain' = chain /\ typed' = typed /\ project' = project /\ stage' = "done"
           /\ \/ Measure
              \/ \E lenient \in BOOLEAN : Check(lenient)
              \/ \E group \in {CountGroup, ComponentMetrics}, path, lenient \in BOOLEAN :
                   ExportAsHTML(group, path, lenient)
  <2>1. Judges(outcome')
    BY <1>1, <1>7, MeasureJudges, CheckJudges, ExportJudges
  <2>2. Judges(o)'
    BY <1>3, <1>7, <2>1, JudgesStays
  <2> QED
    BY <1>1, <1>4, <1>7, <2>2 DEF VerdictInv
<1>8. CASE MetricsNext
  BY <1>6, <1>7, <1>8, NextIsVerbOrTerminal
<1> QED
  BY <1>5, <1>8

\* Any rule about numbers a user may type, over any project in which a type is
\* known by its identifier, says what its sentence says: the first mistake, the
\* file that was wanted and could not be read, or the subjects whose own numbers,
\* taken over the files and folders that were named, break the condition
\* (src/metrics/fluentapi: FailOn, Check, Measure, ExportAsHTML).
THEOREM VerdictsAreTheirNumbers ==
  ASSUME \A p \in Projects : NoNamesakes(p)
  PROVE  MetricsSpec => []VerdictIsTheNumbers
<1>1. MetricsInit => VerdictInv
  BY SentenceInit DEF MetricsInit, VerdictInv, VerdictIsTheNumbers, Unanswered
<1>2. VerdictInv /\ [MetricsNext]_metricsVars => VerdictInv'
  BY VerdictStep
<1>3. VerdictInv => VerdictIsTheNumbers
  BY DEF VerdictInv
<1> QED
  BY <1>1, <1>2, <1>3, PTL DEF MetricsSpec
=============================================================================
