------------------------------- MODULE Cohesion -------------------------------
(***************************************************************************)
(* The lack-of-cohesion metrics of one class (src/metrics/calculation/     *)
(* lcom_metrics.go), over what the extractor reads off its source          *)
(* (src/metrics/extraction/extract_class_info.go): the methods are read    *)
(* one after the other, each with the names its body selects on its        *)
(* receiver. A ratio is a pair of numbers, so that a division by zero is   *)
(* there to be seen.                                                       *)
(***************************************************************************)
EXTENDS Integers, Sequences, FiniteSets, SequencesExt, Digraphs

CONSTANTS
  Classes       \* the types declared: [fields, others, most], the names of the
                \* fields, the other names a method may select on its receiver,
                \* and a bound on the methods

\* Source files are finite.
ASSUME ClassesAssumption ==
  \A c \in Classes : IsFiniteSet(c.fields) /\ IsFiniteSet(c.others) /\ c.most \in Nat

VARIABLES
  class,        \* one of Classes
  declared      \* what each method selects on its receiver, in declaration order

cohesionVars == <<class, declared>>

-----------------------------------------------------------------------------
\* selectedOnReceiver: what a method's body selects, each name kept once.
SelectedOnReceiver == SetToAllKPermutations(class.fields \cup class.others)

\* collectReceiverMethods
DeclareMethod(selected) ==
  /\ Len(declared) < class.most
  /\ declared' = Append(declared, selected)
  /\ UNCHANGED class

CohesionInit == class \in Classes /\ declared = << >>
CohesionNext == \E selected \in SelectedOnReceiver : DeclareMethod(selected)
CohesionSpec == CohesionInit /\ [][CohesionNext]_cohesionVars

-----------------------------------------------------------------------------
\* attributeAccesses: what is not a field of the class is dropped.
Accessed(selected) ==
  LET kept[k \in 0 .. Len(selected)] ==
        IF k = 0 THEN << >>
        ELSE IF selected[k] \in class.fields THEN Append(kept[k - 1], selected[k]) ELSE kept[k - 1]
  IN  kept[Len(selected)]
Methods == [m \in DOMAIN declared |-> Accessed(declared[m])]

\* A field is accessed by the methods that select it: the other direction.
AccessedBy(methods, field) == {m \in DOMAIN methods : field \in Range(methods[m])}
AccessCount ==
  LET methods == Methods
  IN  SumFunction([field \in class.fields |-> Cardinality(AccessedBy(methods, field))])

MeasurableWithFields == class.fields # {}
Measurable == class.fields # {} /\ Len(declared) > 1

Pairs == {p \in (DOMAIN declared) \X (DOMAIN declared) : p[1] < p[2]}
Sharing == LET methods == Methods IN {p \in Pairs : Range(methods[p[1]]) \cap Range(methods[p[2]]) # {}}

-----------------------------------------------------------------------------
\* rootOf: the path is halved on the way up, and the forest is written to.
Climb(s) ==
  IF s.component[s.at] = s.at THEN s
  ELSE LET halved == [s.component EXCEPT ![s.at] = s.component[s.component[s.at]]]
       IN  [component |-> halved, at |-> halved[s.at]]

RootOf(component, index) ==
  LET step[k \in 0 .. Len(component)] ==
        IF k = 0 THEN [component |-> component, at |-> index] ELSE Climb(step[k - 1])
  IN  step[Len(component)]

\* connect joins the roots of two trees, the right one under the left one.
ConnectMethods(component, left, right) == [component EXCEPT ![right] = left]
Connect(component, left, right) ==
  LET leftRoot == RootOf(component, left)
      rightRoot == RootOf(leftRoot.component, right)
  IN  IF leftRoot.at = rightRoot.at THEN rightRoot.component
      ELSE [rightRoot.component EXCEPT ![rightRoot.at] = leftRoot.at]

\* The first method to reach a field is connected to each that reaches it later;
\* the first of a field that none has reached yet is 0.
ReachField(state, method, field) ==
  IF state.reached[field] # 0
  THEN [component |-> Connect(state.component, method, state.reached[field]), reached |-> state.reached]
  ELSE [component |-> state.component, reached |-> [state.reached EXCEPT ![field] = method]]

ReachFields(state, method, accessed) ==
  LET after[k \in 0 .. Len(accessed)] ==
        IF k = 0 THEN state ELSE ReachField(after[k - 1], method, accessed[k])
  IN  after[Len(accessed)]

Forest ==
  LET methods == Methods
      after[m \in 0 .. Len(methods)] ==
        IF m = 0 THEN [component |-> [i \in DOMAIN methods |-> i], reached |-> [f \in class.fields |-> 0]]
        ELSE ReachFields(after[m - 1], m, methods[m])
  IN  after[Len(methods)].component

-----------------------------------------------------------------------------
\* The metrics. One that cannot be read off the class has no evidence against it.
Zero == <<0, 1>>
Methodic == Len(declared)
Fielded == Cardinality(class.fields)

LCOM96a == IF Measurable THEN <<AccessCount - Methodic * Fielded, Fielded * (1 - Methodic)>> ELSE Zero
LCOM96b == IF Measurable THEN <<Fielded * Methodic - AccessCount, Fielded * Methodic>> ELSE Zero
LCOM1 == IF Measurable THEN Max({0, Cardinality(Pairs \ Sharing) - Cardinality(Sharing)}) ELSE 0
LCOM2 == LCOM96b
LCOM3 == LCOM96a
LCOM4 ==
  IF declared = << >> THEN 0
  ELSE IF ~Measurable THEN 1
  ELSE LET forest == Forest IN Cardinality({m \in DOMAIN forest : RootOf(forest, m).at = m})
LCOM5 ==
  IF Measurable /\ Fielded >= 2 THEN <<Fielded * Methodic - AccessCount, Methodic * (Fielded - 1)>> ELSE Zero
LCOMStar == IF Measurable THEN <<Cardinality(Pairs \ Sharing), Cardinality(Pairs)>> ELSE Zero

-----------------------------------------------------------------------------
\* The forest that LCOM4 counts the roots of is the partition of the methods
\* into those that hang together through shared fields, whatever order they were
\* read in: two methods have one root exactly when a chain of shared fields
\* leads from one to the other (connect, rootOf). A class that cannot be
\* measured is one piece, and one without methods is none.
PiecesHangTogether ==
  LET methods == Methods
      forest == Forest
      linked == {p \in (DOMAIN methods) \X (DOMAIN methods) : Range(methods[p[1]]) \cap Range(methods[p[2]]) # {}}
      root == [m \in DOMAIN methods |-> RootOf(forest, m).at]
      piece == [m \in DOMAIN methods |-> {m} \cup ReachedFrom(linked, m)]
  IN  /\ \A m, n \in DOMAIN methods : root[m] = root[n] <=> n \in piece[m]
      /\ LCOM4 = IF methods = << >> THEN 0
                 ELSE IF Len(methods) < 2 \/ class.fields = {} THEN 1
                 ELSE Cardinality({piece[m] : m \in DOMAIN methods})

Equal(r, s) == r[1] * s[2] = s[1] * r[2]
Within(r, low, high) == r[2] # 0 /\ r[2] * low * r[2] <= r[1] * r[2] /\ r[1] * r[2] <= high * r[2] * r[2]

\* The ratios divide by a number that is not zero, for every class there is, and
\* the ends of their scales mean what is said of them: 0 is a class whose methods
\* all reach all of its fields, LCOM96a is 1 where each field has one method of
\* its own and m/(m-1) where no field is reached, LCOM96b is then 1, LCOM5 is 1
\* where each method has one field of its own; the twins agree; and the pair
\* measures and the pieces agree about a class that falls apart.
ScoresKeepTheirScale ==
  LET m == Len(declared)
      reaches(f) == {i \in 1 .. m : f \in Range(declared[i])}
      reached(i) == {f \in class.fields : i \in reaches(f)}
      evident == m > 1 /\ class.fields # {}
      cohesive == \A f \in class.fields : reaches(f) = 1 .. m
      unreached == \A f \in class.fields : reaches(f) = {}
      apart == \A i, j \in 1 .. m : i = j \/ reached(i) \cap reached(j) = {}
  IN  /\ Within(LCOM96a, 0, 2) /\ Within(LCOM96b, 0, 1) /\ Within(LCOM5, 0, 2) /\ Within(LCOMStar, 0, 1)
      /\ Equal(LCOM2, LCOM96b) /\ Equal(LCOM3, LCOM96a)
      /\ ~evident => \A r \in {LCOM96a, LCOM96b, LCOM5, LCOMStar, <<LCOM1, 1>>} : Equal(r, Zero)
      /\ evident =>
           /\ \A r \in {LCOM96a, LCOM96b} : Equal(r, Zero) <=> cohesive
           /\ (\A f \in class.fields : Cardinality(reaches(f)) = 1) => Equal(LCOM96a, <<1, 1>>)
           /\ unreached => Equal(LCOM96a, <<m, m - 1>>)
           /\ Equal(LCOM96b, <<1, 1>>) <=> unreached
           /\ Cardinality(class.fields) > 1 =>
                /\ Equal(LCOM5, Zero) <=> cohesive
                /\ (\A i \in 1 .. m : Cardinality(reached(i)) = 1) => Equal(LCOM5, <<1, 1>>)
           /\ Equal(LCOMStar, <<1, 1>>) <=> apart
           /\ LCOM4 = m <=> apart
           /\ Equal(LCOMStar, Zero) => LCOM4 = 1 /\ LCOM1 = 0
           /\ LCOM1 > 0 <=> 2 * LCOMStar[1] > LCOMStar[2]
=============================================================================
