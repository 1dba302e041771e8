------------------------------ MODULE RulesProofs ------------------------------
(***************************************************************************)
(* Proofs about the two rules a chain of calls states over a project as a  *)
(* whole: LayersPolicy, then SlicesRules.  The constants stay arbitrary:   *)
(* any names, patterns, slicings, texts and projects, chains of any length *)
(* and any number of writes to the diagram file.                           *)
(*                                                                         *)
(* Of a layers policy: the builder stays well formed, the error a chain    *)
(* reports is its first mistake, and a policy that is judged is judged by  *)
(* the sentence it was built from.  Of a slices rule the same, and that a  *)
(* verdict speaks of the diagram it was judged by; these proofs never look *)
(* into ParseDiagram, whatever a text is read as.                          *)
(***************************************************************************)
EXTENDS LayersPolicy, SlicesRules, FiniteSetTheorems, SequenceTheorems,
        WellFoundedInduction, TLAPS


\* Another call changes neither the meaning nor the mistakes of the ones before
\* it; it may itself be a mistake, or define one more name.
LEMMA SaidGrows ==
  ASSUME NEW s \in Seq(Call), NEW call \in Call
  PROVE  LET t == Append(s, call)
             n == Len(s) + 1
         IN  /\ t \in Seq(Call) /\ Len(t) = n /\ t[n] = call
             /\ DefinedBefore(t, n) = Defined(s)
             /\ Defined(t) = Defined(s) \cup (IF call.verb = "definedBy" THEN {call.name} ELSE {})
             /\ Mistakes(t) = Mistakes(s) \cup (IF Mistaken(t, n) THEN {n} ELSE {})
<1> DEFINE t == Append(s, call)
           n == Len(s) + 1
<1>1. /\ t \in Seq(Call) /\ Len(t) = n /\ t[n] = call
      /\ DOMAIN t = DOMAIN s \cup {n} /\ n \notin DOMAIN s
      /\ \A i \in DOMAIN s : t[i] = s[i] /\ i \in Nat /\ i < n
      /\ n \in Nat
  OBVIOUS
<1> HIDE DEF t, n
<1> DEFINE new == IF call.verb = "definedBy" THEN {n} ELSE {}
<1>2. Definitions(t) = Definitions(s) \cup new
  BY <1>1 DEF Definitions
<1>3. \A j \in Definitions(s) : j \in DOMAIN s
  BY DEF Definitions
<1>4. \A j \in Definitions(s) : t[j].name = s[j].name /\ j \in Nat /\ j < n
  BY <1>1, <1>3
<1>5. n \in Nat \ {0} /\ DOMAIN s = 1 .. n - 1
  BY DEF n
<1>6. /\ n \in Nat \ {0} /\ new \in SUBSET {n}
      /\ Definitions(s) \in SUBSET (1 .. n - 1)
  BY <1>3, <1>5
<1> HIDE DEF new
<1>7. \A i \in DOMAIN s : DefinedBefore(t, i) = DefinedBefore(s, i)
  <2> TAKE i \in DOMAIN s
  <2>1. i \in Nat /\ i < n
    BY <1>1
  <2>2. Definitions(t) \cap (1 .. i - 1) = Definitions(s) \cap (1 .. i - 1)
    BY <2>1, <1>2, <1>6
  <2>3. QED
    BY <2>2, <1>4, Zenon DEF DefinedBefore
<1>8. DefinedBefore(t, n) = DefinedBefore(s, n)
  <2>1. Definitions(t) \cap (1 .. n - 1) = Definitions(s) \cap (1 .. n - 1)
    BY <1>2, <1>6
  <2>2. QED
    BY <2>1, <1>4, Zenon DEF DefinedBefore
<1>9. DefinedBefore(t, n + 1)
        = DefinedBefore(s, n) \cup (IF call.verb = "definedBy" THEN {call.name} ELSE {})
  <2>1. /\ Definitions(t) \cap (1 .. (n + 1) - 1) = Definitions(s) \cup new
        /\ Definitions(s) \cap (1 .. n - 1) = Definitions(s)
    <3>1. 1 .. (n + 1) - 1 = (1 .. n - 1) \cup {n}
      BY <1>6
    <3>2. QED
      BY <1>2, <1>6, <3>1, Zenon
  <2>2. DefinedBefore(t, n + 1) = {t[j].name : j \in Definitions(s)} \cup {t[j].name : j \in new}
    BY <2>1, Zenon DEF DefinedBefore
  <2>3. {t[j].name : j \in Definitions(s)} = DefinedBefore(s, n)
    BY <2>1, <1>4, Zenon DEF DefinedBefore
  <2>4. {t[j].name : j \in new} = IF call.verb = "definedBy" THEN {call.name} ELSE {}
    BY <1>1 DEF new
  <2>5. QED
    BY <2>2, <2>3, <2>4
<1>10. \A i \in DOMAIN s : Mistaken(t, i) = Mistaken(s, i)
  BY <1>1, <1>7 DEF Mistaken
<1>11. Mistakes(t) = Mistakes(s) \cup (IF Mistaken(t, n) THEN {n} ELSE {})
  BY <1>1, <1>10 DEF Mistakes
<1>12. n = Len(s) + 1 /\ t = Append(s, call)
  BY DEF n, t
<1>13. Defined(s) = DefinedBefore(s, n) /\ Defined(t) = DefinedBefore(t, n + 1)
  BY <1>1, <1>12 DEF Defined
<1>14. QED
  BY <1>1, <1>8, <1>9, <1>11, <1>12, <1>13

-----------------------------------------------------------------------------
LEMMA AppendWorks ==
  ASSUME NEW S, NEW seq \in Seq(S), NEW e \in S
  PROVE  /\ Append(seq, e) \in Seq(S) /\ Append(seq, e) # << >>
         /\ DOMAIN Append(seq, e) = DOMAIN seq \cup {Len(seq) + 1}
         /\ Len(seq) + 1 \notin DOMAIN seq
         /\ Append(seq, e)[Len(seq) + 1] = e
         /\ \A i \in DOMAIN seq : Append(seq, e)[i] = seq[i]
OBVIOUS

LEMMA RejectingWorks ==
  ASSUME NEW b \in Builder, WellFormed(b), said \in Seq(Call)
  PROVE  /\ Rejecting(b) \in Builder /\ WellFormed(Rejecting(b))
         /\ Rejecting(b).err = IF b.err = NoError THEN Len(said) + 1 ELSE b.err
         /\ \A x : Declares(Rejecting(b), x) <=> Declares(b, x)
<1>1. Len(said) + 1 \in Nat
  OBVIOUS
<1>2. CASE b.err = NoError
  <2>1. Rejecting(b) = [b EXCEPT !.err = Len(said) + 1]
    BY <1>2 DEF Rejecting
  <2>2. QED
    BY <1>1, <1>2, <2>1 DEF Builder, WellFormed, Declares
<1>3. CASE b.err # NoError
  <2>1. Rejecting(b) = b
    BY <1>3 DEF Rejecting, Builder
  <2>2. QED
    BY <1>3, <2>1
<1>4. QED
  BY <1>2, <1>3

LEMMA ClausesWork ==
  ASSUME NEW b \in Builder, WellFormed(b), NEW clause \in Written
  PROVE  LET d == [b EXCEPT !.clauses = Append(@, clause)]
         IN  /\ d \in Builder /\ WellFormed(d) /\ d.err = b.err
             /\ \A x : Declares(d, x) <=> Declares(b, x)
<1> DEFINE clauses == Append(b.clauses, clause)
<1>1. clauses \in Seq(Written)
  BY AppendWorks DEF Builder
<1> HIDE DEF clauses
<1>2. [b EXCEPT !.clauses = Append(@, clause)] = [b EXCEPT !.clauses = clauses]
  BY DEF clauses
<1>3. QED
  BY <1>1, <1>2 DEF Builder, WellFormed, Declares

\* The place of a declared name holds the layer of that name.
LEMMA PlaceWorks ==
  ASSUME NEW b \in Builder, NEW name, Declares(b, name)
  PROVE  Place(b, name) \in DOMAIN b.layers /\ b.layers[Place(b, name)].name = name
BY Zenon DEF Declares, Place

\* Replacing one layer by another of the same name that is described.
LEMMA ReplacingWorks ==
  ASSUME NEW b \in Builder, WellFormed(b), NEW name \in Name, Declares(b, name),
         NEW selectors \in Seq(Selector), selectors # << >>
  PROVE  LET d == WithLayers(b, [b.layers EXCEPT ![Place(b, name)] = NewLayer(name, selectors)], name)
         IN  /\ d \in Builder /\ WellFormed(d) /\ d.err = b.err
             /\ \A x : Declares(d, x) <=> Declares(b, x)
<1> DEFINE at == Place(b, name)
           layers == [b.layers EXCEPT ![at] = NewLayer(name, selectors)]
           d == WithLayers(b, layers, name)
<1>1. b.layers \in Seq(Declaration) /\ b.clauses \in Seq(Written) /\ b.err \in Nat
  BY DEF Builder
<1>2. at \in DOMAIN b.layers /\ b.layers[at].name = name
  BY PlaceWorks
<1>3. NewLayer(name, selectors) \in Declaration
  BY DEF NewLayer, Declaration
<1> HIDE DEF at
<1>4. layers \in Seq(Declaration) /\ DOMAIN layers = DOMAIN b.layers
  BY <1>1, <1>2, <1>3
<1>5. \A i \in DOMAIN layers : /\ layers[i].name = b.layers[i].name
                               /\ b.layers[i].selectors # << >> => layers[i].selectors # << >>
  BY <1>1, <1>2 DEF NewLayer
<1> HIDE DEF layers
<1>6. d \in Builder /\ d.layers = layers /\ d.declared = name /\ d.err = b.err
  BY <1>1, <1>4 DEF Builder, WithLayers
<1> HIDE DEF d
<1>7. \A x : Declares(d, x) <=> Declares(b, x)
  BY <1>4, <1>5, <1>6 DEF Declares
<1>8. WellFormed(d)
  BY <1>4, <1>5, <1>6, <1>7 DEF WellFormed
<1>9. QED
  BY <1>6, <1>7, <1>8 DEF d, layers, at

\* Adding a layer of a new name.
LEMMA AddingWorks ==
  ASSUME NEW b \in Builder, WellFormed(b), NEW name \in Name, name # NoName, ~Declares(b, name),
         NEW selectors \in Seq(Selector), selectors # << >>
  PROVE  LET d == WithLayers(b, Append(b.layers, NewLayer(name, selectors)), name)
         IN  /\ d \in Builder /\ WellFormed(d) /\ d.err = b.err
             /\ \A x : Declares(d, x) <=> Declares(b, x) \/ x = name
<1> DEFINE new == NewLayer(name, selectors)
           layers == Append(b.layers, new)
           n == Len(b.layers) + 1
           d == WithLayers(b, layers, name)
<1>1. b.layers \in Seq(Declaration) /\ b.clauses \in Seq(Written) /\ b.err \in Nat
  BY DEF Builder
<1>2. new \in Declaration /\ new.name = name /\ new.selectors # << >>
  BY DEF NewLayer, Declaration
<1> HIDE DEF new
<1>3. /\ layers \in Seq(Declaration) /\ DOMAIN layers = DOMAIN b.layers \cup {n}
      /\ n \notin DOMAIN b.layers /\ layers[n] = new
  BY <1>1, <1>2, AppendWorks
<1>4. \A i \in DOMAIN b.layers : layers[i] = b.layers[i]
  BY <1>1, <1>2, AppendWorks
<1> HIDE DEF layers, n
<1>5. d \in Builder /\ d.layers = layers /\ d.declared = name /\ d.err = b.err
  BY <1>1, <1>3 DEF Builder, WithLayers
<1> HIDE DEF d
<1>6. \A x : Declares(d, x) <=> Declares(b, x) \/ x = name
  BY <1>2, <1>3, <1>4, <1>5 DEF Declares
<1>7. \A i \in DOMAIN layers : layers[i].name # NoName /\ layers[i].selectors # << >>
  BY <1>2, <1>3, <1>4 DEF WellFormed
<1>8. \A i, j \in DOMAIN layers : layers[i].name = layers[j].name => i = j
  BY <1>2, <1>3, <1>4 DEF WellFormed, Declares
<1>9. WellFormed(d)
  BY <1>5, <1>6, <1>7, <1>8 DEF WellFormed
<1>10. QED
  BY <1>5, <1>6, <1>9 DEF d, layers, new

\* Declaring adds the name and keeps the builder well formed.
LEMMA DeclaringWorks ==
  ASSUME NEW b \in Builder, WellFormed(b),
         NEW name \in Name, name # NoName, NEW selector \in Selector
  PROVE  LET d == Declaring(b, name, selector)
         IN  /\ d \in Builder /\ WellFormed(d) /\ d.err = b.err
             /\ \A x : Declares(d, x) <=> Declares(b, x) \/ x = name
<1>1. CASE Declares(b, name)
  <2> DEFINE before == b.layers[Place(b, name)].selectors
             selectors == Append(before, selector)
  <2>1. before \in Seq(Selector)
    <3>1. Place(b, name) \in DOMAIN b.layers /\ b.layers \in Seq(Declaration)
      BY <1>1, PlaceWorks DEF Builder
    <3>2. b.layers[Place(b, name)] \in Declaration
      BY <3>1
    <3>3. QED
      BY <3>2 DEF Declaration
  <2> HIDE DEF before
  <2>2. selectors \in Seq(Selector) /\ selectors # << >>
    BY <2>1, AppendWorks
  <2> HIDE DEF selectors
  <2>3. Declaring(b, name, selector)
          = WithLayers(b, [b.layers EXCEPT ![Place(b, name)] = NewLayer(name, selectors)], name)
    BY <1>1, Zenon DEF Declaring, selectors, before
  <2>4. QED
    <3> DEFINE w == WithLayers(b, [b.layers EXCEPT ![Place(b, name)] = NewLayer(name, selectors)], name)
    <3>1. w \in Builder /\ WellFormed(w) /\ w.err = b.err /\ \A x : Declares(w, x) <=> Declares(b, x)
      BY <1>1, <2>2, ReplacingWorks
    <3> HIDE DEF w
    <3>2. Declaring(b, name, selector) = w
      BY <2>3 DEF w
    <3>3. QED
      BY <1>1, <3>1, <3>2
<1>2. CASE ~Declares(b, name)
  <2>1. <<selector>> \in Seq(Selector) /\ <<selector>> # << >>
    OBVIOUS
  <2>2. Declaring(b, name, selector) = WithLayers(b, Append(b.layers, NewLayer(name, <<selector>>)), name)
    BY <1>2, Zenon DEF Declaring
  <2>3. QED
    <3> DEFINE w == WithLayers(b, Append(b.layers, NewLayer(name, <<selector>>)), name)
    <3>1. /\ w \in Builder /\ WellFormed(w) /\ w.err = b.err
          /\ \A x : Declares(w, x) <=> Declares(b, x) \/ x = name
      BY <1>2, <2>1, AddingWorks
    <3> HIDE DEF w
    <3>2. Declaring(b, name, selector) = w
      BY <2>2 DEF w
    <3>3. QED
      BY <3>1, <3>2
<1>3. QED
  BY <1>1, <1>2

\* Excepting either rejects the call, exactly when there is nothing to qualify
\* or a pattern at fault, or narrows a layer where it stands.
LEMMA ExceptingWorks ==
  ASSUME NEW b \in Builder, WellFormed(b), said \in Seq(Call), NEW patterns \in SUBSET Pattern
  PROVE  LET d == Excepting(b, patterns)
             fault == (\A x : ~Declares(b, x)) \/ patterns = {} \/ ~(patterns \subseteq Compiles)
         IN  /\ d \in Builder /\ WellFormed(d)
             /\ fault => d = Rejecting(b)
             /\ ~fault => d.err = b.err
             /\ ~fault => \A x : Declares(d, x) <=> Declares(b, x)
<1> DEFINE d == Excepting(b, patterns)
<1>1. Declares(b, b.declared) <=> \E x : Declares(b, x)
  BY DEF WellFormed, Declares, Builder
<1>2. CASE ~Declares(b, b.declared) \/ patterns = {} \/ ~(patterns \subseteq Compiles)
  <2>1. d = Rejecting(b)
    BY <1>2, Zenon DEF Excepting
  <2> HIDE DEF d
  <2>2. d \in Builder /\ WellFormed(d)
    BY <2>1, RejectingWorks
  <2>3. QED
    BY <1>1, <1>2, <2>1, <2>2 DEF d
<1>3. CASE ~(~Declares(b, b.declared) \/ patterns = {} \/ ~(patterns \subseteq Compiles))
  <2> DEFINE selectors == b.layers[Place(b, b.declared)].selectors
             narrowed == [selectors EXCEPT ![Len(selectors)] = Excluding(@, patterns)]
             w == WithLayers(b, [b.layers EXCEPT ![Place(b, b.declared)] =
                                   NewLayer(b.declared, narrowed)], b.declared)
  <2>1. d = w
    BY <1>3, Zenon DEF Excepting
  <2>2. Place(b, b.declared) \in DOMAIN b.layers /\ b.layers[Place(b, b.declared)].name = b.declared
    BY <1>3, PlaceWorks
  <2>3. b.layers[Place(b, b.declared)] \in Declaration
    BY <2>2 DEF Builder
  <2>4. b.declared \in Name /\ selectors \in Seq(Selector) /\ selectors # << >>
    BY <2>2, <2>3 DEF Declaration, WellFormed
  <2> HIDE DEF selectors
  <2>5. narrowed \in Seq(Selector) /\ narrowed # << >>
    <3>1. selectors[Len(selectors)] \in Selector /\ Len(selectors) \in DOMAIN selectors
      BY <2>4
    <3>2. Excluding(selectors[Len(selectors)], patterns) \in Selector
      BY <3>1 DEF Selector, Excluding
    <3>3. QED
      BY <2>4, <3>1, <3>2
  <2> HIDE DEF narrowed
  <2>6. w \in Builder /\ WellFormed(w) /\ w.err = b.err /\ \A x : Declares(w, x) <=> Declares(b, x)
    BY <1>3, <2>4, <2>5, ReplacingWorks
  <2> HIDE DEF w, d
  <2>7. QED
    BY <1>1, <1>3, <2>1, <2>6 DEF d
<1>4. QED
  BY <1>2, <1>3

-----------------------------------------------------------------------------
\* What the builder knows of the names and of the mistakes, as long as it has
\* rejected nothing.
Agrees(b, s) ==
  /\ b.err = NoError => Mistakes(s) = {} /\ \A x : Declares(b, x) <=> x \in Defined(s)
  /\ b.err # NoError => b.err \in Mistakes(s) /\ \A i \in Mistakes(s) : b.err <= i

\* A verb that rejects exactly when its call is a mistake, and otherwise adds
\* the name the call defines, keeps the builder in agreement with the sentence.
LEMMA VerbAgrees ==
  ASSUME NEW s \in Seq(Call), NEW call \in Call,
         NEW b \in Builder, NEW d \in Builder, Agrees(b, s), b.err <= Len(s),
         b.err # NoError => d.err = b.err,
         b.err = NoError =>
           d.err = IF Mistaken(Append(s, call), Len(s) + 1) THEN Len(s) + 1 ELSE NoError,
         d.err = NoError => \A x : Declares(d, x) <=>
                              Declares(b, x) \/ (call.verb = "definedBy" /\ x = call.name)
  PROVE  LET t == Append(s, call)
         IN  t \in Seq(Call) /\ d.err <= Len(t) /\ Agrees(d, t)
<1> DEFINE t == Append(s, call)
           n == Len(s) + 1
<1>1. /\ t \in Seq(Call) /\ Len(t) = n
      /\ Defined(t) = Defined(s) \cup (IF call.verb = "definedBy" THEN {call.name} ELSE {})
      /\ Mistakes(t) = Mistakes(s) \cup (IF Mistaken(t, n) THEN {n} ELSE {})
  BY SaidGrows
<1>2. n \in Nat /\ b.err \in Nat /\ d.err \in Nat /\ b.err < n /\ n # NoError
  BY DEF Builder, NoError
<1>3. b.err = NoError => d.err = IF Mistaken(t, n) THEN n ELSE NoError
  OBVIOUS
<1> HIDE DEF t, n
<1>4. CASE b.err # NoError
  <2>1. d.err = b.err /\ b.err \in Mistakes(s) /\ \A i \in Mistakes(s) : b.err <= i
    BY <1>4 DEF Agrees
  <2>2. d.err <= n /\ d.err # NoError /\ d.err \in Mistakes(t) /\ \A i \in Mistakes(t) : d.err <= i
    BY <1>1, <1>2, <1>4, <2>1
  <2>3. QED
    BY <1>1, <2>2 DEF Agrees, t, n
<1>5. CASE b.err = NoError
  <2>1. Mistakes(s) = {} /\ \A x : Declares(b, x) <=> x \in Defined(s)
    BY <1>5 DEF Agrees
  <2>2. CASE Mistaken(t, n)
    <3>1. d.err = n /\ Mistakes(t) = {n}
      BY <1>1, <1>3, <1>5, <2>1, <2>2
    <3>2. QED
      BY <1>1, <1>2, <3>1 DEF Agrees, t
  <2>3. CASE ~Mistaken(t, n)
    <3>1. d.err = NoError /\ Mistakes(t) = {}
      BY <1>1, <1>3, <1>5, <2>1, <2>3
    <3>2. \A x : Declares(d, x) <=> x \in Defined(t)
      BY <1>1, <2>1, <3>1
    <3>3. QED
      BY <1>1, <1>2, <3>1, <3>2 DEF Agrees, t
  <2>4. QED
    BY <2>2, <2>3
<1>6. QED
  BY <1>4, <1>5

\* The call under way, as the definition of a mistake sees it.
LEMMA MistakenNow ==
  ASSUME NEW s \in Seq(Call), NEW call \in Call
  PROVE  LET t == Append(s, call)
         IN  Mistaken(t, Len(s) + 1) <=>
               \/ call.verb = "layer" /\ call.name = NoName
               \/ call.verb = "definedBy" /\ call.pattern \notin Compiles
               \/ call.verb = "except" /\ (Defined(s) = {} \/ call.patterns = {})
               \/ call.verb = "except" /\ ~(call.patterns \subseteq Compiles)
               \/ call.verb = "where" /\ call.name \notin Defined(s)
               \/ call.verb = "mayOnly" /\ ~(call.named \subseteq Defined(s))
               \/ call.verb = "mayNot" /\ (call.named = {} \/ ~(call.named \subseteq Defined(s)))
<1> DEFINE t == Append(s, call)
           n == Len(s) + 1
<1>1. t[n] = call /\ DefinedBefore(t, n) = Defined(s)
  BY SaidGrows
<1> HIDE DEF t, n
<1>2. QED
  BY <1>1 DEF Mistaken, t, n

-----------------------------------------------------------------------------
\* What a check returned, next to what the builder had rejected.
ResultAgrees ==
  /\ stage # "checked" => result = Unchecked
  /\ stage = "checked" => (result.kind = "rejected") = (policy.err # NoError)
  /\ result.kind = "rejected" => result.call = policy.err

IInv == TypeOK /\ Agrees(policy, said) /\ ResultAgrees

\* The part of the invariant a verb has to keep; the rest is about stages.
Kept == /\ policy' \in Builder /\ WellFormed(policy')
        /\ said' \in Seq(Call) /\ policy'.err <= Len(said')
        /\ Agrees(policy', said')

LEMMA LayerKeeps == ASSUME IInv, NEW name \in Name, Layer(name) PROVE Kept
<1> DEFINE call == [verb |-> "layer", name |-> name]
<1> USE DEF TypeOK, IInv
<1>1. call \in Call /\ said' = Append(said, call)
  BY DEF Layer, Say, Call
<1>2. Mistaken(Append(said, call), Len(said) + 1) <=> name = NoName
  BY <1>1, MistakenNow
<1>3. policy' = IF name = NoName THEN Rejecting(policy) ELSE policy
  BY DEF Layer
<1>4. /\ policy' \in Builder /\ WellFormed(policy')
      /\ policy.err # NoError => policy'.err = policy.err
      /\ policy.err = NoError => policy'.err = IF name = NoName THEN Len(said) + 1 ELSE NoError
      /\ \A x : Declares(policy', x) <=> Declares(policy, x)
  BY <1>3, RejectingWorks
<1>5. call.verb # "definedBy"
  OBVIOUS
<1> HIDE DEF call
<1>6. QED
  BY <1>1, <1>2, <1>4, <1>5, VerbAgrees DEF Kept

LEMMA DefinedByKeeps == ASSUME IInv, NEW pattern \in Pattern, DefinedBy(pattern) PROVE Kept
<1> DEFINE call == [verb |-> "definedBy", name |-> open, pattern |-> pattern]
           selector == [pattern |-> pattern, excluded |-> {}]
<1> USE DEF TypeOK, IInv
<1>1. open \in Name /\ (policy.err = NoError => open # NoName) /\ selector \in Selector
  BY DEF DefinedBy, Selector
<1>2. call \in Call /\ said' = Append(said, call) /\ call.verb = "definedBy" /\ call.name = open
  BY <1>1 DEF DefinedBy, Say, Call
<1>3. Mistaken(Append(said, call), Len(said) + 1) <=> pattern \notin Compiles
  BY <1>2, MistakenNow
<1>4. policy' = IF pattern \notin Compiles THEN Rejecting(policy)
                ELSE IF policy.err # NoError THEN policy
                ELSE Declaring(policy, open, selector)
  BY DEF DefinedBy
<1> HIDE DEF call, selector
<1>5. CASE pattern \notin Compiles
  <2>1. /\ policy' \in Builder /\ WellFormed(policy') /\ policy'.err # NoError
        /\ policy'.err = IF policy.err = NoError THEN Len(said) + 1 ELSE policy.err
    BY <1>4, <1>5, RejectingWorks DEF NoError
  <2>2. QED
    BY <1>2, <1>3, <1>5, <2>1, VerbAgrees DEF Kept
<1>6. CASE pattern \in Compiles /\ policy.err # NoError
  <2>1. policy' = policy
    BY <1>4, <1>6
  <2>2. QED
    BY <1>2, <1>6, <2>1, VerbAgrees DEF Kept
<1>7. CASE pattern \in Compiles /\ policy.err = NoError
  <2>1. policy' = Declaring(policy, open, selector)
    BY <1>4, <1>7
  <2>2. /\ policy' \in Builder /\ WellFormed(policy') /\ policy'.err = policy.err
        /\ \A x : Declares(policy', x) <=> Declares(policy, x) \/ x = open
    BY <1>1, <1>7, <2>1, DeclaringWorks
  <2>3. QED
    BY <1>2, <1>3, <1>7, <2>2, VerbAgrees DEF Kept
<1>8. QED
  BY <1>5, <1>6, <1>7

LEMMA ExceptKeeps == ASSUME IInv, NEW patterns \in Exceptions, Except(patterns) PROVE Kept
<1> DEFINE call == [verb |-> "except", patterns |-> patterns]
           fault == (\A x : ~Declares(policy, x)) \/ patterns = {} \/ ~(patterns \subseteq Compiles)
<1> USE DEF TypeOK, IInv
<1>1. patterns \in SUBSET Pattern
  BY LayersAssumption
<1>2. call \in Call /\ said' = Append(said, call) /\ call.verb # "definedBy"
  BY <1>1 DEF Except, Say, Call
<1>3. policy.err = NoError => (Mistaken(Append(said, call), Len(said) + 1) <=> fault)
  <2>1. Mistaken(Append(said, call), Len(said) + 1) <=>
          Defined(said) = {} \/ patterns = {} \/ ~(patterns \subseteq Compiles)
    BY <1>2, MistakenNow
  <2>2. policy.err = NoError => (Defined(said) = {} <=> \A x : ~Declares(policy, x))
    BY DEF Agrees
  <2>3. QED
    BY <2>1, <2>2
<1>4. policy' = Excepting(policy, patterns)
  BY DEF Except
<1>5. policy' \in Builder /\ WellFormed(policy')
  BY <1>1, <1>4, ExceptingWorks
<1>6. fault => policy' = Rejecting(policy)
  BY <1>1, <1>4, ExceptingWorks
<1>7. ~fault => policy'.err = policy.err /\ \A x : Declares(policy', x) <=> Declares(policy, x)
  BY <1>1, <1>4, ExceptingWorks
<1> HIDE DEF call, fault
<1>8. CASE fault
  <2>1. /\ policy'.err = IF policy.err = NoError THEN Len(said) + 1 ELSE policy.err
        /\ \A x : Declares(policy', x) <=> Declares(policy, x)
    BY <1>6, <1>8, RejectingWorks
  <2>2. QED
    BY <1>2, <1>3, <1>5, <1>8, <2>1, VerbAgrees DEF Kept
<1>9. CASE ~fault
  BY <1>2, <1>3, <1>5, <1>7, <1>9, VerbAgrees DEF Kept
<1>10. QED
  BY <1>8, <1>9

LEMMA WhereLayerKeeps == ASSUME IInv, NEW name \in Name, WhereLayer(name) PROVE Kept
<1> DEFINE call == [verb |-> "where", name |-> name]
           fault == ~Declares(policy, name)
<1> USE DEF TypeOK, IInv
<1>1. call \in Call /\ said' = Append(said, call) /\ call.verb # "definedBy"
  BY DEF WhereLayer, Say, Call
<1>2. policy.err = NoError => (Mistaken(Append(said, call), Len(said) + 1) <=> fault)
  <2>1. Mistaken(Append(said, call), Len(said) + 1) <=> name \notin Defined(said)
    BY <1>1, MistakenNow
  <2>2. QED
    BY <2>1 DEF Agrees
<1>3. policy' = IF fault THEN Rejecting(policy) ELSE policy
  BY DEF WhereLayer, WellFormed, Declares
<1> HIDE DEF call, fault
<1>4. CASE fault
  <2>1. /\ policy' \in Builder /\ WellFormed(policy')
        /\ policy'.err = IF policy.err = NoError THEN Len(said) + 1 ELSE policy.err
        /\ \A x : Declares(policy', x) <=> Declares(policy, x)
    BY <1>3, <1>4, RejectingWorks
  <2>2. QED
    BY <1>1, <1>2, <1>4, <2>1, VerbAgrees DEF Kept
<1>5. CASE ~fault
  <2>1. policy' = policy
    BY <1>3, <1>5
  <2>2. QED
    BY <1>1, <1>2, <1>5, <2>1, VerbAgrees DEF Kept
<1>6. QED
  BY <1>4, <1>5

LEMMA ClausingKeeps ==
  ASSUME IInv, NEW named \in SUBSET (Name \ {NoName}), NEW mood \in Mood, Clausing(named, mood)
  PROVE  Kept
<1> DEFINE call == [verb |-> mood, layer |-> open, named |-> named]
           clause == [layer |-> open, named |-> named, mood |-> mood]
           fault == \/ mood = "mayNot" /\ named = {}
                    \/ \E name \in named : ~Declares(policy, name)
           b == IF fault THEN Rejecting(policy) ELSE policy
<1> USE DEF TypeOK, IInv
<1>1. open \in Name /\ clause \in Written
  BY DEF Clausing, Written
<1>2. /\ call \in Call /\ said' = Append(said, call)
      /\ call.verb = mood /\ call.named = named /\ call.verb # "definedBy"
  BY <1>1 DEF Clausing, Say, Call, Mood
<1>3. policy.err = NoError => (Mistaken(Append(said, call), Len(said) + 1) <=> fault)
  <2> HIDE DEF call
  <2>1. Mistaken(Append(said, call), Len(said) + 1) <=>
          \/ mood = "mayNot" /\ named = {}
          \/ ~(named \subseteq Defined(said))
    BY <1>2, MistakenNow DEF Mood
  <2>2. QED
    BY <2>1 DEF Agrees
<1>4. policy' = [b EXCEPT !.clauses = Append(@, clause)]
  BY DEF Clausing
<1> HIDE DEF call, clause, fault
<1>5. /\ b \in Builder /\ WellFormed(b)
      /\ \A x : Declares(b, x) <=> Declares(policy, x)
      /\ policy.err # NoError => b.err = policy.err
      /\ policy.err = NoError => b.err = IF fault THEN Len(said) + 1 ELSE NoError
  BY RejectingWorks
<1> HIDE DEF b
<1>6. /\ policy' \in Builder /\ WellFormed(policy') /\ policy'.err = b.err
      /\ \A x : Declares(policy', x) <=> Declares(b, x)
  BY <1>1, <1>4, <1>5, ClausesWork
<1>7. QED
  BY <1>2, <1>3, <1>5, <1>6, VerbAgrees DEF Kept

\* A check is not a mistake, and it changes nothing of the policy.
LEMMA CheckKeeps ==
  ASSUME IInv, NEW allowEmpty \in BOOLEAN, UNCHANGED policy,
         Say([verb |-> "check", allowEmpty |-> allowEmpty])
  PROVE  Kept
<1> DEFINE call == [verb |-> "check", allowEmpty |-> allowEmpty]
<1> USE DEF TypeOK, IInv
<1>1. call \in Call /\ said' = Append(said, call) /\ call.verb = "check"
  BY DEF Say, Call
<1> HIDE DEF call
<1>2. ~Mistaken(Append(said, call), Len(said) + 1)
  BY <1>1, MistakenNow
<1>3. QED
  BY <1>1, <1>2, VerbAgrees DEF Kept

LEMMA InitIInv == Init => IInv
<1> SUFFICES ASSUME Init PROVE IInv
  OBVIOUS
<1>1. policy \in Builder /\ policy.layers = << >> /\ policy.err = NoError /\ said = << >>
  BY DEF Init, Builder, NoError
<1>2. \A x : ~Declares(policy, x)
  BY <1>1 DEF Declares
<1>3. Mistakes(said) = {} /\ Defined(said) = {} /\ said \in Seq(Call)
  BY <1>1 DEF Mistakes, Defined, DefinedBefore, Definitions
<1>4. WellFormed(policy)
  BY <1>1 DEF WellFormed
<1>5. QED
  BY <1>1, <1>2, <1>3, <1>4
     DEF Init, IInv, TypeOK, Agrees, ResultAgrees, Unchecked, NoError

LEMMA NextIInv == IInv /\ [Next]_vars => IInv'
<1> SUFFICES ASSUME IInv, [Next]_vars PROVE IInv'
  OBVIOUS
<1> USE DEF Unchecked
<1>1. ASSUME NEW name \in Name, Layer(name) PROVE IInv'
  <2>1. /\ stage # "checked" /\ stage' = "layer" /\ result' = result /\ open' = name
    BY <1>1 DEF Layer
  <2>2. QED
    <3>1. policy'.err = NoError => name # NoName
      BY <1>1, RejectingWorks DEF Layer, IInv, TypeOK, NoError
    <3>2. QED
      BY <1>1, <2>1, <3>1, LayerKeeps DEF Kept, IInv, TypeOK, ResultAgrees
<1>2. ASSUME NEW name \in Name, WhereLayer(name) PROVE IInv'
  <2>1. /\ stage # "checked" /\ stage' = "clause" /\ result' = result /\ open' = name
    BY <1>2 DEF WhereLayer
  <2>2. QED
    BY <1>2, <2>1, WhereLayerKeeps DEF Kept, IInv, TypeOK, ResultAgrees
<1>3. ASSUME NEW pattern \in Pattern, DefinedBy(pattern) PROVE IInv'
  <2>1. /\ stage # "checked" /\ stage' = "policy" /\ result' = result
    BY <1>3 DEF DefinedBy
  <2>2. QED
    BY <1>3, <2>1, DefinedByKeeps DEF Kept, IInv, TypeOK, ResultAgrees
<1>4. ASSUME NEW patterns \in Exceptions, Except(patterns) PROVE IInv'
  <2>1. /\ stage # "checked" /\ stage' = "policy" /\ result' = result
    BY <1>4 DEF Except
  <2>2. QED
    BY <1>4, <2>1, ExceptKeeps DEF Kept, IInv, TypeOK, ResultAgrees
<1>5. ASSUME NEW named \in SUBSET (Name \ {NoName}), NEW mood \in Mood, Clausing(named, mood)
      PROVE  IInv'
  <2>1. /\ stage # "checked" /\ stage' = "condition" /\ result' = result
    BY <1>5 DEF Clausing
  <2>2. QED
    BY <1>5, <2>1, ClausingKeeps DEF Kept, IInv, TypeOK, ResultAgrees
<1>6. ASSUME NEW graph \in Project, NEW allowEmpty \in BOOLEAN, Check(graph, allowEmpty)
      PROVE  IInv'
  <2>1. Kept
    BY <1>6, CheckKeeps DEF Check
  <2>2. ResultAgrees'
    BY <1>6 DEF Check, ResultAgrees
  <2>3. QED
    BY <1>6, <2>1, <2>2 DEF Check, Kept, IInv, TypeOK
<1>7. ASSUME CheckFails PROVE IInv'
  <2>1. Kept
    BY <1>7, CheckKeeps DEF CheckFails
  <2>2. ResultAgrees'
    BY <1>7 DEF CheckFails, ResultAgrees
  <2>3. QED
    BY <1>7, <2>1, <2>2 DEF CheckFails, Kept, IInv, TypeOK
<1>8. ASSUME UNCHANGED vars PROVE IInv'
  BY <1>8 DEF vars, IInv, TypeOK, ResultAgrees
<1>9. QED
  BY <1>1, <1>2, <1>3, <1>4, <1>5, <1>6, <1>7, <1>8 DEF Next

LEMMA Invariance == Spec => []IInv
BY InitIInv, NextIInv, PTL DEF Spec

\* The builder stays well formed: one described layer per name, and the layer
\* an `except` qualifies is one of them.
THEOREM BuilderIsWellFormed == Spec => []TypeOK
<1>1. IInv => TypeOK
  BY DEF IInv
<1>2. QED
  BY <1>1, Invariance, PTL

\* The first mistake of a chain is the one its check reports, whatever follows
\* it, and a chain with a mistake is never judged (LayersBuilder.rejecting).
THEOREM FirstMistakeIsReported == Spec => []FirstMistakeWins
<1>1. IInv => FirstMistakeWins
  BY DEF IInv, TypeOK, Agrees, ResultAgrees, FirstMistakeWins, NoError
<1>2. QED
  BY <1>1, Invariance, PTL

-----------------------------------------------------------------------------
\* What the builder holds of a sentence without a mistake.  A definition means its
\* pattern without all that was excepted before the next definition.
IsLast(s, d) == d \in Definitions(s) /\ \A e \in Definitions(s) : e <= d
TakenFrom(s, d) ==
  {i \in DOMAIN s : s[i].verb = "except" /\ i > d /\ \A e \in Definitions(s) : ~(d < e /\ e < i)}
Meant(s, d) == [pattern |-> s[d].pattern, excluded |-> UNION {s[i].patterns : i \in TakenFrom(s, d)}]

\* A selector stands for a definition: the one an `except` would qualify stands for
\* the last.
Newest(b, i, k) == b.layers[i].name = b.declared /\ k = Len(b.layers[i].selectors)
StandsFor(b, i, k, s, d) ==
  /\ b.layers[i].name = s[d].name
  /\ b.layers[i].selectors[k] = Meant(s, d)
  /\ Newest(b, i, k) <=> IsLast(s, d)

\* Selectors and definitions stand for each other, and the layers are in the order
\* in which they were first defined.
LayersHold(b, s) ==
  /\ \A i \in DOMAIN b.layers : \A k \in DOMAIN b.layers[i].selectors :
       \E d \in Definitions(s) : StandsFor(b, i, k, s, d)
  /\ \A d \in Definitions(s) :
       \E i \in DOMAIN b.layers : \E k \in DOMAIN b.layers[i].selectors : StandsFor(b, i, k, s, d)
  /\ \A i, j \in DOMAIN b.layers : i < j =>
       \A e \in Definitions(s) : s[e].name = b.layers[j].name =>
         \E d \in Definitions(s) : s[d].name = b.layers[i].name /\ d < e

\* The clauses are those that were said, in their order.
Clauses(s) == {i \in DOMAIN s : s[i].verb \in Mood}
Position(s, i) == Cardinality({j \in Clauses(s) : j <= i})
ClausesHold(b, s) ==
  /\ Cardinality(Clauses(s)) = Len(b.clauses)
  /\ \A i \in Clauses(s) :
       b.clauses[Position(s, i)] = [layer |-> s[i].layer, named |-> s[i].named, mood |-> s[i].verb]
  /\ \A k \in DOMAIN b.clauses : \E i \in Clauses(s) : Position(s, i) = k

PolicyHolds(b, s) == b.err = NoError => LayersHold(b, s) /\ ClausesHold(b, s)

\* What an answer says, in the builder's terms.
Answered ==
  /\ result.kind = "empty" =>
       /\ policy.err = NoError /\ ~said[Len(said)].allowEmpty
       /\ result.layers = EmptyLayers(project.files) /\ result.layers # {}
  /\ result.kind = "judged" =>
       /\ policy.err = NoError
       /\ EmptyLayers(project.files) = {} \/ said[Len(said)].allowEmpty
       /\ result.broken = Gathered(project.edges)

LEMMA ExcludingWorks ==
  ASSUME NEW pattern, NEW out, NEW more
  PROVE  Excluding([pattern |-> pattern, excluded |-> out], more)
           = [pattern |-> pattern, excluded |-> out \cup more]
BY DEF Excluding

\* One more call: it is taken out of the last definition, or is the last one itself.
LEMMA SentenceGrows ==
  ASSUME NEW s \in Seq(Call), NEW call \in Call
  PROVE  LET t == Append(s, call)
             n == Len(s) + 1
         IN  /\ Definitions(t) = Definitions(s) \cup (IF call.verb = "definedBy" THEN {n} ELSE {})
             /\ \A d \in Definitions(s) : t[d] = s[d] /\ d \in Nat /\ d < n
             /\ t[n] = call
             /\ \A d \in Definitions(s) :
                  Meant(t, d) = IF call.verb = "except" /\ IsLast(s, d)
                                THEN Excluding(Meant(s, d), call.patterns) ELSE Meant(s, d)
             /\ call.verb # "definedBy" => \A d : IsLast(t, d) <=> IsLast(s, d)
             /\ call.verb = "definedBy" =>
                  /\ \A d : IsLast(t, d) <=> d = n
                  /\ Meant(t, n) = [pattern |-> call.pattern, excluded |-> {}]
<1> DEFINE t == Append(s, call)
           n == Len(s) + 1
           new == IF call.verb = "definedBy" THEN {n} ELSE {}
<1>1. /\ t[n] = call /\ n \in Nat
      /\ DOMAIN t = DOMAIN s \cup {n} /\ n \notin DOMAIN s
      /\ \A i \in DOMAIN s : t[i] = s[i] /\ i \in Nat /\ i < n
  OBVIOUS
<1> HIDE DEF t, n
<1>2. Definitions(t) = Definitions(s) \cup new
  BY <1>1 DEF Definitions
<1>3. \A d \in Definitions(s) : d \in DOMAIN s /\ t[d] = s[d] /\ d \in Nat /\ d < n
  BY <1>1 DEF Definitions
<1>4. new \subseteq {n} /\ (new = {} <=> call.verb # "definedBy")
  OBVIOUS
<1> HIDE DEF new
<1>5. \A d \in Definitions(s), i \in DOMAIN s : i \in TakenFrom(t, d) <=> i \in TakenFrom(s, d)
  <2> SUFFICES ASSUME NEW d \in Definitions(s), NEW i \in DOMAIN s
               PROVE  i \in TakenFrom(t, d) <=> i \in TakenFrom(s, d)
    OBVIOUS
  <2>1. t[i] = s[i] /\ i \in DOMAIN t /\ i \in Nat /\ i < n
    BY <1>1
  <2>2. \A e \in Definitions(t) : e \in Definitions(s) \/ e = n
    BY <1>2, <1>4
  <2>3. (\A e \in Definitions(t) : ~(d < e /\ e < i)) <=> \A e \in Definitions(s) : ~(d < e /\ e < i)
    BY <1>1, <1>2, <2>1, <2>2
  <2> QED
    BY <2>1, <2>3 DEF TakenFrom
<1>6. \A d \in Definitions(s) : n \in TakenFrom(t, d) <=> call.verb = "except" /\ IsLast(s, d)
  <2> SUFFICES ASSUME NEW d \in Definitions(s)
               PROVE  n \in TakenFrom(t, d) <=> call.verb = "except" /\ IsLast(s, d)
    OBVIOUS
  <2>1. n \in TakenFrom(t, d) <=> call.verb = "except" /\ \A e \in Definitions(t) : ~(d < e /\ e < n)
    BY <1>1, <1>3 DEF TakenFrom
  <2>2. call.verb = "except" => Definitions(t) = Definitions(s)
    BY <1>2, <1>4
  <2>3. (\A e \in Definitions(s) : ~(d < e /\ e < n)) <=> IsLast(s, d)
    BY <1>1, <1>3 DEF IsLast
  <2> QED
    BY <2>1, <2>2, <2>3
<1>7. \A d : TakenFrom(t, d) \subseteq DOMAIN s \cup {n} /\ TakenFrom(s, d) \subseteq DOMAIN s
  BY <1>1 DEF TakenFrom
<1>8. ASSUME NEW d \in Definitions(s)
      PROVE  Meant(t, d) = IF call.verb = "except" /\ IsLast(s, d)
                           THEN Excluding(Meant(s, d), call.patterns) ELSE Meant(s, d)
  <2>1. \A i \in TakenFrom(s, d) : t[i] = s[i]
    BY <1>1, <1>7
  <2>2. {t[i].patterns : i \in TakenFrom(s, d)} = {s[i].patterns : i \in TakenFrom(s, d)}
    BY <2>1, Zenon
  <2>3. CASE call.verb = "except" /\ IsLast(s, d)
    <3>1. TakenFrom(t, d) = TakenFrom(s, d) \cup {n}
      BY <1>5, <1>6, <1>7, <2>3
    <3>2. UNION {t[i].patterns : i \in TakenFrom(t, d)}
            = (UNION {t[i].patterns : i \in TakenFrom(s, d)}) \cup t[n].patterns
      BY <3>1, Zenon
    <3>3. UNION {t[i].patterns : i \in TakenFrom(t, d)}
            = (UNION {s[i].patterns : i \in TakenFrom(s, d)}) \cup call.patterns
      BY <2>2, <3>2, <1>1
    <3> QED
      <4>1. t[d] = s[d]
        BY <1>3
      <4>2. Meant(t, d) = [pattern |-> s[d].pattern,
                           excluded |-> (UNION {s[i].patterns : i \in TakenFrom(s, d)}) \cup call.patterns]
        BY <3>3, <4>1, Zenon DEF Meant
      <4>3. Excluding(Meant(s, d), call.patterns)
              = [pattern |-> s[d].pattern,
                 excluded |-> (UNION {s[i].patterns : i \in TakenFrom(s, d)}) \cup call.patterns]
        <5> DEFINE out == UNION {s[i].patterns : i \in TakenFrom(s, d)}
        <5>1. Meant(s, d) = [pattern |-> s[d].pattern, excluded |-> out]
          BY Zenon DEF Meant
        <5> HIDE DEF out
        <5>2. Excluding(Meant(s, d), call.patterns)
                = [pattern |-> s[d].pattern, excluded |-> out \cup call.patterns]
          BY <5>1, ExcludingWorks, Zenon
        <5> QED
          BY <5>2 DEF out
      <4> QED
        BY <2>3, <4>2, <4>3
  <2>4. CASE ~(call.verb = "except" /\ IsLast(s, d))
    <3>1. TakenFrom(t, d) = TakenFrom(s, d)
      BY <1>1, <1>5, <1>6, <1>7, <2>4
    <3> QED
      BY <1>3, <2>2, <2>4, <3>1 DEF Meant
  <2> QED
    BY <2>3, <2>4
<1>9. call.verb # "definedBy" => \A d : IsLast(t, d) <=> IsLast(s, d)
  BY <1>2, <1>4 DEF IsLast
<1>10. ASSUME call.verb = "definedBy"
       PROVE  /\ \A d : IsLast(t, d) <=> d = n
              /\ Meant(t, n) = [pattern |-> call.pattern, excluded |-> {}]
  <2>1. Definitions(t) = Definitions(s) \cup {n}
    BY <1>2, <1>4, <1>10
  <2>2. \A d : IsLast(t, d) <=> d = n
    BY <1>1, <1>3, <2>1 DEF IsLast
  <2>3. TakenFrom(t, n) = {}
    BY <1>1 DEF TakenFrom
  <2> QED
    BY <1>1, <2>2, <2>3 DEF Meant
<1> QED
  BY <1>1, <1>2, <1>3, <1>8, <1>9, <1>10 DEF t, n, new

\* A call that is neither a definition nor an exception leaves the layers alone.
LEMMA OtherCallsKeepLayers ==
  ASSUME NEW s \in Seq(Call), NEW call \in Call, call.verb \notin {"definedBy", "except"},
         NEW b, NEW c, LayersHold(b, s), c.layers = b.layers, c.declared = b.declared
  PROVE  LayersHold(c, Append(s, call))
<1> DEFINE t == Append(s, call)
<1>1. /\ Definitions(t) = Definitions(s)
      /\ \A d \in Definitions(s) : t[d] = s[d] /\ Meant(t, d) = Meant(s, d)
      /\ \A d : IsLast(t, d) <=> IsLast(s, d)
  <2>1. call.verb # "definedBy" /\ call.verb # "except"
    OBVIOUS
  <2> HIDE DEF t
  <2>2. /\ Definitions(t) = Definitions(s) \cup (IF call.verb = "definedBy" THEN {Len(s) + 1} ELSE {})
        /\ \A d \in Definitions(s) : t[d] = s[d] /\ d \in Nat /\ d < Len(s) + 1
        /\ \A d \in Definitions(s) :
             Meant(t, d) = IF call.verb = "except" /\ IsLast(s, d)
                           THEN Excluding(Meant(s, d), call.patterns) ELSE Meant(s, d)
        /\ call.verb # "definedBy" => \A d : IsLast(t, d) <=> IsLast(s, d)
    BY SentenceGrows, Zenon DEF t
  <2> QED
    BY <2>1, <2>2
<1> HIDE DEF t
<1>2. \A i, k : \A d \in Definitions(s) : StandsFor(b, i, k, s, d) <=> StandsFor(c, i, k, t, d)
  BY <1>1, Zenon DEF StandsFor, Newest
<1>3. LayersHold(c, t)
  <2>1. \A i \in DOMAIN c.layers : \A k \in DOMAIN c.layers[i].selectors :
          \E d \in Definitions(t) : StandsFor(c, i, k, t, d)
    BY <1>1, <1>2 DEF LayersHold
  <2>2. \A d \in Definitions(t) :
          \E i \in DOMAIN c.layers : \E k \in DOMAIN c.layers[i].selectors : StandsFor(c, i, k, t, d)
    BY <1>1, <1>2 DEF LayersHold
  <2>3. \A i, j \in DOMAIN c.layers : i < j =>
          \A e \in Definitions(t) : t[e].name = c.layers[j].name =>
            \E d \in Definitions(t) : t[d].name = c.layers[i].name /\ d < e
    BY <1>1 DEF LayersHold
  <2> QED
    BY <2>1, <2>2, <2>3 DEF LayersHold
<1> QED
  BY <1>3 DEF t

\* An exception narrows the selector of the last definition.
LEMMA ExceptionsKeepLayers ==
  ASSUME NEW s \in Seq(Call), NEW call \in Call, call.verb = "except",
         NEW b \in Builder, WellFormed(b), LayersHold(b, s), Declares(b, b.declared)
  PROVE  LET at == Place(b, b.declared)
             selectors == b.layers[at].selectors
             narrowed == [selectors EXCEPT ![Len(selectors)] = Excluding(@, call.patterns)]
         IN  LayersHold(WithLayers(b, [b.layers EXCEPT ![at] = NewLayer(b.declared, narrowed)], b.declared),
                        Append(s, call))
<1> DEFINE t == Append(s, call)
           at == Place(b, b.declared)
           selectors == b.layers[at].selectors
           narrowed == [selectors EXCEPT ![Len(selectors)] = Excluding(@, call.patterns)]
           layers == [b.layers EXCEPT ![at] = NewLayer(b.declared, narrowed)]
           c == WithLayers(b, layers, b.declared)
<1>1. at \in DOMAIN b.layers /\ b.layers[at].name = b.declared
  BY PlaceWorks
<1>2. b.layers \in Seq(Declaration) /\ selectors \in Seq(Selector)
  <2>1. b.layers \in Seq(Declaration)
    BY DEF Builder
  <2>2. b.layers[at] \in Declaration
    BY <1>1, <2>1
  <2> QED
    BY <2>1, <2>2 DEF Declaration
<1>3. \A i \in DOMAIN b.layers : b.layers[i].name = b.declared <=> i = at
  BY <1>1 DEF WellFormed
<1>4. c.layers = layers /\ c.declared = b.declared
  BY DEF WithLayers
<1> HIDE DEF at, c
<1>5. DOMAIN layers = DOMAIN b.layers
  BY <1>2
<1>6. \A i \in DOMAIN b.layers : i # at => layers[i] = b.layers[i]
  BY <1>2
<1>7. layers[at] = NewLayer(b.declared, narrowed)
  BY <1>1, <1>2
<1>8. /\ narrowed \in Seq(Selector) \/ TRUE
      /\ DOMAIN narrowed = DOMAIN selectors
      /\ \A k \in DOMAIN selectors :
           narrowed[k] = IF k = Len(selectors) THEN Excluding(selectors[k], call.patterns) ELSE selectors[k]
  BY <1>2
<1>9. Len(narrowed) = Len(selectors)
  BY <1>2, <1>8
<1> HIDE DEF layers, narrowed
<1>10. layers[at].name = b.declared /\ layers[at].selectors = narrowed
  BY <1>7 DEF NewLayer
<1> HIDE DEF selectors
<1>11. selectors = b.layers[at].selectors
  BY DEF selectors
<1>12. \A i \in DOMAIN b.layers : /\ layers[i].name = b.layers[i].name
                                  /\ DOMAIN layers[i].selectors = DOMAIN b.layers[i].selectors
                                  /\ Len(layers[i].selectors) = Len(b.layers[i].selectors)
  BY <1>1, <1>6, <1>8, <1>9, <1>10, <1>11
<1>13. \A i \in DOMAIN b.layers : \A k : Newest(c, i, k) <=> Newest(b, i, k)
  BY <1>4, <1>12 DEF Newest
<1>14. \A i \in DOMAIN b.layers : \A k \in DOMAIN b.layers[i].selectors :
         layers[i].selectors[k] = IF Newest(b, i, k) THEN Excluding(b.layers[i].selectors[k], call.patterns)
                                  ELSE b.layers[i].selectors[k]
  BY <1>3, <1>6, <1>8, <1>10, <1>11 DEF Newest
<1>15. /\ Definitions(t) = Definitions(s)
       /\ \A d \in Definitions(s) : t[d] = s[d]
       /\ \A d \in Definitions(s) : Meant(t, d) = IF IsLast(s, d) THEN Excluding(Meant(s, d), call.patterns)
                                                  ELSE Meant(s, d)
       /\ \A d : IsLast(t, d) <=> IsLast(s, d)
  <2>1. /\ call.verb # "definedBy"
        /\ \A d \in Definitions(s) : (call.verb = "except" /\ IsLast(s, d)) <=> IsLast(s, d)
    OBVIOUS
  <2> HIDE DEF t
  <2>2. /\ Definitions(t) = Definitions(s) \cup (IF call.verb = "definedBy" THEN {Len(s) + 1} ELSE {})
        /\ \A d \in Definitions(s) : t[d] = s[d] /\ d \in Nat /\ d < Len(s) + 1
        /\ \A d \in Definitions(s) :
             Meant(t, d) = IF call.verb = "except" /\ IsLast(s, d)
                           THEN Excluding(Meant(s, d), call.patterns) ELSE Meant(s, d)
        /\ call.verb # "definedBy" => \A d : IsLast(t, d) <=> IsLast(s, d)
    BY SentenceGrows, Zenon DEF t
  <2> QED
    BY <2>1, <2>2
<1> HIDE DEF t
<1>16. ASSUME NEW i \in DOMAIN b.layers, NEW k \in DOMAIN b.layers[i].selectors, NEW d \in Definitions(s),
              StandsFor(b, i, k, s, d)
       PROVE  StandsFor(c, i, k, t, d)
  BY <1>4, <1>12, <1>13, <1>14, <1>15, <1>16 DEF StandsFor
<1>17. LayersHold(c, t)
  <2>1. \A i \in DOMAIN c.layers : \A k \in DOMAIN c.layers[i].selectors :
          \E d \in Definitions(t) : StandsFor(c, i, k, t, d)
    BY <1>4, <1>5, <1>12, <1>15, <1>16 DEF LayersHold
  <2>2. \A d \in Definitions(t) :
          \E i \in DOMAIN c.layers : \E k \in DOMAIN c.layers[i].selectors : StandsFor(c, i, k, t, d)
    BY <1>4, <1>5, <1>12, <1>15, <1>16 DEF LayersHold
  <2>3. \A i, j \in DOMAIN c.layers : i < j =>
          \A e \in Definitions(t) : t[e].name = c.layers[j].name =>
            \E d \in Definitions(t) : t[d].name = c.layers[i].name /\ d < e
    BY <1>4, <1>5, <1>12, <1>15 DEF LayersHold
  <2> QED
    BY <2>1, <2>2, <2>3 DEF LayersHold
<1> QED
  BY <1>17 DEF c, layers, narrowed, selectors, at, t

\* A definition adds its selector to the layer of its name.
LEMMA SelectorJoins ==
  ASSUME NEW s \in Seq(Call), NEW call \in Call, call.verb = "definedBy",
         NEW b \in Builder, WellFormed(b), LayersHold(b, s), NEW c,
         NEW at \in Nat, NEW before \in Seq(Selector),
         DOMAIN c.layers = DOMAIN b.layers \cup {at}, c.declared = call.name,
         c.layers[at] = NewLayer(call.name, Append(before, [pattern |-> call.pattern, excluded |-> {}])),
         \A i \in DOMAIN b.layers : i # at => c.layers[i] = b.layers[i] /\ c.layers[i].name # call.name,
         \/ at \in DOMAIN b.layers /\ b.layers[at] = NewLayer(call.name, before)
         \/ /\ at \notin DOMAIN b.layers /\ before = << >>
            /\ \A i \in DOMAIN b.layers : i < at
  PROVE  LayersHold(c, Append(s, call))
<1> DEFINE t == Append(s, call)
           n == Len(s) + 1
           selector == [pattern |-> call.pattern, excluded |-> {}]
           after == Append(before, selector)
           m == Len(before) + 1
<1>1. n \in Nat /\ Definitions(t) = Definitions(s) \cup {n}
  BY SentenceGrows
<1>2. \A d \in Definitions(s) : t[d] = s[d] /\ d \in Nat /\ d < n
  BY SentenceGrows
<1>3. \A d \in Definitions(s) : Meant(t, d) = Meant(s, d)
  <2>1. \A d \in Definitions(s) : Meant(t, d) = IF call.verb = "except" /\ IsLast(s, d)
                                                THEN Excluding(Meant(s, d), call.patterns) ELSE Meant(s, d)
    BY SentenceGrows
  <2> QED
    BY <2>1
<1>4. t[n] = call /\ Meant(t, n) = selector /\ \A d : IsLast(t, d) <=> d = n
  <2> HIDE DEF t, n
  <2>1. t[n] = call /\ (call.verb = "definedBy" =>
          /\ \A d : IsLast(t, d) <=> d = n
          /\ Meant(t, n) = [pattern |-> call.pattern, excluded |-> {}])
    BY SentenceGrows DEF t, n
  <2> QED
    BY <2>1
<1> HIDE DEF t, n, selector
<1>5. /\ m \in Nat /\ DOMAIN after = DOMAIN before \cup {m} /\ after[m] = selector /\ m \notin DOMAIN before
      /\ Len(after) = m
      /\ \A k \in DOMAIN before : after[k] = before[k] /\ k # m
  <2>1. selector \in Selector
    BY DEF selector, Selector, Call, Mood
  <2> QED
    BY <2>1
<1> HIDE DEF after, m
<1>6. c.layers[at].name = call.name /\ c.layers[at].selectors = after
  BY DEF NewLayer, selector, after
<1>7. at \in DOMAIN b.layers => b.layers[at].name = call.name /\ b.layers[at].selectors = before
  BY DEF NewLayer
<1>8. ASSUME NEW i \in DOMAIN b.layers, NEW k \in DOMAIN b.layers[i].selectors, NEW d \in Definitions(s),
             StandsFor(b, i, k, s, d)
      PROVE  k \in DOMAIN c.layers[i].selectors /\ StandsFor(c, i, k, t, d)
  <2>1. b.layers[i].name = s[d].name /\ b.layers[i].selectors[k] = Meant(s, d)
    BY <1>8 DEF StandsFor
  <2>2. d \in Definitions(t) /\ t[d] = s[d] /\ Meant(t, d) = Meant(s, d) /\ ~IsLast(t, d)
    BY <1>1, <1>2, <1>3, <1>4
  <2>3. CASE i # at
    <3>1. c.layers[i] = b.layers[i] /\ ~Newest(c, i, k)
      BY <2>3 DEF Newest
    <3> QED
      BY <2>1, <2>2, <3>1 DEF StandsFor
  <2>4. CASE i = at
    <3>1. k \in DOMAIN before /\ c.layers[i].selectors[k] = before[k] /\ b.layers[i].selectors = before
      BY <1>5, <1>6, <1>7, <2>4
    <3>2. c.layers[i].name = b.layers[i].name /\ ~Newest(c, i, k)
      BY <1>5, <1>6, <1>7, <2>4, <3>1 DEF Newest
    <3>3. k \in DOMAIN c.layers[i].selectors
      BY <1>5, <1>6, <2>4, <3>1
    <3> QED
      BY <2>1, <2>2, <3>1, <3>2, <3>3 DEF StandsFor
  <2> QED
    BY <2>3, <2>4
<1>9. m \in DOMAIN c.layers[at].selectors /\ StandsFor(c, at, m, t, n)
  BY <1>4, <1>5, <1>6 DEF StandsFor, Newest
<1>10. \A i \in DOMAIN c.layers : \A k \in DOMAIN c.layers[i].selectors :
         \E d \in Definitions(t) : StandsFor(c, i, k, t, d)
  <2> SUFFICES ASSUME NEW i \in DOMAIN c.layers, NEW k \in DOMAIN c.layers[i].selectors
               PROVE  \E d \in Definitions(t) : StandsFor(c, i, k, t, d)
    OBVIOUS
  <2>1. CASE i = at /\ k = m
    BY <1>1, <1>9, <2>1
  <2>2. CASE ~(i = at /\ k = m)
    <3>1. i \in DOMAIN b.layers /\ k \in DOMAIN b.layers[i].selectors
      BY <1>5, <1>6, <1>7, <2>2
    <3>2. PICK d \in Definitions(s) : StandsFor(b, i, k, s, d)
      BY <3>1 DEF LayersHold
    <3> QED
      BY <1>1, <1>8, <3>1, <3>2
  <2> QED
    BY <2>1, <2>2
<1>11. \A d \in Definitions(t) :
         \E i \in DOMAIN c.layers : \E k \in DOMAIN c.layers[i].selectors : StandsFor(c, i, k, t, d)
  <2> SUFFICES ASSUME NEW d \in Definitions(t)
               PROVE  \E i \in DOMAIN c.layers : \E k \in DOMAIN c.layers[i].selectors : StandsFor(c, i, k, t, d)
    OBVIOUS
  <2>1. CASE d = n
    BY <1>9, <2>1
  <2>2. CASE d \in Definitions(s)
    <3>1. PICK i \in DOMAIN b.layers : \E k \in DOMAIN b.layers[i].selectors : StandsFor(b, i, k, s, d)
      BY <2>2 DEF LayersHold
    <3>2. PICK k \in DOMAIN b.layers[i].selectors : StandsFor(b, i, k, s, d)
      BY <3>1
    <3> QED
      BY <1>8, <2>2, <3>2
  <2> QED
    BY <1>1, <2>1, <2>2
<1>12. ASSUME NEW i \in DOMAIN c.layers, NEW j \in DOMAIN c.layers, i < j,
              NEW e \in Definitions(t), t[e].name = c.layers[j].name
       PROVE  \E d \in Definitions(t) : t[d].name = c.layers[i].name /\ d < e
  <2>1. i \in Nat /\ j \in Nat
    BY DEF Builder
  <2>2. i \in DOMAIN b.layers /\ c.layers[i].name = b.layers[i].name
    BY <1>6, <1>7, <1>12, <2>1
  <2>3. CASE e = n
    <3>1. b.layers[i] \in Declaration /\ b.layers[i].selectors # << >>
      BY <2>2 DEF Builder, WellFormed
    <3>2. 1 \in DOMAIN b.layers[i].selectors
      BY <3>1 DEF Declaration
    <3>3. PICK d \in Definitions(s) : StandsFor(b, i, 1, s, d)
      BY <2>2, <3>2 DEF LayersHold
    <3>4. s[d].name = c.layers[i].name
      BY <2>2, <3>3 DEF StandsFor
    <3> QED
      BY <1>1, <1>2, <2>3, <3>4
  <2>4. CASE e \in Definitions(s) /\ j \in DOMAIN b.layers
    <3>1. c.layers[j].name = b.layers[j].name
      BY <1>6, <1>7, <2>4
    <3>2. s[e].name = b.layers[j].name
      BY <1>2, <1>12, <2>4, <3>1
    <3>3. PICK d \in Definitions(s) : s[d].name = b.layers[i].name /\ d < e
      BY <1>12, <2>2, <2>4, <3>2 DEF LayersHold
    <3> QED
      BY <1>1, <1>2, <2>2, <3>3
  <2>5. CASE e \in Definitions(s) /\ j \notin DOMAIN b.layers
    <3>1. s[e].name = call.name /\ at \notin DOMAIN b.layers
      BY <1>2, <1>6, <1>12, <2>5
    <3>2. PICK l \in DOMAIN b.layers : \E k \in DOMAIN b.layers[l].selectors : StandsFor(b, l, k, s, e)
      BY <2>5 DEF LayersHold
    <3>3. b.layers[l].name = call.name
      BY <3>1, <3>2 DEF StandsFor
    <3> QED
      BY <3>1, <3>3
  <2> QED
    BY <1>1, <2>3, <2>4, <2>5
<1>13. LayersHold(c, t)
  BY <1>10, <1>11, <1>12 DEF LayersHold
<1> QED
  BY <1>13 DEF t

LEMMA DefinitionsKeepLayers ==
  ASSUME NEW s \in Seq(Call), NEW call \in Call, call.verb = "definedBy",
         NEW b \in Builder, WellFormed(b), LayersHold(b, s)
  PROVE  LayersHold(Declaring(b, call.name, [pattern |-> call.pattern, excluded |-> {}]), Append(s, call))
<1> DEFINE name == call.name
           selector == [pattern |-> call.pattern, excluded |-> {}]
           c == Declaring(b, name, selector)
<1>1. name \in Name /\ selector \in Selector
  BY DEF Call, Mood, Selector
<1>2. b.layers \in Seq(Declaration)
  BY DEF Builder
<1>3. CASE Declares(b, name)
  <2> DEFINE at == Place(b, name)
             before == b.layers[at].selectors
             layers == [b.layers EXCEPT ![at] = NewLayer(name, Append(before, selector))]
  <2>1. at \in DOMAIN b.layers /\ b.layers[at].name = name
    BY <1>3, PlaceWorks
  <2>2. b.layers[at] \in Declaration
    BY <1>2, <2>1
  <2>3. b.layers[at] = NewLayer(name, before) /\ before \in Seq(Selector) /\ at \in Nat
    BY <1>2, <2>1, <2>2 DEF Declaration, NewLayer
  <2>4. c = WithLayers(b, layers, name)
    BY <1>3, Zenon DEF Declaring
  <2>5. c.layers = layers /\ c.declared = name
    BY <2>4 DEF WithLayers
  <2> HIDE DEF c
  <2>6. /\ DOMAIN layers = DOMAIN b.layers \cup {at}
        /\ layers[at] = NewLayer(name, Append(before, selector))
        /\ \A i \in DOMAIN b.layers : i # at => layers[i] = b.layers[i]
    BY <1>2, <2>1
  <2>7. \A i \in DOMAIN b.layers : i # at => b.layers[i].name # name
    BY <2>1 DEF WellFormed
  <2> HIDE DEF layers, at, before
  <2>8. DOMAIN c.layers = DOMAIN b.layers \cup {at} /\ c.declared = call.name
    BY <2>5, <2>6
  <2>9. c.layers[at] = NewLayer(call.name, Append(before, [pattern |-> call.pattern, excluded |-> {}]))
    BY <2>5, <2>6
  <2>10. \A i \in DOMAIN b.layers : i # at => c.layers[i] = b.layers[i] /\ c.layers[i].name # call.name
    BY <2>5, <2>6, <2>7
  <2>11. at \in DOMAIN b.layers /\ b.layers[at] = NewLayer(call.name, before)
    BY <2>1, <2>3
  <2>12. LayersHold(c, Append(s, call))
    BY <2>3, <2>8, <2>9, <2>10, <2>11, SelectorJoins
  <2> QED
    BY <2>12 DEF c
<1>4. CASE ~Declares(b, name)
  <2> DEFINE at == Len(b.layers) + 1
             none == << >>
             layers == Append(b.layers, NewLayer(name, <<selector>>))
  <2>1. none \in Seq(Selector)
    OBVIOUS
  <2>2. Append(none, selector) = <<selector>>
    OBVIOUS
  <2>3. c = WithLayers(b, layers, name)
    BY <1>4, Zenon DEF Declaring
  <2> HIDE DEF c, layers
  <2>4. c.layers = layers /\ c.declared = name
    BY <2>3 DEF WithLayers
  <2>5. NewLayer(name, <<selector>>) \in Declaration
    BY <1>1 DEF NewLayer, Declaration
  <2>6. /\ DOMAIN layers = DOMAIN b.layers \cup {at}
        /\ layers[at] = NewLayer(name, <<selector>>) /\ at \notin DOMAIN b.layers /\ at \in Nat
        /\ \A i \in DOMAIN b.layers : layers[i] = b.layers[i] /\ i < at
    BY <1>2, <2>5 DEF layers
  <2>7. \A i \in DOMAIN b.layers : b.layers[i].name # name
    BY <1>4 DEF Declares
  <2> HIDE DEF at, none
  <2>8. DOMAIN c.layers = DOMAIN b.layers \cup {at} /\ c.declared = call.name
    BY <2>4, <2>6
  <2>9. c.layers[at] = NewLayer(call.name, Append(none, [pattern |-> call.pattern, excluded |-> {}]))
    BY <2>2, <2>4, <2>6
  <2>10. \A i \in DOMAIN b.layers : i # at => c.layers[i] = b.layers[i] /\ c.layers[i].name # call.name
    BY <2>4, <2>6, <2>7
  <2>11. at \notin DOMAIN b.layers /\ none = << >> /\ \A i \in DOMAIN b.layers : i < at
    BY <2>6 DEF none
  <2>12. LayersHold(c, Append(s, call))
    BY <2>1, <2>6, <2>8, <2>9, <2>10, <2>11, SelectorJoins
  <2> QED
    BY <2>12 DEF c
<1> QED
  BY <1>3, <1>4

\* Where a clause stands among the clauses of a sentence.
LEMMA PositionsWork ==
  ASSUME NEW s \in Seq(Call)
  PROVE  /\ IsFiniteSet(Clauses(s)) /\ Cardinality(Clauses(s)) \in Nat
         /\ \A i \in Clauses(s) : Position(s, i) \in 1 .. Cardinality(Clauses(s))
         /\ \A i, j \in Clauses(s) : i < j => Position(s, i) < Position(s, j)
<1>1. Clauses(s) \subseteq 1 .. Len(s) /\ Len(s) \in Nat
  BY DEF Clauses
<1>2. IsFiniteSet(1 .. Len(s))
  BY <1>1, FS_Interval
<1>3. IsFiniteSet(Clauses(s)) /\ Cardinality(Clauses(s)) \in Nat
  BY <1>1, <1>2, FS_Subset, FS_CardinalityType
<1>4. ASSUME NEW i \in Clauses(s)
      PROVE  LET upTo == {j \in Clauses(s) : j <= i}
             IN  /\ IsFiniteSet(upTo) /\ i \in upTo
                 /\ Cardinality(upTo) \in 1 .. Cardinality(Clauses(s))
  <2> DEFINE upTo == {j \in Clauses(s) : j <= i}
  <2>1. upTo \in SUBSET Clauses(s) /\ i \in upTo
    BY <1>1
  <2> HIDE DEF upTo
  <2>2. IsFiniteSet(upTo) /\ Cardinality(upTo) <= Cardinality(Clauses(s)) /\ Cardinality(upTo) \in Nat
    BY <1>3, <2>1, FS_Subset, FS_CardinalityType
  <2>3. Cardinality(upTo) # 0
    BY <2>1, <2>2, FS_EmptySet
  <2>4. Cardinality(upTo) \in 1 .. Cardinality(Clauses(s))
    BY <1>3, <2>2, <2>3
  <2> QED
    BY <2>1, <2>2, <2>4 DEF upTo
<1>5. \A i \in Clauses(s) : Position(s, i) \in 1 .. Cardinality(Clauses(s))
  BY <1>4 DEF Position
<1>6. ASSUME NEW i \in Clauses(s), NEW j \in Clauses(s), i < j PROVE Position(s, i) < Position(s, j)
  <2> DEFINE upToI == {k \in Clauses(s) : k <= i}
             upToJ == {k \in Clauses(s) : k <= j}
  <2>1. upToI \in SUBSET upToJ /\ j \in upToJ /\ j \notin upToI
    BY <1>1, <1>6
  <2>2. IsFiniteSet(upToJ)
    BY <1>4
  <2> HIDE DEF upToI, upToJ
  <2>3. Cardinality(upToI) <= Cardinality(upToJ) /\ Cardinality(upToI) # Cardinality(upToJ)
    BY <2>1, <2>2, FS_Subset
  <2>4. Position(s, i) = Cardinality(upToI) /\ Position(s, j) = Cardinality(upToJ)
    BY DEF Position, upToI, upToJ
  <2> QED
    BY <1>5, <1>6, <2>3, <2>4
<1> QED
  BY <1>3, <1>5, <1>6

\* A call that is no clause leaves the clauses where they stand.
LEMMA OtherCallsKeepClauses ==
  ASSUME NEW s \in Seq(Call), NEW call \in Call, call.verb \notin Mood,
         NEW b, NEW c, ClausesHold(b, s), c.clauses = b.clauses
  PROVE  ClausesHold(c, Append(s, call))
<1> DEFINE t == Append(s, call)
           n == Len(s) + 1
<1>1. /\ t[n] = call /\ DOMAIN t = DOMAIN s \cup {n} /\ n \notin DOMAIN s
      /\ \A i \in DOMAIN s : t[i] = s[i]
  OBVIOUS
<1> HIDE DEF t, n
<1>2. Clauses(t) = Clauses(s) /\ \A i \in Clauses(s) : t[i] = s[i]
  BY <1>1 DEF Clauses
<1>3. \A i : Position(t, i) = Position(s, i)
  BY <1>2, Zenon DEF Position
<1>4. ClausesHold(c, t)
  BY <1>2, <1>3 DEF ClausesHold
<1> QED
  BY <1>4 DEF t

\* A clause is put behind the others.
LEMMA ClausesJoin ==
  ASSUME NEW s \in Seq(Call), NEW call \in Call, call.verb \in Mood,
         NEW b \in Builder, NEW c, ClausesHold(b, s),
         NEW clause \in Written, clause = [layer |-> call.layer, named |-> call.named, mood |-> call.verb],
         c.clauses = Append(b.clauses, clause)
  PROVE  ClausesHold(c, Append(s, call))
<1> DEFINE t == Append(s, call)
           n == Len(s) + 1
<1>1. /\ t[n] = call /\ DOMAIN t = DOMAIN s \cup {n} /\ n \notin DOMAIN s /\ n \in Nat
      /\ \A i \in DOMAIN s : t[i] = s[i] /\ i < n /\ i \in Nat
  OBVIOUS
<1> HIDE DEF t, n
<1>2. Clauses(t) = Clauses(s) \cup {n} /\ n \notin Clauses(s)
  BY <1>1 DEF Clauses
<1>3. \A i \in Clauses(s) : t[i] = s[i] /\ i < n /\ i \in Nat
  BY <1>1 DEF Clauses
<1>4. b.clauses \in Seq(Written) /\ Len(b.clauses) \in Nat /\ Cardinality(Clauses(s)) = Len(b.clauses)
  BY DEF Builder, ClausesHold
<1>5. /\ Len(c.clauses) = Len(b.clauses) + 1
      /\ DOMAIN c.clauses = DOMAIN b.clauses \cup {Len(b.clauses) + 1}
      /\ c.clauses[Len(b.clauses) + 1] = clause
      /\ \A k \in 1 .. Len(b.clauses) : c.clauses[k] = b.clauses[k]
  BY <1>4
<1>6. /\ IsFiniteSet(Clauses(s))
      /\ \A i \in Clauses(s) : Position(s, i) \in 1 .. Cardinality(Clauses(s))
  BY PositionsWork
<1>7. Cardinality(Clauses(t)) = Len(b.clauses) + 1
  BY <1>2, <1>4, <1>6, FS_AddElement
<1>8. \A i \in Clauses(s) : Position(t, i) = Position(s, i)
  <2> SUFFICES ASSUME NEW i \in Clauses(s) PROVE Position(t, i) = Position(s, i)
    OBVIOUS
  <2>1. {j \in Clauses(t) : j <= i} = {j \in Clauses(s) : j <= i}
    BY <1>1, <1>2, <1>3
  <2> QED
    BY <2>1, Zenon DEF Position
<1>9. Position(t, n) = Len(b.clauses) + 1
  <2>1. {j \in Clauses(t) : j <= n} = Clauses(t)
    BY <1>1, <1>2, <1>3
  <2> QED
    BY <1>7, <2>1 DEF Position
<1>10. \A i \in Clauses(t) :
         c.clauses[Position(t, i)] = [layer |-> t[i].layer, named |-> t[i].named, mood |-> t[i].verb]
  <2>1. \A i \in Clauses(s) :
          c.clauses[Position(t, i)] = [layer |-> t[i].layer, named |-> t[i].named, mood |-> t[i].verb]
    BY <1>3, <1>4, <1>5, <1>6, <1>8 DEF ClausesHold
  <2> QED
    BY <1>1, <1>2, <1>5, <1>9, <2>1
<1>11. \A k \in DOMAIN c.clauses : \E i \in Clauses(t) : Position(t, i) = k
  BY <1>2, <1>5, <1>8, <1>9 DEF ClausesHold
<1>12. ClausesHold(c, t)
  BY <1>5, <1>7, <1>10, <1>11 DEF ClausesHold
<1> QED
  BY <1>12 DEF t

\* A set of naturals that is not empty has a least element, and `Min` finds it.
LEMMA MinWorks ==
  ASSUME NEW S \in SUBSET Nat, S # {}
  PROVE  Min(S) \in S /\ \A m \in S : Min(S) <= m
<1> DEFINE Smaller == OpToRel(<, Nat)
<1>1. IsWellFoundedOn(Smaller, Nat)
  BY NatLessThanWellFounded
<1>2. \A m, n \in Nat : m < n => <<m, n>> \in Smaller
  BY DEF OpToRel
<1> HIDE DEF Smaller
<1>3. PICK n \in S : \A m \in S : ~(<<m, n>> \in Smaller)
  BY <1>1, WFMin
<1>4. \A m \in S : ~(m < n)
  BY <1>2, <1>3
<1>5. \A m \in S : n <= m
  BY <1>4
<1> QED
  BY <1>5, Zenon DEF Min

-----------------------------------------------------------------------------
\* The builder holds the sentence it was built from.
Faithful ==
  /\ policy \in Builder /\ WellFormed(policy) /\ said \in Seq(Call)
  /\ \A x : Declares(policy, x) <=> x \in Defined(said)
  /\ LayersHold(policy, said) /\ ClausesHold(policy, said)

\* The names of a sentence are those of its definitions.
LEMMA NamesWork ==
  ASSUME said \in Seq(Call), NEW name
  PROVE  name \in Defined(said) <=> \E d \in Definitions(said) : said[d].name = name
<1>1. Definitions(said) \subseteq 1 .. Len(said) /\ 1 .. (Len(said) + 1) - 1 = 1 .. Len(said)
  BY DEF Definitions
<1>2. Definitions(said) \cap (1 .. (Len(said) + 1) - 1) = Definitions(said)
  BY <1>1
<1> QED
  BY <1>2, Zenon DEF Defined, DefinedBefore

\* What a selector lets through is what its definition claims.
LEMMA MeaningOfMeant ==
  ASSUME NEW d \in Definitions(said), NEW id
  PROVE  (\A p \in Meant(said, d).excluded : id \notin Describes[p]) <=> ~TakenOut(d, id)
<1> DEFINE out == UNION {said[i].patterns : i \in TakenFrom(said, d)}
<1>1. Meant(said, d).excluded = out
  BY DEF Meant
<1>2. (\A p \in out : id \notin Describes[p])
        <=> \A i \in TakenFrom(said, d) : \A p \in said[i].patterns : id \notin Describes[p]
  BY Zenon
<1>3. TakenOut(d, id) <=> \E i \in TakenFrom(said, d) : \E p \in said[i].patterns : id \in Describes[p]
  BY Zenon DEF TakenOut, TakenFrom
<1> QED
  BY <1>1, <1>2, <1>3, Zenon

LEMMA MatchingIsClaiming ==
  ASSUME Faithful, NEW i \in DOMAIN policy.layers, NEW id
  PROVE  Matches(policy.layers[i], id) <=> Claims(policy.layers[i].name, id)
<1> DEFINE layer == policy.layers[i]
<1>1. ASSUME NEW k \in DOMAIN layer.selectors, NEW d \in Definitions(said), StandsFor(policy, i, k, said, d)
      PROVE  /\ said[d].name = layer.name
             /\ layer.selectors[k].pattern = said[d].pattern
             /\ (\A p \in layer.selectors[k].excluded : id \notin Describes[p]) <=> ~TakenOut(d, id)
  <2>1. layer.selectors[k] = Meant(said, d) /\ said[d].name = layer.name
    BY <1>1, Zenon DEF StandsFor
  <2>2. Meant(said, d).pattern = said[d].pattern
    BY DEF Meant
  <2> QED
    BY <2>1, <2>2, MeaningOfMeant, Zenon
<1>2. ASSUME Matches(layer, id) PROVE Claims(layer.name, id)
  <2>1. PICK k \in DOMAIN layer.selectors :
          /\ id \in Describes[layer.selectors[k].pattern]
          /\ \A p \in layer.selectors[k].excluded : id \notin Describes[p]
    BY <1>2, Zenon DEF Matches
  <2>2. PICK d \in Definitions(said) : StandsFor(policy, i, k, said, d)
    BY Zenon DEF Faithful, LayersHold
  <2> QED
    BY <1>1, <2>1, <2>2, Zenon DEF Claims
<1>3. ASSUME Claims(layer.name, id) PROVE Matches(layer, id)
  <2>1. PICK d \in Definitions(said) : /\ said[d].name = layer.name
                                       /\ id \in Describes[said[d].pattern]
                                       /\ ~TakenOut(d, id)
    BY <1>3, Zenon DEF Claims
  <2>2. PICK j \in DOMAIN policy.layers : \E k \in DOMAIN policy.layers[j].selectors : StandsFor(policy, j, k, said, d)
    BY Zenon DEF Faithful, LayersHold
  <2>3. policy.layers[j].name = layer.name
    BY <2>1, <2>2, Zenon DEF StandsFor
  <2>4. j = i
    BY <2>3, Zenon DEF Faithful, WellFormed
  <2>5. PICK k \in DOMAIN layer.selectors : StandsFor(policy, i, k, said, d)
    BY <2>2, <2>4, Zenon
  <2> QED
    BY <1>1, <2>1, <2>5, Zenon DEF Matches
<1> QED
  BY <1>2, <1>3

\* Where a name was first said.
LEMMA FirstSaidWorks ==
  ASSUME said \in Seq(Call), NEW name \in Defined(said)
  PROVE  /\ FirstSaid(name) \in Definitions(said) /\ said[FirstSaid(name)].name = name
         /\ FirstSaid(name) \in Nat
         /\ \A d \in Definitions(said) : d \in Nat /\ (said[d].name = name => FirstSaid(name) <= d)
<1> DEFINE S == {d \in Definitions(said) : said[d].name = name}
<1>1. Definitions(said) \subseteq Nat
  BY DEF Definitions
<1>2. S \in SUBSET Nat /\ S # {}
  BY <1>1, NamesWork
<1>3. FirstSaid(name) = Min(S)
  BY Zenon DEF FirstSaid
<1> HIDE DEF S
<1>4. FirstSaid(name) \in S /\ \A d \in S : FirstSaid(name) <= d
  BY <1>2, <1>3, MinWorks
<1> QED
  BY <1>1, <1>4 DEF S

\* The layers stand in the order of their first definitions.
LEMMA LayersInOrder ==
  ASSUME Faithful, NEW i \in DOMAIN policy.layers, NEW j \in DOMAIN policy.layers, i < j
  PROVE  FirstSaid(policy.layers[i].name) < FirstSaid(policy.layers[j].name)
<1> DEFINE early == policy.layers[i].name
           late == policy.layers[j].name
<1>1. early \in Defined(said) /\ late \in Defined(said)
  BY Zenon DEF Faithful, Declares
<1>2. FirstSaid(late) \in Definitions(said) /\ said[FirstSaid(late)].name = late
  BY <1>1, FirstSaidWorks DEF Faithful
<1>3. PICK d \in Definitions(said) : said[d].name = early /\ d < FirstSaid(late)
  BY <1>2 DEF Faithful, LayersHold
<1>4. d \in Nat /\ FirstSaid(early) <= d /\ FirstSaid(early) \in Nat /\ FirstSaid(late) \in Nat
  BY <1>1, <1>3, FirstSaidWorks DEF Faithful
<1> QED
  BY <1>3, <1>4

\* The layer of an identifier is the one it belongs to.
LEMMA LayerOfMeans ==
  ASSUME Faithful, NEW id
  PROVE  /\ NoName \notin Defined(said)
         /\ LayerOf(id) \in Defined(said) \cup {NoName}
         /\ \A name \in Defined(said) : LayerOf(id) = name <=> Belongs(id, name)
<1> DEFINE matching == {i \in DOMAIN policy.layers : Matches(policy.layers[i], id)}
           least == Min(matching)
<1>1. NoName \notin Defined(said)
  BY DEF Faithful, WellFormed, Declares
<1>2. matching \in SUBSET Nat
  BY DEF Faithful, Builder
<1>3. LayerOf(id) = IF matching = {} THEN NoName ELSE policy.layers[least].name
  BY Zenon DEF LayerOf
<1>4. \A i \in DOMAIN policy.layers : i \in matching <=> Claims(policy.layers[i].name, id)
  BY MatchingIsClaiming
<1>5. matching \subseteq DOMAIN policy.layers
  OBVIOUS
<1>6. \A name \in Defined(said) : \E i \in DOMAIN policy.layers : policy.layers[i].name = name
  BY Zenon DEF Faithful, Declares
<1>7. \A i \in DOMAIN policy.layers : policy.layers[i].name \in Defined(said)
  BY Zenon DEF Faithful, Declares
<1>8. matching # {} => least \in matching /\ \A i \in matching : least <= i
  <2> HIDE DEF matching
  <2> QED
    BY <1>2, MinWorks
<1> HIDE DEF matching, least
<1>9. \A i, j \in DOMAIN policy.layers : policy.layers[i].name = policy.layers[j].name => i = j
  BY DEF Faithful, WellFormed
<1>10. \A name \in Defined(said) : FirstSaid(name) \in Nat
  BY FirstSaidWorks DEF Faithful
<1>11. ASSUME NEW name \in Defined(said), LayerOf(id) = name PROVE Belongs(id, name)
  <2>1. least \in matching /\ policy.layers[least].name = name /\ least \in DOMAIN policy.layers
    BY <1>1, <1>3, <1>5, <1>8, <1>11
  <2>2. Claims(name, id)
    BY <1>4, <2>1
  <2>3. ASSUME NEW other \in Defined(said) \ {name}, Claims(other, id)
        PROVE  FirstSaid(name) < FirstSaid(other)
    <3>1. PICK i \in DOMAIN policy.layers : policy.layers[i].name = other
      BY <1>6
    <3>2. i \in matching /\ i # least
      BY <1>4, <2>1, <2>3, <3>1
    <3>3. least < i
      <4>1. least \in Nat /\ i \in Nat /\ least <= i
        BY <1>2, <1>8, <2>1, <3>2
      <4> QED
        BY <3>2, <4>1
    <3> QED
      BY <2>1, <3>1, <3>3, LayersInOrder
  <2> QED
    BY <2>2, <2>3 DEF Belongs
<1>12. ASSUME NEW name \in Defined(said), Belongs(id, name) PROVE LayerOf(id) = name
  <2>1. PICK i \in DOMAIN policy.layers : policy.layers[i].name = name
    BY <1>6
  <2>2. i \in matching /\ matching # {}
    BY <1>4, <1>12, <2>1 DEF Belongs
  <2>3. least \in matching /\ least <= i /\ least \in DOMAIN policy.layers /\ least \in Nat /\ i \in Nat
    BY <1>2, <1>5, <1>8, <2>2
  <2>4. CASE least = i
    BY <1>3, <2>1, <2>2, <2>4
  <2>5. CASE least < i
    <3> DEFINE other == policy.layers[least].name
    <3>1. other \in Defined(said) /\ Claims(other, id) /\ other # name
      BY <1>4, <1>7, <1>9, <2>1, <2>3, <2>5
    <3>2. FirstSaid(name) < FirstSaid(other)
      BY <1>12, <3>1 DEF Belongs
    <3>3. FirstSaid(other) < FirstSaid(name)
      BY <2>1, <2>3, <2>5, LayersInOrder
    <3>4. FirstSaid(name) \in Nat /\ FirstSaid(other) \in Nat
      BY <1>10, <3>1
    <3> QED
      BY <3>2, <3>3, <3>4
  <2> QED
    BY <2>3, <2>4, <2>5
<1>13. LayerOf(id) \in Defined(said) \cup {NoName}
  BY <1>3, <1>5, <1>7, <1>8
<1> QED
  BY <1>1, <1>11, <1>12, <1>13

LEMMA EmptyLayersMean ==
  ASSUME Faithful, NEW files
  PROVE  EmptyLayers(files) = {n \in Defined(said) : \A f \in files : ~Belongs(f, n)}
<1> DEFINE names == {policy.layers[i].name : i \in DOMAIN policy.layers}
<1>1. names = Defined(said)
  BY Zenon DEF Faithful, Declares
<1> HIDE DEF names
<1>2. Membership(files) = [name \in Defined(said) |-> {f \in files : LayerOf(f) = name}]
  BY <1>1, Zenon DEF Membership, names
<1>3. EmptyLayers(files) = {n \in Defined(said) : {f \in files : LayerOf(f) = n} = {}}
  BY <1>2, Zenon DEF EmptyLayers
<1>4. \A n \in Defined(said) : ({f \in files : LayerOf(f) = n} = {}) <=> \A f \in files : ~Belongs(f, n)
  BY LayerOfMeans
<1> QED
  BY <1>3, <1>4, Zenon

\* The dependencies from one layer on another.
Crossing(edges, source, target) ==
  {e \in edges : ~e.external /\ Belongs(e.source, source) /\ Belongs(e.target, target)}
Crossed(edges) ==
  {q \in Defined(said) \X Defined(said) : q[1] # q[2] /\ Crossing(edges, q[1], q[2]) # {}}

\* The projection has one edge for every two layers with a dependency between them.
LEMMA ProjectedMeans ==
  ASSUME Faithful, NEW edges
  PROVE  Projected(edges)
           = {[pair |-> q, edges |-> Crossing(edges, q[1], q[2])] :
                q \in Crossed(edges)}
<1> DEFINE kept == {e \in edges : /\ ~e.external /\ e.source # e.target
                                  /\ LayerOf(e.source) # NoName /\ LayerOf(e.target) # NoName
                                  /\ LayerOf(e.source) # LayerOf(e.target)}
           pairs == Crossed(edges)
<1>1. \A id : LayerOf(id) = NoName \/ LayerOf(id) \in Defined(said)
  BY LayerOfMeans
<1>2. \A id : \A name \in Defined(said) : LayerOf(id) = name <=> Belongs(id, name)
  BY LayerOfMeans
<1>3. NoName \notin Defined(said)
  BY LayerOfMeans
<1>4. ASSUME NEW s \in Defined(said), NEW t \in Defined(said), s # t
      PROVE  {e \in kept : LayerPair(e) = <<s, t>>} = Crossing(edges, s, t)
  <2>1. ASSUME NEW e \in edges
        PROVE  e \in kept /\ LayerPair(e) = <<s, t>>
                 <=> ~e.external /\ Belongs(e.source, s) /\ Belongs(e.target, t)
    <3>1. LayerPair(e) = <<s, t>> <=> LayerOf(e.source) = s /\ LayerOf(e.target) = t
      BY DEF LayerPair
    <3>2. /\ LayerOf(e.source) = s <=> Belongs(e.source, s)
          /\ LayerOf(e.target) = t <=> Belongs(e.target, t)
      BY <1>2
    <3>3. LayerOf(e.source) = s /\ LayerOf(e.target) = t => (e \in kept <=> ~e.external)
      BY <1>3, <1>4
    <3> QED
      BY <3>1, <3>2, <3>3
  <2> QED
    BY <2>1 DEF Crossing
<1>5. {LayerPair(e) : e \in kept} = pairs
  <2>1. ASSUME NEW e \in kept PROVE LayerPair(e) \in pairs
    <3> DEFINE s == LayerOf(e.source)
               t == LayerOf(e.target)
    <3>1. s \in Defined(said) /\ t \in Defined(said) /\ s # t /\ LayerPair(e) = <<s, t>>
      BY <1>1 DEF LayerPair
    <3> HIDE DEF s, t, kept
    <3>2. e \in Crossing(edges, s, t)
      BY <1>4, <3>1
    <3> QED
      BY <3>1, <3>2 DEF Crossed
  <2>2. ASSUME NEW s \in Defined(said), NEW t \in Defined(said), s # t, Crossing(edges, s, t) # {}
        PROVE  <<s, t>> \in {LayerPair(e) : e \in kept}
    <3> HIDE DEF kept
    <3>1. PICK e \in kept : LayerPair(e) = <<s, t>>
      BY <1>4, <2>2
    <3> QED
      BY <3>1
  <2> HIDE DEF kept
  <2> QED
    <3>1. \A q \in pairs : q \in {LayerPair(e) : e \in kept}
      <4> SUFFICES ASSUME NEW q \in pairs PROVE q \in {LayerPair(e) : e \in kept}
        OBVIOUS
      <4>1. /\ q = <<q[1], q[2]>> /\ q[1] \in Defined(said) /\ q[2] \in Defined(said)
            /\ q[1] # q[2] /\ Crossing(edges, q[1], q[2]) # {}
        BY DEF Crossed
      <4> QED
        BY <2>2, <4>1
    <3> HIDE DEF pairs
    <3> QED
      BY <2>1, <3>1
<1>6. \A q \in pairs : {e \in kept : LayerPair(e) = q} = Crossing(edges, q[1], q[2])
  <2> HIDE DEF kept
  <2> SUFFICES ASSUME NEW q \in pairs PROVE {e \in kept : LayerPair(e) = q} = Crossing(edges, q[1], q[2])
    OBVIOUS
  <2>1. q = <<q[1], q[2]>> /\ q[1] \in Defined(said) /\ q[2] \in Defined(said) /\ q[1] # q[2]
    BY DEF Crossed
  <2> QED
    BY <1>4, <2>1
<1>7. Projected(edges) = {[pair |-> q, edges |-> {e \in kept : LayerPair(e) = q}] : q \in pairs}
  BY <1>5, Zenon DEF Projected
<1> HIDE DEF kept, pairs
<1>8. Projected(edges) = {[pair |-> q, edges |-> Crossing(edges, q[1], q[2])] : q \in pairs}
  BY <1>6, <1>7
<1> QED
  BY <1>8 DEF pairs

\* The clauses that forbid one layer to depend on another.
Forbidding(s, t) == {i \in Clauses(said) : Forbids(i, s, t)}
Saying(mood, s, t) == {i \in Forbidding(s, t) : said[i].verb = mood}

LEMMA BrokenMeans ==
  ASSUME Faithful, NEW mood \in Mood, NEW d, NEW s, NEW t, d.pair = <<s, t>>
  PROVE  Broken(d, mood) = {Position(said, i) : i \in Saying(mood, s, t)}
<1>1. d.pair[1] = s /\ d.pair[2] = t
  OBVIOUS
<1>2. \A i \in Clauses(said) : said[i].verb \in Mood
  BY DEF Clauses
<1>3. ASSUME NEW i \in Clauses(said)
      PROVE  Position(said, i) \in Broken(d, mood) <=> i \in Saying(mood, s, t)
  <2> DEFINE clause == policy.clauses[Position(said, i)]
  <2>1. clause = [layer |-> said[i].layer, named |-> said[i].named, mood |-> said[i].verb]
    BY DEF Faithful, ClausesHold
  <2>2. Position(said, i) \in DOMAIN policy.clauses
    <3>1. Position(said, i) \in 1 .. Len(policy.clauses)
      BY PositionsWork DEF Faithful, ClausesHold
    <3>2. policy.clauses \in Seq(Written)
      BY DEF Faithful, Builder
    <3> QED
      BY <3>1, <3>2
  <2> HIDE DEF clause
  <2>3. clause.layer = said[i].layer /\ clause.named = said[i].named /\ clause.mood = said[i].verb
    BY <2>1
  <2>4. Position(said, i) \in Broken(d, mood)
          <=> clause.mood = mood /\ clause.layer = s /\ ~Allows(clause, t)
    BY <1>1, <2>2, Zenon DEF Broken, clause
  <2>5. said[i].verb = mood => (said[i].verb = "mayNot" <=> mood = "mayNot") /\ mood \in {"mayNot", "mayOnly"}
    BY DEF Mood
  <2>6. said[i].verb = mood => (Forbids(i, s, t) <=> clause.layer = s /\ ~Allows(clause, t))
    BY <2>3, <2>5 DEF Forbids, Allows
  <2> QED
    BY <2>3, <2>4, <2>6 DEF Saying, Forbidding
<1>4. \A k \in Broken(d, mood) : \E i \in Clauses(said) : Position(said, i) = k
  BY DEF Broken, Faithful, ClausesHold
<1>5. Saying(mood, s, t) \subseteq Clauses(said)
  BY DEF Saying, Forbidding
<1> QED
  BY <1>3, <1>4, <1>5

\* The first of some clauses stands first.
LEMMA FirstPosition ==
  ASSUME Faithful, NEW S \in SUBSET Clauses(said), S # {}
  PROVE  Min(S) \in S /\ Min({Position(said, i) : i \in S}) = Position(said, Min(S))
<1> DEFINE positions == {Position(said, i) : i \in S}
<1>1. \A i \in Clauses(said) : i \in Nat /\ Position(said, i) \in Nat
  <2>1. /\ \A i \in Clauses(said) : Position(said, i) \in 1 .. Cardinality(Clauses(said))
        /\ Cardinality(Clauses(said)) \in Nat
    BY PositionsWork DEF Faithful
  <2>2. \A i \in Clauses(said) : i \in 1 .. Len(said) /\ Len(said) \in Nat
    BY DEF Clauses, Faithful
  <2> QED
    BY <2>1, <2>2
<1>2. S \in SUBSET Nat /\ positions \in SUBSET Nat /\ positions # {}
  BY <1>1
<1>3. Min(S) \in S /\ \A i \in S : Min(S) <= i
  BY <1>2, MinWorks
<1> HIDE DEF positions
<1>4. Min(positions) \in positions /\ \A k \in positions : Min(positions) <= k
  BY <1>2, MinWorks
<1>5. PICK i \in S : Min(positions) = Position(said, i)
  BY <1>4 DEF positions
<1>6. Position(said, Min(S)) \in positions
  BY <1>3 DEF positions
<1>7. \A j, k \in Clauses(said) : j < k => Position(said, j) < Position(said, k)
  BY PositionsWork DEF Faithful
<1>8. Min(S) = i
  <2>1. /\ i \in Clauses(said) /\ i \in Nat /\ Position(said, i) \in Nat /\ Min(S) <= i
        /\ Min(S) \in Clauses(said) /\ Min(S) \in Nat /\ Position(said, Min(S)) \in Nat
    BY <1>1, <1>3
  <2>2. Position(said, i) <= Position(said, Min(S))
    BY <1>4, <1>5, <1>6
  <2>3. ~(Min(S) < i)
    BY <1>7, <2>1, <2>2
  <2> QED
    BY <2>1, <2>3
<1> QED
  BY <1>3, <1>5, <1>8 DEF positions

Blamed(s, t) == IF Saying("mayNot", s, t) # {} THEN Min(Saying("mayNot", s, t)) ELSE Min(Forbidding(s, t))

LEMMA BrokenClausesMean ==
  ASSUME Faithful, NEW d, NEW s, NEW t, d.pair = <<s, t>>
  PROVE  BrokenClauses(d) = IF Forbidding(s, t) = {} THEN {} ELSE {Position(said, Blamed(s, t))}
<1> DEFINE blocklists == Saying("mayNot", s, t)
           allowlists == Saying("mayOnly", s, t)
<1>1. /\ Broken(d, "mayNot") = {Position(said, i) : i \in blocklists}
      /\ Broken(d, "mayOnly") = {Position(said, i) : i \in allowlists}
  <2>1. "mayNot" \in Mood /\ "mayOnly" \in Mood
    BY DEF Mood
  <2> QED
    BY <2>1, BrokenMeans
<1>2. /\ blocklists \in SUBSET Clauses(said) /\ allowlists \in SUBSET Clauses(said)
      /\ Forbidding(s, t) = blocklists \cup allowlists
  BY DEF Saying, Forbidding, Clauses, Mood
<1> HIDE DEF blocklists, allowlists
<1>3. CASE blocklists # {}
  <2>1. Broken(d, "mayNot") # {}
    BY <1>1, <1>3
  <2>2. BrokenClauses(d) = {Min(Broken(d, "mayNot"))}
    BY <2>1 DEF BrokenClauses
  <2>3. Min(Broken(d, "mayNot")) = Position(said, Min(blocklists))
    BY <1>1, <1>2, <1>3, FirstPosition, Zenon
  <2>4. Blamed(s, t) = Min(blocklists)
    BY <1>3 DEF Blamed, blocklists
  <2> QED
    BY <1>2, <1>3, <2>2, <2>3, <2>4
<1>4. CASE blocklists = {} /\ allowlists # {}
  <2>1. Broken(d, "mayNot") = {} /\ Broken(d, "mayOnly") # {}
    BY <1>1, <1>4
  <2>2. BrokenClauses(d) = {Min(Broken(d, "mayOnly"))}
    BY <2>1 DEF BrokenClauses
  <2>3. Min(Broken(d, "mayOnly")) = Position(said, Min(allowlists))
    BY <1>1, <1>2, <1>4, FirstPosition, Zenon
  <2>4. Forbidding(s, t) = allowlists
    BY <1>2, <1>4
  <2>5. Blamed(s, t) = Min(allowlists)
    BY <1>4, <2>4 DEF Blamed, blocklists
  <2> QED
    BY <1>4, <2>2, <2>3, <2>4, <2>5
<1>5. CASE blocklists = {} /\ allowlists = {}
  <2>1. Broken(d, "mayNot") = {} /\ Broken(d, "mayOnly") = {} /\ Forbidding(s, t) = {}
    BY <1>1, <1>2, <1>5
  <2> QED
    BY <2>1 DEF BrokenClauses
<1> QED
  BY <1>3, <1>4, <1>5

\* What is gathered is what the sentence forbids.
LEMMA GatheredMeans ==
  ASSUME Faithful, NEW edges
  PROVE  Gathered(edges)
           = {[pair |-> q, clause |-> Position(said, Blamed(q[1], q[2])),
               edges |-> Crossing(edges, q[1], q[2])] :
                q \in {p \in Crossed(edges) : Forbidding(p[1], p[2]) # {}}}
<1> DEFINE pairs == Crossed(edges)
           projection(q) == [pair |-> q, edges |-> Crossing(edges, q[1], q[2])]
           violation(q) == [pair |-> q, clause |-> Position(said, Blamed(q[1], q[2])),
                            edges |-> Crossing(edges, q[1], q[2])]
           gathered(d) == {[pair |-> d.pair, clause |-> i, edges |-> d.edges] : i \in BrokenClauses(d)}
<1>1. Projected(edges) = {projection(q) : q \in pairs}
  BY ProjectedMeans
<1>2. \A q \in pairs : gathered(projection(q)) = IF Forbidding(q[1], q[2]) = {} THEN {} ELSE {violation(q)}
  <2> SUFFICES ASSUME NEW q \in pairs
               PROVE  gathered(projection(q)) = IF Forbidding(q[1], q[2]) = {} THEN {} ELSE {violation(q)}
    OBVIOUS
  <2> HIDE DEF pairs
  <2> DEFINE d == projection(q)
  <2>1. q = <<q[1], q[2]>>
    BY DEF pairs, Crossed
  <2>2. d.pair = q /\ d.edges = Crossing(edges, q[1], q[2])
    OBVIOUS
  <2> HIDE DEF d
  <2>3. BrokenClauses(d) = IF Forbidding(q[1], q[2]) = {} THEN {} ELSE {Position(said, Blamed(q[1], q[2]))}
    BY <2>1, <2>2, BrokenClausesMean
  <2>4. gathered(d) = IF Forbidding(q[1], q[2]) = {} THEN {} ELSE {violation(q)}
    BY <2>2, <2>3
  <2> QED
    BY <2>4 DEF d
<1>3. Gathered(edges) = UNION {gathered(d) : d \in Projected(edges)}
  BY Zenon DEF Gathered
<1>4. Gathered(edges) = UNION {gathered(projection(q)) : q \in pairs}
  <2> HIDE DEF gathered, projection, pairs
  <2> QED
    BY <1>1, <1>3
<1> HIDE DEF gathered, projection, violation
<1>5. Gathered(edges) = {violation(q) : q \in {p \in pairs : Forbidding(p[1], p[2]) # {}}}
  <2> DEFINE blamed == {p \in pairs : Forbidding(p[1], p[2]) # {}}
  <2>1. \A q \in pairs \ blamed : gathered(projection(q)) = {}
    BY <1>2
  <2>2. \A q \in blamed : gathered(projection(q)) = {violation(q)}
    BY <1>2
  <2>3. blamed \subseteq pairs
    OBVIOUS
  <2> HIDE DEF blamed, pairs
  <2>4. \A x : x \in Gathered(edges) <=> \E q \in pairs : x \in gathered(projection(q))
    BY <1>4, Zenon
  <2>5. \A x : (\E q \in pairs : x \in gathered(projection(q))) <=> \E q \in blamed : x = violation(q)
    BY <2>1, <2>2, <2>3
  <2>6. Gathered(edges) = {violation(q) : q \in blamed}
    BY <2>4, <2>5, Zenon
  <2> QED
    BY <2>6 DEF blamed
<1> QED
  BY <1>5, Zenon DEF violation

-----------------------------------------------------------------------------
\* A rejection is not the absence of one.
LEMMA RejectingIsNoted ==
  ASSUME IInv
  PROVE  Rejecting(policy).err # NoError
<1>1. Rejecting(policy).err = IF policy.err = NoError THEN Len(said) + 1 ELSE policy.err
  BY RejectingWorks DEF IInv, TypeOK
<1>2. Len(said) + 1 # NoError
  BY DEF IInv, TypeOK, NoError
<1> QED
  BY <1>1, <1>2

\* A verb that neither defines, nor excepts, nor forbids leaves what is held.
LEMMA OtherVerbsHold ==
  ASSUME IInv, PolicyHolds(policy, said), NEW call \in Call, said' = Append(said, call),
         call.verb \notin {"definedBy", "except"}, call.verb \notin Mood,
         policy' = policy \/ policy' = Rejecting(policy)
  PROVE  PolicyHolds(policy', said')
<1>1. policy'.err = NoError => policy' = policy
  BY RejectingIsNoted
<1>2. said \in Seq(Call)
  BY DEF IInv, TypeOK
<1>3. CASE policy'.err = NoError
  <2>1. policy' = policy /\ LayersHold(policy, said) /\ ClausesHold(policy, said)
    BY <1>1, <1>3 DEF PolicyHolds
  <2>2. LayersHold(policy, Append(said, call)) /\ ClausesHold(policy, Append(said, call))
    BY <1>2, <2>1, OtherCallsKeepLayers, OtherCallsKeepClauses
  <2> QED
    BY <2>1, <2>2 DEF PolicyHolds
<1> QED
  BY <1>3 DEF PolicyHolds

LEMMA DefinedByHolds ==
  ASSUME IInv, PolicyHolds(policy, said), NEW pattern \in Pattern, DefinedBy(pattern)
  PROVE  PolicyHolds(policy', said')
<1> DEFINE call == [verb |-> "definedBy", name |-> open, pattern |-> pattern]
           selector == [pattern |-> pattern, excluded |-> {}]
<1>1. /\ said \in Seq(Call) /\ policy \in Builder /\ WellFormed(policy)
      /\ open \in Name /\ said' = Append(said, call)
  BY DEF IInv, TypeOK, DefinedBy, Say
<1>2. call \in Call /\ call.verb = "definedBy" /\ call.name = open /\ call.pattern = pattern /\ call.verb \notin Mood
  BY <1>1 DEF Call, Mood
<1>3. policy' = IF pattern \notin Compiles THEN Rejecting(policy)
                ELSE IF policy.err # NoError THEN policy
                ELSE Declaring(policy, open, selector)
  BY DEF DefinedBy
<1> HIDE DEF call
<1>4. CASE policy'.err = NoError
  <2>1. policy.err = NoError /\ policy' = Declaring(policy, open, selector)
    <3> HIDE DEF selector
    <3> QED
      BY <1>3, <1>4, RejectingIsNoted
  <2>2. LayersHold(policy, said) /\ ClausesHold(policy, said)
    BY <2>1 DEF PolicyHolds
  <2>3. policy'.clauses = policy.clauses
    <3> HIDE DEF selector
    <3>1. Declaring(policy, open, selector).clauses = policy.clauses
      BY DEF Declaring, WithLayers
    <3> QED
      BY <2>1, <3>1
  <2>4. LayersHold(Declaring(policy, call.name, [pattern |-> call.pattern, excluded |-> {}]), Append(said, call))
    BY <1>1, <1>2, <2>2, DefinitionsKeepLayers
  <2>5. LayersHold(policy', said')
    BY <1>1, <1>2, <2>1, <2>4
  <2>6. ClausesHold(policy', said')
    BY <1>1, <1>2, <2>2, <2>3, OtherCallsKeepClauses
  <2> QED
    BY <2>5, <2>6 DEF PolicyHolds
<1> QED
  BY <1>4 DEF PolicyHolds

LEMMA ExceptHolds ==
  ASSUME IInv, PolicyHolds(policy, said), NEW patterns \in Exceptions, Except(patterns)
  PROVE  PolicyHolds(policy', said')
<1> DEFINE call == [verb |-> "except", patterns |-> patterns]
           at == Place(policy, policy.declared)
           selectors == policy.layers[at].selectors
           narrowed == [selectors EXCEPT ![Len(selectors)] = Excluding(@, patterns)]
           c == WithLayers(policy, [policy.layers EXCEPT ![at] = NewLayer(policy.declared, narrowed)], policy.declared)
           fault == ~Declares(policy, policy.declared) \/ patterns = {} \/ ~(patterns \subseteq Compiles)
<1>1. /\ said \in Seq(Call) /\ policy \in Builder /\ WellFormed(policy)
      /\ patterns \in SUBSET Pattern /\ said' = Append(said, call)
  BY LayersAssumption DEF IInv, TypeOK, Except, Say
<1>2. call \in Call /\ call.verb = "except" /\ call.patterns = patterns /\ call.verb \notin Mood
  BY <1>1 DEF Call, Mood
<1>3. policy' = IF fault THEN Rejecting(policy) ELSE c
  BY Zenon DEF Except, Excepting
<1>4. c.clauses = policy.clauses
  BY DEF WithLayers
<1>5. ASSUME ~fault, LayersHold(policy, said) PROVE LayersHold(c, said')
  <2> HIDE DEF call
  <2>1. narrowed = [selectors EXCEPT ![Len(selectors)] = Excluding(@, call.patterns)]
    BY <1>2, Zenon
  <2>2. LayersHold(WithLayers(policy, [policy.layers EXCEPT ![at] =
                     NewLayer(policy.declared, [selectors EXCEPT ![Len(selectors)] = Excluding(@, call.patterns)])],
                     policy.declared), Append(said, call))
    BY <1>1, <1>2, <1>5, ExceptionsKeepLayers
  <2> HIDE DEF narrowed, selectors, at
  <2> QED
    BY <1>1, <2>1, <2>2
<1> HIDE DEF call, c, fault
<1>6. CASE policy'.err = NoError
  <2>1. ~fault /\ policy' = c
    BY <1>3, <1>6, RejectingIsNoted
  <2>2. c.err = policy.err
    BY DEF c, WithLayers
  <2>3. LayersHold(policy, said) /\ ClausesHold(policy, said)
    BY <1>6, <2>1, <2>2 DEF PolicyHolds
  <2>4. ClausesHold(policy', said')
    BY <1>1, <1>2, <1>4, <2>1, <2>3, OtherCallsKeepClauses
  <2> QED
    BY <1>5, <2>1, <2>3, <2>4 DEF PolicyHolds
<1> QED
  BY <1>6 DEF PolicyHolds

LEMMA ClausingHolds ==
  ASSUME IInv, PolicyHolds(policy, said),
         NEW named \in SUBSET (Name \ {NoName}), NEW mood \in Mood, Clausing(named, mood)
  PROVE  PolicyHolds(policy', said')
<1> DEFINE call == [verb |-> mood, layer |-> open, named |-> named]
           clause == [layer |-> open, named |-> named, mood |-> mood]
           fault == \/ mood = "mayNot" /\ named = {}
                    \/ \E name \in named : ~Declares(policy, name)
           b == IF fault THEN Rejecting(policy) ELSE policy
<1>1. /\ said \in Seq(Call) /\ policy \in Builder /\ WellFormed(policy)
      /\ open \in Name /\ clause \in Written /\ said' = Append(said, call)
  BY DEF IInv, TypeOK, Clausing, Say, Written
<1>2. /\ call \in Call /\ call.verb \in Mood /\ call.verb \notin {"definedBy", "except"}
      /\ clause = [layer |-> call.layer, named |-> call.named, mood |-> call.verb]
  BY <1>1 DEF Call, Mood
<1>3. policy' = [b EXCEPT !.clauses = Append(@, clause)]
  BY DEF Clausing
<1> HIDE DEF call, clause, fault
<1>4. b \in Builder /\ (b.err = NoError => b = policy)
  BY <1>1, RejectingWorks, RejectingIsNoted
<1> HIDE DEF b
<1>5. /\ policy'.layers = b.layers /\ policy'.declared = b.declared /\ policy'.err = b.err
      /\ policy'.clauses = Append(b.clauses, clause)
  BY <1>3, <1>4 DEF Builder
<1>6. CASE policy'.err = NoError
  <2>1. b = policy /\ LayersHold(policy, said) /\ ClausesHold(policy, said)
    BY <1>4, <1>5, <1>6 DEF PolicyHolds
  <2>2. LayersHold(policy', said')
    BY <1>1, <1>2, <1>5, <2>1, OtherCallsKeepLayers
  <2>3. ClausesHold(policy', said')
    BY <1>1, <1>2, <1>5, <2>1, ClausesJoin
  <2> QED
    BY <2>2, <2>3 DEF PolicyHolds
<1> QED
  BY <1>6 DEF PolicyHolds

\* While nothing is answered, nothing is claimed of an answer.
LEMMA NoAnswerYet == ASSUME IInv, stage # "checked", result' = result PROVE Answered'
BY DEF IInv, ResultAgrees, Unchecked, Answered

LEMMA CheckAnswers ==
  ASSUME IInv, NEW graph \in Project, NEW allowEmpty \in BOOLEAN, Check(graph, allowEmpty)
  PROVE  Answered'
<1>1. policy' = policy /\ said' = Append(said, [verb |-> "check", allowEmpty |-> allowEmpty])
  BY DEF Check, Say
<1>2. said'[Len(said')].allowEmpty = allowEmpty
  BY <1>1 DEF IInv, TypeOK
<1>3. CASE policy.err # NoError
  <2>1. result'.kind = "rejected"
    BY <1>3 DEF Check
  <2> QED
    BY <2>1 DEF Answered
<1>4. CASE policy.err = NoError
  <2>1. project' = graph
    BY <1>4 DEF Check
  <2>2. EmptyLayers(project.files)' = EmptyLayers(graph.files)
    BY <1>1, <2>1, SMT DEF LayerOf, Membership, EmptyLayers
  <2>3. Gathered(project.edges)' = Gathered(graph.edges)
    BY <1>1, <2>1, SMT DEF LayerOf, LayerPair, Projected, Gathered, BrokenClauses, Broken
  <2> DEFINE empty == EmptyLayers(graph.files)
             found == Gathered(graph.edges)
  <2>4. result' = IF empty # {} /\ ~allowEmpty THEN [kind |-> "empty", layers |-> empty]
                  ELSE [kind |-> "judged", broken |-> found]
    BY <1>4, Zenon DEF Check
  <2> HIDE DEF empty, found
  <2>5. CASE empty # {} /\ ~allowEmpty
    <3>1. result'.kind = "empty" /\ result'.layers = empty
      BY <2>4, <2>5
    <3> QED
      BY <1>1, <1>2, <1>4, <2>2, <2>5, <3>1 DEF Answered, empty
  <2>6. CASE ~(empty # {} /\ ~allowEmpty)
    <3>1. result'.kind = "judged" /\ result'.broken = found
      BY <2>4, <2>6
    <3> QED
      BY <1>1, <1>2, <1>4, <2>2, <2>3, <2>6, <3>1 DEF Answered, empty, found
  <2> QED
    BY <2>5, <2>6
<1> QED
  BY <1>3, <1>4

\* A policy holds its sentence whatever is said, and a check answers from it.
LEMMA SentenceIsHeld == Spec => [](PolicyHolds(policy, said) /\ Answered)
<1>1. Init => PolicyHolds(policy, said) /\ Answered
  <2> SUFFICES ASSUME Init PROVE PolicyHolds(policy, said) /\ Answered
    OBVIOUS
  <2>1. said = << >> /\ policy.layers = << >> /\ policy.clauses = << >> /\ result.kind = "none"
    BY DEF Init, Unchecked
  <2>2. Definitions(said) = {} /\ Clauses(said) = {}
    BY <2>1 DEF Definitions, Clauses
  <2>3. LayersHold(policy, said)
    BY <2>1, <2>2 DEF LayersHold
  <2>4. ClausesHold(policy, said)
    <3>1. Cardinality(Clauses(said)) = 0
      BY <2>2, FS_EmptySet, Zenon
    <3>2. Len(policy.clauses) = 0 /\ DOMAIN policy.clauses = {}
      BY <2>1
    <3> QED
      BY <2>2, <3>1, <3>2 DEF ClausesHold
  <2> QED
    BY <2>1, <2>3, <2>4 DEF PolicyHolds, Answered
<1>2. IInv /\ PolicyHolds(policy, said) /\ Answered /\ [Next]_vars => (PolicyHolds(policy, said) /\ Answered)'
  <2> SUFFICES ASSUME IInv, PolicyHolds(policy, said), Answered, [Next]_vars
               PROVE  PolicyHolds(policy', said') /\ Answered'
    BY Zenon DEF PolicyHolds
  <2>1. ASSUME NEW name \in Name, Layer(name) PROVE PolicyHolds(policy', said') /\ Answered'
    <3> DEFINE call == [verb |-> "layer", name |-> name]
    <3>1. call \in Call /\ call.verb \notin {"definedBy", "except"} /\ call.verb \notin Mood
      BY DEF Call, Mood
    <3>2. said' = Append(said, call) /\ (policy' = policy \/ policy' = Rejecting(policy))
      BY <2>1, Zenon DEF Layer, Say
    <3>3. stage # "checked" /\ result' = result
      BY <2>1 DEF Layer
    <3> HIDE DEF call
    <3> QED
      BY <3>1, <3>2, <3>3, OtherVerbsHold, NoAnswerYet
  <2>2. ASSUME NEW name \in Name, WhereLayer(name) PROVE PolicyHolds(policy', said') /\ Answered'
    <3> DEFINE call == [verb |-> "where", name |-> name]
    <3>1. call \in Call /\ call.verb \notin {"definedBy", "except"} /\ call.verb \notin Mood
      BY DEF Call, Mood
    <3>2. said' = Append(said, call) /\ (policy' = policy \/ policy' = Rejecting(policy))
      BY <2>2, Zenon DEF WhereLayer, Say
    <3>3. stage # "checked" /\ result' = result
      BY <2>2 DEF WhereLayer
    <3> HIDE DEF call
    <3> QED
      BY <3>1, <3>2, <3>3, OtherVerbsHold, NoAnswerYet
  <2>3. ASSUME NEW pattern \in Pattern, DefinedBy(pattern) PROVE PolicyHolds(policy', said') /\ Answered'
    <3>1. stage # "checked" /\ result' = result
      BY <2>3 DEF DefinedBy
    <3> QED
      BY <2>3, <3>1, DefinedByHolds, NoAnswerYet
  <2>4. ASSUME NEW patterns \in Exceptions, Except(patterns) PROVE PolicyHolds(policy', said') /\ Answered'
    <3>1. stage # "checked" /\ result' = result
      BY <2>4 DEF Except
    <3> QED
      BY <2>4, <3>1, ExceptHolds, NoAnswerYet
  <2>5. ASSUME NEW named \in SUBSET (Name \ {NoName}), NEW mood \in Mood, Clausing(named, mood)
        PROVE  PolicyHolds(policy', said') /\ Answered'
    <3>1. stage # "checked" /\ result' = result
      BY <2>5 DEF Clausing
    <3> QED
      BY <2>5, <3>1, ClausingHolds, NoAnswerYet
  <2>6. ASSUME NEW allowEmpty \in BOOLEAN, policy' = policy,
               said' = Append(said, [verb |-> "check", allowEmpty |-> allowEmpty])
        PROVE  PolicyHolds(policy', said')
    <3> DEFINE call == [verb |-> "check", allowEmpty |-> allowEmpty]
    <3>1. call \in Call /\ call.verb \notin {"definedBy", "except"} /\ call.verb \notin Mood
      BY DEF Call, Mood
    <3> HIDE DEF call
    <3>2. said' = Append(said, call)
      BY <2>6 DEF call
    <3> QED
      BY <2>6, <3>1, <3>2, OtherVerbsHold
  <2>7. ASSUME NEW graph \in Project, NEW allowEmpty \in BOOLEAN, Check(graph, allowEmpty)
        PROVE  PolicyHolds(policy', said') /\ Answered'
    <3>1. policy' = policy /\ said' = Append(said, [verb |-> "check", allowEmpty |-> allowEmpty])
      BY <2>7, Zenon DEF Check, Say
    <3> QED
      BY <2>6, <2>7, <3>1, CheckAnswers
  <2>8. ASSUME CheckFails PROVE PolicyHolds(policy', said') /\ Answered'
    <3>1. policy' = policy /\ said' = Append(said, [verb |-> "check", allowEmpty |-> FALSE])
      BY <2>8, Zenon DEF CheckFails, Say
    <3>2. result'.kind \in {"rejected", "failed"}
      BY <2>8 DEF CheckFails
    <3> QED
      BY <2>6, <3>1, <3>2 DEF Answered
  <2>9. ASSUME UNCHANGED vars PROVE PolicyHolds(policy', said') /\ Answered'
    <3>1. policy' = policy /\ said' = said /\ project' = project /\ result' = result
      BY <2>9 DEF vars
    <3>2. EmptyLayers(project.files)' = EmptyLayers(project.files)
      BY <3>1, SMT DEF LayerOf, Membership, EmptyLayers
    <3>3. Gathered(project.edges)' = Gathered(project.edges)
      BY <3>1, SMT DEF LayerOf, LayerPair, Projected, Gathered, BrokenClauses, Broken
    <3> QED
      BY <3>1, <3>2, <3>3 DEF Answered
  <2> QED
    BY <2>1, <2>2, <2>3, <2>4, <2>5, <2>7, <2>8, <2>9 DEF Next
<1> QED
  BY <1>1, <1>2, Invariance, PTL DEF Spec

\* A judged policy reports exactly what its sentence forbids, blames the clause a
\* reader would, and is not judged while a layer has no file, unless the caller
\* allowed it (LayersPolicyCondition.Check).
THEOREM PolicyIsItsSentence == Spec => []PolicyMeansItsSentence
<1>1. IInv /\ PolicyHolds(policy, said) /\ Answered => PolicyMeansItsSentence
  <2> SUFFICES ASSUME IInv, PolicyHolds(policy, said), Answered PROVE PolicyMeansItsSentence
    OBVIOUS
  <2> DEFINE names == Defined(said)
             nobody == {n \in names : \A f \in project.files : ~Belongs(f, n)}
             violations == {[pair |-> q, clause |-> Position(said, Blamed(q[1], q[2])),
                             edges |-> Crossing(project.edges, q[1], q[2])] :
                              q \in {p \in Crossed(project.edges) : Forbidding(p[1], p[2]) # {}}}
  <2>1. policy.err = NoError => Faithful
    BY DEF IInv, TypeOK, Agrees, PolicyHolds, Faithful
  <2>2. result.kind = "empty" =>
          result.layers = nobody /\ nobody # {} /\ ~said[Len(said)].allowEmpty
    BY <2>1, EmptyLayersMean DEF Answered
  <2>3. result.kind = "judged" =>
          (nobody = {} \/ said[Len(said)].allowEmpty) /\ result.broken = violations
    <3> HIDE DEF violations, nobody
    <3>1. policy.err = NoError => EmptyLayers(project.files) = nobody /\ Gathered(project.edges) = violations
      BY <2>1, EmptyLayersMean, GatheredMeans, Zenon DEF violations, nobody
    <3> QED
      BY <3>1, Zenon DEF Answered
  <2> DEFINE forbidding(s, t) == {i \in Clauses(said) : Forbids(i, s, t)}
             blamed(s, t) == LET blocklists == {i \in forbidding(s, t) : said[i].verb = "mayNot"}
                             IN  IF blocklists # {} THEN Min(blocklists) ELSE Min(forbidding(s, t))
  <2>4. violations
          = {[pair |-> q, clause |-> Position(said, blamed(q[1], q[2])),
              edges |-> Across(q[1], q[2])] :
               q \in {p \in names \X names : /\ p[1] # p[2] /\ Across(p[1], p[2]) # {}
                                             /\ forbidding(p[1], p[2]) # {}}}
    <3>1. \A s, t : forbidding(s, t) = Forbidding(s, t) /\ Across(s, t) = Crossing(project.edges, s, t)
      BY Zenon DEF Forbidding, Clauses, Across, Crossing
    <3>2. \A s, t : blamed(s, t) = Blamed(s, t)
      BY <3>1, Zenon DEF Blamed, Saying
    <3>3. {p \in Crossed(project.edges) : Forbidding(p[1], p[2]) # {}}
            = {p \in names \X names : /\ p[1] # p[2] /\ Across(p[1], p[2]) # {}
                                      /\ forbidding(p[1], p[2]) # {}}
      <4> HIDE DEF forbidding
      <4> QED
        BY <3>1, Zenon DEF Crossed
    <3> HIDE DEF forbidding, blamed
    <3> QED
      BY <3>1, <3>2, <3>3, Zenon
  <2> HIDE DEF violations
  <2> QED
    BY <2>2, <2>3, <2>4, Zenon DEF PolicyMeansItsSentence, Position, Clauses
<1> QED
  BY <1>1, SentenceIsHeld, Invariance, PTL

-----------------------------------------------------------------------------
(* Slices rules. *)

Word ==
  [verb : {"definedBy"}, slicing : Slicing] \cup [verb : {"should", "shouldNot"}]
  \cup [verb : {"contain"}, from : Slice, to : Slice] \cup [verb : {"adhere"}, text : Text]
  \cup [verb : {"adhereInFile"}, named : BOOLEAN] \cup [verb : {"orphans", "externals"}]

\* The diagrams a chain may carry.
Carried == {NoDiagram} \cup {ParseDiagram(t).diagram : t \in {u \in Text : ParseDiagram(u).kind = "read"}}

Predicate ==
  [verb : {"none"}] \cup [verb : {"contain"}, from : Slice, to : Slice]
  \cup [verb : {"adhere"}, file : BOOLEAN, diagram : Carried, orphans : BOOLEAN, externals : BOOLEAN]

Rules == [slicing : Compiled \cup {NoSlicing}, mood : {"none", "should", "shouldNot"},
          predicate : Predicate, err : Nat]

Typed ==
  /\ rule \in Rules
  /\ sliceStage \in {"slices", "mood", "rule", "resolved", "judging", "done"}
  /\ spoken \in Seq(Word)
  /\ judged \in SlicedProject \cup {NothingJudged}

\* Whether a word is a mistake, given whether a slicing was defined before it;
\* and the mistakes and the verbs of a chain, whichever one it is.
Wrong(word, sliced) ==
  CASE word.verb = "definedBy" -> sliced \/ word.slicing \notin Compiled
    [] word.verb \in {"should", "shouldNot"} -> ~sliced
    [] word.verb = "contain" -> word.from = word.to \/ Unnamed \in {word.from, word.to}
    [] word.verb = "adhere" -> ParseDiagram(word.text).kind # "read"
    [] word.verb = "adhereInFile" -> ~word.named
    [] word.verb \in {"orphans", "externals"} -> FALSE

WrongIn(s, i) == Wrong(s[i], \E j \in 1 .. i - 1 : s[j].verb = "definedBy")
Heard(s, verb) == \E i \in DOMAIN s : s[i].verb = verb

\* What the chain has come to is what was said: its error is the first mistake,
\* and without one it has the slicing, the mood and the predicate of its words.
FirstMistake(err, s) ==
  /\ err = 0 => \A i \in DOMAIN s : ~WrongIn(s, i)
  /\ err # 0 => /\ err \in DOMAIN s /\ WrongIn(s, err)
                /\ \A i \in DOMAIN s : WrongIn(s, i) => err <= i

SlicingIsSaid(r, s) ==
  r.err = 0 =>
    /\ r.slicing # NoSlicing => Heard(s, "definedBy")
    /\ \A i \in DOMAIN s : s[i].verb = "definedBy" => s[i].slicing = r.slicing

MoodIsSaid(r, s) == \A mood \in {"should", "shouldNot"} : r.mood = mood <=> Heard(s, mood)

PredicateIsSaid(predicate, s) ==
  /\ predicate.verb = "contain" <=> Heard(s, "contain")
  /\ \A i \in DOMAIN s :
       s[i].verb = "contain" => s[i].from = predicate.from /\ s[i].to = predicate.to
  /\ predicate.verb = "adhere" =>
       (predicate.orphans => Heard(s, "orphans")) /\ (predicate.externals => Heard(s, "externals"))

Means ==
  /\ FirstMistake(rule.err, spoken)
  /\ SlicingIsSaid(rule, spoken)
  /\ MoodIsSaid(rule, spoken)
  /\ PredicateIsSaid(rule.predicate, spoken)

\* What a stage has behind it.
Staged ==
  /\ sliceStage = "slices" => rule.mood = "none"
  /\ sliceStage # "slices" => rule.mood # "none" /\ (rule.err = 0 => rule.slicing # NoSlicing)
  /\ sliceStage \in {"slices", "mood"} => rule.predicate.verb = "none"
  /\ sliceStage \notin {"slices", "mood"} => rule.predicate.verb # "none"
  /\ sliceStage \in {"slices", "mood", "rule"} => judged = NothingJudged
  /\ sliceStage \in {"resolved", "judging"} => rule.err = 0

Verdict ==
  LET present == SlicesOf(rule.slicing, judged)
      dependencies == DependenciesBetween(rule.slicing, judged)
  IN  IF ~lenient /\ EmptyPopulations(present) # {} THEN EmptyTest(EmptyPopulations(present))
      ELSE Violations(IF rule.predicate.verb = "contain" THEN ContainFound(dependencies)
                      ELSE DiagramFound(judgedBy, dependencies, present))

SlicesAnswered ==
  /\ sliceStage # "done" => answer = Unanswered
  /\ sliceStage = "done" /\ rule.err # 0 => answer = Error(rule.err) /\ judged = NothingJudged
  /\ sliceStage = "done" /\ rule.err = 0 => answer.kind = "error" \/ answer = Verdict

SlicesIInv == Typed /\ Means /\ Staged /\ SlicesAnswered

-----------------------------------------------------------------------------
LEMMA WrongByVerb ==
  ASSUME NEW word, NEW sliced
  PROVE  /\ word.verb = "definedBy" => Wrong(word, sliced) = (sliced \/ word.slicing \notin Compiled)
         /\ word.verb \in {"should", "shouldNot"} => (Wrong(word, sliced) <=> ~sliced)
         /\ word.verb = "contain" =>
              Wrong(word, sliced) = (word.from = word.to \/ Unnamed \in {word.from, word.to})
         /\ word.verb = "adhere" => Wrong(word, sliced) = (ParseDiagram(word.text).kind # "read")
         /\ word.verb = "adhereInFile" => Wrong(word, sliced) = ~word.named
         /\ word.verb \in {"orphans", "externals"} => Wrong(word, sliced) = FALSE
BY DEF Wrong

LEMMA MistakesAreWrong ==
  /\ \A i : Mistake(i) = WrongIn(spoken, i)
  /\ \A verb : Spoke(verb) = Heard(spoken, verb)
<1>1. \A i : Mistake(i) = WrongIn(spoken, i)
  BY Zenon DEF Mistake, WrongIn, Wrong
<1>2. \A verb : Spoke(verb) = Heard(spoken, verb)
  BY Zenon DEF Spoke, Heard
<1>3. QED
  BY <1>1, <1>2

\* Another word leaves the ones before it as they were.
LEMMA WordsStay ==
  ASSUME NEW s \in Seq(Word), NEW w \in Word
  PROVE  LET t == Append(s, w)
             n == Len(s) + 1
         IN  /\ t \in Seq(Word) /\ n \in Nat \ {0} /\ t[n] = w
             /\ DOMAIN t = DOMAIN s \cup {n} /\ n \notin DOMAIN s
             /\ \A i \in DOMAIN s : t[i] = s[i] /\ i \in Nat \ {0} /\ i < n
             /\ \A i \in DOMAIN s : WrongIn(t, i) = WrongIn(s, i)
             /\ WrongIn(t, n) = Wrong(w, Heard(s, "definedBy"))
             /\ \A verb : Heard(t, verb) <=> Heard(s, verb) \/ w.verb = verb
<1> DEFINE t == Append(s, w)
           n == Len(s) + 1
<1>1. /\ t \in Seq(Word) /\ n \in Nat \ {0} /\ t[n] = w
      /\ DOMAIN t = DOMAIN s \cup {n} /\ n \notin DOMAIN s
      /\ \A i \in DOMAIN s : t[i] = s[i] /\ i \in Nat \ {0} /\ i < n
      /\ DOMAIN s = 1 .. n - 1
  OBVIOUS
<1> HIDE DEF t, n
<1>2. ASSUME NEW i \in DOMAIN s
      PROVE  WrongIn(t, i) = WrongIn(s, i)
  <2>1. \A j \in 1 .. i - 1 : j \in DOMAIN s
    BY <1>1
  <2>2. (\E j \in 1 .. i - 1 : t[j].verb = "definedBy") = (\E j \in 1 .. i - 1 : s[j].verb = "definedBy")
    BY <2>1, <1>1, Zenon
  <2>3. QED
    BY <2>2, <1>1, Zenon DEF WrongIn
<1>3. WrongIn(t, n) = Wrong(w, Heard(s, "definedBy"))
  <2>1. (\E j \in 1 .. n - 1 : t[j].verb = "definedBy") = Heard(s, "definedBy")
    BY <1>1, Zenon DEF Heard
  <2>2. QED
    BY <2>1, <1>1, Zenon DEF WrongIn
<1>4. \A verb : Heard(t, verb) <=> Heard(s, verb) \/ w.verb = verb
  BY <1>1, Zenon DEF Heard
<1>5. QED
  BY <1>1, <1>2, <1>3, <1>4 DEF t, n

-----------------------------------------------------------------------------
\* The chain keeps an error that is its first mistake.
LEMMA ErrorGrows ==
  ASSUME NEW s \in Seq(Word), NEW w \in Word, NEW err \in Nat, FirstMistake(err, s)
  PROVE  FirstMistake(IF err = 0 /\ Wrong(w, Heard(s, "definedBy")) THEN Len(s) + 1 ELSE err,
                      Append(s, w))
<1> DEFINE t == Append(s, w)
           n == Len(s) + 1
           bad == Wrong(w, Heard(s, "definedBy"))
<1>1. /\ n \in Nat \ {0} /\ DOMAIN t = DOMAIN s \cup {n}
      /\ \A i \in DOMAIN s : i \in Nat \ {0} /\ i < n
      /\ \A i \in DOMAIN s : WrongIn(t, i) = WrongIn(s, i)
      /\ WrongIn(t, n) = bad
  BY WordsStay
<1> HIDE DEF t, n, bad
<1>2. CASE err # 0
  <2>1. /\ err \in DOMAIN t /\ WrongIn(t, err)
        /\ \A i \in DOMAIN t : WrongIn(t, i) => err <= i
    <3>1. err \in DOMAIN s /\ WrongIn(s, err) /\ err < n
      BY <1>1, <1>2 DEF FirstMistake
    <3>2. \A i \in DOMAIN s : WrongIn(t, i) => err <= i
      BY <1>1, <1>2, Zenon DEF FirstMistake
    <3>3. err <= n
      BY <3>1, <1>1
    <3>4. QED
      BY <1>1, <3>1, <3>2, <3>3, Zenon
  <2>2. FirstMistake(err, t)
    BY <2>1, <1>2 DEF FirstMistake
  <2>3. QED
    BY <2>2, <1>2 DEF t, bad
<1>3. CASE err = 0 /\ bad
  <2>1. n \in DOMAIN t /\ WrongIn(t, n) /\ n # 0
    BY <1>1, <1>3
  <2>2. \A i \in DOMAIN s : ~WrongIn(t, i)
    BY <1>1, <1>3, Zenon DEF FirstMistake
  <2>3. \A i \in DOMAIN t : WrongIn(t, i) => n <= i
    BY <1>1, <2>2
  <2>4. FirstMistake(n, t)
    BY <2>1, <2>3 DEF FirstMistake
  <2>5. QED
    BY <2>4, <1>3 DEF t, n, bad
<1>4. CASE err = 0 /\ ~bad
  <2>1. \A i \in DOMAIN t : ~WrongIn(t, i)
    BY <1>1, <1>4, Zenon DEF FirstMistake
  <2>2. FirstMistake(err, t)
    BY <2>1, <1>4 DEF FirstMistake
  <2>3. QED
    BY <2>2, <1>4 DEF t, bad
<1>5. QED
  BY <1>2, <1>3, <1>4

\* A slicing is asked for exactly once it was defined, if nothing was rejected.
LEMMA SlicingIsKnown ==
  ASSUME NEW s \in Seq(Word), NEW r, r.err = 0, SlicingIsSaid(r, s), NoSlicing \notin Slicing
  PROVE  Heard(s, "definedBy") <=> r.slicing # NoSlicing
<1>1. SUFFICES ASSUME NEW i \in DOMAIN s, s[i].verb = "definedBy"
               PROVE  r.slicing # NoSlicing
  BY DEF SlicingIsSaid, Heard
<1>2. s[i] \in Word
  BY <1>1
<1>3. s[i].slicing \in Slicing
  BY <1>1, <1>2 DEF Word
<1>4. QED
  BY <1>1, <1>3 DEF SlicingIsSaid

\* A word that is not about what a part of the rule remembers leaves that part.
LEMMA PartsStay ==
  ASSUME NEW s \in Seq(Word), NEW w \in Word, NEW r
  PROVE  /\ w.verb # "definedBy" /\ SlicingIsSaid(r, s) => SlicingIsSaid(r, Append(s, w))
         /\ w.verb \notin {"should", "shouldNot"} /\ MoodIsSaid(r, s) => MoodIsSaid(r, Append(s, w))
         /\ w.verb # "contain" /\ PredicateIsSaid(r, s) => PredicateIsSaid(r, Append(s, w))
<1> DEFINE t == Append(s, w)
           n == Len(s) + 1
<1>1. /\ t[n] = w /\ DOMAIN t = DOMAIN s \cup {n}
      /\ \A i \in DOMAIN s : t[i] = s[i]
      /\ \A verb : Heard(t, verb) <=> Heard(s, verb) \/ w.verb = verb
  BY WordsStay
<1> HIDE DEF t, n
<1>2. w.verb # "definedBy" /\ SlicingIsSaid(r, s) => SlicingIsSaid(r, t)
  BY <1>1, Zenon DEF SlicingIsSaid
<1>3. w.verb \notin {"should", "shouldNot"} /\ MoodIsSaid(r, s) => MoodIsSaid(r, t)
  BY <1>1, Zenon DEF MoodIsSaid
<1>4. w.verb # "contain" /\ PredicateIsSaid(r, s) => PredicateIsSaid(r, t)
  BY <1>1, Zenon DEF PredicateIsSaid
<1>5. QED
  BY <1>2, <1>3, <1>4 DEF t

-----------------------------------------------------------------------------
\* What one verb has to show: the word it says, and the parts of the rule it
\* comes to.
LEMMA ChainGrows ==
  ASSUME SlicesIInv, sliceStage # "done", NEW w \in Word, NEW r \in Rules, NEW next,
         spoken' = Append(spoken, w), rule' = r, sliceStage' = next, Building,
         r.err = IF rule.err = 0 /\ Wrong(w, Heard(spoken, "definedBy")) THEN Len(spoken) + 1 ELSE rule.err,
         SlicingIsSaid(r, Append(spoken, w)), MoodIsSaid(r, Append(spoken, w)),
         PredicateIsSaid(r.predicate, Append(spoken, w)),
         next \in {"slices", "mood", "rule"},
         next = "slices" => r.mood = "none",
         next # "slices" => r.mood # "none" /\ (r.err = 0 => r.slicing # NoSlicing),
         (next \in {"slices", "mood"}) = (r.predicate.verb = "none"),
         sliceStage \in {"slices", "mood", "rule"}
  PROVE  SlicesIInv'
<1>1. Append(spoken, w) \in Seq(Word)
  BY WordsStay DEF SlicesIInv, Typed
<1>2. Typed'
  BY <1>1 DEF SlicesIInv, Typed, Rules, Building
<1>3. Means'
  <2>1. rule.err \in Nat /\ FirstMistake(rule.err, spoken) /\ spoken \in Seq(Word)
    BY DEF SlicesIInv, Typed, Rules, Means
  <2>2. FirstMistake(r.err, Append(spoken, w))
    BY <2>1, ErrorGrows
  <2>3. QED
    BY <2>2 DEF Means
<1>4. Staged'
  BY DEF SlicesIInv, Staged, Building
<1>5. SlicesAnswered'
  BY DEF SlicesIInv, SlicesAnswered, Building
<1>6. QED
  BY <1>2, <1>3, <1>4, <1>5 DEF SlicesIInv

LEMMA SlicesDefinedByKeeps ==
  ASSUME SlicesIInv, NoSlicing \notin Slicing, NEW slicing \in Slicing, SlicesDefinedBy(slicing)
  PROVE  SlicesIInv'
<1> DEFINE w == [verb |-> "definedBy", slicing |-> slicing]
           refused == rule.slicing # NoSlicing \/ slicing \notin Compiled
<1>1. w \in Word /\ w.verb = "definedBy" /\ w.slicing = slicing
  BY DEF Word
<1>2. /\ spoken \in Seq(Word) /\ rule \in Rules /\ rule.err \in Nat /\ Len(spoken) \in Nat
      /\ SlicingIsSaid(rule, spoken) /\ MoodIsSaid(rule, spoken) /\ PredicateIsSaid(rule.predicate, spoken)
      /\ sliceStage = "slices" /\ rule.mood = "none" /\ rule.predicate.verb = "none"
  BY DEF SlicesIInv, Typed, Rules, Means, Staged, SlicesDefinedBy
<1>3. PICK r : r = rule' 
  OBVIOUS
<1>4. r \in Rules /\ r.mood = rule.mood /\ r.predicate = rule.predicate
  BY <1>2, <1>3 DEF SlicesDefinedBy, SlicesRejecting, Rules
<1>5. /\ r.err = IF rule.err = 0 /\ refused THEN Len(spoken) + 1 ELSE rule.err
      /\ rule.err = 0 /\ ~refused => r.slicing = slicing
  BY <1>2, <1>3 DEF SlicesDefinedBy, SlicesRejecting, Rules
<1>6. rule.err = 0 => (refused <=> Wrong(w, Heard(spoken, "definedBy")))
  BY <1>1, <1>2, SlicingIsKnown, WrongByVerb
<1>7. r.err = IF rule.err = 0 /\ Wrong(w, Heard(spoken, "definedBy")) THEN Len(spoken) + 1 ELSE rule.err
  BY <1>5, <1>6
<1>8. SlicingIsSaid(r, Append(spoken, w))
  <2>1. SUFFICES ASSUME r.err = 0
                 PROVE  SlicingIsSaid(r, Append(spoken, w))
    BY DEF SlicingIsSaid
  <2>2. rule.err = 0 /\ ~refused
    BY <2>1, <1>2, <1>5
  <2>3. r.slicing = slicing /\ ~Heard(spoken, "definedBy")
    BY <2>2, <1>2, <1>5, SlicingIsKnown
  <2>4. Heard(Append(spoken, w), "definedBy")
    BY <1>1, <1>2, WordsStay
  <2>5. \A i \in DOMAIN Append(spoken, w) : 
          Append(spoken, w)[i].verb = "definedBy" => Append(spoken, w)[i].slicing = slicing
    BY <1>1, <1>2, <2>3, WordsStay DEF Heard
  <2>6. QED
    BY <2>3, <2>4, <2>5 DEF SlicingIsSaid
<1>9. MoodIsSaid(r, Append(spoken, w)) /\ PredicateIsSaid(r.predicate, Append(spoken, w))
  <2>1. MoodIsSaid(rule, Append(spoken, w)) /\ PredicateIsSaid(rule.predicate, Append(spoken, w))
    BY <1>1, <1>2, PartsStay
  <2>2. QED
    BY <2>1, <1>4 DEF MoodIsSaid
<1>10. spoken' = Append(spoken, w) /\ sliceStage' = "slices" /\ Building /\ rule' = r
  BY <1>2, <1>3 DEF SlicesDefinedBy, Speak
<1>11. QED
  BY <1>1, <1>2, <1>4, <1>7, <1>8, <1>9, <1>10, ChainGrows

LEMMA MoodsKeeps ==
  ASSUME SlicesIInv, NoSlicing \notin Slicing, NEW mood \in {"should", "shouldNot"}, Moods(mood)
  PROVE  SlicesIInv'
<1> DEFINE w == [verb |-> mood]
           refused == rule.slicing = NoSlicing
<1>1. w \in Word /\ w.verb = mood /\ w.verb \in {"should", "shouldNot"} /\ w.verb # "definedBy"
      /\ w.verb # "contain"
  BY DEF Word
<1>2. /\ spoken \in Seq(Word) /\ rule \in Rules /\ rule.err \in Nat /\ Len(spoken) \in Nat
      /\ SlicingIsSaid(rule, spoken) /\ MoodIsSaid(rule, spoken) /\ PredicateIsSaid(rule.predicate, spoken)
      /\ sliceStage = "slices" /\ rule.mood = "none" /\ rule.predicate.verb = "none"
  BY DEF SlicesIInv, Typed, Rules, Means, Staged, Moods
<1>3. PICK r : r = rule'
  OBVIOUS
<1>4. r \in Rules /\ r.mood = mood /\ r.predicate = rule.predicate /\ r.slicing = rule.slicing
  BY <1>2, <1>3 DEF Moods, SlicesRejecting, Rules
<1>5. r.err = IF rule.err = 0 /\ refused THEN Len(spoken) + 1 ELSE rule.err
  BY <1>2, <1>3 DEF Moods, SlicesRejecting, Rules
<1>6. rule.err = 0 => (refused <=> Wrong(w, Heard(spoken, "definedBy")))
  <2>1. Wrong(w, Heard(spoken, "definedBy")) <=> ~Heard(spoken, "definedBy")
    BY <1>1, WrongByVerb
  <2>2. QED
    BY <2>1, <1>2, SlicingIsKnown
<1>7. r.err = IF rule.err = 0 /\ Wrong(w, Heard(spoken, "definedBy")) THEN Len(spoken) + 1 ELSE rule.err
  BY <1>5, <1>6
<1>8. r.err = 0 => rule.err = 0 /\ r.slicing # NoSlicing
  BY <1>2, <1>4, <1>5
<1>9. SlicingIsSaid(r, Append(spoken, w)) /\ PredicateIsSaid(r.predicate, Append(spoken, w))
  <2>1. SlicingIsSaid(rule, Append(spoken, w)) /\ PredicateIsSaid(rule.predicate, Append(spoken, w))
    BY <1>1, <1>2, PartsStay
  <2>2. QED
    BY <2>1, <1>4, <1>8 DEF SlicingIsSaid
<1>10. MoodIsSaid(r, Append(spoken, w))
  <2>1. \A verb : Heard(Append(spoken, w), verb) <=> Heard(spoken, verb) \/ w.verb = verb
    BY <1>1, <1>2, WordsStay
  <2>2. \A m \in {"should", "shouldNot"} : ~Heard(spoken, m)
    BY <1>2 DEF MoodIsSaid
  <2>3. QED
    BY <1>1, <1>4, <2>1, <2>2 DEF MoodIsSaid
<1>11. spoken' = Append(spoken, w) /\ sliceStage' = "mood" /\ Building /\ rule' = r
  BY <1>2, <1>3 DEF Moods, Speak
<1>12. QED
  BY <1>1, <1>2, <1>4, <1>7, <1>8, <1>9, <1>10, <1>11, ChainGrows

\* The verbs that end a sentence: the predicate says what the word says.
LEMMA PredicateIsChosen ==
  ASSUME SlicesIInv, sliceStage = "mood", NEW w \in Word, w.verb \in {"contain", "adhere", "adhereInFile"},
         NEW r \in Rules, r.mood = rule.mood, r.slicing = rule.slicing, r.predicate.verb # "none",
         r.err = IF rule.err = 0 /\ Wrong(w, Heard(spoken, "definedBy")) THEN Len(spoken) + 1 ELSE rule.err,
         (r.predicate.verb = "contain") = (w.verb = "contain"),
         w.verb = "contain" => w.from = r.predicate.from /\ w.to = r.predicate.to,
         r.predicate.verb = "adhere" => ~r.predicate.orphans /\ ~r.predicate.externals,
         spoken' = Append(spoken, w), sliceStage' = "rule", Building, rule' = r
  PROVE  SlicesIInv'
<1>1. /\ spoken \in Seq(Word) /\ rule \in Rules /\ rule.err \in Nat /\ Len(spoken) \in Nat
      /\ SlicingIsSaid(rule, spoken) /\ MoodIsSaid(rule, spoken) /\ PredicateIsSaid(rule.predicate, spoken)
      /\ rule.predicate.verb = "none"
      /\ rule.mood # "none" /\ (rule.err = 0 => rule.slicing # NoSlicing)
  BY DEF SlicesIInv, Typed, Rules, Means, Staged
<1>2. r.err = 0 => rule.err = 0
  BY <1>1
<1>3. SlicingIsSaid(r, Append(spoken, w)) /\ MoodIsSaid(r, Append(spoken, w))
  <2>1. SlicingIsSaid(rule, Append(spoken, w)) /\ MoodIsSaid(rule, Append(spoken, w))
    BY <1>1, PartsStay
  <2>2. QED
    BY <2>1, <1>2 DEF SlicingIsSaid, MoodIsSaid
<1>4. PredicateIsSaid(r.predicate, Append(spoken, w))
  <2>1. /\ \A verb : Heard(Append(spoken, w), verb) <=> Heard(spoken, verb) \/ w.verb = verb
        /\ DOMAIN Append(spoken, w) = DOMAIN spoken \cup {Len(spoken) + 1}
        /\ Append(spoken, w)[Len(spoken) + 1] = w
        /\ \A i \in DOMAIN spoken : Append(spoken, w)[i] = spoken[i]
    BY <1>1, WordsStay
  <2>2. \A i \in DOMAIN spoken : spoken[i].verb # "contain"
    BY <1>1, Zenon DEF PredicateIsSaid, Heard
  <2>3. ~Heard(spoken, "contain")
    BY <2>2, Zenon DEF Heard
  <2>4. \A i \in DOMAIN Append(spoken, w) : Append(spoken, w)[i].verb = "contain" =>
          Append(spoken, w)[i].from = r.predicate.from /\ Append(spoken, w)[i].to = r.predicate.to
    BY <2>1, <2>2
  <2>5. QED
    BY <2>1, <2>3, <2>4 DEF PredicateIsSaid
<1>5. QED
  BY <1>1, <1>2, <1>3, <1>4, ChainGrows

LEMMA ContainDependencyKeeps ==
  ASSUME SlicesIInv, NEW from \in Slice, NEW to \in Slice, ContainDependency(from, to)
  PROVE  SlicesIInv'
<1> DEFINE w == [verb |-> "contain", from |-> from, to |-> to]
           refused == from = Unnamed \/ to = Unnamed \/ from = to
           predicate == [verb |-> "contain", from |-> from, to |-> to]
<1>1. w \in Word /\ w.verb = "contain" /\ w.from = from /\ w.to = to
  BY DEF Word
<1>2. rule \in Rules /\ rule.err \in Nat /\ Len(spoken) \in Nat /\ sliceStage = "mood"
  BY DEF SlicesIInv, Typed, Rules, ContainDependency
<1>3. predicate \in Predicate
  BY DEF Predicate
<1>4. PICK r : r = rule'
  OBVIOUS
<1>5. /\ r \in Rules /\ r.mood = rule.mood /\ r.predicate = predicate /\ r.slicing = rule.slicing
      /\ r.err = IF rule.err = 0 /\ refused THEN Len(spoken) + 1 ELSE rule.err
  BY <1>2, <1>3, <1>4 DEF ContainDependency, SlicesRejecting, Rules
<1>6. refused <=> Wrong(w, Heard(spoken, "definedBy"))
  <2>1. Wrong(w, Heard(spoken, "definedBy")) = (w.from = w.to \/ Unnamed \in {w.from, w.to})
    BY <1>1, WrongByVerb
  <2>2. QED
    BY <2>1
<1>7. r.err = IF rule.err = 0 /\ Wrong(w, Heard(spoken, "definedBy")) THEN Len(spoken) + 1 ELSE rule.err
  BY <1>5, <1>6
<1>8. spoken' = Append(spoken, w) /\ sliceStage' = "rule" /\ Building /\ rule' = r
  BY <1>4 DEF ContainDependency, Speak
<1>9. QED
  BY <1>1, <1>2, <1>5, <1>7, <1>8, PredicateIsChosen

LEMMA AdhereToDiagramKeeps ==
  ASSUME SlicesIInv, NEW text \in Text, AdhereToDiagram(text)
  PROVE  SlicesIInv'
<1> DEFINE w == [verb |-> "adhere", text |-> text]
           refused == ParseDiagram(text).kind # "read"
           predicate == Adherence(FALSE, IF refused THEN NoDiagram ELSE ParseDiagram(text).diagram)
<1>1. w \in Word /\ w.verb = "adhere" /\ w.text = text
  BY DEF Word
<1>2. rule \in Rules /\ rule.err \in Nat /\ Len(spoken) \in Nat /\ sliceStage = "mood"
  BY DEF SlicesIInv, Typed, Rules, AdhereToDiagram
<1>3. /\ predicate \in Predicate /\ predicate.verb = "adhere"
      /\ ~predicate.orphans /\ ~predicate.externals
  BY DEF Predicate, Adherence, Carried
<1>4. PICK r : r = rule'
  OBVIOUS
<1>5. r = [IF refused THEN SlicesRejecting(rule) ELSE rule EXCEPT !.predicate = predicate]
  BY <1>4 DEF AdhereToDiagram
<1> HIDE DEF predicate, refused
<1>6. /\ r \in Rules /\ r.mood = rule.mood /\ r.predicate = predicate /\ r.slicing = rule.slicing
      /\ r.err = IF rule.err = 0 /\ refused THEN Len(spoken) + 1 ELSE rule.err
  BY <1>2, <1>3, <1>5 DEF SlicesRejecting, Rules
<1>7. refused <=> Wrong(w, Heard(spoken, "definedBy"))
  <2>1. Wrong(w, Heard(spoken, "definedBy")) = (ParseDiagram(w.text).kind # "read")
    BY <1>1, WrongByVerb
  <2>2. QED
    BY <2>1, <1>1 DEF refused
<1>8. r.err = IF rule.err = 0 /\ Wrong(w, Heard(spoken, "definedBy")) THEN Len(spoken) + 1 ELSE rule.err
  BY <1>6, <1>7
<1>9. spoken' = Append(spoken, w) /\ sliceStage' = "rule" /\ Building /\ rule' = r
  BY <1>4 DEF AdhereToDiagram, Speak
<1>10. QED
  BY <1>1, <1>2, <1>3, <1>6, <1>8, <1>9, PredicateIsChosen

LEMMA AdhereToDiagramInFileKeeps ==
  ASSUME SlicesIInv, NEW named \in BOOLEAN, AdhereToDiagramInFile(named)
  PROVE  SlicesIInv'
<1> DEFINE w == [verb |-> "adhereInFile", named |-> named]
           predicate == Adherence(named, NoDiagram)
<1>1. w \in Word /\ w.verb = "adhereInFile" /\ w.named = named
  BY DEF Word
<1>2. rule \in Rules /\ rule.err \in Nat /\ Len(spoken) \in Nat /\ sliceStage = "mood"
  BY DEF SlicesIInv, Typed, Rules, AdhereToDiagramInFile
<1>3. /\ predicate \in Predicate /\ predicate.verb = "adhere"
      /\ ~predicate.orphans /\ ~predicate.externals
  BY DEF Predicate, Adherence, Carried
<1>4. PICK r : r = rule'
  OBVIOUS
<1>5. r = [IF named THEN rule ELSE SlicesRejecting(rule) EXCEPT !.predicate = predicate]
  BY <1>4 DEF AdhereToDiagramInFile
<1> HIDE DEF predicate
<1>6. /\ r \in Rules /\ r.mood = rule.mood /\ r.predicate = predicate /\ r.slicing = rule.slicing
      /\ r.err = IF rule.err = 0 /\ ~named THEN Len(spoken) + 1 ELSE rule.err
  BY <1>2, <1>3, <1>5 DEF SlicesRejecting, Rules
<1>7. Wrong(w, Heard(spoken, "definedBy")) = ~w.named
  BY <1>1, WrongByVerb
<1>8. r.err = IF rule.err = 0 /\ Wrong(w, Heard(spoken, "definedBy")) THEN Len(spoken) + 1 ELSE rule.err
  BY <1>1, <1>6, <1>7
<1>9. spoken' = Append(spoken, w) /\ sliceStage' = "rule" /\ Building /\ rule' = r
  BY <1>4 DEF AdhereToDiagramInFile, Speak
<1>10. QED
  BY <1>1, <1>2, <1>3, <1>6, <1>8, <1>9, PredicateIsChosen

\* IgnoringOrphanSlices and IgnoringExternalSlices.
LEMMA IgnoringKeeps ==
  ASSUME SlicesIInv, IgnoringOrphanSlices \/ IgnoringExternalSlices
  PROVE  SlicesIInv'
<1> DEFINE Modified(verb, r) ==
             /\ spoken' = Append(spoken, [verb |-> verb]) /\ sliceStage' = "rule" /\ Building /\ rule' = r
             /\ r \in Rules /\ r.mood = rule.mood /\ r.slicing = rule.slicing /\ r.err = rule.err
             /\ r.predicate.verb = "adhere"
             /\ verb \in {"orphans", "externals"}
             /\ r.predicate.orphans => rule.predicate.orphans \/ verb = "orphans"
             /\ r.predicate.externals => rule.predicate.externals \/ verb = "externals"
<1>1. /\ spoken \in Seq(Word) /\ rule \in Rules /\ rule.err \in Nat /\ Len(spoken) \in Nat
      /\ SlicingIsSaid(rule, spoken) /\ MoodIsSaid(rule, spoken) /\ PredicateIsSaid(rule.predicate, spoken)
      /\ sliceStage = "rule" /\ rule.predicate.verb = "adhere"
      /\ rule.mood # "none" /\ (rule.err = 0 => rule.slicing # NoSlicing)
  BY DEF SlicesIInv, Typed, Rules, Means, Staged, IgnoringOrphanSlices, IgnoringExternalSlices
<1>2. rule.predicate \in [verb : {"adhere"}, file : BOOLEAN, diagram : Carried, orphans : BOOLEAN,
                          externals : BOOLEAN]
  BY <1>1 DEF Rules, Predicate
<1>3. PICK verb, r : Modified(verb, r)
  <2>1. CASE IgnoringOrphanSlices
    <3>1. Modified("orphans", [rule EXCEPT !.predicate.orphans = TRUE])
      BY <2>1, <1>1, <1>2 DEF IgnoringOrphanSlices, Speak, Rules, Predicate
    <3>2. QED
      BY <3>1
  <2>2. CASE IgnoringExternalSlices
    <3>1. Modified("externals", [rule EXCEPT !.predicate.externals = TRUE])
      BY <2>2, <1>1, <1>2 DEF IgnoringExternalSlices, Speak, Rules, Predicate
    <3>2. QED
      BY <3>1
  <2>3. QED
    BY <2>1, <2>2
<1> DEFINE w == [verb |-> verb]
<1>4. w \in Word /\ w.verb = verb /\ w.verb \in {"orphans", "externals"}
  BY <1>3 DEF Word
<1>5. Wrong(w, Heard(spoken, "definedBy")) = FALSE
  BY <1>4, WrongByVerb
<1>6. r.err = IF rule.err = 0 /\ Wrong(w, Heard(spoken, "definedBy")) THEN Len(spoken) + 1 ELSE rule.err
  BY <1>3, <1>5
<1>7. SlicingIsSaid(r, Append(spoken, w)) /\ MoodIsSaid(r, Append(spoken, w))
  <2>1. SlicingIsSaid(rule, Append(spoken, w)) /\ MoodIsSaid(rule, Append(spoken, w))
    BY <1>1, <1>4, PartsStay
  <2>2. QED
    BY <2>1, <1>3 DEF SlicingIsSaid, MoodIsSaid
<1>8. PredicateIsSaid(r.predicate, Append(spoken, w))
  <2>1. /\ \A v : Heard(Append(spoken, w), v) <=> Heard(spoken, v) \/ w.verb = v
        /\ DOMAIN Append(spoken, w) = DOMAIN spoken \cup {Len(spoken) + 1}
        /\ Append(spoken, w)[Len(spoken) + 1] = w
        /\ \A i \in DOMAIN spoken : Append(spoken, w)[i] = spoken[i]
    BY <1>1, <1>4, WordsStay
  <2>2. ~Heard(spoken, "contain")
    BY <1>1 DEF PredicateIsSaid
  <2>3. ~Heard(Append(spoken, w), "contain")
    BY <2>1, <2>2, <1>4
  <2>4. \A i \in DOMAIN Append(spoken, w) : Append(spoken, w)[i].verb # "contain"
    BY <2>3, Zenon DEF Heard
  <2>5. /\ r.predicate.orphans => Heard(Append(spoken, w), "orphans")
        /\ r.predicate.externals => Heard(Append(spoken, w), "externals")
    BY <1>1, <1>3, <1>4, <2>1 DEF PredicateIsSaid
  <2>6. QED
    BY <1>3, <2>3, <2>4, <2>5 DEF PredicateIsSaid
<1>9. QED
  BY <1>1, <1>3, <1>4, <1>6, <1>7, <1>8, ChainGrows

-----------------------------------------------------------------------------
\* Check, and the file.
LEMMA VerdictStays ==
  ASSUME UNCHANGED <<rule, judged, lenient, judgedBy>>
  PROVE  Verdict' = Verdict
BY DEF Verdict, SlicesOf, DependenciesBetween, Sliced, EmptyPopulations, ContainFound, DiagramFound,
       Orphaned, EmptyTest, Violations

LEMMA MeansStays ==
  ASSUME Typed, Means, UNCHANGED <<rule, spoken>>
  PROVE  Means'
BY DEF Means

LEMMA ResolveKeeps ==
  ASSUME SlicesIInv, NEW p \in SlicedProject, NEW allowed \in BOOLEAN, Resolve(p, allowed)
  PROVE  SlicesIInv'
<1>1. UNCHANGED <<rule, spoken>> /\ sliceStage = "rule" /\ judged' \in {judged, p}
      /\ sliceStage' \in {"resolved", "done"}
  BY DEF Resolve, Checking
<1>2. Typed'
  BY <1>1 DEF SlicesIInv, Typed
<1>3. Means'
  BY <1>1, MeansStays DEF SlicesIInv
<1>4. Staged'
  BY DEF SlicesIInv, Staged, Resolve, Checking
<1>5. SlicesAnswered'
  BY DEF SlicesIInv, SlicesAnswered, Staged, Resolve, Checking, Error
<1>6. QED
  BY <1>2, <1>3, <1>4, <1>5 DEF SlicesIInv

LEMMA ResolveFailsKeeps ==
  ASSUME SlicesIInv, ResolveFails
  PROVE  SlicesIInv'
<1>1. UNCHANGED <<rule, spoken>> /\ sliceStage = "rule" /\ UNCHANGED judged
      /\ sliceStage' = "done"
  BY DEF ResolveFails, Checking
<1>2. Typed'
  BY <1>1 DEF SlicesIInv, Typed
<1>3. Means'
  BY <1>1, MeansStays DEF SlicesIInv
<1>4. Staged'
  BY DEF SlicesIInv, Staged, ResolveFails, Checking
<1>5. SlicesAnswered'
  BY DEF SlicesIInv, SlicesAnswered, Staged, ResolveFails, Checking, Error
<1>6. QED
  BY <1>2, <1>3, <1>4, <1>5 DEF SlicesIInv

LEMMA DrawingKeeps ==
  ASSUME SlicesIInv, Drawing
  PROVE  SlicesIInv'
<1>1. UNCHANGED <<rule, spoken, judged>> /\ sliceStage = "resolved"
  BY DEF Drawing, Checking
<1>2. \/ sliceStage' = "done" /\ answer' \in {Error("read"), Error("no diagram")}
      \/ sliceStage' = "judging" /\ UNCHANGED answer
  BY DEF Drawing
<1>3. Typed'
  BY <1>1, <1>2 DEF SlicesIInv, Typed
<1>4. Means'
  BY <1>1, MeansStays DEF SlicesIInv
<1>5. Staged'
  BY <1>1, <1>2 DEF SlicesIInv, Staged
<1>6. SlicesAnswered'
  <2>1. sliceStage' = "done" => answer'.kind = "error"
    <3>1. Error("read").kind = "error" /\ Error("no diagram").kind = "error"
      BY DEF Error
    <3>2. QED
      BY <1>2, <3>1
  <2>2. rule.err = 0
    BY <1>1 DEF SlicesIInv, Staged
  <2>3. QED
    BY <1>1, <1>2, <2>1, <2>2 DEF SlicesIInv, SlicesAnswered
<1>7. QED
  BY <1>3, <1>4, <1>5, <1>6 DEF SlicesIInv

LEMMA JudgeKeeps ==
  ASSUME SlicesIInv, Judge
  PROVE  SlicesIInv'
<1>1. UNCHANGED <<rule, spoken, judged, lenient, judgedBy>> /\ sliceStage = "judging" /\ sliceStage' = "done"
  BY DEF Judge, Checking
<1>2. answer' = Verdict
  BY Zenon DEF Judge, Verdict
<1>3. Typed'
  BY <1>1 DEF SlicesIInv, Typed
<1>4. Means'
  BY <1>1, MeansStays DEF SlicesIInv
<1>5. Staged'
  BY <1>1 DEF SlicesIInv, Staged
<1>6. SlicesAnswered'
  <2>1. Verdict' = Verdict
    BY <1>1, VerdictStays
  <2>2. QED
    BY <1>1, <1>2, <2>1 DEF SlicesIInv, SlicesAnswered, Staged
<1>7. QED
  BY <1>3, <1>4, <1>5, <1>6 DEF SlicesIInv

\* A write to the file, and a step that is none.
LEMMA WritingKeeps ==
  ASSUME SlicesIInv, UNCHANGED <<rule, sliceStage, spoken, judged, lenient, judgedBy, answer>>
  PROVE  SlicesIInv'
<1>1. Typed' /\ Staged'
  BY DEF SlicesIInv, Typed, Staged
<1>2. Means'
  BY MeansStays DEF SlicesIInv
<1>3. SlicesAnswered'
  <2>1. Verdict' = Verdict
    BY VerdictStays
  <2>2. QED
    BY <2>1 DEF SlicesIInv, SlicesAnswered
<1>4. QED
  BY <1>1, <1>2, <1>3 DEF SlicesIInv

\* What the chain has come to is what was said, and the answer is the verdict on
\* it, whatever the texts, the projects and the order of the calls.
THEOREM ChainIsWhatWasSaid == SlicesSpec => []SlicesIInv
<1>1. SlicesInit => SlicesIInv
  <2> SUFFICES ASSUME SlicesInit PROVE SlicesIInv
    OBVIOUS
  <2>1. rule \in Rules
    BY DEF SlicesInit, Rules, NoPredicate, Predicate
  <2>2. spoken \in Seq(Word) /\ DOMAIN spoken = {} /\ ~(\E verb : Heard(spoken, verb))
    BY DEF SlicesInit, Heard
  <2>3. Typed
    BY <2>1, <2>2 DEF SlicesInit, Typed, Rules
  <2>4. Means
    BY <2>2 DEF SlicesInit, Means, FirstMistake, SlicingIsSaid, MoodIsSaid, PredicateIsSaid, NoPredicate
  <2>5. Staged /\ SlicesAnswered
    BY DEF SlicesInit, Staged, SlicesAnswered, NoPredicate
  <2>6. QED
    BY <2>3, <2>4, <2>5 DEF SlicesIInv
<1>2. SlicesIInv /\ [SlicesNext]_sliceVars => SlicesIInv'
  <2> SUFFICES ASSUME SlicesIInv, [SlicesNext]_sliceVars PROVE SlicesIInv'
    OBVIOUS
  <2>1. NoSlicing \notin Slicing
    BY SlicingAssumption
  <2>2. CASE \E s \in Slicing : SlicesDefinedBy(s)
    BY <2>1, <2>2, SlicesDefinedByKeeps
  <2>3. CASE \E m \in {"should", "shouldNot"} : Moods(m)
    BY <2>1, <2>3, MoodsKeeps
  <2>4. CASE \E from, to \in Slice : ContainDependency(from, to)
    BY <2>4, ContainDependencyKeeps
  <2>5. CASE \E t \in Text : AdhereToDiagram(t)
    BY <2>5, AdhereToDiagramKeeps
  <2>6. CASE \E named \in BOOLEAN : AdhereToDiagramInFile(named)
    BY <2>6, AdhereToDiagramInFileKeeps
  <2>7. CASE IgnoringOrphanSlices \/ IgnoringExternalSlices
    BY <2>7, IgnoringKeeps
  <2>8. CASE (\E p \in SlicedProject, allowed \in BOOLEAN : Resolve(p, allowed)) \/ ResolveFails
    <3>1. CASE \E p \in SlicedProject, allowed \in BOOLEAN : Resolve(p, allowed)
      BY <3>1, ResolveKeeps
    <3>2. CASE ResolveFails
      BY <3>2, ResolveFailsKeeps
    <3>3. QED
      BY <2>8, <3>1, <3>2
  <2>9. CASE Drawing
    BY <2>9, DrawingKeeps
  <2>10. CASE Judge
    BY <2>10, JudgeKeeps
  <2>11. CASE \E t \in Text : EditDiagram(t)
    BY <2>11, WritingKeeps, Zenon DEF EditDiagram, FileHolds
  <2>12. CASE \E s \in Compiled, p \in SlicedProject :
                ExportTorn(s, p) \/ \E allowed \in BOOLEAN : ExportAsPlantUML(s, p, allowed)
    <3>1. UNCHANGED <<rule, sliceStage, spoken, judged, lenient, judgedBy, answer>>
      BY <2>12, Zenon DEF ExportTorn, ExportAsPlantUML, FileHolds
    <3>2. QED
      BY <3>1, WritingKeeps
  <2>13. CASE UNCHANGED sliceVars
    BY <2>13, WritingKeeps DEF sliceVars
  <2>14. QED
    BY <2>2, <2>3, <2>4, <2>5, <2>6, <2>7, <2>8, <2>9, <2>10, <2>11, <2>12, <2>13, Zenon DEF SlicesNext
<1>3. QED
  BY <1>1, <1>2, PTL DEF SlicesSpec

-----------------------------------------------------------------------------
\* A rule names the file its chain names; and a check reads it while it runs.
FileIsSaid(predicate, s) ==
  \A i \in DOMAIN s :
    s[i].verb = "adhereInFile" => predicate.verb = "adhere" /\ predicate.file = s[i].named

ReadWhileChecking ==
  \E lines \in onDisk \ {Missing} : ParseDiagram(lines).kind = "read" /\ ParseDiagram(lines).diagram = judgedBy

FileIInv ==
  /\ FileIsSaid(rule.predicate, spoken)
  /\ sliceStage = "resolved" => disk \in onDisk
  /\ /\ sliceStage = "judging" \/ answer.kind = "violations"
     /\ rule.predicate.verb = "adhere" /\ rule.predicate.file
     => ReadWhileChecking

\* One more word, and the predicate it leaves the rule with.
LEMMA FileGrows ==
  ASSUME SlicesIInv, FileIInv, NEW w \in Word, NEW r, spoken' = Append(spoken, w), rule' = r, Building,
         sliceStage # "done", sliceStage' \notin {"resolved", "judging"},
         w.verb = "adhereInFile" => r.predicate.verb = "adhere" /\ r.predicate.file = w.named,
         rule.predicate.verb = "adhere" => r.predicate.verb = "adhere" /\ r.predicate.file = rule.predicate.file
  PROVE  FileIInv'
<1>1. /\ DOMAIN spoken' = DOMAIN spoken \cup {Len(spoken) + 1} /\ spoken'[Len(spoken) + 1] = w
      /\ \A i \in DOMAIN spoken : spoken'[i] = spoken[i]
  BY WordsStay DEF SlicesIInv, Typed
<1>2. FileIsSaid(r.predicate, spoken')
  BY <1>1 DEF FileIInv, FileIsSaid
<1>3. answer' = Unanswered
  BY DEF SlicesIInv, SlicesAnswered, Building
<1> QED
  BY <1>2, <1>3 DEF FileIInv, Unanswered

LEMMA ChainKeepsTheFile ==
  ASSUME SlicesIInv, FileIInv,
         \/ \E s \in Slicing : SlicesDefinedBy(s)
         \/ \E m \in {"should", "shouldNot"} : Moods(m)
         \/ \E from, to \in Slice : ContainDependency(from, to)
         \/ \E t \in Text : AdhereToDiagram(t)
         \/ \E named \in BOOLEAN : AdhereToDiagramInFile(named)
         \/ IgnoringOrphanSlices \/ IgnoringExternalSlices
  PROVE  FileIInv'
<1>1. /\ rule \in Rules /\ Len(spoken) + 1 \in Nat
      /\ sliceStage \in {"slices", "mood"} => rule.predicate.verb = "none"
  BY WordsStay DEF SlicesIInv, Typed, Staged
<1>2. SlicesRejecting(rule) \in Rules /\ SlicesRejecting(rule).predicate = rule.predicate
  BY <1>1 DEF SlicesRejecting, Rules
<1>3. ASSUME NEW s \in Slicing, SlicesDefinedBy(s) PROVE FileIInv'
  <2> DEFINE w == [verb |-> "definedBy", slicing |-> s]
  <2>1. w \in Word /\ w.verb = "definedBy"
    BY DEF Word
  <2>2. rule'.predicate = rule.predicate
    BY <1>1, <1>2, <1>3 DEF SlicesDefinedBy, Rules
  <2>3. spoken' = Append(spoken, w) /\ Building /\ sliceStage = "slices" /\ sliceStage' = "slices"
    BY <1>3 DEF SlicesDefinedBy, Speak
  <2> QED
    BY <2>1, <2>2, <2>3, FileGrows
<1>4. ASSUME NEW m \in {"should", "shouldNot"}, Moods(m) PROVE FileIInv'
  <2> DEFINE w == [verb |-> m]
  <2>1. w \in Word /\ w.verb # "adhereInFile"
    BY DEF Word
  <2>2. rule'.predicate = rule.predicate
    BY <1>1, <1>2, <1>4 DEF Moods, Rules
  <2>3. spoken' = Append(spoken, w) /\ Building /\ sliceStage = "slices" /\ sliceStage' = "mood"
    BY <1>4 DEF Moods, Speak
  <2> QED
    BY <2>1, <2>2, <2>3, FileGrows
<1>5. ASSUME NEW from \in Slice, NEW to \in Slice, ContainDependency(from, to) PROVE FileIInv'
  <2> DEFINE w == [verb |-> "contain", from |-> from, to |-> to]
  <2>1. w \in Word /\ w.verb = "contain"
    BY DEF Word
  <2>2. spoken' = Append(spoken, w) /\ Building /\ sliceStage = "mood" /\ sliceStage' = "rule"
    BY <1>5 DEF ContainDependency, Speak
  <2> QED
    BY <1>1, <2>1, <2>2, FileGrows
<1>6. ASSUME NEW t \in Text, AdhereToDiagram(t) PROVE FileIInv'
  <2> DEFINE w == [verb |-> "adhere", text |-> t]
  <2>1. w \in Word /\ w.verb = "adhere"
    BY DEF Word
  <2>2. spoken' = Append(spoken, w) /\ Building /\ sliceStage = "mood" /\ sliceStage' = "rule"
    BY <1>6 DEF AdhereToDiagram, Speak
  <2> QED
    BY <1>1, <2>1, <2>2, FileGrows
<1>7. ASSUME NEW named \in BOOLEAN, AdhereToDiagramInFile(named) PROVE FileIInv'
  <2> DEFINE w == [verb |-> "adhereInFile", named |-> named]
  <2>1. w \in Word /\ w.named = named
    BY DEF Word
  <2>2. spoken' = Append(spoken, w) /\ Building /\ sliceStage = "mood" /\ sliceStage' = "rule"
    BY <1>7 DEF AdhereToDiagramInFile, Speak
  <2>3. rule'.predicate = Adherence(named, NoDiagram)
    BY <1>1, <1>2, <1>7 DEF AdhereToDiagramInFile, Rules
  <2>4. rule'.predicate.verb = "adhere" /\ rule'.predicate.file = named
    BY <2>3 DEF Adherence
  <2> QED
    BY <1>1, <2>1, <2>2, <2>4, FileGrows
<1>8. ASSUME IgnoringOrphanSlices \/ IgnoringExternalSlices PROVE FileIInv'
  <2>1. PICK verb \in {"orphans", "externals"} : spoken' = Append(spoken, [verb |-> verb])
    BY <1>8 DEF IgnoringOrphanSlices, IgnoringExternalSlices, Speak
  <2> DEFINE w == [verb |-> verb]
  <2>2. w \in Word /\ w.verb # "adhereInFile"
    BY DEF Word
  <2>3. Building /\ sliceStage = "rule" /\ sliceStage' = "rule" /\ rule.predicate.verb = "adhere"
    BY <1>8 DEF IgnoringOrphanSlices, IgnoringExternalSlices
  <2>4. rule.predicate \in [verb : {"adhere"}, file : BOOLEAN, diagram : Carried, orphans : BOOLEAN,
                            externals : BOOLEAN]
    BY <1>1, <2>3 DEF Rules, Predicate
  <2>5. rule'.predicate.verb = "adhere" /\ rule'.predicate.file = rule.predicate.file
    BY <1>1, <1>8, <2>4 DEF IgnoringOrphanSlices, IgnoringExternalSlices, Rules
  <2> QED
    BY <2>1, <2>2, <2>3, <2>5, FileGrows
<1> QED
  BY <1>3, <1>4, <1>5, <1>6, <1>7, <1>8

\* Whoever writes meanwhile: what the file held at its reading stays recorded.
LEMMA WritingKeepsTheFile ==
  ASSUME FileIInv, UNCHANGED <<rule, sliceStage, spoken, judgedBy, answer>>, onDisk \subseteq onDisk',
         sliceStage = "resolved" => disk' \in onDisk'
  PROVE  FileIInv'
BY DEF FileIInv, ReadWhileChecking

LEMMA FileHoldsKeeps ==
  ASSUME FileIInv, NEW lines, FileHolds(lines)
  PROVE  FileIInv'
<1>1. UNCHANGED <<rule, sliceStage, spoken, judgedBy, answer>> /\ onDisk \subseteq onDisk'
  BY DEF FileHolds
<1>2. sliceStage = "resolved" => disk' \in onDisk'
  BY DEF FileHolds
<1> QED
  BY <1>1, <1>2, WritingKeepsTheFile

\* The drawing that is judged by is what the file held when it was read.
LEMMA DrawingReadsTheFile ==
  ASSUME SlicesIInv, FileIInv, Drawing
  PROVE  FileIInv'
<1>1. /\ UNCHANGED <<rule, spoken, disk, onDisk>> /\ sliceStage = "resolved" /\ sliceStage' \in {"done", "judging"}
      /\ answer = Unanswered /\ disk \in onDisk
  BY DEF Drawing, Checking, SlicesIInv, SlicesAnswered, FileIInv
<1>2. answer'.kind # "violations"
  <2>1. answer' \in {Error("read"), Error("no diagram"), Unanswered}
    BY <1>1 DEF Drawing
  <2>2. Error("read").kind = "error" /\ Error("no diagram").kind = "error" /\ Unanswered.kind # "violations"
    BY DEF Error, Unanswered
  <2> QED
    BY <2>1, <2>2
<1>3. ASSUME sliceStage' = "judging", rule.predicate.verb = "adhere", rule.predicate.file
      PROVE  disk # Missing /\ ParseDiagram(disk).kind = "read" /\ judgedBy' = ParseDiagram(disk).diagram
  BY <1>3 DEF Drawing
<1>4. sliceStage' = "judging" => (rule.predicate.verb = "adhere" /\ rule.predicate.file => ReadWhileChecking')
  BY <1>1, <1>3 DEF ReadWhileChecking
<1> QED
  BY <1>1, <1>2, <1>4 DEF FileIInv

\* What a rule about a file is judged by is what the file held while it was checked.
THEOREM FilesAreReadWhenChecked == SlicesSpec => []FileIInv
<1>1. SlicesInit => FileIInv
  BY DEF SlicesInit, FileIInv, FileIsSaid, Unanswered
<1>2. SlicesIInv /\ FileIInv /\ [SlicesNext]_sliceVars => FileIInv'
  <2> SUFFICES ASSUME SlicesIInv, FileIInv, [SlicesNext]_sliceVars PROVE FileIInv'
    OBVIOUS
  <2>1. CASE \/ \E s \in Slicing : SlicesDefinedBy(s)
             \/ \E m \in {"should", "shouldNot"} : Moods(m)
             \/ \E from, to \in Slice : ContainDependency(from, to)
             \/ \E t \in Text : AdhereToDiagram(t)
             \/ \E named \in BOOLEAN : AdhereToDiagramInFile(named)
             \/ IgnoringOrphanSlices \/ IgnoringExternalSlices
    BY <2>1, ChainKeepsTheFile
  <2>2. ASSUME NEW p \in SlicedProject, NEW allowed \in BOOLEAN, Resolve(p, allowed) PROVE FileIInv'
    <3>1. UNCHANGED <<rule, spoken, disk>> /\ answer = Unanswered
      BY <2>2 DEF Resolve, Checking, SlicesIInv, SlicesAnswered
    <3>2. /\ sliceStage' \in {"done", "resolved"} /\ answer'.kind # "violations"
          /\ sliceStage' = "resolved" => disk' \in onDisk'
      BY <2>2, <3>1 DEF Resolve, Error, Unanswered
    <3> QED
      BY <3>1, <3>2 DEF FileIInv
  <2>3. ASSUME ResolveFails PROVE FileIInv'
    <3>1. UNCHANGED <<rule, spoken>> /\ sliceStage' = "done" /\ answer'.kind # "violations"
      BY <2>3 DEF ResolveFails, Checking, Error
    <3> QED
      BY <3>1 DEF FileIInv
  <2>4. CASE Drawing
    BY <2>4, DrawingReadsTheFile
  <2>5. CASE Judge
    <3>1. UNCHANGED <<rule, spoken, judgedBy, onDisk>> /\ sliceStage = "judging" /\ sliceStage' = "done"
      BY <2>5 DEF Judge, Checking
    <3> QED
      BY <3>1 DEF FileIInv, ReadWhileChecking
  <2>6. ASSUME NEW t \in Text, EditDiagram(t) PROVE FileIInv'
    BY <2>6, FileHoldsKeeps DEF EditDiagram
  <2>7. ASSUME NEW s \in Compiled, NEW p \in SlicedProject,
               ExportTorn(s, p) \/ \E allowed \in BOOLEAN : ExportAsPlantUML(s, p, allowed)
        PROVE  FileIInv'
    <3>1. \E lines : FileHolds(lines)
      BY <2>7, Zenon DEF ExportTorn, ExportAsPlantUML
    <3> QED
      BY <3>1, FileHoldsKeeps
  <2>8. CASE UNCHANGED sliceVars
    BY <2>8, WritingKeepsTheFile DEF sliceVars, FileIInv
  <2> QED
    BY <2>1, <2>2, <2>3, <2>4, <2>5, <2>6, <2>7, <2>8, Zenon DEF SlicesNext
<1> QED
  BY <1>1, <1>2, ChainIsWhatWasSaid, PTL DEF SlicesSpec

-----------------------------------------------------------------------------
\* A chain with a mistake is answered with its first one, and any other about
\* two slices as its sentence reads (SlicesBuilder.rejecting, Check,
\* GatherDependencyViolations): for any slicing, any project and any chain.
THEOREM VerdictsAreSentences == SlicesSpec => []VerdictIsTheSentence
<1>1. SlicesIInv => VerdictIsTheSentence
  <2> SUFFICES ASSUME SlicesIInv, sliceStage = "done" PROVE VerdictIsTheSentence
    BY DEF VerdictIsTheSentence
  <2> DEFINE mistakes == {i \in DOMAIN spoken : Mistake(i)}
             word == The("contain")
             cut == Cut[The("definedBy").slicing]
             held == Reaches(cut, word.from, word.to)
             populated(slice) == \E f \in judged.files \cap DOMAIN cut : cut[f] = slice
  <2>1. /\ spoken \in Seq(Word) /\ rule \in Rules /\ rule.err \in Nat
        /\ FirstMistake(rule.err, spoken) /\ SlicingIsSaid(rule, spoken) /\ MoodIsSaid(rule, spoken)
        /\ PredicateIsSaid(rule.predicate, spoken)
        /\ rule.err = 0 => rule.slicing # NoSlicing
    BY DEF SlicesIInv, Typed, Rules, Means, Staged
  <2>2. \A i \in DOMAIN spoken : i \in mistakes <=> WrongIn(spoken, i)
    BY MistakesAreWrong
  <2>3. CASE rule.err # 0
    <3>1. /\ rule.err \in mistakes
          /\ \A i \in mistakes : rule.err <= i
      BY <2>1, <2>2, <2>3 DEF FirstMistake
    <3>2. \A i \in mistakes : i \in Nat
      BY <2>1
    <3> HIDE DEF mistakes
    <3>3. \A i \in mistakes : (\A j \in mistakes : i <= j) => i = rule.err
      BY <3>1, <3>2
    <3>4. rule.err = CHOOSE i \in mistakes : \A j \in mistakes : i <= j
      BY <3>1, <3>3, Zenon
    <3>5. judged = NothingJudged /\ answer = Error(rule.err) /\ mistakes # {}
      BY <2>3, <3>1 DEF SlicesIInv, SlicesAnswered
    <3>6. QED
      BY <3>4, <3>5, Zenon DEF VerdictIsTheSentence, mistakes
  <2>4. CASE rule.err = 0
    <3>1. mistakes = {}
      BY <2>1, <2>2, <2>4, Zenon DEF FirstMistake
    <3>2. SUFFICES ASSUME Spoke("contain"), answer.kind # "error"
                   PROVE  IF ~lenient /\ ~(populated(word.from) /\ populated(word.to))
                          THEN answer.kind = "empty"
                          ELSE /\ answer.kind = "violations"
                               /\ (answer.found = {}) = (held = Spoke("should"))
      <4> HIDE DEF mistakes
      <4>1. QED
        BY <3>1, Zenon DEF VerdictIsTheSentence, mistakes
    <3>3. answer = Verdict
      BY <2>4, <3>2 DEF SlicesIInv, SlicesAnswered
    <3>4. /\ rule.predicate.verb = "contain"
          /\ word.from = rule.predicate.from /\ word.to = rule.predicate.to
          /\ word.from # word.to
      <4>1. Heard(spoken, "contain")
        BY <3>2, MistakesAreWrong
      <4>2. PICK i \in DOMAIN spoken : spoken[i].verb = "contain" /\ word = spoken[i]
        BY <4>1, Zenon DEF Heard, The
      <4>3. ~WrongIn(spoken, i)
        BY <2>1, <2>4 DEF FirstMistake
      <4>4. spoken[i].from # spoken[i].to
        BY <4>2, <4>3, WrongByVerb DEF WrongIn
      <4>5. QED
        BY <4>1, <4>2, <4>4, <2>1 DEF PredicateIsSaid
    <3>5. cut = Cut[rule.slicing]
      <4>1. Heard(spoken, "definedBy")
        BY <2>1, <2>4 DEF SlicingIsSaid
      <4>2. PICK i \in DOMAIN spoken : spoken[i].verb = "definedBy" /\ The("definedBy") = spoken[i]
        BY <4>1, Zenon DEF Heard, The
      <4>3. QED
        BY <4>2, <2>1, <2>4 DEF SlicingIsSaid
    <3>6. Spoke("should") <=> rule.mood = "should"
      BY <2>1, MistakesAreWrong DEF MoodIsSaid
    <3> HIDE DEF word, cut
    <3> DEFINE from == rule.predicate.from
               to == rule.predicate.to
               present == SlicesOf(rule.slicing, judged)
               dependencies == DependenciesBetween(rule.slicing, judged)
               pair == [from |-> from, to |-> to]
    <3>7. \A slice : populated(slice) <=> slice \in present
      BY <3>5, Zenon DEF SlicesOf, Sliced
    <3>8. held <=> pair \in dependencies
      <4>1. held <=> \E e \in judged.edges :
                        /\ ~e.external /\ {e.source, e.target} \subseteq DOMAIN cut
                        /\ cut[e.source] = from /\ cut[e.target] = to
        BY <3>4 DEF Reaches
      <4>2. pair \in dependencies <=> \E e \in judged.edges :
                        /\ ~e.external /\ {e.source, e.target} \subseteq DOMAIN cut
                        /\ cut[e.source] # cut[e.target]
                        /\ pair = [from |-> cut[e.source], to |-> cut[e.target]]
        BY <3>5 DEF DependenciesBetween, Sliced
      <4>3. QED
        BY <4>1, <4>2, <3>4
    <3>9. EmptyPopulations(present) # {} <=> ~(populated(from) /\ populated(to))
      BY <3>4, <3>7 DEF EmptyPopulations
    <3>10. answer = IF ~lenient /\ EmptyPopulations(present) # {} THEN EmptyTest(EmptyPopulations(present))
                    ELSE Violations(ContainFound(dependencies))
      BY <3>3, <3>4, Zenon DEF Verdict
    <3>11. ContainFound(dependencies) = {} <=> (pair \in dependencies <=> rule.mood = "should")
      BY DEF ContainFound
    <3> HIDE DEF present, dependencies, pair, held, populated
    <3>12. CASE ~lenient /\ EmptyPopulations(present) # {}
      BY <3>4, <3>9, <3>10, <3>12 DEF EmptyTest
    <3>13. CASE ~(~lenient /\ EmptyPopulations(present) # {})
      <4>1. answer.kind = "violations" /\ answer.found = ContainFound(dependencies)
        BY <3>10, <3>13 DEF Violations
      <4>2. answer.found = {} <=> (held <=> Spoke("should"))
        BY <4>1, <3>6, <3>8, <3>11, Zenon
      <4>3. held \in BOOLEAN /\ Spoke("should") \in BOOLEAN
        BY Zenon DEF held, Reaches, Spoke
      <4>4. (answer.found = {}) = (held = Spoke("should"))
        BY <4>2, <4>3
      <4>5. QED
        BY <4>1, <4>4, <3>4, <3>9, <3>13
    <3>14. QED
      BY <3>12, <3>13
  <2>5. QED
    BY <2>3, <2>4
<1>2. QED
  BY <1>1, ChainIsWhatWasSaid, PTL

\* No dependency between slices goes unmentioned by a judgement of a drawing,
\* and one with no modifiers passes only where the drawing has the project's
\* slices and no others (GatherDiagramViolations): for any drawing, which is what
\* a named file held while the check ran (drawing).
THEOREM DependenciesAreAccountedFor == SlicesSpec => []EveryDependencyIsAccountedFor
<1>1. SlicesIInv /\ FileIInv => EveryDependencyIsAccountedFor
  <2> SUFFICES ASSUME SlicesIInv, FileIInv, answer.kind = "violations", rule.predicate.verb = "adhere"
               PROVE  EveryDependencyIsAccountedFor
    BY DEF EveryDependencyIsAccountedFor
  <2> DEFINE present == SlicesOf(rule.slicing, judged)
             dependencies == DependenciesBetween(rule.slicing, judged)
  <2>1. sliceStage = "done" /\ rule.err = 0 /\ answer = Verdict
    BY DEF SlicesIInv, SlicesAnswered, Unanswered, Error
  <2>2. answer.found = DiagramFound(judgedBy, dependencies, present)
    BY <2>1 DEF Verdict, EmptyTest, Violations
  <2>3. rule.predicate.orphans => Spoke("orphans")
    BY MistakesAreWrong DEF SlicesIInv, Means, PredicateIsSaid
  <2>4. rule.predicate.externals => Spoke("externals")
    BY MistakesAreWrong DEF SlicesIInv, Means, PredicateIsSaid
  <2>5. \A d \in dependencies : d.from \in present /\ d.to \in present
    <3>1. \A e \in judged.edges : e.source \in judged.files /\ (e.external \/ e.target \in judged.files)
      BY SlicingAssumption DEF SlicesIInv, Typed, NothingJudged
    <3>2. QED
      BY <3>1 DEF DependenciesBetween, SlicesOf
  <2> HIDE DEF present, dependencies
  <2> DEFINE undrawn(d) == [finding |-> "undrawn"] @@ d
             undeclared(s) == [finding |-> "undeclared", name |-> s]
             absent(c) == [finding |-> "absent", name |-> c]
  <2>6. \A d \in dependencies :
          Shows(judgedBy, d.from) /\ Shows(judgedBy, d.to) /\ ~Draws(judgedBy, d.from, d.to)
          => undrawn(d) \in answer.found
    BY <2>2, Zenon DEF DiagramFound
  <2>7. \A s \in present :
          ~Shows(judgedBy, s) /\ ~(rule.predicate.orphans /\ Orphaned(s, dependencies))
          => undeclared(s) \in answer.found
    BY <2>2, Zenon DEF DiagramFound
  <2>8. ~rule.predicate.externals =>
          \A c \in judgedBy.components \ present : absent(c) \in answer.found
    BY <2>2, Zenon DEF DiagramFound
  <2> HIDE DEF undrawn, undeclared, absent
  <2>9. ASSUME NEW d \in dependencies
        PROVE  \/ d \in judgedBy.dependencies
               \/ undrawn(d) \in answer.found
               \/ \E end \in {d.from, d.to} : undeclared(end) \in answer.found
    <3>1. CASE \E end \in {d.from, d.to} : ~Shows(judgedBy, end)
      <4>1. PICK end \in {d.from, d.to} : ~Shows(judgedBy, end)
        BY <3>1
      <4>2. end \in present /\ ~Orphaned(end, dependencies)
        BY <4>1, <2>5 DEF Orphaned
      <4>3. QED
        BY <4>1, <4>2, <2>7
    <3>2. CASE \A end \in {d.from, d.to} : Shows(judgedBy, end)
      <4>1. Draws(judgedBy, d.from, d.to) => d \in judgedBy.dependencies
        <5>1. d = [from |-> d.from, to |-> d.to]
          BY DEF dependencies, DependenciesBetween
        <5>2. QED
          BY <5>1, Zenon DEF Draws
      <4>2. QED
        BY <4>1, <3>2, <2>6
    <3>3. QED
      BY <3>1, <3>2
  <2>10. ASSUME answer.found = {}, ~Spoke("orphans"), ~Spoke("externals")
         PROVE  judgedBy.components = present
    <3>1. \A s \in present : Shows(judgedBy, s)
      BY <2>3, <2>7, <2>10
    <3>2. \A c \in judgedBy.components : c \in present
      BY <2>4, <2>8, <2>10
    <3>3. QED
      BY <3>1, <3>2, Zenon DEF Shows
  <2>11. ASSUME Spoke("adhereInFile") PROVE ReadWhileChecking
    <3>1. PICK i \in DOMAIN spoken : spoken[i].verb = "adhereInFile"
      BY <2>11 DEF Spoke
    <3>2. ~WrongIn(spoken, i)
      BY <2>1 DEF SlicesIInv, Means, FirstMistake
    <3>3. spoken[i].named
      BY <3>1, <3>2, WrongByVerb DEF WrongIn
    <3> QED
      BY <3>1, <3>3 DEF FileIInv, FileIsSaid
  <2>12. QED
    BY <2>9, <2>10, <2>11, Zenon
       DEF EveryDependencyIsAccountedFor, ReadWhileChecking, undrawn, undeclared, present, dependencies
<1>2. QED
  BY <1>1, ChainIsWhatWasSaid, FilesAreReadWhenChecked, PTL
================================================================================
