--------------------------- MODULE FilesRulesProofs ---------------------------
(***************************************************************************)
(* Proofs about FilesRules, for any patterns, files, graphs and any number *)
(* of stages: stages are well formed and keep what they were made with,    *)
(* the error a rule reports is the first mistake of its chain, and without *)
(* one what it reports is what its sentence says of the graph it judged.   *)
(***************************************************************************)
EXTENDS FilesRules, DigraphProofs

\* Whether an except typed now would have a select to speak of.
Open(s) == \E j \in Selects(s) : \A k \in j .. Len(s) : s[k].verb \notin Moody

LEMMA AppendWorks ==
  ASSUME NEW S, NEW seq \in Seq(S), NEW e \in S
  PROVE  /\ Append(seq, e) \in Seq(S) /\ Append(seq, e) # << >>
         /\ Len(Append(seq, e)) = Len(seq) + 1
         /\ Len(seq) \in Nat
         /\ DOMAIN seq = 1 .. Len(seq)
         /\ DOMAIN Append(seq, e) = DOMAIN seq \cup {Len(seq) + 1}
         /\ Len(seq) + 1 \notin DOMAIN seq
         /\ Append(seq, e)[Len(seq) + 1] = e
         /\ \A i \in DOMAIN seq : Append(seq, e)[i] = seq[i]
OBVIOUS

\* Another call changes neither the calls before it nor their mistakes; it may be
\* a mistake itself, start a clause or end one.
LEMMA SaidGrows ==
  ASSUME NEW s \in Seq(Call), NEW call \in Call
  PROVE  LET t == Append(s, call)
             n == Len(s) + 1
         IN  /\ t \in Seq(Call) /\ Len(t) = n /\ t[n] = call
             /\ Mistakes(t) = Mistakes(s) \cup (IF Mistaken(t, n) THEN {n} ELSE {})
             /\ call.verb = "select" => Open(t)
             /\ call.verb \in Moody => ~Open(t)
             /\ call.verb \notin Moody \cup {"select"} => (Open(t) <=> Open(s))
             /\ call.verb = "except" => (Qualifies(t, n) <=> Open(s))
<1> DEFINE t == Append(s, call)
           n == Len(s) + 1
<1>1. /\ t \in Seq(Call) /\ Len(t) = n /\ t[n] = call
      /\ DOMAIN t = DOMAIN s \cup {n} /\ n \notin DOMAIN s
      /\ \A i \in DOMAIN s : t[i] = s[i] /\ i \in Nat /\ i < n
      /\ n \in Nat /\ Len(s) = n - 1 /\ DOMAIN s = 1 .. n - 1 /\ n > 0
  BY AppendWorks
<1> HIDE DEF t, n
<1>2. Selects(t) = Selects(s) \cup (IF call.verb = "select" THEN {n} ELSE {})
  BY <1>1 DEF Selects
<1>3. Selects(s) \subseteq DOMAIN s
  BY DEF Selects
<1>4. \A i \in DOMAIN s : Qualifies(t, i) = Qualifies(s, i)
  <2> TAKE i \in DOMAIN s
  <2>1. \A j \in Selects(t) : j < i => j \in Selects(s)
    BY <1>1, <1>2
  <2>2. \A j \in Selects(s) : j < i => \A k \in j .. i : k \in DOMAIN s /\ t[k] = s[k]
    BY <1>1, <1>3
  <2> QED
    BY <2>1, <2>2, <1>2 DEF Qualifies
<1>5. \A i \in DOMAIN s : Mistaken(t, i) = Mistaken(s, i)
  BY <1>1, <1>4 DEF Mistaken
<1>6. Mistakes(t) = Mistakes(s) \cup (IF Mistaken(t, n) THEN {n} ELSE {})
  BY <1>1, <1>5 DEF Mistakes
<1>7. ASSUME call.verb = "select" PROVE Open(t)
  <2>1. n \in Selects(t) /\ \A k \in n .. Len(t) : k = n
    BY <1>1, <1>2, <1>7
  <2> QED
    BY <1>1, <1>7, <2>1 DEF Open, Moody
<1>8. \A j \in Selects(s) : /\ j .. Len(t) = (j .. Len(s)) \cup {n}
                            /\ j .. n = (j .. Len(s)) \cup {n}
                            /\ \A k \in j .. Len(s) : t[k] = s[k]
  BY <1>1, <1>3
<1>9. ASSUME call.verb \in Moody PROVE ~Open(t)
  <2>1. Selects(t) = Selects(s)
    BY <1>2, <1>9 DEF Moody
  <2> QED
    BY <1>1, <1>8, <1>9, <2>1 DEF Open
<1>10. ASSUME call.verb \notin Moody \cup {"select"} PROVE (Open(t) <=> Open(s))
  <2>1. Selects(t) = Selects(s)
    BY <1>2, <1>10
  <2> QED
    BY <1>1, <1>8, <1>10, <2>1 DEF Open
<1>11. ASSUME call.verb = "except" PROVE (Qualifies(t, n) <=> Open(s))
  <2>1. Selects(t) = Selects(s) /\ call.verb \notin Moody
    BY <1>2, <1>11 DEF Moody
  <2>2. \A j \in Selects(s) : j < n
    BY <1>1, <1>3
  <2> QED
    BY <1>1, <1>8, <2>1, <2>2 DEF Open, Qualifies
<1>12. n = Len(s) + 1 /\ t = Append(s, call)
  BY DEF n, t
<1> QED
  BY <1>1, <1>6, <1>7, <1>9, <1>10, <1>11, <1>12

-----------------------------------------------------------------------------
\* Arrays.

InHeap(slice, heap) ==
  \/ slice = Nil
  \/ slice.array \in DOMAIN heap /\ slice.len \in 1 .. Len(heap[slice.array])

\* A heap with every array there was, as it was.
Grows(heap) ==
  /\ heap \in Seq(Seq(Selector))
  /\ \A a \in DOMAIN arrays : a \in DOMAIN heap /\ heap[a] = arrays[a]

LEMMA AllocatedWorks ==
  ASSUME arrays \in Seq(Seq(Selector)), NEW elements \in Seq(Selector), elements # << >>
  PROVE  LET a == Allocated(elements)
         IN  /\ Grows(a.arrays)
             /\ a.slice \in Slice /\ a.slice.len > 0 /\ InHeap(a.slice, a.arrays)
<1>1. Append(arrays, elements) \in Seq(Seq(Selector)) /\ Len(arrays) + 1 \in Nat
  BY AppendWorks
<1>2. Len(elements) \in Nat \ {0}
  OBVIOUS
<1> QED
  BY <1>1, <1>2, AppendWorks DEF Allocated, Grows, InHeap, Slice

LEMMA ElementsWork ==
  ASSUME arrays \in Seq(Seq(Selector)), NEW slice \in Slice, InHeap(slice, arrays)
  PROVE  /\ Elements(slice) \in Seq(Selector)
         /\ Len(Elements(slice)) = slice.len
<1>1. CASE slice = Nil
  BY <1>1 DEF Elements, Nil
<1>2. CASE slice # Nil
  <2>1. slice.array \in DOMAIN arrays /\ slice.len \in 1 .. Len(arrays[slice.array])
    BY <1>2 DEF InHeap
  <2>2. slice.array # 0 /\ arrays[slice.array] \in Seq(Selector)
    BY <2>1
  <2> QED
    BY <2>1, <2>2 DEF Elements
<1> QED
  BY <1>1, <1>2

\* A slice that is within its array stays what it is as long as arrays do.
LEMMA ElementsStay ==
  ASSUME arrays \in Seq(Seq(Selector)), NEW slice \in Slice, InHeap(slice, arrays),
         Grows(arrays')
  PROVE  Elements(slice)' = Elements(slice) /\ InHeap(slice, arrays')
BY DEF Elements, InHeap, Grows, Nil

LEMMA AppendingWorks ==
  ASSUME arrays \in Seq(Seq(Selector)), NEW slice \in Slice, InHeap(slice, arrays),
         NEW element \in Selector
  PROVE  LET a == Appending(slice, element)
         IN  /\ Grows(a.arrays)
             /\ a.slice \in Slice /\ a.slice.len > 0 /\ InHeap(a.slice, a.arrays)
<1>1. Append(Elements(slice), element) \in Seq(Selector) /\ Append(Elements(slice), element) # << >>
  BY ElementsWork, AppendWorks
<1> QED
  BY <1>1, AllocatedWorks DEF Appending

LEMMA ExcludingWorks ==
  ASSUME arrays \in Seq(Seq(Selector)), NEW slice \in Slice, InHeap(slice, arrays),
         slice.len # 0, NEW patterns \in SUBSET Compiles
  PROVE  LET a == Excluding(slice, patterns)
         IN  /\ Grows(a.arrays)
             /\ a.slice \in Slice /\ a.slice.len > 0 /\ InHeap(a.slice, a.arrays)
<1> DEFINE elements == Elements(slice)
           last == elements[Len(elements)]
           narrowed == [elements EXCEPT ![Len(elements)] =
                          [pattern |-> last.pattern, excluded |-> last.excluded \cup patterns]]
<1>1. elements \in Seq(Selector) /\ Len(elements) \in DOMAIN elements
  BY ElementsWork DEF Slice
<1>2. last \in Selector
  BY <1>1
<1>3. [pattern |-> last.pattern, excluded |-> last.excluded \cup patterns] \in Selector
  BY <1>2 DEF Selector
<1>4. narrowed \in Seq(Selector) /\ narrowed # << >>
  BY <1>1, <1>3
<1>5. Excluding(slice, patterns) = Allocated(narrowed)
  BY DEF Excluding
<1> QED
  BY <1>4, <1>5, AllocatedWorks

-----------------------------------------------------------------------------
\* Stages.

\* What a condition needs to be judged.
Equipped(s) ==
  /\ s.kind = "naming" /\ s.err = NoError => s.required \in Compiles
  /\ s.kind = "adherence" /\ s.err = NoError => s.accepts \in Predicate

StageOK(s, heap) ==
  /\ InHeap(s.scope, heap) /\ InHeap(s.objects, heap)
  /\ s.err <= Len(s.said)
  /\ Equipped(s)

\* A rejection is the first mistake, and as long as there is none a clause has a
\* selector exactly when a select was typed for it.
Agrees(s) ==
  /\ s.err = NoError => Mistakes(s.said) = {}
  /\ s.err # NoError => s.err \in Mistakes(s.said) /\ \A i \in Mistakes(s.said) : s.err <= i
  /\ s.kind \in {"files", "mood"} => s.objects = Nil
  /\ s.kind \in Selective \cup {"mood"} /\ s.err = NoError => (Clause(s).len > 0 <=> Open(s.said))

\* What a verb has to make of a stage, before the call is added to what was said.
Follows(s, d, call, heap) ==
  /\ d \in Stage /\ call \in Call /\ Grows(heap)
  /\ InHeap(d.scope, heap) /\ InHeap(d.objects, heap) /\ Equipped(d)
  /\ d.said = s.said
  /\ d.err = IF s.err # NoError THEN s.err
             ELSE IF Mistaken(Append(s.said, call), Len(s.said) + 1) THEN Len(s.said) + 1
             ELSE NoError
  /\ d.kind \in {"files", "mood"} => d.objects = Nil
  /\ d.kind \in Selective \cup {"mood"} /\ d.err = NoError =>
       (Clause(d).len > 0 <=> Open(Append(s.said, call)))

Stages ==
  /\ stages \in Seq(Stage) /\ arrays \in Seq(Seq(Selector))
  /\ \A k \in DOMAIN stages : StageOK(stages[k], arrays) /\ Agrees(stages[k])

LEMMA RejectingWorks ==
  ASSUME NEW s \in Stage
  PROVE  /\ Rejecting(s) \in Stage
         /\ Rejecting(s).err = IF s.err # NoError THEN s.err ELSE Len(s.said) + 1
         /\ Rejecting(s).err # NoError
         /\ Rejecting(s).kind = s.kind /\ Rejecting(s).said = s.said
         /\ Rejecting(s).scope = s.scope /\ Rejecting(s).objects = s.objects
         /\ Rejecting(s).mood = s.mood
<1>1. s.said \in Seq(Call) /\ s.err \in Nat
  BY DEF Stage
<1>2. Len(s.said) + 1 \in Nat \ {0}
  BY <1>1
<1>3. CASE s.err = NoError
  <2>1. Rejecting(s) = [s EXCEPT !.err = Len(s.said) + 1]
    BY <1>3 DEF Rejecting
  <2> QED
    BY <1>2, <1>3, <2>1 DEF Stage, NoError
<1>4. CASE s.err # NoError
  <2>1. Rejecting(s) = s
    BY <1>4 DEF Rejecting, Stage
  <2> QED
    BY <1>4, <2>1
<1> QED
  BY <1>3, <1>4

\* A verb may reject its call, when the call is a mistake or the chain has one.
LEMMA RejectionFollows ==
  ASSUME Stages, NEW i \in DOMAIN stages, NEW d \in Stage, NEW call \in Call,
         d.said = stages[i].said, d.err = stages[i].err,
         InHeap(d.scope, arrays), InHeap(d.objects, arrays),
         d.kind \in {"files", "mood"} => d.objects = Nil,
         d.err # NoError \/ Mistaken(Append(d.said, call), Len(d.said) + 1)
  PROVE  Follows(stages[i], Rejecting(d), call, arrays)
<1>1. Grows(arrays)
  BY DEF Grows, Stages
<1>2. Equipped(Rejecting(d))
  BY RejectingWorks DEF Equipped
<1> QED
  BY <1>1, <1>2, RejectingWorks DEF Follows

LEMMA StageWorks ==
  ASSUME Stages, NEW i \in DOMAIN stages
  PROVE  /\ stages[i] \in Stage /\ Grows(arrays) /\ stages[i].said \in Seq(Call)
         /\ stages[i].err \in Nat /\ stages[i].scope \in Slice /\ stages[i].objects \in Slice
         /\ Clause(stages[i]) \in Slice /\ InHeap(Clause(stages[i]), arrays)
         /\ StageOK(stages[i], arrays) /\ Agrees(stages[i])
<1>1. stages[i] \in Stage /\ Grows(arrays) /\ StageOK(stages[i], arrays) /\ Agrees(stages[i])
  BY DEF Stages, Grows
<1> QED
  BY <1>1 DEF Stage, Clause, StageOK

\* A slice replaces that of the clause being typed.
LEMMA NarrowedWorks ==
  ASSUME NEW s \in Stage, NEW slice \in Slice
  PROVE  LET d == Narrowed(s, slice)
         IN  /\ d \in Stage /\ d.said = s.said /\ d.err = s.err /\ d.kind = s.kind
             /\ d.required = s.required /\ d.accepts = s.accepts
             /\ Clause(d) = slice
             /\ d.scope = IF s.kind = "files" THEN slice ELSE s.scope
             /\ d.objects = IF s.kind = "files" THEN s.objects ELSE slice
<1>1. CASE s.kind = "files"
  <2>1. Narrowed(s, slice) = [s EXCEPT !.scope = slice]
    BY <1>1 DEF Narrowed
  <2> QED
    BY <1>1, <2>1 DEF Stage, Clause
<1>2. CASE s.kind # "files"
  <2>1. Narrowed(s, slice) = [s EXCEPT !.objects = slice]
    BY <1>2 DEF Narrowed
  <2> QED
    BY <1>2, <2>1 DEF Stage, Clause
<1> QED
  BY <1>1, <1>2

\* A clause whose new slice is in the new heap follows from a call that is no
\* mistake and leaves the clause open.
LEMMA NarrowingFollows ==
  ASSUME Stages, NEW i \in DOMAIN stages, stages[i].kind \in Selective,
         NEW call \in Call, NEW slice \in Slice, NEW heap,
         Grows(heap), InHeap(slice, heap), slice.len > 0,
         stages[i].err = NoError =>
           /\ ~Mistaken(Append(stages[i].said, call), Len(stages[i].said) + 1)
           /\ Open(Append(stages[i].said, call))
  PROVE  Follows(stages[i], Narrowed(stages[i], slice), call, heap)
<1> DEFINE s == stages[i]
           d == Narrowed(s, slice)
<1>1. s \in Stage /\ StageOK(s, arrays) /\ Agrees(s)
  BY StageWorks
<1>2. InHeap(s.scope, heap) /\ InHeap(s.objects, heap)
  BY <1>1 DEF StageOK, InHeap, Grows
<1>3. /\ d \in Stage /\ d.said = s.said /\ d.err = s.err /\ d.kind = s.kind
      /\ d.required = s.required /\ d.accepts = s.accepts
      /\ Clause(d) = slice
      /\ d.scope = IF s.kind = "files" THEN slice ELSE s.scope
      /\ d.objects = IF s.kind = "files" THEN s.objects ELSE slice
  BY <1>1, NarrowedWorks
<1> HIDE DEF d
<1>4. InHeap(d.scope, heap) /\ InHeap(d.objects, heap)
  BY <1>2, <1>3
<1>5. Equipped(d)
  BY <1>3, <1>1 DEF Equipped, StageOK
<1>6. d.kind \in {"files", "mood"} => d.objects = Nil
  BY <1>1, <1>3 DEF Agrees, Selective
<1>7. Follows(s, d, call, heap)
  BY <1>3, <1>4, <1>5, <1>6 DEF Follows
<1> QED
  BY <1>7 DEF d

-----------------------------------------------------------------------------
\* Every verb is the chaining of a stage that follows.

LEMMA SelectFollows ==
  ASSUME Stages, NEW i \in DOMAIN stages, NEW p \in Pattern, Select(stages[i], p)
  PROVE  \E d, call, heap : Chain(d, call, heap) /\ Follows(stages[i], d, call, heap)
<1> DEFINE s == stages[i]
           call == [verb |-> "select", pattern |-> p]
           element == [pattern |-> p, excluded |-> {}]
           grown == Appending(Clause(s), element)
           n == Len(s.said) + 1
           t == Append(s.said, call)
<1>1. /\ s \in Stage /\ s.said \in Seq(Call) /\ StageOK(s, arrays) /\ Agrees(s)
      /\ Clause(s) \in Slice /\ InHeap(Clause(s), arrays)
  BY StageWorks
<1>2. call \in Call /\ call.verb = "select" /\ call.pattern = p
  BY DEF Call
<1>3. t[n] = call /\ Open(t)
  BY <1>1, <1>2, SaidGrows
<1>4. Mistaken(t, n) <=> p \notin Compiles
  BY <1>2, <1>3 DEF Mistaken
<1>5. CASE p \in Compiles
  <2>1. element \in Selector
    BY <1>5 DEF Selector
  <2> HIDE DEF element
  <2>2. Grows(grown.arrays) /\ grown.slice \in Slice /\ grown.slice.len > 0 /\ InHeap(grown.slice, grown.arrays)
    BY <1>1, <2>1, AppendingWorks DEF Stages
  <2>3. s.kind \in Selective /\ Chain(Narrowed(s, grown.slice), call, grown.arrays)
    BY <1>5 DEF Select, element
  <2> HIDE DEF grown
  <2>4. Follows(s, Narrowed(s, grown.slice), call, grown.arrays)
    BY <1>2, <1>3, <1>4, <1>5, <2>2, <2>3, NarrowingFollows
  <2> QED
    BY <2>3, <2>4
<1>6. CASE p \notin Compiles
  <2>1. s.kind \in Selective /\ Chain(Rejecting(s), call, arrays)
    BY <1>6 DEF Select
  <2>2. Follows(s, Rejecting(s), call, arrays)
    BY <1>1, <1>2, <1>4, <1>6, RejectionFollows DEF StageOK, Agrees
  <2> QED
    BY <2>1, <2>2
<1> QED
  BY <1>5, <1>6

LEMMA ExceptFollows ==
  ASSUME Stages, NEW i \in DOMAIN stages, NEW patterns \in Exceptions, Except(stages[i], patterns)
  PROVE  \E d, call, heap : Chain(d, call, heap) /\ Follows(stages[i], d, call, heap)
<1> DEFINE s == stages[i]
           call == [verb |-> "except", patterns |-> patterns]
           faulty == Clause(s).len = 0 \/ patterns = {} \/ ~(patterns \subseteq Compiles)
           excepted == Excluding(Clause(s), patterns)
           n == Len(s.said) + 1
           t == Append(s.said, call)
<1>1. /\ s \in Stage /\ s.said \in Seq(Call) /\ StageOK(s, arrays) /\ Agrees(s)
      /\ Clause(s) \in Slice /\ InHeap(Clause(s), arrays)
  BY StageWorks
<1>2. call \in Call /\ call.verb = "except" /\ call.patterns = patterns
  BY RulesAssumption DEF Call
<1>3. t[n] = call /\ (Open(t) <=> Open(s.said)) /\ (Qualifies(t, n) <=> Open(s.said))
  BY <1>1, <1>2, SaidGrows DEF Moody
<1>4. Mistaken(t, n) <=> patterns = {} \/ ~Open(s.said) \/ ~(patterns \subseteq Compiles)
  BY <1>2, <1>3 DEF Mistaken
<1>5. s.kind \in Selective
  BY DEF Except
<1>6. s.err = NoError => (Clause(s).len > 0 <=> Open(s.said))
  BY <1>1, <1>5 DEF Agrees
<1>7. Clause(s).len \in Nat
  BY <1>1 DEF Slice
<1>8. CASE ~faulty
  <2>1. Grows(excepted.arrays) /\ excepted.slice \in Slice /\ excepted.slice.len > 0
        /\ InHeap(excepted.slice, excepted.arrays)
    BY <1>1, <1>8, ExcludingWorks DEF Stages
  <2>2. Chain(Narrowed(s, excepted.slice), call, excepted.arrays)
    BY <1>8 DEF Except
  <2> HIDE DEF excepted
  <2>3. s.err = NoError => Open(t) /\ ~Mistaken(t, n)
    BY <1>3, <1>4, <1>6, <1>7, <1>8
  <2>4. Follows(s, Narrowed(s, excepted.slice), call, excepted.arrays)
    BY <1>2, <1>5, <2>1, <2>3, NarrowingFollows
  <2> QED
    BY <2>2, <2>4
<1>9. CASE faulty
  <2>1. Chain(Rejecting(s), call, arrays)
    BY <1>9 DEF Except
  <2>2. s.err # NoError \/ Mistaken(t, n)
    BY <1>4, <1>6, <1>9
  <2>3. Follows(s, Rejecting(s), call, arrays)
    BY <1>1, <1>2, <2>2, RejectionFollows DEF StageOK, Agrees
  <2> QED
    BY <2>1, <2>3
<1> QED
  BY <1>8, <1>9

LEMMA MoodsFollow ==
  ASSUME Stages, NEW i \in DOMAIN stages, NEW mood \in {"should", "shouldNot"}, Moods(stages[i], mood)
  PROVE  \E d, call, heap : Chain(d, call, heap) /\ Follows(stages[i], d, call, heap)
<1> DEFINE s == stages[i]
           call == [verb |-> mood]
           d == [s EXCEPT !.kind = "mood", !.mood = mood]
           n == Len(s.said) + 1
           t == Append(s.said, call)
<1>1. /\ s \in Stage /\ s.said \in Seq(Call) /\ StageOK(s, arrays) /\ Agrees(s) /\ Grows(arrays)
  BY StageWorks
<1>2. call \in Call /\ call.verb = mood /\ mood \in Moody
  BY DEF Call, Moody
<1>3. t[n] = call /\ ~Open(t)
  BY <1>1, <1>2, SaidGrows
<1>4. ~Mistaken(t, n)
  BY <1>2, <1>3 DEF Mistaken, Moody
<1>5. s.kind = "files" /\ Chain(d, call, arrays)
  BY DEF Moods
<1>6. /\ d \in Stage /\ d.said = s.said /\ d.err = s.err /\ d.kind = "mood"
      /\ d.scope = s.scope /\ d.objects = s.objects
  BY <1>1, <1>2 DEF Stage
<1> HIDE DEF d, call
<1>7. d.objects = Nil /\ Clause(d) = Nil
  BY <1>1, <1>5, <1>6 DEF Agrees, Clause
<1>8. Follows(s, d, call, arrays)
  BY <1>1, <1>2, <1>3, <1>4, <1>6, <1>7 DEF Follows, Equipped, StageOK, Nil
<1> QED
  BY <1>5, <1>8

LEMMA RelatingFollows ==
  ASSUME Stages, NEW i \in DOMAIN stages, NEW kind \in {"dependency", "external", "cycles"},
         Relating(stages[i], kind)
  PROVE  \E d, call, heap : Chain(d, call, heap) /\ Follows(stages[i], d, call, heap)
<1> DEFINE s == stages[i]
           call == [verb |-> kind]
           d == [s EXCEPT !.kind = kind]
           n == Len(s.said) + 1
           t == Append(s.said, call)
<1>1. /\ s \in Stage /\ s.said \in Seq(Call) /\ StageOK(s, arrays) /\ Agrees(s) /\ Grows(arrays)
  BY StageWorks
<1>2. call \in Call /\ call.verb = kind /\ call.verb \notin Moody \cup {"select"}
  BY DEF Call, Moody
<1>3. t[n] = call /\ (Open(t) <=> Open(s.said))
  BY <1>1, <1>2, SaidGrows
<1>4. ~Mistaken(t, n)
  BY <1>2, <1>3 DEF Mistaken
<1>5. s.kind = "mood" /\ Chain(d, call, arrays)
  BY DEF Relating
<1>6. /\ d \in Stage /\ d.said = s.said /\ d.err = s.err /\ d.kind = kind
      /\ d.scope = s.scope /\ d.objects = s.objects
  BY <1>1, <1>2 DEF Stage, Conditions
<1> HIDE DEF d, call
<1>7. Clause(d) = s.objects /\ Clause(s) = s.objects
  BY <1>5, <1>6 DEF Clause
<1>8. Follows(s, d, call, arrays)
  BY <1>1, <1>2, <1>3, <1>4, <1>5, <1>6, <1>7 DEF Follows, Equipped, StageOK, Agrees
<1> QED
  BY <1>5, <1>8

LEMMA RequiringFollows ==
  ASSUME Stages, NEW i \in DOMAIN stages, NEW p \in Pattern, Requiring(stages[i], p)
  PROVE  \E d, call, heap : Chain(d, call, heap) /\ Follows(stages[i], d, call, heap)
<1> DEFINE s == stages[i]
           call == [verb |-> "require", pattern |-> p]
           d == [s EXCEPT !.kind = "naming", !.required = p]
           e == [d EXCEPT !.required = NoPattern]
           n == Len(s.said) + 1
           t == Append(s.said, call)
<1>1. /\ s \in Stage /\ s.said \in Seq(Call) /\ StageOK(s, arrays) /\ Agrees(s) /\ Grows(arrays)
  BY StageWorks
<1>2. call \in Call /\ call.verb = "require" /\ call.pattern = p
  BY DEF Call
<1>3. t[n] = call
  BY <1>1, <1>2, SaidGrows
<1>4. Mistaken(t, n) <=> p \notin Compiles
  BY <1>2, <1>3 DEF Mistaken
<1>5. Chain(IF p \in Compiles THEN d ELSE Rejecting(e), call, arrays)
  BY DEF Requiring
<1>6. /\ d \in Stage /\ d.said = s.said /\ d.err = s.err /\ d.kind = "naming"
      /\ d.scope = s.scope /\ d.objects = s.objects /\ d.required = p
  BY <1>1 DEF Stage, Conditions
<1>7. /\ e \in Stage /\ e.said = s.said /\ e.err = s.err /\ e.kind = "naming"
      /\ e.scope = s.scope /\ e.objects = s.objects
  BY <1>1 DEF Stage, Conditions
<1> HIDE DEF d, e, call
<1>8. CASE p \in Compiles
  <2>1. Follows(s, d, call, arrays)
    BY <1>1, <1>2, <1>4, <1>6, <1>8 DEF Follows, Equipped, StageOK, Selective
  <2> QED
    BY <1>5, <1>8, <2>1
<1>9. CASE p \notin Compiles
  <2>1. Follows(s, Rejecting(e), call, arrays)
    BY <1>1, <1>2, <1>4, <1>7, <1>9, RejectionFollows DEF StageOK
  <2> QED
    BY <1>5, <1>9, <2>1
<1> QED
  BY <1>8, <1>9

LEMMA AdhereToFollows ==
  ASSUME Stages, NEW i \in DOMAIN stages, NEW predicate \in Predicate \cup {NoPredicate},
         NEW worded \in BOOLEAN, AdhereTo(stages[i], predicate, worded)
  PROVE  \E d, call, heap : Chain(d, call, heap) /\ Follows(stages[i], d, call, heap)
<1> DEFINE s == stages[i]
           call == [verb |-> "adhere", predicate |-> predicate, worded |-> worded]
           d == [s EXCEPT !.kind = "adherence", !.accepts = predicate]
           n == Len(s.said) + 1
           t == Append(s.said, call)
<1>1. /\ s \in Stage /\ s.said \in Seq(Call) /\ StageOK(s, arrays) /\ Agrees(s) /\ Grows(arrays)
  BY StageWorks
<1>2. call \in Call /\ call.verb = "adhere" /\ call.predicate = predicate /\ call.worded = worded
  BY DEF Call
<1>3. t[n] = call
  BY <1>1, <1>2, SaidGrows
<1>4. Mistaken(t, n) <=> predicate = NoPredicate \/ ~worded
  BY <1>2, <1>3 DEF Mistaken
<1>5. Chain(IF predicate = NoPredicate \/ ~worded THEN Rejecting(d) ELSE d, call, arrays)
  BY DEF AdhereTo
<1>6. /\ d \in Stage /\ d.said = s.said /\ d.err = s.err /\ d.kind = "adherence"
      /\ d.scope = s.scope /\ d.objects = s.objects /\ d.accepts = predicate
  BY <1>1 DEF Stage, Conditions
<1> HIDE DEF d, call
<1>7. CASE ~(predicate = NoPredicate \/ ~worded)
  <2>1. Follows(s, d, call, arrays)
    BY <1>1, <1>2, <1>4, <1>6, <1>7 DEF Follows, Equipped, StageOK, Selective
  <2> QED
    BY <1>5, <1>7, <2>1
<1>8. CASE predicate = NoPredicate \/ ~worded
  <2>1. Follows(s, Rejecting(d), call, arrays)
    BY <1>1, <1>2, <1>4, <1>6, <1>8, RejectionFollows DEF StageOK
  <2> QED
    BY <1>5, <1>8, <2>1
<1> QED
  BY <1>7, <1>8

LEMMA VerbFollows ==
  ASSUME Stages, NEW i \in DOMAIN stages, Verb(stages[i])
  PROVE  \E d, call, heap : Chain(d, call, heap) /\ Follows(stages[i], d, call, heap)
BY SelectFollows, ExceptFollows, MoodsFollow, RelatingFollows, RequiringFollows, AdhereToFollows
   DEF Verb

-----------------------------------------------------------------------------
\* What a chained stage leaves behind.

LEMMA ChainWorks ==
  ASSUME Stages, NEW i \in DOMAIN stages, NEW d, NEW call, NEW heap,
         Chain(d, call, heap), Follows(stages[i], d, call, heap)
  PROVE  /\ Stages' /\ Grows(arrays')
         /\ \A k \in DOMAIN stages : k \in DOMAIN stages' /\ stages'[k] = stages[k]
         /\ UNCHANGED judging
<1> DEFINE s == stages[i]
           said == Append(s.said, call)
           new == [d EXCEPT !.said = said]
           n == Len(stages) + 1
<1>1. /\ s \in Stage /\ s.said \in Seq(Call) /\ s.err \in Nat /\ StageOK(s, arrays) /\ Agrees(s)
  BY StageWorks
<1>2. /\ d \in Stage /\ call \in Call /\ Grows(heap) /\ d.said = s.said
      /\ d.err = IF s.err # NoError THEN s.err
                 ELSE IF Mistaken(said, Len(s.said) + 1) THEN Len(s.said) + 1
                 ELSE NoError
  BY DEF Follows
<1>3. /\ said \in Seq(Call) /\ Len(said) = Len(s.said) + 1 /\ Len(s.said) \in Nat
      /\ Mistakes(said) = Mistakes(s.said)
                            \cup (IF Mistaken(said, Len(s.said) + 1) THEN {Len(s.said) + 1} ELSE {})
  BY <1>1, <1>2, SaidGrows, AppendWorks
<1>4. stages' = Append(stages, new) /\ arrays' = heap /\ UNCHANGED judging
  BY <1>2 DEF Chain
<1> HIDE DEF said
<1>5. /\ new \in Stage /\ new.said = said /\ new.err = d.err /\ new.kind = d.kind
      /\ new.scope = d.scope /\ new.objects = d.objects
      /\ new.required = d.required /\ new.accepts = d.accepts
  BY <1>2, <1>3 DEF Stage
<1> HIDE DEF new
<1>6. StageOK(new, heap)
  <2>1. new.err <= Len(said)
    BY <1>1, <1>2, <1>3, <1>5 DEF StageOK, NoError
  <2>2. InHeap(new.scope, heap) /\ InHeap(new.objects, heap) /\ Equipped(new)
    BY <1>5 DEF Follows, Equipped
  <2> QED
    BY <1>5, <2>1, <2>2 DEF StageOK
<1>7. Agrees(new)
  <2>1. \A j \in Mistakes(s.said) : j \in DOMAIN s.said
    BY DEF Mistakes
  <2>2. Clause(new) = Clause(d)
    BY <1>5 DEF Clause
  <2>3. /\ new.kind \in {"files", "mood"} => new.objects = Nil
        /\ new.kind \in Selective \cup {"mood"} /\ new.err = NoError =>
             (Clause(new).len > 0 <=> Open(said))
    BY <1>5, <2>2 DEF Follows, said
  <2>4. new.err = NoError => Mistakes(new.said) = {}
    BY <1>1, <1>2, <1>3, <1>5 DEF Agrees, NoError
  <2>5. new.err # NoError => new.err \in Mistakes(new.said) /\ \A j \in Mistakes(new.said) : new.err <= j
    BY <1>1, <1>2, <1>3, <1>5, <2>1 DEF Agrees, NoError, StageOK
  <2> QED
    BY <1>5, <2>3, <2>4, <2>5 DEF Agrees
<1>8. /\ stages' \in Seq(Stage) /\ DOMAIN stages' = DOMAIN stages \cup {n}
      /\ stages'[n] = new /\ \A k \in DOMAIN stages : stages'[k] = stages[k]
  BY <1>4, <1>5, AppendWorks DEF Stages
<1>9. \A k \in DOMAIN stages : StageOK(stages[k], heap)
  BY <1>2 DEF Stages, StageOK, InHeap, Grows
<1>10. \A k \in DOMAIN stages' : StageOK(stages'[k], arrays') /\ Agrees(stages'[k])
  BY <1>4, <1>6, <1>7, <1>8, <1>9 DEF Stages
<1>11. arrays' \in Seq(Seq(Selector)) /\ stages' \in Seq(Stage)
  BY <1>2, <1>4, <1>8 DEF Grows
<1>12. Stages'
  BY <1>10, <1>11 DEF Stages
<1> QED
  BY <1>2, <1>4, <1>8, <1>12

-----------------------------------------------------------------------------
\* A check.

Checking ==
  /\ step \in {"idle", "judge", "read", "done"} /\ allowEmpty \in BOOLEAN
  /\ step = "idle" <=> rule = 0
  /\ rule # 0 => rule \in DOMAIN stages /\ stages[rule].kind \in Conditions
  /\ graph \in Graph \cup {NoGraph} /\ selected \subseteq graph.files
  /\ contents \in [DOMAIN contents -> Content] /\ DOMAIN contents \subseteq selected

\* A rule that was rejected is answered at once, and without a graph.
AnswersRejection ==
  /\ step = "idle" => graph = NoGraph
  /\ step \in {"judge", "read"} => stages[rule].err = NoError
  /\ step = "done" /\ stages[rule].err # NoError =>
       result = [kind |-> "rejected", call |-> stages[rule].err] /\ graph = NoGraph

\* The inductive invariant.
IInv == Stages /\ Checking /\ AnswersRejection

LEMMA InitIInv == Init => IInv
<1> SUFFICES ASSUME Init PROVE IInv
  OBVIOUS
<1> USE DEF Init
<1>1. ProjectFiles \in Stage /\ << >> \in Seq(Call) /\ Nil \in Slice
  BY DEF ProjectFiles, Stage, Nil, Slice, NoError, Moody
<1>2. Mistakes(<< >>) = {} /\ ~Open(<< >>)
  BY DEF Mistakes, Open, Selects
<1>3. StageOK(ProjectFiles, arrays)
  BY DEF StageOK, InHeap, Equipped, ProjectFiles, NoError
<1>4. Agrees(ProjectFiles)
  BY <1>2 DEF Agrees, ProjectFiles, NoError, Clause, Nil
<1>5. stages \in Seq(Stage) /\ DOMAIN stages = {1} /\ stages[1] = ProjectFiles
  BY <1>1
<1>6. arrays \in Seq(Seq(Selector))
  OBVIOUS
<1>7. Stages
  BY <1>3, <1>4, <1>5, <1>6 DEF Stages
<1>8. contents \in [DOMAIN contents -> Content] /\ DOMAIN contents \subseteq selected
  OBVIOUS
<1>9. Checking /\ AnswersRejection
  BY <1>8 DEF Checking, AnswersRejection, NoGraph
<1> QED
  BY <1>7, <1>9 DEF IInv

\* A check leaves the stages alone.
LEMMA ChainsStay ==
  ASSUME IInv, UNCHANGED chains
  PROVE  Stages' /\ KeepsStages
<1>1. stages' = stages /\ arrays' = arrays
  BY DEF chains
<1>2. \A k \in DOMAIN stages' : StageOK(stages'[k], arrays') /\ Agrees(stages'[k])
  BY <1>1 DEF IInv, Stages
<1>3. Stages'
  BY <1>1, <1>2 DEF IInv, Stages
<1>4. KeepsStages
  BY <1>1 DEF KeepsStages, Elements
<1> QED
  BY <1>3, <1>4

LEMMA VerbStep ==
  ASSUME IInv, NEW i \in DOMAIN stages, Verb(stages[i])
  PROVE  IInv' /\ KeepsStages
<1>1. Stages
  BY DEF IInv
<1>2. PICK d, call, heap : Chain(d, call, heap) /\ Follows(stages[i], d, call, heap)
  BY <1>1, VerbFollows
<1>3. /\ Stages' /\ Grows(arrays')
      /\ \A k \in DOMAIN stages : k \in DOMAIN stages' /\ stages'[k] = stages[k]
      /\ UNCHANGED judging
  BY <1>1, <1>2, ChainWorks
<1>4. Checking' /\ AnswersRejection'
  BY <1>3 DEF IInv, Checking, AnswersRejection, judging, asked
<1>5. KeepsStages
  <2> SUFFICES ASSUME NEW k \in DOMAIN stages
               PROVE  /\ k \in DOMAIN stages' /\ stages'[k] = stages[k]
                      /\ Elements(stages[k].scope)' = Elements(stages[k].scope)
                      /\ Elements(stages[k].objects)' = Elements(stages[k].objects)
    BY DEF KeepsStages
  <2>1. k \in DOMAIN stages' /\ stages'[k] = stages[k]
    BY <1>3
  <2>2. /\ stages[k].scope \in Slice /\ InHeap(stages[k].scope, arrays)
        /\ stages[k].objects \in Slice /\ InHeap(stages[k].objects, arrays)
    BY <1>1, StageWorks DEF StageOK
  <2>3. \A slice \in {stages[k].scope, stages[k].objects} :
          (IF slice.array = 0 THEN << >> ELSE SubSeq(arrays'[slice.array], 1, slice.len))
            = IF slice.array = 0 THEN << >> ELSE SubSeq(arrays[slice.array], 1, slice.len)
    BY <1>3, <2>2 DEF InHeap, Grows, Nil
  <2> QED
    BY <2>1, <2>3 DEF Elements
<1> QED
  BY <1>3, <1>4, <1>5 DEF IInv

LEMMA ResolveStep ==
  ASSUME IInv, NEW i \in DOMAIN stages, NEW g \in Graph, NEW lenient \in BOOLEAN,
         Resolve(i, g, lenient)
  PROVE  IInv'
<1>1. step = "idle"
  BY DEF Resolve
<1>2. graph = NoGraph /\ selected \subseteq graph.files /\ DOMAIN contents \subseteq selected
  BY <1>1 DEF IInv, Checking, AnswersRejection
<1>3. DOMAIN contents = {}
  BY <1>2 DEF NoGraph
<1>4. UNCHANGED chains /\ i # 0 /\ stages' = stages
  BY DEF IInv, Stages, Resolve, chains
<1>5. Stages'
  BY <1>4, ChainsStay
<1>6. SelectFiles(g, stages[i].scope) \subseteq g.files
  BY DEF SelectFiles
<1> USE DEF IInv, Resolve, Finish
<1>7. Checking'
  BY <1>3, <1>4, <1>6 DEF Checking, AnswersRejection
<1>8. AnswersRejection'
  BY <1>4 DEF Checking, AnswersRejection
<1> QED
  BY <1>5, <1>7, <1>8

LEMMA ResolveFailsStep ==
  ASSUME IInv, NEW i \in DOMAIN stages, ResolveFails(i)
  PROVE  IInv'
<1> USE DEF IInv, ResolveFails, Finish
<1>1. UNCHANGED chains /\ i # 0 /\ stages' = stages
  BY DEF Stages, chains
<1>2. Stages'
  BY <1>1, ChainsStay
<1>3. Checking'
  BY <1>1 DEF Checking
<1>4. AnswersRejection'
  BY <1>1 DEF Checking, AnswersRejection
<1> QED
  BY <1>2, <1>3, <1>4

LEMMA JudgeStep ==
  ASSUME IInv, Judge
  PROVE  IInv'
<1> USE DEF IInv, Finish
<1>1. /\ UNCHANGED <<chains, asked, graph, selected, contents>>
      /\ step = "judge" /\ step' \in {"read", "done"}
  BY DEF Judge
<1>2. Stages' /\ stages' = stages
  BY <1>1, ChainsStay DEF chains
<1>3. Checking' /\ AnswersRejection'
  BY <1>1, <1>2 DEF Checking, AnswersRejection, asked
<1> QED
  BY <1>2, <1>3

LEMMA ReadSourceStep ==
  ASSUME IInv, NEW f \in selected, NEW content \in Content, ReadSource(f, content)
  PROVE  IInv'
<1> USE DEF IInv
<1>1. UNCHANGED <<chains, step, asked, graph, selected, result>>
  BY DEF ReadSource
<1>2. Stages' /\ stages' = stages
  BY <1>1, ChainsStay DEF chains
<1>3. contents' \in [DOMAIN contents' -> Content] /\ DOMAIN contents' \subseteq selected
  BY DEF ReadSource, Checking
<1>4. Checking' /\ AnswersRejection'
  BY <1>1, <1>2, <1>3 DEF Checking, AnswersRejection, asked
<1> QED
  BY <1>2, <1>4

\* A check that has read, or could not, is done.
LEMMA ReadingEnds ==
  ASSUME IInv, ReadFails \/ Adhere
  PROVE  IInv'
<1> USE DEF IInv, Finish
<1>1. UNCHANGED <<chains, asked, graph, selected, contents>> /\ step = "read" /\ step' = "done"
  BY DEF ReadFails, Adhere
<1>2. Stages' /\ stages' = stages
  BY <1>1, ChainsStay DEF chains
<1>3. Checking' /\ AnswersRejection'
  BY <1>1, <1>2 DEF Checking, AnswersRejection, asked
<1> QED
  BY <1>2, <1>3

LEMMA NextStep ==
  ASSUME IInv, [Next]_vars
  PROVE  IInv' /\ (KeepsStages \/ UNCHANGED vars)
<1>1. CASE UNCHANGED vars
  <2>1. UNCHANGED chains /\ UNCHANGED judging
    BY <1>1 DEF vars, chains, judging, asked
  <2>2. Stages'
    BY <2>1, ChainsStay
  <2>3. Checking' /\ AnswersRejection'
    BY <1>1 DEF vars, IInv, Checking, AnswersRejection
  <2> QED
    BY <1>1, <2>2, <2>3 DEF IInv
<1>2. ASSUME NEW i \in DOMAIN stages, Verb(stages[i]) PROVE IInv' /\ KeepsStages
  BY <1>2, VerbStep
<1>3. ASSUME NEW i \in DOMAIN stages, NEW g \in Graph, NEW lenient \in BOOLEAN, Resolve(i, g, lenient)
      PROVE  IInv' /\ UNCHANGED chains
  BY <1>3, ResolveStep DEF Resolve
<1>4. ASSUME NEW i \in DOMAIN stages, ResolveFails(i) PROVE IInv' /\ UNCHANGED chains
  BY <1>4, ResolveFailsStep DEF ResolveFails
<1>5. ASSUME Judge PROVE IInv' /\ UNCHANGED chains
  BY <1>5, JudgeStep DEF Judge
<1>6. ASSUME NEW f \in selected, NEW content \in Content, ReadSource(f, content)
      PROVE  IInv' /\ UNCHANGED chains
  BY <1>6, ReadSourceStep DEF ReadSource
<1>7. ASSUME ReadFails \/ Adhere PROVE IInv' /\ UNCHANGED chains
  BY <1>7, ReadingEnds DEF ReadFails, Adhere
<1>8. UNCHANGED chains => KeepsStages
  BY ChainsStay
<1> QED
  BY <1>1, <1>2, <1>3, <1>4, <1>5, <1>6, <1>7, <1>8 DEF Next

-----------------------------------------------------------------------------
LEMMA Invariance == Spec => []IInv
<1>1. IInv /\ [Next]_vars => IInv'
  BY NextStep
<1> QED
  BY InitIInv, <1>1, PTL DEF Spec

\* Every stage is well formed and its slices are within their arrays, and a check
\* is of a condition that has what it needs.
THEOREM RulesAreWellFormed == Spec => []TypeOK
<1>1. IInv => TypeOK
  BY DEF IInv, Stages, StageOK, Equipped, InHeap, Sliced, Checking, TypeOK
<1> QED
  BY <1>1, Invariance, PTL

\* However many rules branch off it, a stored stage means what it meant.
THEOREM StoredStagesKeepTheirMeaning == Spec => StagesAreValues
<1>1. IInv /\ [Next]_vars => [KeepsStages]_vars
  BY NextStep
<1> QED
  BY <1>1, Invariance, PTL DEF StagesAreValues, Spec

\* The first mistake of a chain is the one its check reports, and nothing is read
\* for a rule that has one.
THEOREM FirstMistakeIsReported == Spec => []FirstMistakeWins
<1>1. IInv => FirstMistakeWins
  BY DEF IInv, Stages, Agrees, Checking, AnswersRejection, FirstMistakeWins
<1> QED
  BY <1>1, Invariance, PTL

-----------------------------------------------------------------------------
\* What a stage was told, and what it made of it.

\* The calls that ask something of the subject, and whether none set the mood.
Asking == Conditions \cup {"require", "adhere"}
Askers(said) == {i \in DOMAIN said : said[i].verb \in Asking}
Unmoody(said) == \A i \in DOMAIN said : said[i].verb \notin Moody

\* The excepts that speak of the select on call i, and the selector they make of it.
Excepts(said, i) ==
  {j \in i + 1 .. Len(said) : /\ said[j].verb = "except"
                              /\ \A k \in i + 1 .. j - 1 : said[k].verb # "select"}
Picture(said, i) ==
  [pattern |-> said[i].pattern, excluded |-> UNION {said[j].patterns : j \in Excepts(said, i)}]

\* Some selectors are those of some selects, the last one that of the newest.
Values(elements, n) == {elements[k] : k \in 1 .. n}
Newest(I, i) == i \in I /\ \A j \in I : j <= i
Stand(elements, said, I) ==
  IF I = {} THEN elements = << >>
  ELSE /\ elements # << >>
       /\ \E i \in I : /\ Newest(I, i)
                       /\ elements[Len(elements)] = Picture(said, i)
                       /\ Values(elements, Len(elements) - 1) = {Picture(said, j) : j \in I \ {i}}

\* What another call changes of all that.
LEMMA SaidMore ==
  ASSUME NEW s \in Seq(Call), NEW call \in Call
  PROVE  LET t == Append(s, call)
             n == Len(s) + 1
         IN  /\ n \in Nat /\ n \notin DOMAIN s /\ Len(t) = n /\ DOMAIN t = DOMAIN s \cup {n} /\ t[n] = call
             /\ \A i \in DOMAIN s : t[i] = s[i] /\ i \in Nat /\ i < n
             /\ Subjects(s) \subseteq DOMAIN s /\ Objects(s) \subseteq DOMAIN s
             /\ Unmoody(t) <=> Unmoody(s) /\ call.verb \notin Moody
             /\ Negated(t) <=> Negated(s) \/ call.verb = "shouldNot"
             /\ Askers(t) = Askers(s) \cup (IF call.verb \in Asking THEN {n} ELSE {})
             /\ Subjects(t) = Subjects(s) \cup (IF call.verb = "select" /\ Unmoody(s) THEN {n} ELSE {})
             /\ Objects(t) = Objects(s) \cup (IF call.verb = "select" /\ ~Unmoody(s) THEN {n} ELSE {})
<1> DEFINE t == Append(s, call)
           n == Len(s) + 1
<1>1. /\ n \in Nat /\ n \notin DOMAIN s /\ Len(t) = n /\ DOMAIN t = DOMAIN s \cup {n} /\ t[n] = call
      /\ DOMAIN s = 1 .. n - 1 /\ n > 0
      /\ \A i \in DOMAIN s : t[i] = s[i] /\ i \in Nat /\ i < n
  BY AppendWorks
<1> HIDE DEF t, n
<1>2. Subjects(s) \subseteq DOMAIN s /\ Objects(s) \subseteq DOMAIN s
  BY DEF Subjects, Objects, Selects
<1>3. /\ Unmoody(t) <=> Unmoody(s) /\ call.verb \notin Moody
      /\ Negated(t) <=> Negated(s) \/ call.verb = "shouldNot"
      /\ Askers(t) = Askers(s) \cup (IF call.verb \in Asking THEN {n} ELSE {})
  BY <1>1 DEF Unmoody, Negated, Askers
<1>4. Selects(t) = Selects(s) \cup (IF call.verb = "select" THEN {n} ELSE {})
  BY <1>1 DEF Selects
<1>5. \A i \in DOMAIN s : \A j \in 1 .. i - 1 : j \in DOMAIN s /\ t[j] = s[j]
  BY <1>1
<1>6. \A i \in DOMAIN s : i \in Subjects(t) <=> i \in Subjects(s)
  BY <1>1, <1>4, <1>5 DEF Subjects
<1>7. n \in Subjects(t) <=> call.verb = "select" /\ Unmoody(s)
  <2>1. (\A j \in 1 .. n - 1 : t[j].verb \notin Moody) <=> Unmoody(s)
    BY <1>1 DEF Unmoody
  <2>2. n \in Selects(t) <=> call.verb = "select"
    BY <1>1 DEF Selects
  <2> QED
    BY <2>1, <2>2 DEF Subjects
<1>8. Subjects(t) \subseteq DOMAIN t
  BY DEF Subjects, Selects
<1>9. Subjects(t) = Subjects(s) \cup (IF call.verb = "select" /\ Unmoody(s) THEN {n} ELSE {})
  BY <1>1, <1>2, <1>6, <1>7, <1>8
<1>10. Objects(t) = Objects(s) \cup (IF call.verb = "select" /\ ~Unmoody(s) THEN {n} ELSE {})
  BY <1>1, <1>4, <1>9, <1>2 DEF Objects, Selects
<1>11. t = Append(s, call) /\ n = Len(s) + 1
  BY DEF t, n
<1> QED
  BY <1>1, <1>2, <1>3, <1>9, <1>10, <1>11

\* A select starts a picture of its own, an except adds to the one of the last select,
\* and no other call changes any.
LEMMA PicturesChange ==
  ASSUME NEW s \in Seq(Call), NEW call \in Call
  PROVE  LET t == Append(s, call)
             n == Len(s) + 1
         IN  /\ call.verb = "select" => Picture(t, n) = [pattern |-> call.pattern, excluded |-> {}]
             /\ \A i \in Selects(s) :
                  /\ call.verb # "except" \/ ~Newest(Selects(s), i) => Picture(t, i) = Picture(s, i)
                  /\ call.verb = "except" /\ Newest(Selects(s), i) =>
                       Picture(t, i) = [pattern |-> Picture(s, i).pattern,
                                        excluded |-> Picture(s, i).excluded \cup call.patterns]
<1> DEFINE t == Append(s, call)
           n == Len(s) + 1
<1>1. /\ n \in Nat /\ n \notin DOMAIN s /\ Len(t) = n /\ DOMAIN t = DOMAIN s \cup {n} /\ t[n] = call
      /\ DOMAIN s = 1 .. n - 1 /\ n > 0 /\ Len(s) = n - 1
      /\ \A i \in DOMAIN s : t[i] = s[i] /\ i \in Nat /\ i < n
  BY AppendWorks
<1> HIDE DEF t, n
<1>2. ASSUME call.verb = "select" PROVE Picture(t, n) = [pattern |-> call.pattern, excluded |-> {}]
  <2>1. n + 1 .. Len(t) = {}
    BY <1>1
  <2>2. Excepts(t, n) = {}
    BY <2>1 DEF Excepts
  <2> QED
    BY <1>1, <2>2 DEF Picture
<1>3. ASSUME NEW i \in Selects(s)
      PROVE  /\ t[i] = s[i] /\ i \in DOMAIN s
             /\ Excepts(s, i) \subseteq DOMAIN s
             /\ \A j \in DOMAIN s : j \in Excepts(t, i) <=> j \in Excepts(s, i)
             /\ n \in Excepts(t, i) <=> call.verb = "except" /\ Newest(Selects(s), i)
             /\ Excepts(t, i) \subseteq DOMAIN t
  <2>1. i \in DOMAIN s /\ i \in Nat /\ i >= 1 /\ t[i] = s[i]
    BY <1>1 DEF Selects
  <2>2. Excepts(s, i) \subseteq DOMAIN s /\ Excepts(t, i) \subseteq DOMAIN t
    BY <1>1, <2>1 DEF Excepts
  <2>3. ASSUME NEW j \in DOMAIN s PROVE j \in Excepts(t, i) <=> j \in Excepts(s, i)
    <3>1. j \in i + 1 .. Len(t) <=> j \in i + 1 .. Len(s)
      BY <1>1, <2>1
    <3>2. \A k \in i + 1 .. j - 1 : k \in DOMAIN s
      BY <1>1, <2>1
    <3>3. \A k \in i + 1 .. j - 1 : t[k] = s[k]
      BY <1>1, <3>2
    <3>4. t[j] = s[j]
      BY <1>1
    <3> QED
      BY <3>1, <3>3, <3>4 DEF Excepts
  <2>4. n \in i + 1 .. Len(t)
    BY <1>1, <2>1
  <2>5. (\A k \in i + 1 .. n - 1 : t[k].verb # "select") <=> Newest(Selects(s), i)
    <3>1. \A k \in i + 1 .. n - 1 : k \in DOMAIN s /\ t[k] = s[k] /\ k > i
      BY <1>1, <2>1
    <3>2. \A k \in DOMAIN s : k <= i \/ k \in i + 1 .. n - 1
      BY <1>1, <2>1
    <3>3. \A k \in DOMAIN s : k \in i + 1 .. n - 1 => ~(k <= i)
      BY <1>1, <2>1
    <3>4. \A k : k \in Selects(s) <=> k \in DOMAIN s /\ s[k].verb = "select"
      BY DEF Selects
    <3> QED
      BY <3>1, <3>2, <3>3, <3>4, Zenon DEF Newest
  <2>6. n \in Excepts(t, i) <=> call.verb = "except" /\ Newest(Selects(s), i)
    BY <1>1, <2>4, <2>5 DEF Excepts
  <2> QED
    BY <2>1, <2>2, <2>3, <2>6
<1>4. ASSUME NEW i \in Selects(s), call.verb # "except" \/ ~Newest(Selects(s), i)
      PROVE  Picture(t, i) = Picture(s, i)
  <2>1. Excepts(t, i) = Excepts(s, i)
    BY <1>1, <1>3, <1>4
  <2>2. \A j \in Excepts(s, i) : t[j] = s[j]
    BY <1>1, <1>3
  <2>3. {t[j].patterns : j \in Excepts(s, i)} = {s[j].patterns : j \in Excepts(s, i)}
    BY <2>2
  <2> QED
    BY <1>3, <2>1, <2>3 DEF Picture
<1>5. ASSUME NEW i \in Selects(s), call.verb = "except", Newest(Selects(s), i)
      PROVE  Picture(t, i) = [pattern |-> Picture(s, i).pattern,
                              excluded |-> Picture(s, i).excluded \cup call.patterns]
  <2>1. Excepts(t, i) = Excepts(s, i) \cup {n}
    BY <1>1, <1>3, <1>5
  <2>2. \A j \in Excepts(s, i) : t[j] = s[j]
    BY <1>1, <1>3
  <2>3. {t[j].patterns : j \in Excepts(s, i) \cup {n}}
          = {s[j].patterns : j \in Excepts(s, i)} \cup {call.patterns}
    <3> DEFINE X == Excepts(s, i)
    <3>1. {t[j].patterns : j \in X \cup {n}} = {t[j].patterns : j \in X} \cup {t[n].patterns}
      OBVIOUS
    <3>2. {t[j].patterns : j \in X} = {s[j].patterns : j \in X}
      BY <2>2
    <3> QED
      BY <1>1, <3>1, <3>2
  <2>4. UNION {t[j].patterns : j \in Excepts(s, i) \cup {n}}
          = (UNION {s[j].patterns : j \in Excepts(s, i)}) \cup call.patterns
    BY <2>3
  <2> QED
    BY <1>3, <2>1, <2>4 DEF Picture
<1>6. t = Append(s, call) /\ n = Len(s) + 1
  BY DEF t, n
<1> QED
  BY <1>2, <1>4, <1>5, <1>6

\* Selectors go on standing for the same selects as long as these read the same.
LEMMA StandStays ==
  ASSUME NEW elements, NEW s, NEW t, NEW I, Stand(elements, s, I),
         \A i \in I : Picture(t, i) = Picture(s, i)
  PROVE  Stand(elements, t, I)
<1>1. CASE I = {}
  BY <1>1 DEF Stand
<1>2. CASE I # {}
  <2>1. elements # << >>
    BY <1>2 DEF Stand
  <2>2. PICK i \in I : /\ Newest(I, i) /\ elements[Len(elements)] = Picture(s, i)
                       /\ Values(elements, Len(elements) - 1) = {Picture(s, j) : j \in I \ {i}}
    BY <1>2 DEF Stand
  <2>3. {Picture(s, j) : j \in I \ {i}} = {Picture(t, j) : j \in I \ {i}}
    OBVIOUS
  <2> QED
    BY <1>2, <2>1, <2>2, <2>3 DEF Stand
<1> QED
  BY <1>1, <1>2

\* All selectors together are those of all selects.
LEMMA StandMeans ==
  ASSUME NEW elements \in Seq(Selector), NEW s, NEW I, Stand(elements, s, I)
  PROVE  /\ Values(elements, Len(elements)) = {Picture(s, i) : i \in I}
         /\ Len(elements) \in Nat /\ DOMAIN elements = 1 .. Len(elements)
         /\ Len(elements) > 0 <=> I # {}
         /\ Len(elements) = 0 <=> I = {}
<1>1. Len(elements) \in Nat /\ DOMAIN elements = 1 .. Len(elements)
      /\ (Len(elements) = 0 <=> elements = << >>)
  OBVIOUS
<1>2. CASE I = {}
  BY <1>1, <1>2 DEF Stand, Values
<1>3. CASE I # {}
  <2> DEFINE n == Len(elements)
  <2>1. n \in Nat /\ n > 0
    BY <1>1, <1>3 DEF Stand
  <2>2. PICK i \in I : /\ elements[n] = Picture(s, i)
                       /\ Values(elements, n - 1) = {Picture(s, j) : j \in I \ {i}}
    BY <1>3 DEF Stand
  <2> HIDE DEF n
  <2>3. 1 .. n = (1 .. n - 1) \cup {n}
    BY <2>1
  <2>4. Values(elements, n) = Values(elements, n - 1) \cup {elements[n]}
    BY <2>3 DEF Values
  <2>5. {Picture(s, j) : j \in I} = {Picture(s, j) : j \in I \ {i}} \cup {Picture(s, i)}
    OBVIOUS
  <2> QED
    BY <1>1, <1>3, <2>1, <2>2, <2>4, <2>5 DEF n
<1> QED
  BY <1>2, <1>3

\* A new selector stands for a new select.
LEMMA StandGrows ==
  ASSUME NEW elements \in Seq(Selector), NEW s, NEW t, NEW I, Stand(elements, s, I),
         NEW n \in Nat, NEW element \in Selector, Picture(t, n) = element,
         \A i \in I : Picture(t, i) = Picture(s, i) /\ i \in Nat /\ i < n
  PROVE  Stand(Append(elements, element), t, I \cup {n})
<1>1. /\ Append(elements, element) # << >>
      /\ Len(Append(elements, element)) = Len(elements) + 1 /\ Len(elements) \in Nat
      /\ Append(elements, element)[Len(elements) + 1] = element
      /\ \A k \in 1 .. Len(elements) : Append(elements, element)[k] = elements[k]
  BY AppendWorks
<1> DEFINE longer == Append(elements, element)
<1> HIDE DEF longer
<1>2. Len(longer) - 1 = Len(elements)
  BY <1>1 DEF longer
<1>3. Values(longer, Len(longer) - 1) = Values(elements, Len(elements))
  BY <1>1, <1>2 DEF Values, longer
<1>4. Values(elements, Len(elements)) = {Picture(s, i) : i \in I}
  BY StandMeans
<1>5. n \notin I
  OBVIOUS
<1>6. (I \cup {n}) \ {n} = I
  BY <1>5
<1>7. {Picture(s, i) : i \in I} = {Picture(t, i) : i \in I}
  OBVIOUS
<1>8. Newest(I \cup {n}, n)
  BY DEF Newest
<1>9. longer # << >> /\ longer[Len(longer)] = Picture(t, n)
  BY <1>1 DEF longer
<1>10. Values(longer, Len(longer) - 1) = {Picture(t, i) : i \in (I \cup {n}) \ {n}}
  BY <1>3, <1>4, <1>6, <1>7
<1>11. Stand(longer, t, I \cup {n})
  BY <1>8, <1>9, <1>10 DEF Stand
<1> QED
  BY <1>11 DEF longer

\* An exception to the newest select is one to the last selector.
LEMMA StandNarrows ==
  ASSUME NEW elements \in Seq(Selector), NEW s, NEW t, NEW I, Stand(elements, s, I),
         NEW m \in I, Newest(I, m), I \subseteq Nat,
         \A i \in I \ {m} : Picture(t, i) = Picture(s, i),
         NEW element, Picture(t, m) = element
  PROVE  Stand([elements EXCEPT ![Len(elements)] = element], t, I)
<1>1. PICK i \in I : /\ Newest(I, i) /\ elements[Len(elements)] = Picture(s, i)
                     /\ Values(elements, Len(elements) - 1) = {Picture(s, j) : j \in I \ {i}}
  BY DEF Stand
<1>2. i = m
  <2>1. i \in Nat /\ m \in Nat /\ i <= m /\ m <= i
    BY <1>1 DEF Newest
  <2> QED
    BY <2>1
<1>3. elements # << >>
  BY DEF Stand
<1> DEFINE n == Len(elements)
           narrowed == [elements EXCEPT ![n] = element]
<1>4. n \in Nat /\ n > 0 /\ DOMAIN elements = 1 .. n
  BY <1>3
<1>5. narrowed = [k \in 1 .. n |-> IF k = n THEN element ELSE elements[k]]
  BY <1>4
<1> HIDE DEF n
<1>6. /\ n \in 1 .. n /\ \A k \in 1 .. n - 1 : k \in 1 .. n /\ k # n
  BY <1>4
<1> HIDE DEF narrowed
<1>7. narrowed[n] = element /\ \A k \in 1 .. n - 1 : narrowed[k] = elements[k]
  BY <1>5, <1>6
<1>8. Len(narrowed) = n /\ narrowed # << >>
  <2>1. \A l \in Nat : DOMAIN narrowed = 1 .. l => Len(narrowed) = l
    OBVIOUS
  <2>2. DOMAIN narrowed = 1 .. n
    BY <1>5
  <2>3. Len(narrowed) = n
    BY <1>4, <2>1, <2>2
  <2> QED
    BY <1>4, <2>3
<1>9. Values(narrowed, n - 1) = Values(elements, n - 1)
  BY <1>7 DEF Values
<1>10. {Picture(s, j) : j \in I \ {m}} = {Picture(t, j) : j \in I \ {m}}
  OBVIOUS
<1>11. Stand(narrowed, t, I)
  BY <1>1, <1>2, <1>7, <1>8, <1>9, <1>10 DEF Stand, n
<1> QED
  BY <1>11 DEF narrowed, n

\* While no mood is set, every select is one of the subject; from then on the newest
\* select of the object is the newest there is.
LEMMA NewestOfHalf ==
  ASSUME NEW s \in Seq(Call)
  PROVE  /\ Subjects(s) \subseteq Selects(s) /\ Objects(s) \subseteq Selects(s)
         /\ Subjects(s) \cap Objects(s) = {}
         /\ Selects(s) \subseteq Nat
         /\ Unmoody(s) => Subjects(s) = Selects(s) /\ Objects(s) = {}
         /\ \A m : Newest(Objects(s), m) => Newest(Selects(s), m)
<1>1. DOMAIN s = 1 .. Len(s) /\ Len(s) \in Nat /\ Selects(s) \subseteq DOMAIN s
  BY DEF Selects
<1>2. Subjects(s) \subseteq Selects(s) /\ Objects(s) = Selects(s) \ Subjects(s)
  BY DEF Subjects, Objects
<1>3. ASSUME Unmoody(s) PROVE Subjects(s) = Selects(s)
  <2>1. \A i \in Selects(s) : \A j \in 1 .. i - 1 : j \in DOMAIN s
    BY <1>1
  <2> QED
    BY <1>3, <2>1 DEF Subjects, Unmoody
<1>4. ASSUME NEW m, Newest(Objects(s), m) PROVE Newest(Selects(s), m)
  <2>1. m \in Selects(s) /\ m \notin Subjects(s) /\ m \in Nat
    BY <1>1, <1>2, <1>4 DEF Newest
  <2>2. PICK j \in 1 .. m - 1 : s[j].verb \in Moody
    BY <2>1 DEF Subjects
  <2>3. ASSUME NEW i \in Subjects(s) PROVE i <= m
    <3>1. i \in Nat /\ \A k \in 1 .. i - 1 : s[k].verb \notin Moody
      BY <1>1, <1>2 DEF Subjects
    <3>2. j \notin 1 .. i - 1
      BY <2>2, <3>1
    <3> QED
      BY <2>1, <2>2, <3>1, <3>2
  <2> QED
    BY <1>2, <1>4, <2>1, <2>3 DEF Newest
<1>5. Selects(s) \subseteq Nat
  BY <1>1
<1>6. /\ Objects(s) \subseteq Selects(s) /\ Subjects(s) \cap Objects(s) = {}
      /\ Unmoody(s) => Objects(s) = {}
  BY <1>2, <1>3
<1> QED
  BY <1>2, <1>3, <1>4, <1>5, <1>6

\* What is under a slice in a heap.
ElementsIn(slice, heap) == IF slice.array = 0 THEN << >> ELSE SubSeq(heap[slice.array], 1, slice.len)

LEMMA ElementsAreThose == \A slice : Elements(slice) = ElementsIn(slice, arrays)
BY DEF Elements, ElementsIn

LEMMA ElementsKept ==
  ASSUME NEW slice \in Slice, InHeap(slice, arrays), NEW heap, Grows(heap)
  PROVE  ElementsIn(slice, heap) = Elements(slice)
BY DEF Elements, ElementsIn, InHeap, Grows, Nil

LEMMA AllocatedHolds ==
  ASSUME arrays \in Seq(Seq(Selector)), NEW elements \in Seq(Selector)
  PROVE  LET a == Allocated(elements)
         IN  ElementsIn(a.slice, a.arrays) = elements
<1> DEFINE longer == Append(arrays, elements)
           n == Len(arrays) + 1
<1>1. longer[n] = elements /\ n \in Nat /\ n # 0
  BY AppendWorks
<1>2. SubSeq(elements, 1, Len(elements)) = elements
  OBVIOUS
<1> HIDE DEF longer, n
<1>3. Allocated(elements) = [arrays |-> longer, slice |-> [array |-> n, len |-> Len(elements)]]
  BY DEF Allocated, longer, n
<1> QED
  BY <1>1, <1>2, <1>3 DEF ElementsIn

-----------------------------------------------------------------------------
\* What a condition was asked.
AskedBy(s, call) ==
  CASE s.kind = "naming" -> call.verb = "require" /\ call.pattern = s.required
    [] s.kind = "adherence" -> call.verb = "adhere" /\ call.predicate = s.accepts
    [] OTHER -> call.verb = s.kind
Asked(s, said) ==
  IF s.kind \in Conditions THEN \E i \in DOMAIN said : Askers(said) = {i} /\ AskedBy(s, said[i])
                           ELSE Askers(said) = {}

\* A stage without a mistake is what was said, half by half.
Meant(s, said, heap) ==
  /\ Stand(ElementsIn(s.scope, heap), said, Subjects(said))
  /\ Stand(ElementsIn(s.objects, heap), said, Objects(said))
  /\ s.kind = "files" <=> Unmoody(said)
  /\ s.mood = "shouldNot" <=> Negated(said)
  /\ Asked(s, said)

Meanings == \A k \in DOMAIN stages : stages[k].err = NoError => Meant(stages[k], stages[k].said, arrays)

\* What a verb has to make of a stage to keep that so.
Told(s, d, call, heap) ==
  /\ d \in Stage /\ call \in Call /\ d.said = s.said
  /\ d.err = NoError => Meant(d, Append(s.said, call), heap)

LEMMA RejectionTold ==
  ASSUME NEW s \in Stage, NEW d \in Stage, d.said = s.said, NEW call \in Call, NEW heap
  PROVE  Told(s, Rejecting(d), call, heap)
BY RejectingWorks DEF Told

\* A call that asks nothing leaves what was asked.
LEMMA AskedStill ==
  ASSUME NEW s \in Stage, NEW d, NEW call \in Call, call.verb \notin Asking, Asked(s, s.said),
         d.kind = s.kind, d.required = s.required, d.accepts = s.accepts
  PROVE  Asked(d, Append(s.said, call))
<1> DEFINE n == Len(s.said) + 1
           t == Append(s.said, call)
<1>1. s.said \in Seq(Call)
  BY DEF Stage
<1>2. /\ Askers(t) = Askers(s.said) \cup (IF call.verb \in Asking THEN {n} ELSE {})
      /\ DOMAIN t = DOMAIN s.said \cup {n}
      /\ \A i \in DOMAIN s.said : t[i] = s.said[i]
  BY <1>1, SaidMore
<1> HIDE DEF t
<1>3. \A k : AskedBy(d, s.said[k]) <=> AskedBy(s, s.said[k])
  BY DEF AskedBy
<1>4. Asked(d, t)
  BY <1>2, <1>3 DEF Asked
<1> QED
  BY <1>4 DEF t

\* A call that neither selects nor excepts leaves the selectors what they stand for.
LEMMA StandingStill ==
  ASSUME NEW s \in Stage, NEW call \in Call, call.verb \notin {"select", "except"},
         Meant(s, s.said, arrays)
  PROVE  LET t == Append(s.said, call)
         IN  /\ Stand(ElementsIn(s.scope, arrays), t, Subjects(t))
             /\ Stand(ElementsIn(s.objects, arrays), t, Objects(t))
<1> DEFINE n == Len(s.said) + 1
           t == Append(s.said, call)
<1>1. s.said \in Seq(Call)
  BY DEF Stage
<1>2. Subjects(t) = Subjects(s.said) /\ Objects(t) = Objects(s.said)
  <2>1. /\ Subjects(t) = Subjects(s.said) \cup (IF call.verb = "select" /\ Unmoody(s.said) THEN {n} ELSE {})
        /\ Objects(t) = Objects(s.said) \cup (IF call.verb = "select" /\ ~Unmoody(s.said) THEN {n} ELSE {})
    BY <1>1, SaidMore
  <2> QED
    BY <2>1
<1>3. \A i \in Selects(s.said) : Picture(t, i) = Picture(s.said, i)
  BY <1>1, PicturesChange
<1> HIDE DEF t
<1>4. \A i \in Subjects(s.said) \cup Objects(s.said) : Picture(t, i) = Picture(s.said, i)
  BY <1>1, <1>3, NewestOfHalf
<1>5. /\ Stand(ElementsIn(s.scope, arrays), t, Subjects(s.said))
      /\ Stand(ElementsIn(s.objects, arrays), t, Objects(s.said))
  BY <1>4, StandStays DEF Meant
<1> QED
  BY <1>2, <1>5 DEF t

\* The call that asks is the only one of its kind.
LEMMA AskedNow ==
  ASSUME NEW s \in Stage, s.kind = "mood", Asked(s, s.said), NEW d \in Stage, d.kind \in Conditions,
         NEW call \in Call, call.verb \in Asking, AskedBy(d, call)
  PROVE  Asked(d, Append(s.said, call))
<1> DEFINE n == Len(s.said) + 1
           t == Append(s.said, call)
<1>1. s.said \in Seq(Call)
  BY DEF Stage
<1>2. Askers(t) = Askers(s.said) \cup {n} /\ n \in DOMAIN t /\ t[n] = call
  BY <1>1, SaidMore
<1> HIDE DEF t, n
<1>3. Askers(s.said) = {}
  BY DEF Asked, Conditions
<1>4. Asked(d, t)
  BY <1>2, <1>3 DEF Asked
<1> QED
  BY <1>4 DEF t

\* A verb that asks makes of a mood the condition it asks for.
LEMMA ConditionTold ==
  ASSUME NEW s \in Stage, s.kind = "mood", s.err = NoError => Meant(s, s.said, arrays),
         NEW d \in Stage, d.kind \in Conditions, d.said = s.said, d.err = s.err, d.mood = s.mood,
         d.scope = s.scope, d.objects = s.objects,
         NEW call \in Call, call.verb \in Asking, AskedBy(d, call)
  PROVE  Told(s, d, call, arrays)
<1> SUFFICES ASSUME s.err = NoError PROVE Meant(d, Append(s.said, call), arrays)
  BY DEF Told
<1> DEFINE n == Len(s.said) + 1
           t == Append(s.said, call)
<1>1. s.said \in Seq(Call) /\ Meant(s, s.said, arrays) /\ Asked(s, s.said)
  BY DEF Stage, Meant
<1>2. call.verb \notin {"select", "except"} \cup Moody
  BY DEF Asking, Conditions, Moody
<1>3. /\ Stand(ElementsIn(d.scope, arrays), t, Subjects(t))
      /\ Stand(ElementsIn(d.objects, arrays), t, Objects(t))
  BY <1>1, <1>2, StandingStill
<1>4. (Unmoody(t) <=> Unmoody(s.said)) /\ (Negated(t) <=> Negated(s.said))
  BY <1>1, <1>2, SaidMore DEF Moody
<1>5. Asked(d, t)
  BY <1>1, AskedNow
<1> HIDE DEF t
<1>6. d.kind # "files"
  BY DEF Conditions
<1>7. Meant(d, t, arrays)
  BY <1>1, <1>3, <1>4, <1>5, <1>6 DEF Meant
<1> QED
  BY <1>7 DEF t

LEMMA StageMeans ==
  ASSUME Stages, Meanings, NEW i \in DOMAIN stages
  PROVE  stages[i].err = NoError => Meant(stages[i], stages[i].said, arrays)
BY DEF Meanings

LEMMA RelatingTold ==
  ASSUME Stages, Meanings, NEW i \in DOMAIN stages, NEW kind \in {"dependency", "external", "cycles"},
         Relating(stages[i], kind)
  PROVE  \E d, call, heap : Chain(d, call, heap) /\ Told(stages[i], d, call, heap)
<1> DEFINE s == stages[i]
           call == [verb |-> kind]
           d == [s EXCEPT !.kind = kind]
<1>1. s \in Stage /\ s.kind = "mood" /\ Chain(d, call, arrays)
  BY StageWorks DEF Relating
<1>2. call \in Call /\ call.verb = kind /\ call.verb \in Asking
  BY DEF Call, Asking, Conditions
<1>3. /\ d \in Stage /\ d.said = s.said /\ d.err = s.err /\ d.kind = kind /\ d.mood = s.mood
      /\ d.scope = s.scope /\ d.objects = s.objects /\ d.kind \in Conditions
  BY <1>1 DEF Stage, Conditions
<1>4. AskedBy(d, call)
  BY <1>2, <1>3 DEF AskedBy
<1> HIDE DEF d, call
<1>5. Told(s, d, call, arrays)
  BY <1>1, <1>2, <1>3, <1>4, StageMeans, ConditionTold
<1> QED
  BY <1>1, <1>5

LEMMA RequiringTold ==
  ASSUME Stages, Meanings, NEW i \in DOMAIN stages, NEW p \in Pattern, Requiring(stages[i], p)
  PROVE  \E d, call, heap : Chain(d, call, heap) /\ Told(stages[i], d, call, heap)
<1> DEFINE s == stages[i]
           call == [verb |-> "require", pattern |-> p]
           d == [s EXCEPT !.kind = "naming", !.required = p]
           e == [d EXCEPT !.required = NoPattern]
<1>1. /\ s \in Stage /\ s.kind = "mood"
      /\ Chain(IF p \in Compiles THEN d ELSE Rejecting(e), call, arrays)
  BY StageWorks DEF Requiring
<1>2. call \in Call /\ call.verb = "require" /\ call.pattern = p /\ call.verb \in Asking
  BY DEF Call, Asking
<1>3. /\ d \in Stage /\ d.said = s.said /\ d.err = s.err /\ d.kind = "naming" /\ d.mood = s.mood
      /\ d.scope = s.scope /\ d.objects = s.objects /\ d.required = p /\ d.kind \in Conditions
  BY <1>1 DEF Stage, Conditions
<1>4. e \in Stage /\ e.said = s.said
  BY <1>1 DEF Stage, Conditions
<1>5. AskedBy(d, call)
  BY <1>2, <1>3 DEF AskedBy
<1> HIDE DEF d, e, call
<1>6. Told(s, d, call, arrays)
  BY <1>1, <1>2, <1>3, <1>5, StageMeans, ConditionTold
<1>7. Told(s, Rejecting(e), call, arrays)
  BY <1>1, <1>2, <1>4, RejectionTold
<1> QED
  BY <1>1, <1>6, <1>7

LEMMA AdhereToTold ==
  ASSUME Stages, Meanings, NEW i \in DOMAIN stages, NEW predicate \in Predicate \cup {NoPredicate},
         NEW worded \in BOOLEAN, AdhereTo(stages[i], predicate, worded)
  PROVE  \E d, call, heap : Chain(d, call, heap) /\ Told(stages[i], d, call, heap)
<1> DEFINE s == stages[i]
           call == [verb |-> "adhere", predicate |-> predicate, worded |-> worded]
           d == [s EXCEPT !.kind = "adherence", !.accepts = predicate]
<1>1. /\ s \in Stage /\ s.kind = "mood"
      /\ Chain(IF predicate = NoPredicate \/ ~worded THEN Rejecting(d) ELSE d, call, arrays)
  BY StageWorks DEF AdhereTo
<1>2. call \in Call /\ call.verb = "adhere" /\ call.predicate = predicate /\ call.verb \in Asking
  BY DEF Call, Asking
<1>3. /\ d \in Stage /\ d.said = s.said /\ d.err = s.err /\ d.kind = "adherence" /\ d.mood = s.mood
      /\ d.scope = s.scope /\ d.objects = s.objects /\ d.accepts = predicate /\ d.kind \in Conditions
  BY <1>1 DEF Stage, Conditions
<1>4. AskedBy(d, call)
  BY <1>2, <1>3 DEF AskedBy
<1> HIDE DEF d, call
<1>5. Told(s, d, call, arrays)
  BY <1>1, <1>2, <1>3, <1>4, StageMeans, ConditionTold
<1>6. Told(s, Rejecting(d), call, arrays)
  BY <1>1, <1>2, <1>3, RejectionTold
<1> QED
  BY <1>1, <1>5, <1>6

LEMMA MoodsTold ==
  ASSUME Stages, Meanings, NEW i \in DOMAIN stages, NEW mood \in {"should", "shouldNot"},
         Moods(stages[i], mood)
  PROVE  \E d, call, heap : Chain(d, call, heap) /\ Told(stages[i], d, call, heap)
<1> DEFINE s == stages[i]
           call == [verb |-> mood]
           d == [s EXCEPT !.kind = "mood", !.mood = mood]
           n == Len(s.said) + 1
           t == Append(s.said, call)
<1>1. s \in Stage /\ s.said \in Seq(Call) /\ s.kind = "files" /\ Chain(d, call, arrays)
  BY StageWorks DEF Moods
<1>2. call \in Call /\ call.verb = mood /\ mood \in Moody /\ mood \notin Asking \cup {"select", "except"}
  BY DEF Call, Moody, Asking, Conditions
<1>3. /\ d \in Stage /\ d.said = s.said /\ d.err = s.err /\ d.kind = "mood" /\ d.mood = mood
      /\ d.scope = s.scope /\ d.objects = s.objects
  BY <1>1, <1>2 DEF Stage
<1> HIDE DEF d, call
<1>4. ASSUME s.err = NoError PROVE Meant(d, t, arrays)
  <2>1. Meant(s, s.said, arrays)
    BY <1>4, StageMeans
  <2>2. /\ Stand(ElementsIn(d.scope, arrays), t, Subjects(t))
        /\ Stand(ElementsIn(d.objects, arrays), t, Objects(t))
    BY <1>1, <1>2, <1>3, <2>1, StandingStill
  <2>3. /\ Unmoody(t) <=> Unmoody(s.said) /\ call.verb \notin Moody
        /\ Negated(t) <=> Negated(s.said) \/ call.verb = "shouldNot"
        /\ Askers(t) = Askers(s.said) \cup (IF call.verb \in Asking THEN {n} ELSE {})
    BY <1>1, <1>2, SaidMore
  <2>4. Unmoody(s.said) /\ Askers(s.said) = {}
    BY <1>1, <2>1 DEF Meant, Asked, Conditions
  <2>5. ~Negated(s.said)
    BY <2>4 DEF Unmoody, Negated, Moody
  <2>6. Askers(t) = {}
    BY <1>2, <2>3, <2>4
  <2> HIDE DEF t
  <2>7. Asked(d, t)
    BY <1>3, <2>6 DEF Asked, Conditions
  <2> QED
    BY <1>2, <1>3, <2>2, <2>3, <2>5, <2>7 DEF Meant
<1>5. Told(s, d, call, arrays)
  BY <1>2, <1>3, <1>4 DEF Told
<1> QED
  BY <1>1, <1>5

\* What the two halves of a stage stand for once the half being typed has new selectors.
LEMMA NarrowedTold ==
  ASSUME Stages, NEW i \in DOMAIN stages, stages[i].kind \in Selective, stages[i].err = NoError,
         Meant(stages[i], stages[i].said, arrays),
         NEW call \in Call, call.verb \in {"select", "except"},
         stages[i].kind # "files" /\ call.verb = "except" => \E m : Newest(Objects(stages[i].said), m),
         NEW slice \in Slice, NEW heap, Grows(heap),
         LET t == Append(stages[i].said, call)
             I == IF stages[i].kind = "files" THEN Subjects(t) ELSE Objects(t)
         IN  Stand(ElementsIn(slice, heap), t, I)
  PROVE  Meant(Narrowed(stages[i], slice), Append(stages[i].said, call), heap)
<1> DEFINE s == stages[i]
           d == Narrowed(s, slice)
           n == Len(s.said) + 1
           t == Append(s.said, call)
<1>1. /\ s \in Stage /\ s.said \in Seq(Call) /\ s.scope \in Slice /\ s.objects \in Slice
      /\ InHeap(s.scope, arrays) /\ InHeap(s.objects, arrays) /\ Meant(s, s.said, arrays)
  BY StageWorks DEF StageOK
<1>2. call.verb \notin Asking \cup Moody
  BY DEF Asking, Conditions, Moody
<1>3. /\ d.kind = s.kind /\ d.required = s.required /\ d.accepts = s.accepts
      /\ d.scope = IF s.kind = "files" THEN slice ELSE s.scope
      /\ d.objects = IF s.kind = "files" THEN s.objects ELSE slice
  BY <1>1, NarrowedWorks
<1>4. d.mood = s.mood
  BY <1>1 DEF Narrowed, Stage
<1> HIDE DEF d
<1>5. Asked(d, t)
  BY <1>1, <1>2, <1>3, AskedStill DEF Meant
<1>6. (Unmoody(t) <=> Unmoody(s.said)) /\ (Negated(t) <=> Negated(s.said))
  BY <1>1, <1>2, SaidMore DEF Moody
<1>7. /\ ElementsIn(s.scope, heap) = ElementsIn(s.scope, arrays)
      /\ ElementsIn(s.objects, heap) = ElementsIn(s.objects, arrays)
  BY <1>1, ElementsKept, ElementsAreThose
<1>8. /\ Subjects(t) = Subjects(s.said) \cup (IF call.verb = "select" /\ Unmoody(s.said) THEN {n} ELSE {})
      /\ Objects(t) = Objects(s.said) \cup (IF call.verb = "select" /\ ~Unmoody(s.said) THEN {n} ELSE {})
  BY <1>1, SaidMore
<1>9. \A j \in Selects(s.said) :
        call.verb = "select" \/ ~Newest(Selects(s.said), j) => Picture(t, j) = Picture(s.said, j)
  BY <1>1, PicturesChange
<1> HIDE DEF t, n
<1>10. s.kind = "files" <=> Unmoody(s.said)
  BY <1>1 DEF Meant
<1>11. CASE s.kind = "files"
  <2>1. Objects(t) = {} /\ Objects(s.said) = {}
    BY <1>1, <1>8, <1>10, <1>11, NewestOfHalf
  <2>2. Stand(ElementsIn(s.objects, arrays), s.said, Objects(s.said))
    BY <1>1 DEF Meant
  <2>3. Stand(ElementsIn(d.objects, heap), t, Objects(t))
    BY <1>3, <1>7, <1>11, <2>1, <2>2 DEF Stand
  <2>4. Stand(ElementsIn(d.scope, heap), t, Subjects(t))
    BY <1>3, <1>11 DEF t
  <2>6. Meant(d, t, heap)
    BY <1>1, <1>3, <1>4, <1>5, <1>6, <2>3, <2>4 DEF Meant
  <2> QED
    BY <2>6 DEF d, t
<1>12. CASE s.kind # "files"
  <2>1. Subjects(t) = Subjects(s.said)
    BY <1>8, <1>10, <1>12
  <2>2. Stand(ElementsIn(s.scope, arrays), s.said, Subjects(s.said))
    BY <1>1 DEF Meant
  <2>3. Stand(ElementsIn(d.objects, heap), t, Objects(t))
    BY <1>3, <1>12 DEF t
  <2>4. ASSUME NEW j \in Subjects(s.said) PROVE Picture(t, j) = Picture(s.said, j)
    <3>1. j \in Selects(s.said) /\ j \notin Objects(s.said)
      BY <1>1, NewestOfHalf
    <3>2. CASE call.verb = "select"
      BY <1>9, <3>1, <3>2
    <3>3. CASE call.verb = "except"
      <4>1. PICK m : Newest(Objects(s.said), m)
        BY <1>12, <3>3
      <4>2. Newest(Selects(s.said), m) /\ m \in Objects(s.said) /\ m \in Nat /\ j \in Nat
        BY <1>1, <3>1, <4>1, NewestOfHalf DEF Newest
      <4>3. ~Newest(Selects(s.said), j)
        <5> SUFFICES ASSUME Newest(Selects(s.said), j) PROVE FALSE
          OBVIOUS
        <5>1. j <= m /\ m <= j
          BY <3>1, <4>2 DEF Newest
        <5> QED
          BY <3>1, <4>2, <5>1
      <4> QED
        BY <1>9, <3>1, <4>3
    <3> QED
      BY <3>2, <3>3
  <2>5. Stand(ElementsIn(d.scope, heap), t, Subjects(t))
    BY <1>3, <1>7, <1>12, <2>1, <2>2, <2>4, StandStays
  <2>6. Meant(d, t, heap)
    BY <1>1, <1>3, <1>4, <1>5, <1>6, <2>3, <2>5 DEF Meant
  <2> QED
    BY <2>6 DEF d, t
<1> QED
  BY <1>11, <1>12

LEMMA SelectTold ==
  ASSUME Stages, Meanings, NEW i \in DOMAIN stages, NEW p \in Pattern, Select(stages[i], p)
  PROVE  \E d, call, heap : Chain(d, call, heap) /\ Told(stages[i], d, call, heap)
<1> DEFINE s == stages[i]
           call == [verb |-> "select", pattern |-> p]
           element == [pattern |-> p, excluded |-> {}]
           grown == Appending(Clause(s), element)
           n == Len(s.said) + 1
           t == Append(s.said, call)
<1>1. /\ s \in Stage /\ s.said \in Seq(Call) /\ s.kind \in Selective /\ arrays \in Seq(Seq(Selector))
      /\ Clause(s) \in Slice /\ InHeap(Clause(s), arrays)
  BY StageWorks DEF Select, Stages
<1>2. call \in Call /\ call.verb = "select" /\ call.pattern = p
  BY DEF Call
<1>3. CASE p \notin Compiles
  <2>1. Chain(Rejecting(s), call, arrays)
    BY <1>3 DEF Select
  <2>2. Told(s, Rejecting(s), call, arrays)
    BY <1>1, <1>2, RejectionTold
  <2> QED
    BY <2>1, <2>2
<1>4. CASE p \in Compiles
  <2>1. element \in Selector
    BY <1>4 DEF Selector
  <2>2. Chain(Narrowed(s, grown.slice), call, grown.arrays)
    BY <1>4 DEF Select
  <2>3. Picture(t, n) = element
    BY <1>1, <1>2, PicturesChange
  <2> DEFINE elements == Elements(Clause(s))
  <2>4. elements \in Seq(Selector)
    BY <1>1, ElementsWork
  <2> HIDE DEF element, call
  <2>5. Grows(grown.arrays) /\ grown.slice \in Slice
    BY <1>1, <2>1, AppendingWorks
  <2>6. ElementsIn(grown.slice, grown.arrays) = Append(elements, element)
    <3>1. Append(elements, element) \in Seq(Selector)
      BY <2>1, <2>4, AppendWorks
    <3> QED
      BY <1>1, <3>1, AllocatedHolds DEF Appending
  <2> HIDE DEF grown, elements
  <2>7. Narrowed(s, grown.slice) \in Stage /\ Narrowed(s, grown.slice).said = s.said
        /\ Narrowed(s, grown.slice).err = s.err
    BY <1>1, <2>5, NarrowedWorks
  <2>8. ASSUME s.err = NoError PROVE Meant(Narrowed(s, grown.slice), t, grown.arrays)
    <3>1. Meant(s, s.said, arrays)
      BY <2>8, StageMeans
    <3> DEFINE I == IF s.kind = "files" THEN Subjects(s.said) ELSE Objects(s.said)
               J == IF s.kind = "files" THEN Subjects(t) ELSE Objects(t)
    <3>2. s.kind = "files" <=> Unmoody(s.said)
      BY <3>1 DEF Meant
    <3>3. /\ Subjects(t) = Subjects(s.said) \cup (IF call.verb = "select" /\ Unmoody(s.said) THEN {n} ELSE {})
          /\ Objects(t) = Objects(s.said) \cup (IF call.verb = "select" /\ ~Unmoody(s.said) THEN {n} ELSE {})
          /\ n \in Nat /\ \A j \in DOMAIN s.said : j \in Nat /\ j < n
      BY <1>1, <1>2, SaidMore
    <3>4. J = I \cup {n}
      BY <1>2, <3>2, <3>3
    <3>5. Stand(elements, s.said, I)
      BY <3>1, ElementsAreThose DEF Meant, Clause, elements
    <3>6. I \subseteq Selects(s.said) /\ Selects(s.said) \subseteq DOMAIN s.said
      BY <1>1, NewestOfHalf DEF Selects
    <3>7. \A j \in Selects(s.said) : Picture(t, j) = Picture(s.said, j)
      BY <1>1, <1>2, PicturesChange
    <3> HIDE DEF t, n, I, J
    <3>8. \A j \in I : Picture(t, j) = Picture(s.said, j) /\ j \in Nat /\ j < n
      BY <3>3, <3>6, <3>7
    <3>9. Stand(Append(elements, element), t, I \cup {n})
      BY <2>1, <2>3, <2>4, <3>3, <3>5, <3>8, StandGrows
    <3>10. Stand(ElementsIn(grown.slice, grown.arrays), t, J)
      BY <2>6, <3>4, <3>9
    <3>11. Stand(ElementsIn(grown.slice, grown.arrays), Append(s.said, call),
                 IF s.kind = "files" THEN Subjects(Append(s.said, call)) ELSE Objects(Append(s.said, call)))
      BY <3>10 DEF J, t
    <3>12. Meant(Narrowed(s, grown.slice), Append(s.said, call), grown.arrays)
      BY <1>1, <1>2, <2>5, <2>8, <3>1, <3>11, NarrowedTold
    <3> QED
      BY <3>12 DEF t
  <2>9. Told(s, Narrowed(s, grown.slice), call, grown.arrays)
    BY <1>2, <2>7, <2>8 DEF Told
  <2> QED
    BY <2>2, <2>9
<1> QED
  BY <1>3, <1>4

LEMMA ExceptTold ==
  ASSUME Stages, Meanings, NEW i \in DOMAIN stages, NEW patterns \in Exceptions, Except(stages[i], patterns)
  PROVE  \E d, call, heap : Chain(d, call, heap) /\ Told(stages[i], d, call, heap)
<1> DEFINE s == stages[i]
           call == [verb |-> "except", patterns |-> patterns]
           faulty == Clause(s).len = 0 \/ patterns = {} \/ ~(patterns \subseteq Compiles)
           excepted == Excluding(Clause(s), patterns)
           n == Len(s.said) + 1
           t == Append(s.said, call)
<1>1. /\ s \in Stage /\ s.said \in Seq(Call) /\ s.kind \in Selective /\ arrays \in Seq(Seq(Selector))
      /\ Clause(s) \in Slice /\ InHeap(Clause(s), arrays)
  BY StageWorks DEF Except, Stages
<1>2. call \in Call /\ call.verb = "except" /\ call.patterns = patterns
  BY RulesAssumption DEF Call
<1>3. CASE faulty
  <2>1. Chain(Rejecting(s), call, arrays)
    BY <1>3 DEF Except
  <2>2. Told(s, Rejecting(s), call, arrays)
    BY <1>1, <1>2, RejectionTold
  <2> QED
    BY <2>1, <2>2
<1>4. CASE ~faulty
  <2>1. Chain(Narrowed(s, excepted.slice), call, excepted.arrays)
    BY <1>4 DEF Except
  <2>2. Clause(s).len # 0 /\ patterns \in SUBSET Compiles
    BY <1>4
  <2>3. Grows(excepted.arrays) /\ excepted.slice \in Slice
    BY <1>1, <2>2, ExcludingWorks
  <2> DEFINE elements == Elements(Clause(s))
             last == elements[Len(elements)]
             element == [pattern |-> last.pattern, excluded |-> last.excluded \cup patterns]
             narrowed == [elements EXCEPT ![Len(elements)] = element]
  <2>4. elements \in Seq(Selector) /\ Len(elements) = Clause(s).len
    BY <1>1, ElementsWork
  <2>5. Len(elements) \in DOMAIN elements /\ last \in Selector
    BY <2>2, <2>4
  <2>6. element \in Selector
    BY <2>2, <2>5 DEF Selector
  <2>7. narrowed \in Seq(Selector)
    BY <2>4, <2>5, <2>6
  <2>8. ElementsIn(excepted.slice, excepted.arrays) = narrowed
    <3>1. excepted = Allocated(narrowed)
      BY DEF Excluding
    <3> QED
      BY <1>1, <2>7, <3>1, AllocatedHolds
  <2> HIDE DEF excepted, elements, call
  <2>9. Narrowed(s, excepted.slice) \in Stage /\ Narrowed(s, excepted.slice).said = s.said
        /\ Narrowed(s, excepted.slice).err = s.err
    BY <1>1, <2>3, NarrowedWorks
  <2>10. ASSUME s.err = NoError PROVE Meant(Narrowed(s, excepted.slice), t, excepted.arrays)
    <3>1. Meant(s, s.said, arrays)
      BY <2>10, StageMeans
    <3> DEFINE I == IF s.kind = "files" THEN Subjects(s.said) ELSE Objects(s.said)
               J == IF s.kind = "files" THEN Subjects(t) ELSE Objects(t)
    <3>2. s.kind = "files" <=> Unmoody(s.said)
      BY <3>1 DEF Meant
    <3>3. /\ Subjects(t) = Subjects(s.said) \cup (IF call.verb = "select" /\ Unmoody(s.said) THEN {n} ELSE {})
          /\ Objects(t) = Objects(s.said) \cup (IF call.verb = "select" /\ ~Unmoody(s.said) THEN {n} ELSE {})
      BY <1>1, <1>2, SaidMore
    <3>4. J = I
      BY <1>2, <3>3
    <3>5. Stand(elements, s.said, I)
      BY <3>1, ElementsAreThose DEF Meant, Clause, elements
    <3>6. I \subseteq Selects(s.said) /\ I \subseteq Nat
      BY <1>1, NewestOfHalf
    <3>7. PICK m \in I : Newest(I, m) /\ last = Picture(s.said, m)
      <4>1. I # {}
        BY <1>1, <2>2, <2>4, <3>5, StandMeans DEF Slice
      <4> QED
        BY <3>5, <4>1 DEF Stand
    <3>8. Newest(Selects(s.said), m)
      BY <1>1, <3>2, <3>7, NewestOfHalf
    <3>9. \A j \in Selects(s.said) :
            /\ ~Newest(Selects(s.said), j) => Picture(t, j) = Picture(s.said, j)
            /\ Newest(Selects(s.said), j) =>
                 Picture(t, j) = [pattern |-> Picture(s.said, j).pattern,
                                  excluded |-> Picture(s.said, j).excluded \cup patterns]
      BY <1>1, <1>2, PicturesChange
    <3> HIDE DEF t, n, J
    <3>10. Picture(t, m) = element
      BY <3>6, <3>7, <3>8, <3>9
    <3>11. ASSUME NEW j \in I \ {m} PROVE Picture(t, j) = Picture(s.said, j)
      <4>1. ~Newest(Selects(s.said), j)
        <5> SUFFICES ASSUME Newest(Selects(s.said), j) PROVE FALSE
          OBVIOUS
        <5>1. j <= m /\ m <= j /\ j \in Nat /\ m \in Nat
          BY <3>6, <3>7 DEF Newest
        <5> QED
          BY <5>1
      <4> QED
        BY <3>6, <3>9, <4>1
    <3> HIDE DEF element, I
    <3>12. Stand([elements EXCEPT ![Len(elements)] = element], t, I)
      BY <2>4, <3>5, <3>6, <3>7, <3>10, <3>11, StandNarrows
    <3>13. Stand(ElementsIn(excepted.slice, excepted.arrays), t, J)
      BY <2>8, <3>4, <3>12
    <3>14. Stand(ElementsIn(excepted.slice, excepted.arrays), Append(s.said, call),
                 IF s.kind = "files" THEN Subjects(Append(s.said, call)) ELSE Objects(Append(s.said, call)))
      BY <3>13 DEF J, t
    <3>15. s.kind # "files" => \E k : Newest(Objects(s.said), k)
      BY <3>7 DEF I
    <3>16. Meant(Narrowed(s, excepted.slice), Append(s.said, call), excepted.arrays)
      BY <1>1, <1>2, <2>3, <2>10, <3>1, <3>14, <3>15, NarrowedTold
    <3> QED
      BY <3>16 DEF t
  <2>11. Told(s, Narrowed(s, excepted.slice), call, excepted.arrays)
    BY <1>2, <2>9, <2>10 DEF Told
  <2> QED
    BY <2>1, <2>11
<1> QED
  BY <1>3, <1>4

LEMMA VerbTold ==
  ASSUME Stages, Meanings, NEW i \in DOMAIN stages, Verb(stages[i])
  PROVE  \E d, call, heap : Chain(d, call, heap) /\ Told(stages[i], d, call, heap)
BY SelectTold, ExceptTold, MoodsTold, RelatingTold, RequiringTold, AdhereToTold DEF Verb

\* However the chain goes on, stages mean what was said on the way to them.
LEMMA MeaningsKept ==
  ASSUME IInv, Meanings, [Next]_vars
  PROVE  Meanings'
<1>1. Stages /\ IInv'
  BY NextStep DEF IInv
<1>2. CASE UNCHANGED chains
  BY <1>2 DEF Meanings, chains
<1>3. ASSUME NEW i \in DOMAIN stages, Verb(stages[i]) PROVE Meanings'
  <2>1. PICK d, call, heap : Chain(d, call, heap) /\ Told(stages[i], d, call, heap)
    BY <1>1, <1>3, VerbTold
  <2> DEFINE said == Append(stages[i].said, call)
             new == [d EXCEPT !.said = said]
             n == Len(stages) + 1
  <2>2. /\ d \in Stage /\ d.said = stages[i].said
        /\ d.err = NoError => Meant(d, said, arrays')
    BY <2>1 DEF Told, Chain
  <2>3. stages' = Append(stages, new)
    BY <2>1, <2>2 DEF Chain
  <2>4. /\ new.said = said /\ new.err = d.err /\ new.kind = d.kind /\ new.mood = d.mood
        /\ new.scope = d.scope /\ new.objects = d.objects
        /\ new.required = d.required /\ new.accepts = d.accepts
    BY <2>2 DEF Stage
  <2> HIDE DEF said, new
  <2>5. new.err = NoError => Meant(new, new.said, arrays')
    BY <2>2, <2>4 DEF Meant, Asked, AskedBy
  <2>6. new = stages'[n] /\ DOMAIN stages' = DOMAIN stages \cup {n}
    BY <1>1, <2>3 DEF Stages, IInv
  <2>7. KeepsStages
    BY <1>1, <1>3, VerbStep
  <2>8. ASSUME NEW k \in DOMAIN stages, stages'[k].err = NoError PROVE Meant(stages'[k], stages'[k].said, arrays')
    <3>1. stages'[k] = stages[k]
      BY <2>7 DEF KeepsStages
    <3>2. Meant(stages[k], stages[k].said, arrays)
      BY <2>8, <3>1 DEF Meanings
    <3>3. /\ ElementsIn(stages[k].scope, arrays') = ElementsIn(stages[k].scope, arrays)
          /\ ElementsIn(stages[k].objects, arrays') = ElementsIn(stages[k].objects, arrays)
      BY <2>7, <3>1 DEF KeepsStages, Elements, ElementsIn
    <3> QED
      BY <3>1, <3>2, <3>3 DEF Meant
  <2>9. \A k \in DOMAIN stages' : stages'[k].err = NoError => Meant(stages'[k], stages'[k].said, arrays')
    BY <2>5, <2>6, <2>8
  <2> QED
    BY <2>9 DEF Meanings
<1>4. [Next]_vars => UNCHANGED chains \/ \E i \in DOMAIN stages : Verb(stages[i])
  BY DEF Next, vars, chains, Resolve, ResolveFails, Judge, ReadSource, ReadFails, Adhere
<1> QED
  BY <1>2, <1>3, <1>4

-----------------------------------------------------------------------------
\* What a check decides.

Guarded(s) == EmptyPopulations(s) # {} /\ ~allowEmpty

Judged(s) ==
  /\ s.err = NoError /\ graph \in Graph /\ selected = SelectFiles(graph, s.scope)
  /\ Guarded(s) => result = [kind |-> "empty", populations |-> EmptyPopulations(s)]
  /\ ~Guarded(s) /\ s.kind # "adherence" =>
       \E violations \in Reports(s) : result = [kind |-> "judged", violations |-> violations]
  /\ ~Guarded(s) /\ s.kind = "adherence" =>
       result = [kind |-> "judged", violations |-> Adhering(s)] /\ DOMAIN contents = selected

\* A check under way has said nothing yet; one that is done has judged the subject
\* of its rule in the graph it was given.
Deciding ==
  /\ step # "done" => result = Unchecked
  /\ step \in {"judge", "read"} => graph \in Graph /\ selected = SelectFiles(graph, stages[rule].scope)
  /\ step = "read" => stages[rule].kind = "adherence" /\ ~Guarded(stages[rule])
  /\ result.kind \in {"judged", "empty"} => step = "done" /\ Judged(stages[rule])

\* A stage that keeps its selectors selects what it selected.
LEMMA SelectionStays ==
  ASSUME NEW slice, Elements(slice)' = Elements(slice), NEW g
  PROVE  /\ SelectFiles(g, slice)' = SelectFiles(g, slice)
         /\ SelectExternalModules(g, slice)' = SelectExternalModules(g, slice)
BY DEF SelectFiles, SelectExternalModules

\* And a check of it finds what it found.
LEMMA FindingsStay ==
  ASSUME NEW s, Elements(s.scope)' = Elements(s.scope), Elements(s.objects)' = Elements(s.objects),
         graph' = graph, selected' = selected
  PROVE  /\ SelectFiles(graph, s.scope)' = SelectFiles(graph, s.scope)
         /\ EmptyPopulations(s)' = EmptyPopulations(s)
         /\ Reports(s)' = Reports(s)
         /\ contents' = contents => Adhering(s)' = Adhering(s)
<1>1. PICK g : g = graph
  OBVIOUS
<1>2. PICK objects : objects = s.objects
  OBVIOUS
<1>3. PICK scope : scope = s.scope
  OBVIOUS
<1>4. /\ SelectFiles(g, objects)' = SelectFiles(g, objects)
      /\ SelectExternalModules(g, objects)' = SelectExternalModules(g, objects)
      /\ SelectFiles(g, scope)' = SelectFiles(g, scope)
  BY <1>2, <1>3, SelectionStays
<1>5. SelectFiles(graph, s.scope)' = SelectFiles(graph, s.scope)
  BY <1>1, <1>3, <1>4
<1>6. SelectFiles(graph, s.objects)' = SelectFiles(graph, s.objects)
  BY <1>1, <1>2, <1>4
<1>7. SelectExternalModules(graph, s.objects)' = SelectExternalModules(graph, s.objects)
  BY <1>1, <1>2, <1>4
<1>8. EmptyPopulations(s)' = EmptyPopulations(s)
  BY <1>6 DEF EmptyPopulations
<1>9. Gathered(s)' = Gathered(s)
  BY <1>6, <1>7 DEF Gathered, Offending, DependenciesIn
<1>10. Reports(s)' = Reports(s)
  BY <1>9 DEF Reports, Project
<1>11. contents' = contents => Adhering(s)' = Adhering(s)
  BY DEF Adhering
<1> QED
  BY <1>5, <1>8, <1>10, <1>11

\* What was judged stays judged while nothing the judgement rests on changes.
LEMMA JudgedStays ==
  ASSUME NEW s, Elements(s.scope)' = Elements(s.scope), Elements(s.objects)' = Elements(s.objects),
         graph' = graph, selected' = selected, contents' = contents, allowEmpty' = allowEmpty,
         result' = result
  PROVE  (Judged(s) <=> Judged(s)') /\ (Guarded(s) <=> Guarded(s)')
<1>1. Guarded(s) <=> Guarded(s)'
  BY FindingsStay DEF Guarded
<1>2. /\ SelectFiles(graph, s.scope)' = SelectFiles(graph, s.scope)
      /\ EmptyPopulations(s)' = EmptyPopulations(s)
      /\ Reports(s)' = Reports(s) /\ Adhering(s)' = Adhering(s)
  BY FindingsStay
<1>3. Judged(s) <=> Judged(s)'
  BY <1>1, <1>2 DEF Judged
<1> QED
  BY <1>1, <1>3

\* The rule that is checked, and what stays of it.
LEMMA RuleStays ==
  ASSUME IInv, KeepsStages, step # "idle", rule' = rule
  PROVE  \E s : /\ s = stages[rule] /\ s = stages'[rule'] /\ rule \in DOMAIN stages
                /\ Elements(s.scope)' = Elements(s.scope) /\ Elements(s.objects)' = Elements(s.objects)
<1>1. rule \in DOMAIN stages
  BY DEF IInv, Checking
<1>2. PICK k : k = rule
  OBVIOUS
<1>3. PICK s : s = stages[k]
  OBVIOUS
<1>4. /\ stages'[k] = s
      /\ Elements(stages[k].scope)' = Elements(stages[k].scope)
      /\ Elements(stages[k].objects)' = Elements(stages[k].objects)
  BY <1>1, <1>2, <1>3 DEF KeepsStages
<1>5. Elements(s.scope)' = Elements(s.scope) /\ Elements(s.objects)' = Elements(s.objects)
  BY <1>1, <1>2, <1>3, <1>4 DEF KeepsStages, Elements
<1> QED
  BY <1>1, <1>2, <1>3, <1>4, <1>5

\* Chaining, or doing nothing, leaves every decision as it is.
LEMMA DecidingUntouched ==
  ASSUME IInv, Deciding, KeepsStages, UNCHANGED judging
  PROVE  Deciding'
<1>1. /\ step' = step /\ rule' = rule /\ allowEmpty' = allowEmpty /\ graph' = graph
      /\ selected' = selected /\ contents' = contents /\ result' = result
  BY DEF judging, asked
<1>2. CASE step = "idle"
  BY <1>1, <1>2 DEF Deciding, Unchecked
<1>3. CASE step # "idle"
  <2>1. PICK s : /\ s = stages[rule] /\ s = stages'[rule']
                 /\ Elements(s.scope)' = Elements(s.scope) /\ Elements(s.objects)' = Elements(s.objects)
    BY <1>1, <1>3, RuleStays
  <2>2. (Judged(s) <=> Judged(s)') /\ (Guarded(s) <=> Guarded(s)')
        /\ SelectFiles(graph, s.scope)' = SelectFiles(graph, s.scope)
    BY <1>1, <2>1, JudgedStays, FindingsStay
  <2>3. /\ step # "done" => result = Unchecked
        /\ step \in {"judge", "read"} => graph \in Graph /\ selected = SelectFiles(graph, s.scope)
        /\ step = "read" => s.kind = "adherence" /\ ~Guarded(s)
        /\ result.kind \in {"judged", "empty"} => step = "done" /\ Judged(s)
    BY <2>1 DEF Deciding
  <2>4. /\ step' # "done" => result' = Unchecked
        /\ step' \in {"judge", "read"} => graph' \in Graph /\ selected' = SelectFiles(graph, s.scope)'
        /\ step' = "read" => s.kind = "adherence" /\ ~Guarded(s)'
        /\ result'.kind \in {"judged", "empty"} => step' = "done" /\ Judged(s)'
    BY <1>1, <2>2, <2>3
  <2> QED
    BY <2>1, <2>4 DEF Deciding
<1> QED
  BY <1>2, <1>3

LEMMA ResolveDecides ==
  ASSUME IInv, Deciding, KeepsStages, NEW i \in DOMAIN stages, NEW g \in Graph,
         NEW lenient \in BOOLEAN, Resolve(i, g, lenient)
  PROVE  Deciding'
<1>1. step = "idle" /\ rule' = i /\ stages' = stages /\ arrays' = arrays /\ result = Unchecked
  BY DEF Resolve, chains, Deciding
<1>2. CASE stages[i].err # NoError
  BY <1>1, <1>2 DEF Resolve, Finish, Deciding
<1>3. CASE stages[i].err = NoError
  <2>1. /\ step' = "judge" /\ graph' = g /\ result' = result
        /\ selected' = SelectFiles(g, stages[i].scope)
    BY <1>3 DEF Resolve
  <2>2. PICK slice : slice = stages[i].scope
    OBVIOUS
  <2>3. Elements(slice)' = Elements(slice)
    BY <1>1 DEF Elements
  <2>4. SelectFiles(g, slice)' = SelectFiles(g, slice)
    BY <2>3, SelectionStays
  <2>5. SelectFiles(graph, stages[rule].scope)' = SelectFiles(g, slice)'
    BY <1>1, <2>1, <2>2
  <2>6. graph' \in Graph /\ selected' = SelectFiles(graph, stages[rule].scope)'
    BY <2>1, <2>2, <2>4, <2>5
  <2> QED
    BY <1>1, <2>1, <2>6 DEF Deciding, Unchecked
<1> QED
  BY <1>2, <1>3

LEMMA ResolveFailsDecides ==
  ASSUME NEW i \in DOMAIN stages, ResolveFails(i)
  PROVE  Deciding'
BY DEF ResolveFails, Finish, Deciding

LEMMA JudgeDecides ==
  ASSUME IInv, Deciding, KeepsStages, Judge
  PROVE  Deciding'
<1>1. /\ step = "judge" /\ rule' = rule /\ allowEmpty' = allowEmpty /\ graph' = graph
      /\ selected' = selected /\ contents' = contents
  BY DEF Judge, asked
<1>2. PICK s : /\ s = stages[rule] /\ s = stages'[rule']
               /\ Elements(s.scope)' = Elements(s.scope) /\ Elements(s.objects)' = Elements(s.objects)
  BY <1>1, RuleStays
<1>3. /\ graph \in Graph /\ selected = SelectFiles(graph, s.scope) /\ result = Unchecked
      /\ s.err = NoError
  BY <1>1, <1>2 DEF Deciding, IInv, AnswersRejection
<1>4. /\ SelectFiles(graph, s.scope)' = SelectFiles(graph, s.scope)
      /\ EmptyPopulations(s)' = EmptyPopulations(s)
      /\ Reports(s)' = Reports(s)
  BY <1>1, <1>2, FindingsStay
<1>5. Guarded(s)' <=> Guarded(s)
  BY <1>1, <1>4 DEF Guarded
<1>6. IF Guarded(s) THEN Finish([kind |-> "empty", populations |-> EmptyPopulations(s)])
      ELSE IF s.kind = "adherence" THEN step' = "read" /\ UNCHANGED result
      ELSE \E violations \in Reports(s) : Finish([kind |-> "judged", violations |-> violations])
  BY <1>2 DEF Judge, Guarded
<1>7. CASE ~Guarded(s) /\ s.kind = "adherence"
  <2>1. step' = "read" /\ result' = Unchecked /\ graph' \in Graph
        /\ selected' = SelectFiles(graph, s.scope)' /\ ~Guarded(s)'
    BY <1>1, <1>3, <1>4, <1>5, <1>6, <1>7
  <2> QED
    BY <1>2, <1>7, <2>1 DEF Deciding, Unchecked
<1>8. CASE Guarded(s) \/ s.kind # "adherence"
  <2>1. /\ step' = "done"
        /\ IF Guarded(s) THEN result' = [kind |-> "empty", populations |-> EmptyPopulations(s)]
           ELSE \E violations \in Reports(s) : result' = [kind |-> "judged", violations |-> violations]
    BY <1>6, <1>8 DEF Finish
  <2>2. Judged(s)'
    BY <1>1, <1>3, <1>4, <1>5, <1>8, <2>1 DEF Judged
  <2> QED
    BY <1>2, <2>1, <2>2 DEF Deciding
<1> QED
  BY <1>7, <1>8

LEMMA ReadSourceDecides ==
  ASSUME IInv, Deciding, KeepsStages, NEW f \in selected, NEW content \in Content,
         ReadSource(f, content)
  PROVE  Deciding'
<1>1. /\ step = "read" /\ step' = "read" /\ rule' = rule /\ allowEmpty' = allowEmpty
      /\ graph' = graph /\ selected' = selected /\ result' = result
  BY DEF ReadSource, asked
<1>2. PICK s : /\ s = stages[rule] /\ s = stages'[rule']
               /\ Elements(s.scope)' = Elements(s.scope) /\ Elements(s.objects)' = Elements(s.objects)
  BY <1>1, RuleStays
<1>3. /\ graph \in Graph /\ selected = SelectFiles(graph, s.scope) /\ result = Unchecked
      /\ s.kind = "adherence" /\ ~Guarded(s)
  BY <1>1, <1>2 DEF Deciding
<1>4. /\ SelectFiles(graph, s.scope)' = SelectFiles(graph, s.scope)
      /\ EmptyPopulations(s)' = EmptyPopulations(s)
  BY <1>1, <1>2, FindingsStay
<1>5. ~Guarded(s)' /\ graph' \in Graph /\ selected' = SelectFiles(graph, s.scope)'
  BY <1>1, <1>3, <1>4 DEF Guarded
<1> QED
  BY <1>1, <1>2, <1>3, <1>5 DEF Deciding, Unchecked

LEMMA ReadFailsDecides ==
  ASSUME ReadFails
  PROVE  Deciding'
BY DEF ReadFails, Finish, Deciding

LEMMA AdhereDecides ==
  ASSUME IInv, Deciding, KeepsStages, Adhere
  PROVE  Deciding'
<1>1. /\ step = "read" /\ step' = "done" /\ rule' = rule /\ allowEmpty' = allowEmpty
      /\ graph' = graph /\ selected' = selected /\ contents' = contents
      /\ DOMAIN contents = selected
  BY DEF Adhere, asked, Finish
<1>2. PICK s : /\ s = stages[rule] /\ s = stages'[rule']
               /\ Elements(s.scope)' = Elements(s.scope) /\ Elements(s.objects)' = Elements(s.objects)
  BY <1>1, RuleStays
<1>3. /\ graph \in Graph /\ selected = SelectFiles(graph, s.scope)
      /\ s.kind = "adherence" /\ ~Guarded(s) /\ s.err = NoError
  BY <1>1, <1>2 DEF Deciding, IInv, AnswersRejection
<1>4. /\ SelectFiles(graph, s.scope)' = SelectFiles(graph, s.scope)
      /\ EmptyPopulations(s)' = EmptyPopulations(s)
      /\ Adhering(s)' = Adhering(s)
  BY <1>1, <1>2, FindingsStay
<1>5. ~Guarded(s)'
  BY <1>1, <1>3, <1>4 DEF Guarded
<1>6. result' = [kind |-> "judged", violations |-> Adhering(s)]
  BY <1>2 DEF Adhere, Finish
<1>7. Judged(s)'
  BY <1>1, <1>3, <1>4, <1>5, <1>6 DEF Judged
<1> QED
  BY <1>1, <1>2, <1>7 DEF Deciding

LEMMA DecidingKept ==
  ASSUME IInv, Deciding, [Next]_vars
  PROVE  Deciding'
<1>1. KeepsStages \/ UNCHANGED vars
  BY NextStep
<1>2. CASE UNCHANGED vars
  <2>1. UNCHANGED chains /\ UNCHANGED judging
    BY <1>2 DEF vars, chains, judging, asked
  <2>2. KeepsStages
    BY <2>1, ChainsStay
  <2> QED
    BY <2>1, <2>2, DecidingUntouched
<1>3. CASE KeepsStages /\ ~UNCHANGED vars
  <2>1. ASSUME NEW i \in DOMAIN stages, Verb(stages[i]) PROVE UNCHANGED judging
    <3>1. Stages
      BY DEF IInv
    <3>2. PICK d, call, heap : Chain(d, call, heap)
      BY <2>1, <3>1, VerbFollows
    <3> QED
      BY <3>2 DEF Chain
  <2> QED
    BY <1>3, <2>1, DecidingUntouched, ResolveDecides, ResolveFailsDecides, JudgeDecides,
       ReadSourceDecides, ReadFailsDecides, AdhereDecides DEF Next
<1> QED
  BY <1>1, <1>2, <1>3

-----------------------------------------------------------------------------
\* What was judged, in the words that were typed.

\* A selector picks what its select and the excepts to it pick.
LEMMA PictureMeans ==
  ASSUME NEW said, NEW i, NEW x
  PROVE  Matches(Picture(said, i), x) <=> Picks(said, i, x)
BY DEF Matches, Picture, Picks, TakenOut, Excepts

LEMMA StandingPicks ==
  ASSUME NEW elements \in Seq(Selector), NEW said, NEW I, Stand(elements, said, I), NEW x
  PROVE  /\ (\A k \in DOMAIN elements : Matches(elements[k], x)) <=> \A i \in I : Picks(said, i, x)
         /\ (\E k \in DOMAIN elements : Matches(elements[k], x)) <=> \E i \in I : Picks(said, i, x)
<1> DEFINE V == {elements[k] : k \in DOMAIN elements}
<1>1. V = {Picture(said, i) : i \in I}
  BY StandMeans DEF Values
<1>2. \A i \in I : Matches(Picture(said, i), x) <=> Picks(said, i, x)
  BY PictureMeans
<1>3. /\ (\A k \in DOMAIN elements : Matches(elements[k], x)) <=> \A v \in V : Matches(v, x)
      /\ (\E k \in DOMAIN elements : Matches(elements[k], x)) <=> \E v \in V : Matches(v, x)
  OBVIOUS
<1> HIDE DEF V
<1>4. /\ (\A v \in V : Matches(v, x)) <=> \A i \in I : Matches(Picture(said, i), x)
      /\ (\E v \in V : Matches(v, x)) <=> \E i \in I : Matches(Picture(said, i), x)
  BY <1>1, Zenon
<1> QED
  BY <1>2, <1>3, <1>4, Zenon

\* What the slices of a stage select is what its sentence speaks of.
LEMMA HalvesSelect ==
  ASSUME Stages, NEW i \in DOMAIN stages, Meant(stages[i], stages[i].said, arrays)
  PROVE  LET s == stages[i]
         IN  /\ SelectFiles(graph, s.scope) = Subject(s.said)
             /\ SelectFiles(graph, s.objects) = Object(s.said)
             /\ s.objects.len \in Nat
             /\ s.objects.len > 0 <=> Objects(s.said) # {}
             /\ \A x : (\E k \in DOMAIN Elements(s.objects) : Matches(Elements(s.objects)[k], x))
                         <=> \E k \in Objects(s.said) : Picks(s.said, k, x)
<1> DEFINE s == stages[i]
           said == s.said
           scope == Elements(s.scope)
           objects == Elements(s.objects)
<1>1. /\ s.scope \in Slice /\ InHeap(s.scope, arrays) /\ s.objects \in Slice
      /\ InHeap(s.objects, arrays) /\ arrays \in Seq(Seq(Selector))
  BY StageWorks DEF StageOK, Stages
<1>2. /\ scope \in Seq(Selector) /\ objects \in Seq(Selector) /\ Len(objects) = s.objects.len
  BY <1>1, ElementsWork
<1>3. Stand(scope, said, Subjects(said)) /\ Stand(objects, said, Objects(said))
  BY ElementsAreThose DEF Meant
<1> HIDE DEF s, said, scope, objects
<1>4. /\ \A x : (\A k \in DOMAIN scope : Matches(scope[k], x)) <=> \A k \in Subjects(said) : Picks(said, k, x)
      /\ \A x : (\A k \in DOMAIN objects : Matches(objects[k], x)) <=> \A k \in Objects(said) : Picks(said, k, x)
      /\ \A x : (\E k \in DOMAIN objects : Matches(objects[k], x)) <=> \E k \in Objects(said) : Picks(said, k, x)
  BY <1>2, <1>3, StandingPicks
<1>5. SelectFiles(graph, s.scope) = Subject(said)
  BY <1>4, Zenon DEF SelectFiles, Subject, scope
<1>6. SelectFiles(graph, s.objects) = Object(said)
  BY <1>4, Zenon DEF SelectFiles, Object, objects
<1>7. s.objects.len \in Nat /\ (s.objects.len > 0 <=> Objects(said) # {})
  BY <1>2, <1>3, StandMeans
<1> QED
  BY <1>4, <1>5, <1>6, <1>7 DEF s, said, objects

\* The one call that asks is the one the rule reads.
LEMMA AsksMeans ==
  ASSUME NEW s, s.kind \in Conditions, Asked(s, s.said)
  PROVE  /\ AskedBy(s, Asks(s.said))
         /\ s.kind = "naming" <=> Asks(s.said).verb = "require"
         /\ s.kind = "adherence" <=> Asks(s.said).verb = "adhere"
         /\ s.kind \notin {"naming", "adherence"} => Asks(s.said).verb = s.kind
         /\ \A verb \in {"dependency", "external", "cycles"} : s.kind = verb <=> Asks(s.said).verb = verb
<1>1. PICK i \in DOMAIN s.said : Askers(s.said) = {i} /\ AskedBy(s, s.said[i])
  BY DEF Asked
<1>2. \A j : j \in Askers(s.said) <=> j \in DOMAIN s.said /\ s.said[j].verb \in Conditions \cup {"require", "adhere"}
  BY DEF Askers, Asking
<1>3. (CHOOSE j \in DOMAIN s.said : s.said[j].verb \in Conditions \cup {"require", "adhere"}) = i
  BY <1>1, <1>2
<1>4. Asks(s.said) = s.said[i]
  BY <1>3 DEF Asks
<1> DEFINE call == s.said[i]
<1> HIDE DEF call
<1>5. AskedBy(s, call)
  BY <1>1 DEF call
<1>6. /\ s.kind = "naming" <=> call.verb = "require"
      /\ s.kind = "adherence" <=> call.verb = "adhere"
      /\ s.kind \notin {"naming", "adherence"} => call.verb = s.kind
      /\ \A verb \in {"dependency", "external", "cycles"} : s.kind = verb <=> call.verb = verb
  BY <1>5 DEF AskedBy, Conditions
<1> QED
  BY <1>4, <1>5, <1>6 DEF call

\* A projected edge is a dependency between different labels.
LEMMA ProjectMeans ==
  ASSUME graph \in Graph, NEW from, NEW to, NEW external \in BOOLEAN
  PROVE  /\ \A d \in Project(graph, from, to, external) :
              d = <<d[1], d[2]>> /\ d[1] \in from /\ d[2] \in to
         /\ \A f, x : <<f, x>> \in Project(graph, from, to, external)
                        <=> f \in from /\ x \in to /\ x # f /\ Depends(f, x, external)
<1>1. \A e \in graph.edges : e = [source |-> e.source, target |-> e.target, external |-> e.external]
  BY RulesAssumption
<1>2. \A d \in Project(graph, from, to, external) :
        d = <<d[1], d[2]>> /\ d[1] \in from /\ d[2] \in to
  BY DEF Project
<1>3. ASSUME NEW f, NEW x, <<f, x>> \in Project(graph, from, to, external)
      PROVE  f \in from /\ x \in to /\ x # f /\ Depends(f, x, external)
  <2>1. PICK e \in graph.edges : /\ e.source \in from /\ e.target \in to /\ e.external = external
                                 /\ e.source # e.target /\ <<f, x>> = <<e.source, e.target>>
    BY <1>3 DEF Project
  <2>2. f = e.source /\ x = e.target
    BY <2>1
  <2> QED
    BY <1>1, <2>1, <2>2 DEF Depends
<1>4. ASSUME NEW f, NEW x, f \in from, x \in to, x # f, Depends(f, x, external)
      PROVE  <<f, x>> \in Project(graph, from, to, external)
  <2> DEFINE e == [source |-> f, target |-> x, external |-> external]
  <2>1. e \in graph.edges /\ e.source = f /\ e.target = x /\ e.external = external
    BY <1>4 DEF Depends
  <2> QED
    BY <1>4, <2>1 DEF Project
<1> QED
  BY <1>2, <1>3, <1>4

LEMMA DependenciesMean ==
  ASSUME graph \in Graph, NEW to, NEW external \in BOOLEAN, NEW f \in selected
  PROVE  DependenciesIn(Project(graph, selected, to, external))[f]
           = {x \in to : x # f /\ Depends(f, x, external)}
<1> DEFINE P == Project(graph, selected, to, external)
<1>1. /\ \A d \in P : d = <<d[1], d[2]>> /\ d[1] \in selected /\ d[2] \in to
      /\ \A x : <<f, x>> \in P <=> x \in to /\ x # f /\ Depends(f, x, external)
  BY ProjectMeans
<1> HIDE DEF P
<1>2. DependenciesIn(P)[f] = {d[2] : d \in {e \in P : e[1] = f}}
  BY DEF DependenciesIn
<1>3. \A x : x \in {d[2] : d \in {e \in P : e[1] = f}} <=> <<f, x>> \in P
  <2> TAKE x
  <2>1. ASSUME NEW d \in P, d[1] = f, d[2] = x PROVE <<f, x>> \in P
    BY <1>1, <2>1
  <2>2. ASSUME <<f, x>> \in P PROVE \E d \in P : d[1] = f /\ d[2] = x
    BY <2>2
  <2> QED
    BY <2>1, <2>2
<1>4. {d[2] : d \in {e \in P : e[1] = f}} = {x \in to : x # f /\ Depends(f, x, external)}
  BY <1>1, <1>3
<1> QED
  BY <1>2, <1>4 DEF P

\* A mood is negated or it is not.
LEMMA MoodMeans ==
  ASSUME NEW mood \in Moody, NEW negated \in BOOLEAN, mood = "shouldNot" <=> negated,
         NEW satisfied \in BOOLEAN
  PROVE  ~Holds(mood, satisfied) <=> satisfied = negated
BY DEF Holds, Moody

\* What a rule that was judged is about.
LEMMA JudgedMeans ==
  ASSUME IInv, Meanings, Deciding, result.kind \in {"judged", "empty"}
  PROVE  LET s == stages[rule]
         IN  /\ step = "done" /\ Judged(s) /\ Stages /\ graph \in Graph /\ rule \in DOMAIN stages
             /\ s \in Stage /\ s.kind \in Conditions /\ s.mood \in Moody
             /\ Meant(s, s.said, arrays)
             /\ selected = Subject(s.said)
             /\ Negated(s.said) \in BOOLEAN /\ (s.mood = "shouldNot" <=> Negated(s.said))
<1> DEFINE s == stages[rule]
<1>1. step = "done" /\ Judged(s) /\ Stages
  BY DEF Deciding, IInv
<1>2. rule \in DOMAIN stages /\ s.kind \in Conditions
  BY <1>1 DEF IInv, Checking
<1>3. s \in Stage /\ s.mood \in Moody /\ s.err = NoError
  BY <1>1, <1>2, StageWorks DEF Stage, Judged
<1>4. Meant(s, s.said, arrays)
  BY <1>2, <1>3 DEF Meanings
<1>5. selected = Subject(s.said)
  BY <1>1, <1>2, <1>4, HalvesSelect DEF Judged
<1> QED
  BY <1>1, <1>2, <1>3, <1>4, <1>5 DEF Meant, Negated, Judged

\* What matched nothing, in the words of the rule.
LEMMA PopulationsMean ==
  ASSUME IInv, Meanings, Deciding, result.kind \in {"judged", "empty"}
  PROVE  LET s == stages[rule]
         IN  EmptyPopulations(s)
               = (IF Subject(s.said) = {} THEN {"files"} ELSE {})
                 \cup (IF Asks(s.said).verb = "dependency" /\ Objects(s.said) # {} /\ Object(s.said) = {}
                       THEN {"objects"} ELSE {})
<1> DEFINE s == stages[rule]
<1>1. /\ Stages /\ rule \in DOMAIN stages /\ s.kind \in Conditions /\ Meant(s, s.said, arrays)
      /\ selected = Subject(s.said)
  BY JudgedMeans
<1>2. SelectFiles(graph, s.objects) = Object(s.said) /\ (s.objects.len > 0 <=> Objects(s.said) # {})
  BY <1>1, HalvesSelect
<1>3. s.kind = "dependency" <=> Asks(s.said).verb = "dependency"
  BY <1>1, AsksMeans DEF Meant
<1> QED
  BY <1>1, <1>2, <1>3 DEF EmptyPopulations

\* The dependencies a rule is about, file by file.
LEMMA DependencyFound ==
  ASSUME IInv, Meanings, Deciding, result.kind \in {"judged", "empty"},
         stages[rule].kind = "dependency", NEW f \in selected
  PROVE  LET s == stages[rule]
         IN  DependenciesIn(Project(graph, selected, SelectFiles(graph, s.objects), FALSE))[f]
               = Found(s.said, f)
<1> DEFINE s == stages[rule]
           to == SelectFiles(graph, s.objects)
<1>1. /\ Stages /\ rule \in DOMAIN stages /\ Meant(s, s.said, arrays) /\ graph \in Graph
      /\ s.kind \in Conditions
  BY JudgedMeans
<1>2. to = Object(s.said)
  BY <1>1, HalvesSelect
<1>3. Asks(s.said).verb = "dependency"
  BY <1>1, AsksMeans DEF Meant
<1> HIDE DEF to
<1>4. DependenciesIn(Project(graph, selected, to, FALSE))[f] = {x \in to : x # f /\ Depends(f, x, FALSE)}
  BY <1>1, DependenciesMean
<1>5. Found(s.said, f) = {x \in Object(s.said) \ {f} : Depends(f, x, FALSE)}
  BY <1>3 DEF Found
<1> QED
  BY <1>2, <1>4, <1>5 DEF to

LEMMA ExternalFound ==
  ASSUME IInv, Meanings, Deciding, result.kind \in {"judged", "empty"},
         stages[rule].kind = "external", NEW f \in selected
  PROVE  LET s == stages[rule]
         IN  DependenciesIn(Project(graph, selected, SelectExternalModules(graph, s.objects), TRUE))[f]
               = Found(s.said, f)
<1> DEFINE s == stages[rule]
           said == s.said
           to == SelectExternalModules(graph, s.objects)
           Wanted(x) == Objects(said) = {} \/ \E i \in Objects(said) : Picks(said, i, x)
<1>1. /\ Stages /\ rule \in DOMAIN stages /\ Meant(s, s.said, arrays) /\ graph \in Graph
      /\ s.kind \in Conditions
  BY JudgedMeans
<1>2. /\ s.objects.len \in Nat /\ (s.objects.len > 0 <=> Objects(said) # {})
      /\ \A x : (\E k \in DOMAIN Elements(s.objects) : Matches(Elements(s.objects)[k], x))
                  <=> \E k \in Objects(said) : Picks(said, k, x)
  BY <1>1, HalvesSelect
<1>3. \A x : (\/ s.objects.len = 0
              \/ \E k \in DOMAIN Elements(s.objects) : Matches(Elements(s.objects)[k], x)) <=> Wanted(x)
  <2>1. s.objects.len = 0 <=> Objects(said) = {}
    BY <1>2
  <2> QED
    BY <1>2, <2>1
<1>4. Asks(said).verb = "external"
  BY <1>1, AsksMeans DEF Meant
<1> HIDE DEF Wanted
<1>5. \A x : x \in to <=> Wanted(x) /\ \E e \in graph.edges : e.external /\ e.target = x
  BY <1>3 DEF SelectExternalModules
<1>6. ASSUME NEW x, Depends(f, x, TRUE)
      PROVE  x \in Module /\ \E e \in graph.edges : e.external /\ e.target = x
  <2> DEFINE e == [source |-> f, target |-> x, external |-> TRUE]
  <2>1. e \in graph.edges /\ e.external /\ e.target = x
    BY <1>6 DEF Depends
  <2> HIDE DEF e
  <2> QED
    BY <1>1, <2>1, RulesAssumption
<1> HIDE DEF to
<1>7. DependenciesIn(Project(graph, selected, to, TRUE))[f] = {x \in to : x # f /\ Depends(f, x, TRUE)}
  BY <1>1, DependenciesMean
<1>8. Found(said, f) = {x \in Module \ {f} : Depends(f, x, TRUE) /\ Wanted(x)}
  BY <1>4 DEF Found, Wanted
<1>9. {x \in to : x # f /\ Depends(f, x, TRUE)} = {x \in Module \ {f} : Depends(f, x, TRUE) /\ Wanted(x)}
  BY <1>5, <1>6
<1> QED
  BY <1>7, <1>8, <1>9 DEF to

\* Every condition about files reports those of them that do not do as they are asked.
LEMMA ReportMeans ==
  ASSUME IInv, Meanings, Deciding, result.kind \in {"judged", "empty"},
         stages[rule].kind \in Conditions \ {"cycles"}
  PROVE  LET s == stages[rule]
         IN  (IF s.kind = "adherence" THEN Adhering(s) ELSE Gathered(s))
               = {[file |-> f, found |-> Found(s.said, f)] :
                    f \in {x \in Subject(s.said) : Satisfies(s.said, x) = Negated(s.said)}}
<1> DEFINE s == stages[rule]
           said == s.said
           asks == Asks(said)
           report == {[file |-> f, found |-> Found(said, f)] :
                        f \in {x \in selected : Satisfies(said, x) = Negated(said)}}
<1>1. /\ s \in Stage /\ s.mood \in Moody /\ Asked(s, said) /\ selected = Subject(said)
      /\ Negated(said) \in BOOLEAN /\ (s.mood = "shouldNot" <=> Negated(said))
  BY JudgedMeans DEF Meant
<1>2. /\ AskedBy(s, asks) /\ s.kind \in Conditions
      /\ s.kind = "naming" <=> asks.verb = "require"
      /\ s.kind = "adherence" <=> asks.verb = "adhere"
      /\ s.kind = "dependency" <=> asks.verb = "dependency"
      /\ s.kind = "external" <=> asks.verb = "external"
  BY <1>1, AsksMeans
<1>3. \A satisfied \in BOOLEAN : ~Holds(s.mood, satisfied) <=> satisfied = Negated(said)
  BY <1>1, MoodMeans
<1>4. CASE s.kind = "naming"
  <2>1. asks.verb = "require" /\ asks.pattern = s.required
    BY <1>2, <1>4 DEF AskedBy
  <2>2. \A f : Found(said, f) = {} /\ (Satisfies(said, f) = (f \in Describes[s.required]))
    BY <2>1 DEF Found, Satisfies
  <2>3. Gathered(s) = {[file |-> f, found |-> {}] :
                         f \in {g \in selected : ~Holds(s.mood, g \in Describes[s.required])}}
    BY <1>4 DEF Gathered
  <2>4. \A g : ~Holds(s.mood, g \in Describes[s.required]) <=> Satisfies(said, g) = Negated(said)
    <3> TAKE g
    <3> DEFINE b == g \in Describes[s.required]
    <3>1. b \in BOOLEAN /\ Satisfies(said, g) = b
      BY <2>2
    <3> HIDE DEF b
    <3>2. ~Holds(s.mood, b) <=> Satisfies(said, g) = Negated(said)
      BY <1>3, <3>1
    <3> QED
      BY <3>2 DEF b
  <2>5. {g \in selected : ~Holds(s.mood, g \in Describes[s.required])}
          = {g \in selected : Satisfies(said, g) = Negated(said)}
    BY <2>4
  <2>6. Gathered(s) = report
    BY <2>2, <2>3, <2>5
  <2> QED
    BY <1>1, <1>4, <2>6
<1>5. CASE s.kind = "adherence"
  <2>1. asks.verb = "adhere" /\ asks.predicate = s.accepts
    BY <1>2, <1>5 DEF AskedBy
  <2>2. \A f : Found(said, f) = {} /\ (Satisfies(said, f) = (contents[f] \in s.accepts))
    BY <2>1 DEF Found, Satisfies
  <2>3. \A g : ~Holds(s.mood, contents[g] \in s.accepts) <=> Satisfies(said, g) = Negated(said)
    <3> TAKE g
    <3> DEFINE b == contents[g] \in s.accepts
    <3>1. b \in BOOLEAN /\ Satisfies(said, g) = b
      BY <2>2
    <3> HIDE DEF b
    <3>2. ~Holds(s.mood, b) <=> Satisfies(said, g) = Negated(said)
      BY <1>3, <3>1
    <3> QED
      BY <3>2 DEF b
  <2>4. {g \in selected : ~Holds(s.mood, contents[g] \in s.accepts)}
          = {g \in selected : Satisfies(said, g) = Negated(said)}
    BY <2>3
  <2>5. Adhering(s) = report
    BY <2>2, <2>4 DEF Adhering
  <2> QED
    BY <1>1, <1>5, <2>5
<1>6. ASSUME s.kind \in {"dependency", "external"}, NEW found,
             Gathered(s) = Offending(s, found), \A f \in selected : found[f] = Found(said, f)
      PROVE  Gathered(s) = report
  <2>1. \A f : Satisfies(said, f) = (Found(said, f) # {})
    BY <1>2, <1>6 DEF Satisfies
  <2>2. \A g \in selected : ~Holds(s.mood, found[g] # {}) <=> Satisfies(said, g) = Negated(said)
    BY <1>3, <1>6, <2>1
  <2>3. {g \in selected : ~Holds(s.mood, found[g] # {})}
          = {g \in selected : Satisfies(said, g) = Negated(said)}
    BY <2>2
  <2>4. Offending(s, found) = {[file |-> f, found |-> found[f]] :
                                 f \in {g \in selected : Satisfies(said, g) = Negated(said)}}
    BY <2>3 DEF Offending
  <2>5. {[file |-> f, found |-> found[f]] : f \in {g \in selected : Satisfies(said, g) = Negated(said)}}
          = report
    BY <1>6
  <2> QED
    BY <1>6, <2>4, <2>5
<1>7. CASE s.kind = "dependency"
  <2> DEFINE found == DependenciesIn(Project(graph, selected, SelectFiles(graph, s.objects), FALSE))
  <2>1. Gathered(s) = Offending(s, found)
    BY <1>7 DEF Gathered
  <2>2. \A f \in selected : found[f] = Found(said, f)
    BY <1>7, DependencyFound
  <2> HIDE DEF found
  <2>3. Gathered(s) = report
    BY <1>6, <1>7, <2>1, <2>2
  <2> QED
    BY <1>1, <1>7, <2>3
<1>8. CASE s.kind = "external"
  <2> DEFINE found == DependenciesIn(Project(graph, selected, SelectExternalModules(graph, s.objects), TRUE))
  <2>1. Gathered(s) = Offending(s, found)
    BY <1>8 DEF Gathered
  <2>2. \A f \in selected : found[f] = Found(said, f)
    BY <1>8, ExternalFound
  <2> HIDE DEF found
  <2>3. Gathered(s) = report
    BY <1>6, <1>8, <2>1, <2>2
  <2> QED
    BY <1>1, <1>8, <2>3
<1> QED
  BY <1>4, <1>5, <1>7, <1>8 DEF Conditions

\* A rule against cycles reports circuits among its files, one at least when there is
\* one, and unless they are as many as a report holds they take every dependency that
\* is on one.
LEMMA CyclesMean ==
  ASSUME IInv, Meanings, Deciding, result.kind \in {"judged", "empty"},
         stages[rule].kind = "cycles", NEW violations \in Reports(stages[rule])
  PROVE  LET files == Subject(stages[rule].said)
             circuits == {v.circuit : v \in violations}
         IN  /\ \A c \in circuits : IsElementaryCircuit(Within(files), c)
             /\ Cardinality(circuits) <= DefaultMaxCircuits
             /\ Cardinality(circuits) < DefaultMaxCircuits =>
                  UNION {Along(c) : c \in circuits} = CyclicEdges(Within(files))
             /\ circuits = {} => CyclicEdges(Within(files)) = {}
<1> DEFINE s == stages[rule]
           files == Subject(s.said)
           P == Project(graph, selected, selected, FALSE)
           circuits == {v.circuit : v \in violations}
<1>1. selected = files /\ graph \in Graph /\ files \subseteq graph.files
  BY JudgedMeans DEF Subject
<1> HIDE DEF files
<1>2. /\ \A d \in P : d = <<d[1], d[2]>> /\ d[1] \in files /\ d[2] \in files
      /\ \A f, x : <<f, x>> \in P <=> f \in files /\ x \in files /\ x # f /\ Depends(f, x, FALSE)
  BY <1>1, ProjectMeans
<1> HIDE DEF P
<1>3. P = Within(files)
  <2>1. ASSUME NEW d \in P PROVE d \in Within(files)
    <3>1. d = <<d[1], d[2]>> /\ d[1] \in files /\ d[2] \in files
      BY <1>2
    <3>2. d \in files \X files
      BY <3>1
    <3>3. d[1] # d[2] /\ Depends(d[1], d[2], FALSE)
      BY <1>2, <3>1
    <3> QED
      BY <3>2, <3>3 DEF Within
  <2>2. ASSUME NEW d \in Within(files) PROVE d \in P
    <3>1. d \in files \X files /\ d[1] # d[2] /\ Depends(d[1], d[2], FALSE)
      BY Zenon DEF Within
    <3>2. d = <<d[1], d[2]>> /\ d[1] \in files /\ d[2] \in files
      BY <3>1
    <3> QED
      BY <1>2, <3>1, <3>2
  <2> QED
    BY <2>1, <2>2
<1>4. IsGraph(P)
  <2>1. IsFiniteSet(files) /\ files \subseteq Int
    <3>1. IsFiniteSet(graph.files) /\ graph.files \subseteq File /\ File \subseteq Int
      BY <1>1, RulesAssumption
    <3> QED
      BY <1>1, <3>1, FS_Subset
  <2>2. IsFiniteSet(files \X files)
    BY <2>1, FS_Product
  <2>3. P \subseteq files \X files
    BY <1>2
  <2>4. IsFiniteSet(P)
    BY <2>2, <2>3, FS_Subset
  <2>5. P \subseteq Int \X Int
    BY <2>1, <2>3
  <2> QED
    BY <2>4, <2>5 DEF IsGraph
<1>5. PICK listed \in ProjectCircuits(P) : violations = {[circuit |-> c] : c \in listed}
  BY DEF Reports, P
<1>6. /\ listed \subseteq ElementaryCircuits(P)
      /\ Cardinality(listed) <= DefaultMaxCircuits
      /\ listed # ElementaryCircuits(P) => Cardinality(listed) = DefaultMaxCircuits
  BY <1>5 DEF ProjectCircuits
<1>7. circuits = listed
  <2>1. \A c : [circuit |-> c].circuit = c
    OBVIOUS
  <2> DEFINE T == {[circuit |-> c] : c \in listed}
  <2>2. \A v \in T : v.circuit \in listed
    BY <2>1
  <2>3. \A c \in listed : \E v \in T : v.circuit = c
    <3> TAKE c \in listed
    <3>1. [circuit |-> c] \in T
      OBVIOUS
    <3> QED
      BY <2>1, <3>1
  <2> HIDE DEF T
  <2>4. {v.circuit : v \in T} = listed
    BY <2>2, <2>3
  <2> QED
    BY <1>5, <2>4 DEF T
<1> HIDE DEF circuits
<1>8. \A c \in circuits : IsElementaryCircuit(P, c)
  BY <1>4, <1>6, <1>7, CircuitsAreElementary
<1>9. DefaultMaxCircuits \in Nat \ {0}
  BY RulesAssumption
<1>10. Cardinality(circuits) <= DefaultMaxCircuits
  BY <1>6, <1>7
<1>11. ASSUME circuits = ElementaryCircuits(P)
       PROVE  UNION {Along(c) : c \in circuits} = CyclicEdges(P)
  <2>1. \A c \in circuits : Along(c) = {<<c[i], NextOf(c, i)>> : i \in 1 .. Len(c)}
    <3> TAKE c \in circuits
    <3>1. DOMAIN c = 1 .. Len(c)
      BY <1>4, <1>11, CircuitWorks
    <3> QED
      BY <3>1 DEF Along, NextOf
  <2>2. {Along(c) : c \in circuits} = {{<<c[i], NextOf(c, i)>> : i \in 1 .. Len(c)} : c \in circuits}
    BY <2>1, Zenon
  <2>3. {Along(c) : c \in circuits} = {{<<c[i], NextOf(c, i)>> : i \in 1 .. Len(c)} : c \in ElementaryCircuits(P)}
    BY <1>11, <2>2, Zenon
  <2> QED
    BY <1>4, <2>3, CircuitsTakeCyclicEdges
<1>12. Cardinality(circuits) < DefaultMaxCircuits => circuits = ElementaryCircuits(P)
  BY <1>6, <1>7, <1>9
<1>13. circuits = {} => CyclicEdges(P) = {}
  <2> SUFFICES ASSUME circuits = {} PROVE CyclicEdges(P) = {}
    OBVIOUS
  <2>1. Cardinality(circuits) < DefaultMaxCircuits
    BY <1>9, FS_EmptySet
  <2>2. UNION {Along(c) : c \in circuits} = CyclicEdges(P)
    BY <1>11, <1>12, <2>1
  <2>3. {Along(c) : c \in circuits} = {}
    OBVIOUS
  <2> QED
    BY <2>2, <2>3
<1>14. /\ \A c \in circuits : IsElementaryCircuit(Within(files), c)
       /\ Cardinality(circuits) <= DefaultMaxCircuits
       /\ Cardinality(circuits) < DefaultMaxCircuits =>
            UNION {Along(c) : c \in circuits} = CyclicEdges(Within(files))
       /\ circuits = {} => CyclicEdges(Within(files)) = {}
  BY <1>3, <1>8, <1>10, <1>11, <1>12, <1>13
<1> QED
  BY <1>14 DEF files, circuits

LEMMA JudgementsMean ==
  ASSUME IInv, Meanings, Deciding
  PROVE  VerdictIsTheSentence
<1> SUFFICES ASSUME result.kind \in {"judged", "empty"} PROVE VerdictIsTheSentence
  BY DEF VerdictIsTheSentence
<1> DEFINE s == stages[rule]
           said == s.said
           files == Subject(said)
           nothing == (IF files = {} THEN {"files"} ELSE {})
                      \cup (IF Asks(said).verb = "dependency" /\ Objects(said) # {} /\ Object(said) = {}
                            THEN {"objects"} ELSE {})
<1>1. /\ Judged(s) /\ s.kind \in Conditions /\ Asked(s, said) /\ selected = files
  BY JudgedMeans DEF Meant
<1>2. /\ s.kind = "adherence" <=> Asks(said).verb = "adhere"
      /\ s.kind = "cycles" <=> Asks(said).verb = "cycles"
  BY <1>1, AsksMeans
<1>3. EmptyPopulations(s) = nothing
  BY PopulationsMean
<1> HIDE DEF nothing
<1>4. CASE nothing # {} /\ ~allowEmpty
  <2>1. result = [kind |-> "empty", populations |-> nothing]
    BY <1>1, <1>3, <1>4 DEF Judged, Guarded
  <2>2. result.kind = "empty" /\ result.populations = nothing
    BY <2>1
  <2> QED
    BY <1>4, <2>2 DEF VerdictIsTheSentence, nothing
<1>5. CASE ~(nothing # {} /\ ~allowEmpty)
  <2>1. PICK violations \in (IF s.kind = "adherence" THEN {Adhering(s)} ELSE Reports(s)) :
          result = [kind |-> "judged", violations |-> violations]
    BY <1>1, <1>3, <1>5 DEF Judged, Guarded
  <2>2. /\ result.kind = "judged" /\ result.violations = violations
        /\ s.kind = "adherence" => DOMAIN contents = files
    BY <1>1, <1>3, <1>5, <2>1 DEF Judged, Guarded
  <2>3. CASE s.kind = "cycles"
    <3>1. result.violations \in Reports(s)
      BY <2>1, <2>2, <2>3
    <3>2. LET circuits == {v.circuit : v \in result.violations}
          IN  /\ \A c \in circuits : IsElementaryCircuit(Within(files), c)
              /\ Cardinality(circuits) <= DefaultMaxCircuits
              /\ Cardinality(circuits) < DefaultMaxCircuits =>
                   UNION {Along(c) : c \in circuits} = CyclicEdges(Within(files))
              /\ circuits = {} => CyclicEdges(Within(files)) = {}
      BY <2>3, <3>1, CyclesMean
    <3> QED
      BY <1>2, <1>5, <2>2, <2>3, <3>2 DEF VerdictIsTheSentence, nothing
  <2>4. CASE s.kind # "cycles"
    <3>1. result.violations = {[file |-> f, found |-> Found(said, f)] :
                                 f \in {x \in files : Satisfies(said, x) = Negated(said)}}
      BY <1>1, <2>1, <2>2, <2>4, ReportMeans DEF Reports
    <3> QED
      BY <1>2, <1>5, <2>2, <2>4, <3>1 DEF VerdictIsTheSentence, nothing
  <2> QED
    BY <2>3, <2>4
<1> QED
  BY <1>4, <1>5

LEMMA InitMeanings == Init => Meanings /\ Deciding
<1> SUFFICES ASSUME Init PROVE Meanings /\ Deciding
  OBVIOUS
<1>1. Selects(<< >>) = {} /\ Subjects(<< >>) = {} /\ Objects(<< >>) = {} /\ Askers(<< >>) = {}
  BY DEF Selects, Subjects, Objects, Askers
<1>2. Unmoody(<< >>) /\ ~Negated(<< >>)
  BY DEF Unmoody, Negated
<1>3. ElementsIn(Nil, arrays) = << >>
  BY DEF ElementsIn, Nil
<1>4. Meant(ProjectFiles, << >>, arrays)
  BY <1>1, <1>2, <1>3 DEF Meant, ProjectFiles, Stand, Asked, Conditions
<1>5. DOMAIN stages = {1} /\ stages[1] = ProjectFiles /\ ProjectFiles.said = << >>
  BY DEF Init, ProjectFiles
<1>6. Meanings
  BY <1>4, <1>5 DEF Meanings
<1>7. Deciding
  BY DEF Init, Deciding, Unchecked
<1> QED
  BY <1>6, <1>7

\* Whatever was typed, stored, branched off and excepted, and whatever the sources
\* have become since the graph was made, a rule that is judged is judged as its
\* sentence reads, and one that speaks of nothing is not.
THEOREM VerdictsAreSentences == Spec => []VerdictIsTheSentence
<1> DEFINE Inv == IInv /\ Meanings /\ Deciding
<1>1. Init => Inv
  BY InitIInv, InitMeanings
<1>2. Inv /\ [Next]_vars => Inv'
  BY NextStep, MeaningsKept, DecidingKept
<1>3. Inv => VerdictIsTheSentence
  BY JudgementsMean
<1> QED
  BY <1>1, <1>2, <1>3, PTL DEF Spec

=============================================================================
