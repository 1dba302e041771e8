----------------------------- MODULE LayersPolicy -----------------------------
(***************************************************************************)
(* A named-layer policy: the fluent chain of layers/fluentapi that builds  *)
(* it, one verb at a time, and the check that judges a project by it       *)
(* (layers/projection, layers/assertion, the empty-test guard).            *)
(*                                                                         *)
(* Every stage of the chain is a value: the code clones each slice before  *)
(* it appends, so a stage that was stored is never changed by what is      *)
(* chained onto it, and following one chain is enough.                     *)
(*                                                                         *)
(* A pattern is known by what it describes: Describes[p] is the set of     *)
(* identifiers it matches.  Some patterns do not compile.                  *)
(***************************************************************************)
EXTENDS Integers, Sequences, FiniteSetsExt

CONSTANTS
  Name,           \* the layer names a user may type
  NoName,         \* the empty string
  Pattern,        \* the patterns a user may type
  Exceptions,     \* the sets of patterns a user may except
  Describes,      \* what each pattern that compiles describes
  Project,        \* graphs a project may have: [files, edges], an edge
                  \* being [source, target, external]
  MaxCalls        \* bound: the calls one chain is made of, before its check

ASSUME LayersAssumption ==
  /\ Exceptions \subseteq SUBSET Pattern
  /\ DOMAIN Describes \subseteq Pattern
  /\ MaxCalls \in Nat

VARIABLES
  policy,   \* the LayersBuilder: its layers, clauses and first rejection
  stage,    \* the type of the stage: which verbs it has
  open,     \* the name a LayerBuilder or a LayerPolicyBuilder carries
  said,     \* history: the verbs typed so far
  project,  \* the project the policy was checked against, once it was
  result    \* what Check returned

vars == <<policy, stage, open, said, project, result>>

Compiles == DOMAIN Describes
Mood == {"mayOnly", "mayNot"}
NoError == 0
Unchecked == [kind |-> "none"]
NoProject == [files |-> {}, edges |-> {}]

Init ==
  /\ policy = [layers |-> << >>, declared |-> NoName, clauses |-> << >>, err |-> NoError]
  /\ stage = "policy"
  /\ open = NoName
  /\ said = << >>
  /\ project = NoProject
  /\ result = Unchecked

Say(call) == said' = Append(said, call)

-----------------------------------------------------------------------------
\* Mutant of Rejecting: the last rejection is kept.
RejectingLast(b) == [b EXCEPT !.err = Len(said) + 1]

\* The first rejection wins.  The error names the verb and quotes its argument:
\* here it is the number of the call that is at fault.
Rejecting(b) == [b EXCEPT !.err = IF @ = NoError THEN Len(said) + 1 ELSE @]

Declares(b, name) == \E i \in DOMAIN b.layers : b.layers[i].name = name
Place(b, name) == CHOOSE i \in DOMAIN b.layers : b.layers[i].name = name

\* projection.NewLayer.
NewLayer(name, selectors) == [name |-> name, selectors |-> selectors]
WithLayers(b, layers, name) ==
  [layers |-> layers, declared |-> name, clauses |-> b.clauses, err |-> b.err]

\* Mutant of Declaring: a name declared again becomes a layer of its own.
DeclaringAnother(b, name, selector) ==
  WithLayers(b, Append(b.layers, NewLayer(name, <<selector>>)), name)

\* A name declared twice is one layer, widened where it stands.
Declaring(b, name, selector) ==
  WithLayers(b, IF Declares(b, name)
                THEN [b.layers EXCEPT ![Place(b, name)] =
                        NewLayer(name, Append(@.selectors, selector))]
                ELSE Append(b.layers, NewLayer(name, <<selector>>)), name)

\* Filter.ExcludingMatchers.
Excluding(selector, patterns) == [selector EXCEPT !.excluded = @ \cup patterns]

\* matching.Excepting, and the layer redeclared from its result: the patterns
\* become exclusions of the last selector of the layer declared most recently.
Excepting(b, patterns) ==
  LET at == Place(b, b.declared)
      selectors == b.layers[at].selectors
      narrowed == [selectors EXCEPT ![Len(selectors)] = Excluding(@, patterns)]
  IN  IF ~Declares(b, b.declared) \/ patterns = {} \/ ~(patterns \subseteq Compiles)
      THEN Rejecting(b)
      ELSE WithLayers(b, [b.layers EXCEPT ![at] = NewLayer(b.declared, narrowed)], b.declared)

-----------------------------------------------------------------------------
\* The verbs.
Layer(name) ==
  /\ stage = "policy" /\ Len(said) < MaxCalls
  /\ policy' = IF name = NoName THEN Rejecting(policy) ELSE policy
  /\ stage' = "layer"
  /\ open' = name
  /\ Say([verb |-> "layer", name |-> name])
  /\ UNCHANGED <<project, result>>

\* DefinedBy and DefinedByFolder: a rejected chain declares no further layer.
DefinedBy(pattern) ==
  /\ stage = "layer"
  /\ policy' = IF pattern \notin Compiles THEN Rejecting(policy)
               ELSE IF policy.err # NoError THEN policy
               ELSE Declaring(policy, open, [pattern |-> pattern, excluded |-> {}])
  /\ stage' = "policy"
  /\ Say([verb |-> "definedBy", name |-> open, pattern |-> pattern])
  /\ UNCHANGED <<open, project, result>>

Except(patterns) ==
  /\ stage = "policy" /\ Len(said) < MaxCalls
  /\ policy' = Excepting(policy, patterns)
  /\ Say([verb |-> "except", patterns |-> patterns])
  /\ UNCHANGED <<stage, open, project, result>>

WhereLayer(name) ==
  /\ stage \in {"policy", "condition"} /\ Len(said) < MaxCalls
  /\ policy' = IF name = NoName \/ ~Declares(policy, name) THEN Rejecting(policy) ELSE policy
  /\ stage' = "clause"
  /\ open' = name
  /\ Say([verb |-> "where", name |-> name])
  /\ UNCHANGED <<project, result>>

\* MayOnlyDependOnLayers and MayNotDependOnLayers.  A clause that is rejected
\* still joins the policy.
Clausing(named, mood) ==
  /\ stage = "clause"
  /\ policy' =
       LET faulty == \/ mood = "mayNot" /\ named = {}
                     \/ \E name \in named : ~Declares(policy, name)
           b == IF faulty THEN Rejecting(policy) ELSE policy
       IN  [b EXCEPT !.clauses = Append(@, [layer |-> open, named |-> named, mood |-> mood])]
  /\ stage' = "condition"
  /\ Say([verb |-> mood, layer |-> open, named |-> named])
  /\ UNCHANGED <<open, project, result>>

-----------------------------------------------------------------------------
\* Layer.Matches and Filter.Matches: any selector is enough, and an exclusion
\* vetoes the selector it qualifies.
Matches(layer, identifier) ==
  \E i \in DOMAIN layer.selectors :
    /\ identifier \in Describes[layer.selectors[i].pattern]
    /\ \A p \in layer.selectors[i].excluded : identifier \notin Describes[p]

\* The first layer that matches; NoName when there is none.
LayerOf(identifier) ==
  LET matching == {i \in DOMAIN policy.layers : Matches(policy.layers[i], identifier)}
  IN  IF matching = {} THEN NoName ELSE policy.layers[Min(matching)].name

\* SelectLayerFiles: a layer no file is in is a key of the result all the same.
Membership(files) ==
  [name \in {policy.layers[i].name : i \in DOMAIN policy.layers} |->
     {f \in files : LayerOf(f) = name}]

\* PerLayerEdge through ProjectEdges: one projected edge per pair of layers.
LayerPair(edge) == <<LayerOf(edge.source), LayerOf(edge.target)>>
Projected(edges) ==
  LET kept == {e \in edges : /\ ~e.external /\ e.source # e.target
                             /\ LayerOf(e.source) # NoName /\ LayerOf(e.target) # NoName
                             /\ LayerOf(e.source) # LayerOf(e.target)}
  IN  {[pair |-> pair, edges |-> {e \in kept : LayerPair(e) = pair}]
         : pair \in {LayerPair(e) : e \in kept}}

\* Clause.Allows: Mood.Holds over one membership test.
Allows(clause, target) == (target \in clause.named) = (clause.mood = "mayOnly")

Broken(dependency, mood) ==
  {i \in DOMAIN policy.clauses :
     /\ policy.clauses[i].mood = mood
     /\ policy.clauses[i].layer = dependency.pair[1]
     /\ ~Allows(policy.clauses[i], dependency.pair[2])}

\* The clause a violation is reported against: blocklists are asked first.
BrokenClauses(dependency) ==
  LET blocked == Broken(dependency, "mayNot")
      broken == IF blocked # {} THEN blocked ELSE Broken(dependency, "mayOnly")
  IN  IF broken = {} THEN {} ELSE {Min(broken)}

Gathered(edges) ==
  UNION {{[pair |-> d.pair, clause |-> i, edges |-> d.edges] : i \in BrokenClauses(d)}
           : d \in Projected(edges)}

\* Mutant of EmptyLayers: only an overall empty selection is noticed.
EmptyTogether(files) ==
  IF UNION {Membership(files)[n] : n \in DOMAIN Membership(files)} = {}
  THEN DOMAIN Membership(files) ELSE {}

EmptyLayers(files) == {n \in DOMAIN Membership(files) : Membership(files)[n] = {}}

\* LayersPolicyCondition.Check: what the chain could not make sense of, before
\* the project is read; then the project's own failure, then the guard, and
\* only then the judgement.
Check(graph, allowEmpty) ==
  /\ stage = "condition"
  /\ project' = IF policy.err # NoError THEN project ELSE graph
  /\ result' = IF policy.err # NoError THEN [kind |-> "rejected", call |-> policy.err]
               ELSE IF EmptyLayers(graph.files) # {} /\ ~allowEmpty
               THEN [kind |-> "empty", layers |-> EmptyLayers(graph.files)]
               ELSE [kind |-> "judged", broken |-> Gathered(graph.edges)]
  /\ stage' = "checked"
  /\ Say([verb |-> "check", allowEmpty |-> allowEmpty])
  /\ UNCHANGED <<policy, open>>

CheckFails ==
  /\ stage = "condition"
  /\ result' = IF policy.err # NoError THEN [kind |-> "rejected", call |-> policy.err]
               ELSE [kind |-> "failed"]
  /\ stage' = "checked"
  /\ Say([verb |-> "check", allowEmpty |-> FALSE])
  /\ UNCHANGED <<policy, open, project>>

Next ==
  \/ \E name \in Name : Layer(name) \/ WhereLayer(name)
  \/ \E pattern \in Pattern : DefinedBy(pattern)
  \/ \E patterns \in Exceptions : Except(patterns)
  \/ \E named \in SUBSET (Name \ {NoName}), mood \in Mood : Clausing(named, mood)
  \/ \E graph \in Project, allowEmpty \in BOOLEAN : Check(graph, allowEmpty)
  \/ CheckFails

Spec == Init /\ [][Next]_vars

-----------------------------------------------------------------------------
(***************************************************************************)
(* What a chain means, read off the words that were typed: nothing below   *)
(* looks at the builder.                                                   *)
(***************************************************************************)
Definitions(s) == {i \in DOMAIN s : s[i].verb = "definedBy"}
DefinedBefore(s, i) == {s[j].name : j \in Definitions(s) \cap (1 .. i - 1)}
Defined(s) == DefinedBefore(s, Len(s) + 1)

Mistaken(s, i) ==
  \/ s[i].verb = "layer" /\ s[i].name = NoName
  \/ s[i].verb = "definedBy" /\ s[i].pattern \notin Compiles
  \/ s[i].verb = "except" /\ (DefinedBefore(s, i) = {} \/ s[i].patterns = {})
  \/ s[i].verb = "except" /\ ~(s[i].patterns \subseteq Compiles)
  \/ s[i].verb = "where" /\ s[i].name \notin DefinedBefore(s, i)
  \/ s[i].verb = "mayOnly" /\ ~(s[i].named \subseteq DefinedBefore(s, i))
  \/ s[i].verb = "mayNot" /\ (s[i].named = {} \/ ~(s[i].named \subseteq DefinedBefore(s, i)))

Mistakes(s) == {i \in DOMAIN s : Mistaken(s, i)}

\* An exception speaks of the definition just before it.
TakenOut(d, identifier) ==
  \E i \in DOMAIN said : /\ said[i].verb = "except" /\ i > d
                         /\ \A e \in Definitions(said) : ~(d < e /\ e < i)
                         /\ \E p \in said[i].patterns : identifier \in Describes[p]

Claims(name, identifier) ==
  \E d \in Definitions(said) : /\ said[d].name = name
                         /\ identifier \in Describes[said[d].pattern]
                         /\ ~TakenOut(d, identifier)

FirstSaid(name) == Min({d \in Definitions(said) : said[d].name = name})

\* An identifier belongs to the name said first among those that claim it.
Belongs(identifier, name) ==
  /\ Claims(name, identifier)
  /\ \A other \in Defined(said) \ {name} :
       Claims(other, identifier) => FirstSaid(name) < FirstSaid(other)

Forbids(i, source, target) ==
  \/ said[i].verb = "mayNot" /\ said[i].layer = source /\ target \in said[i].named
  \/ said[i].verb = "mayOnly" /\ said[i].layer = source /\ target \notin said[i].named

Across(source, target) ==
  {e \in project.edges : ~e.external /\ Belongs(e.source, source) /\ Belongs(e.target, target)}

-----------------------------------------------------------------------------
Selector == [pattern : Pattern, excluded : SUBSET Pattern]
Declaration == [name : Name, selectors : Seq(Selector)]
Written == [layer : Name, named : SUBSET Name, mood : Mood]
Call == [verb : {"layer", "where"}, name : Name]
        \cup [verb : {"definedBy"}, name : Name, pattern : Pattern]
        \cup [verb : {"except"}, patterns : SUBSET Pattern]
        \cup [verb : Mood, layer : Name, named : SUBSET Name]
        \cup [verb : {"check"}, allowEmpty : BOOLEAN]

Builder == [layers : Seq(Declaration), declared : Name \cup {NoName},
            clauses : Seq(Written), err : Nat]

\* One layer per name, none of them nameless or undescribed, and the layer an
\* `except` qualifies among them.
WellFormed(b) ==
  /\ \A i, j \in DOMAIN b.layers : b.layers[i].name = b.layers[j].name => i = j
  /\ \A i \in DOMAIN b.layers : b.layers[i].name # NoName /\ b.layers[i].selectors # << >>
  /\ b.layers # << >> => Declares(b, b.declared)

\* Besides the types, the builder is well formed, so that the lookups by name
\* in excepting and in the projection find the one layer they mean.
TypeOK ==
  /\ policy \in Builder
  /\ WellFormed(policy)
  /\ stage \in {"policy", "layer", "clause", "condition", "checked"}
  /\ stage \in {"layer", "clause"} => open \in Name
  /\ said \in Seq(Call)
  /\ policy.err <= Len(said)
  /\ stage = "layer" /\ policy.err = NoError => open # NoName

\* Whatever was typed after it, the first mistake of the chain is the one that
\* is reported, and a chain with a mistake is never judged.
FirstMistakeWins ==
  /\ policy.err = NoError => Mistakes(said) = {}
  /\ policy.err # NoError => policy.err \in Mistakes(said) /\ \A i \in Mistakes(said) : policy.err <= i
  /\ stage = "checked" => (result.kind = "rejected") = (Mistakes(said) # {})
  /\ result.kind = "rejected" => result.call = policy.err

\* A judged policy reports exactly the pairs of layers it forbids and that are
\* connected, each once, with every dependency between them, and blames the
\* first blocklist that forbids the pair, or else the first allowlist.  "Zero
\* matches is a violation, not a pass": it is not judged while a layer it speaks
\* of has no file, unless the caller said that it may, and every such layer is
\* reported, not only the first.
PolicyMeansItsSentence ==
  LET names == Defined(said)
      nobody == {n \in names : \A f \in project.files : ~Belongs(f, n)}
      clauses == {i \in DOMAIN said : said[i].verb \in Mood}
      forbidding(s, t) == {i \in clauses : Forbids(i, s, t)}
      blamed(s, t) == LET blocklists == {i \in forbidding(s, t) : said[i].verb = "mayNot"}
                      IN  IF blocklists # {} THEN Min(blocklists) ELSE Min(forbidding(s, t))
      position(i) == Cardinality({j \in clauses : j <= i})
  IN  /\ result.kind = "empty" =>
           result.layers = nobody /\ nobody # {} /\ ~said[Len(said)].allowEmpty
      /\ result.kind = "judged" =>
           /\ nobody = {} \/ said[Len(said)].allowEmpty
           /\ result.broken =
                {[pair |-> pair, clause |-> position(blamed(pair[1], pair[2])),
                  edges |-> Across(pair[1], pair[2])] :
                   pair \in {q \in names \X names : /\ q[1] # q[2]
                                                    /\ Across(q[1], q[2]) # {}
                                                    /\ forbidding(q[1], q[2]) # {}}}

=============================================================================
