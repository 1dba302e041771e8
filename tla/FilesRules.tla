------------------------------ MODULE FilesRules ------------------------------
(***************************************************************************)
(* The rules about files: the fluent chain of files/fluentapi, a verb at a *)
(* time, and the check of whatever condition was reached.                  *)
(*                                                                         *)
(* Every verb returns a new stage, and any stage may be stored and chained *)
(* onto again, so the state keeps all of them.  What two stages can share  *)
(* is the array under a slice of selectors: those are kept in `arrays`, of *)
(* which a slice is a prefix.                                              *)
(*                                                                         *)
(* A pattern is known by what it describes: Describes[p] is the set of     *)
(* files and import paths it matches.  Some patterns do not compile.       *)
(* Identifiers are numbers, which is how Digraphs orders a circuit.        *)
(***************************************************************************)
EXTENDS Digraphs, FiniteSetsExt

CONSTANTS
  File,       \* the identifiers of the files a project may have
  Module,     \* the import paths of the external modules it may import
  Pattern,    \* the patterns a user may type
  NoPattern,  \* the pattern of a zero filter
  Exceptions, \* the sets of patterns a user may except
  Describes,  \* what each pattern that compiles describes
  Content,    \* what may be found in a file when it is read
  Predicate,  \* the functions a user may hand over: the contents each accepts
  NoPredicate,\* the nil function
  Graph,      \* graphs a check may be given: [files, edges], an edge being
              \* [source, target, external]
  DefaultMaxCircuits, \* the circuits a report is cut off at
  MaxStages   \* bound: the stages of all chains together

ASSUME RulesAssumption ==
  /\ Exceptions \subseteq SUBSET Pattern
  /\ DOMAIN Describes \subseteq Pattern /\ NoPattern \notin Pattern
  /\ File \subseteq Int
  /\ \A g \in Graph :
       /\ g.files \subseteq File /\ IsFiniteSet(g.files)
       /\ g.edges \subseteq [source : File, target : File \cup Module, external : BOOLEAN]
       /\ \A e \in g.edges : e.external => e.target \in Module
  /\ Predicate \subseteq SUBSET Content /\ NoPredicate \notin Predicate
  /\ DefaultMaxCircuits \in Nat \ {0}
  /\ MaxStages \in Nat

VARIABLES
  stages,    \* every stage so far, in the order they were made
  arrays,    \* what the slices of selectors are slices of
  step,      \* of a check: "idle", "judge", "read" or "done"
  rule,      \* the stage that is checked
  allowEmpty,\* what its options say of a rule that matches nothing
  graph,     \* the graph its check was given
  selected,  \* its subject in that graph
  contents,  \* what was read of the files of the subject
  result     \* what the check returned

vars == <<stages, arrays, step, rule, allowEmpty, graph, selected, contents, result>>
chains == <<stages, arrays>>
asked == <<rule, allowEmpty>>
judging == <<step, asked, graph, selected, contents, result>>

Compiles == DOMAIN Describes
NoError == 0
Nil == [array |-> 0, len |-> 0]
NoGraph == [files |-> {}, edges |-> {}]
Unchecked == [kind |-> "none"]
Conditions == {"naming", "dependency", "external", "cycles", "adherence"}
Selective == {"files", "dependency", "external"}

\* ProjectFiles.
ProjectFiles ==
  [kind |-> "files", scope |-> Nil, objects |-> Nil, err |-> NoError, mood |-> "should",
   required |-> NoPattern, accepts |-> NoPredicate, said |-> << >>]

Init ==
  /\ stages = <<ProjectFiles>>
  /\ arrays = << >>
  /\ step = "idle"
  /\ rule = 0 /\ allowEmpty = FALSE
  /\ graph = NoGraph
  /\ selected = {}
  /\ contents = << >>
  /\ result = Unchecked

-----------------------------------------------------------------------------
\* Slices.

Elements(slice) == IF slice.array = 0 THEN << >> ELSE SubSeq(arrays[slice.array], 1, slice.len)

\* A fresh array, and the slice of all of it.
Allocated(elements) ==
  [arrays |-> Append(arrays, elements),
   slice |-> [array |-> Len(arrays) + 1, len |-> Len(elements)]]

\* Mutant of Appending: the clone is left out, and the array had room.
AppendingInPlace(slice, element) ==
  IF slice.array = 0 THEN Allocated(<<element>>)
  ELSE [arrays |-> [arrays EXCEPT ![slice.array] = Append(SubSeq(@, 1, slice.len), element)],
        slice |-> [slice EXCEPT !.len = @ + 1]]

\* append onto slices.Clone.
Appending(slice, element) == Allocated(Append(Elements(slice), element))

\* Excepting: the last selector of a clone is replaced by one that excludes more.
Excluding(slice, patterns) ==
  LET elements == Elements(slice)
  IN  Allocated([elements EXCEPT ![Len(elements)] =
                   [pattern |-> @.pattern, excluded |-> @.excluded \cup patterns]])

-----------------------------------------------------------------------------
\* The verbs.

\* Mutant of Rejecting: the last rejection is kept.
RejectingLast(s) == [s EXCEPT !.err = Len(s.said) + 1]

\* The first rejection wins.  The error names the verb and quotes its argument:
\* here it is the number of the call that is at fault.
Rejecting(s) == [s EXCEPT !.err = IF @ = NoError THEN Len(s.said) + 1 ELSE @]

Chain(s, call, heap) ==
  /\ Len(stages) < MaxStages
  /\ stages' = Append(stages, [s EXCEPT !.said = Append(@, call)])
  /\ arrays' = heap
  /\ UNCHANGED judging

\* The selectors a verb adds to: the scope's, or those of the object.
Clause(s) == IF s.kind = "files" THEN s.scope ELSE s.objects
Narrowed(s, slice) ==
  IF s.kind = "files" THEN [s EXCEPT !.scope = slice] ELSE [s EXCEPT !.objects = slice]

\* WithName, InFolder, InPath, InFile and Matching.
Select(s, pattern) ==
  LET call == [verb |-> "select", pattern |-> pattern]
      grown == Appending(Clause(s), [pattern |-> pattern, excluded |-> {}])
  IN  /\ s.kind \in Selective
      /\ IF pattern \in Compiles THEN Chain(Narrowed(s, grown.slice), call, grown.arrays)
                                 ELSE Chain(Rejecting(s), call, arrays)

\* Except and its targeted forms.
Except(s, patterns) ==
  LET call == [verb |-> "except", patterns |-> patterns]
      faulty == Clause(s).len = 0 \/ patterns = {} \/ ~(patterns \subseteq Compiles)
      excepted == Excluding(Clause(s), patterns)
  IN  /\ s.kind \in Selective
      /\ IF faulty THEN Chain(Rejecting(s), call, arrays)
                   ELSE Chain(Narrowed(s, excepted.slice), call, excepted.arrays)

\* Should and ShouldNot.
Moods(s, mood) ==
  /\ s.kind = "files"
  /\ Chain([s EXCEPT !.kind = "mood", !.mood = mood], [verb |-> mood], arrays)

\* Mutant of Requiring: a pattern that does not compile is kept.
RequiringAnything(s, pattern) ==
  /\ s.kind = "mood"
  /\ Chain([s EXCEPT !.kind = "naming", !.required = pattern],
           [verb |-> "require", pattern |-> pattern], arrays)

\* HaveName, BeInFolder and BeInPath.
Requiring(s, pattern) ==
  LET condition == [s EXCEPT !.kind = "naming", !.required = pattern]
  IN  /\ s.kind = "mood"
      /\ Chain(IF pattern \in Compiles THEN condition
               ELSE Rejecting([condition EXCEPT !.required = NoPattern]),
               [verb |-> "require", pattern |-> pattern], arrays)

\* DependOnFiles and DependOnExternalModules; HaveNoCycles has one mood.
Relating(s, kind) ==
  /\ s.kind = "mood"
  /\ kind = "cycles" => s.mood = "should"
  /\ Chain([s EXCEPT !.kind = kind], [verb |-> kind], arrays)

AdhereTo(s, predicate, worded) ==
  LET condition == [s EXCEPT !.kind = "adherence", !.accepts = predicate]
  IN  /\ s.kind = "mood"
      /\ Chain(IF predicate = NoPredicate \/ ~worded THEN Rejecting(condition) ELSE condition,
               [verb |-> "adhere", predicate |-> predicate, worded |-> worded], arrays)

Verb(s) ==
  \/ \E p \in Pattern : Select(s, p) \/ Requiring(s, p)
  \/ \E patterns \in Exceptions : Except(s, patterns)
  \/ \E mood \in {"should", "shouldNot"} : Moods(s, mood)
  \/ \E kind \in {"dependency", "external", "cycles"} : Relating(s, kind)
  \/ \E predicate \in Predicate \cup {NoPredicate}, worded \in BOOLEAN : AdhereTo(s, predicate, worded)

-----------------------------------------------------------------------------
\* Selections.

\* Filter.Matches: an exclusion vetoes the selector it qualifies.
Matches(selector, x) ==
  /\ x \in Describes[selector.pattern]
  /\ \A p \in selector.excluded : x \notin Describes[p]

\* SelectFiles: the nodes of the graph every selector matches.
SelectFiles(g, slice) ==
  {f \in g.files : \A i \in DOMAIN Elements(slice) : Matches(Elements(slice)[i], f)}

\* SelectExternalModules: the ends of external edges some selector matches, all
\* of them when there is no selector.
SelectExternalModules(g, slice) ==
  {x \in {e.target : e \in {d \in g.edges : d.external}} :
     \/ slice.len = 0
     \/ \E i \in DOMAIN Elements(slice) : Matches(Elements(slice)[i], x)}

\* PerDependencyEdge and PerExternalDependencyEdge through ProjectEdges: labels
\* are identifiers, so a projected edge is a pair.
Project(g, from, to, external) ==
  {<<e.source, e.target>> : e \in {d \in g.edges : /\ d.source \in from /\ d.target \in to
                                                   /\ d.external = external
                                                   /\ d.source # d.target}}

\* Mood.Holds.
Holds(mood, satisfied) == satisfied = (mood = "should")

\* What is reported of a selected file with these dependencies.
Offending(s, found) ==
  {[file |-> f, found |-> found[f]] : f \in {g \in selected : ~Holds(s.mood, found[g] # {})}}

DependenciesIn(edges) == [f \in selected |-> {e[2] : e \in {d \in edges : d[1] = f}}]

\* The circuits a check is handed: all of them, or as many as the limit allows.
\* Which those are is up to the search, and whether they are all is not asked.
ProjectCircuits(edges) ==
  {listed \in SUBSET ElementaryCircuits(edges) :
     /\ Cardinality(listed) <= DefaultMaxCircuits
     /\ listed # ElementaryCircuits(edges) => Cardinality(listed) = DefaultMaxCircuits}

\* The gathering of a condition about one file at a time, AdhereTo apart.
Gathered(s) ==
  CASE s.kind = "naming" ->
         {[file |-> f, found |-> {}] :
            f \in {g \in selected : ~Holds(s.mood, g \in Describes[s.required])}}
    [] s.kind = "dependency" ->
         Offending(s, DependenciesIn(Project(graph, selected, SelectFiles(graph, s.objects), FALSE)))
    [] s.kind = "external" ->
         Offending(s, DependenciesIn(
                        Project(graph, selected, SelectExternalModules(graph, s.objects), TRUE)))

\* What a check may report of a rule, AdhereTo apart.
Reports(s) ==
  IF s.kind = "cycles"
  THEN {{[circuit |-> c] : c \in listed} :
          listed \in ProjectCircuits(Project(graph, selected, selected, FALSE))}
  ELSE {Gathered(s)}

\* GatherAdherenceViolations.
Adhering(s) ==
  {[file |-> f, found |-> {}] : f \in {g \in selected : ~Holds(s.mood, contents[g] \in s.accepts)}}

\* The populations of a rule that matched nothing.  The object of a rule about
\* files is one of them when it was named.
EmptyPopulations(s) ==
  (IF selected = {} THEN {"files"} ELSE {})
  \cup (IF s.kind = "dependency" /\ s.objects.len > 0 /\ SelectFiles(graph, s.objects) = {}
        THEN {"objects"} ELSE {})

-----------------------------------------------------------------------------
\* A check.

Finish(answer) == step' = "done" /\ result' = answer

\* resolve: what the chain could not make sense of, before anything is read;
\* then the graph, which may be a cached one, and the subject in it.
Resolve(i, g, lenient) ==
  LET s == stages[i]
  IN  /\ step = "idle" /\ s.kind \in Conditions
      /\ rule' = i /\ allowEmpty' = lenient
      /\ IF s.err # NoError
         THEN /\ Finish([kind |-> "rejected", call |-> s.err])
              /\ UNCHANGED <<graph, selected>>
         ELSE /\ step' = "judge"
              /\ graph' = g
              /\ selected' = SelectFiles(g, s.scope)
              /\ UNCHANGED result
      /\ UNCHANGED <<chains, contents>>

ResolveFails(i) ==
  /\ step = "idle" /\ stages[i].kind \in Conditions
  /\ rule' = i
  /\ Finish(IF stages[i].err # NoError THEN [kind |-> "rejected", call |-> stages[i].err]
                                       ELSE [kind |-> "failed"])
  /\ UNCHANGED <<chains, allowEmpty, graph, selected, contents>>

\* The empty-test guard, and the judgement.  AdhereTo goes on to read.
Judge ==
  LET s == stages[rule]
      guarded == EmptyPopulations(s) # {} /\ ~allowEmpty
  IN  /\ step = "judge"
      /\ IF guarded THEN Finish([kind |-> "empty", populations |-> EmptyPopulations(s)])
         ELSE IF s.kind = "adherence" THEN step' = "read" /\ UNCHANGED result
         ELSE \E violations \in Reports(s) : Finish([kind |-> "judged", violations |-> violations])
      /\ UNCHANGED <<chains, asked, graph, selected, contents>>

\* ExtractFileInfo reads one file after the other, in the order of the selection
\* and some time after the graph was made; what it finds need not be what the
\* graph was made from.
ReadSource(f, content) ==
  /\ step = "read"
  /\ f \in selected \ DOMAIN contents
  /\ \A g \in selected \ DOMAIN contents : f <= g
  /\ contents' = [g \in DOMAIN contents \cup {f} |-> IF g = f THEN content ELSE contents[g]]
  /\ UNCHANGED <<chains, step, asked, graph, selected, result>>

\* Mutant of ReadFails: a file that cannot be read is passed over.
ReadSkips ==
  \E f \in selected \ DOMAIN contents :
    /\ step = "read"
    /\ selected' = selected \ {f}
    /\ UNCHANGED <<chains, step, asked, graph, contents, result>>

\* The project is not located again, or a file is not read: nothing is said about
\* the files read before it.
ReadFails ==
  /\ step = "read"
  /\ contents = << >> \/ DOMAIN contents # selected
  /\ Finish([kind |-> "failed"])
  /\ UNCHANGED <<chains, asked, graph, selected, contents>>

Adhere ==
  /\ step = "read" /\ DOMAIN contents = selected
  /\ Finish([kind |-> "judged", violations |-> Adhering(stages[rule])])
  /\ UNCHANGED <<chains, asked, graph, selected, contents>>

Next ==
  \/ \E i \in DOMAIN stages : Verb(stages[i])
  \/ \E i \in DOMAIN stages, g \in Graph, lenient \in BOOLEAN : Resolve(i, g, lenient)
  \/ \E i \in DOMAIN stages : ResolveFails(i)
  \/ Judge
  \/ \E f \in selected, content \in Content : ReadSource(f, content)
  \/ ReadFails
  \/ Adhere

Spec == Init /\ [][Next]_vars

-----------------------------------------------------------------------------
(***************************************************************************)
(* What a rule means, read off the words that were typed: nothing below    *)
(* looks at a builder.                                                     *)
(***************************************************************************)
Moody == {"should", "shouldNot"}
Selects(s) == {i \in DOMAIN s : s[i].verb = "select"}
Subjects(s) == {i \in Selects(s) : \A j \in 1 .. i - 1 : s[j].verb \notin Moody}
Objects(s) == Selects(s) \ Subjects(s)

\* The select an except on call i speaks of is in the same half of the sentence.
Qualifies(s, i) == \E j \in Selects(s) : j < i /\ \A k \in j .. i : s[k].verb \notin Moody

Mistaken(s, i) ==
  \/ s[i].verb \in {"select", "require"} /\ s[i].pattern \notin Compiles
  \/ s[i].verb = "except" /\ (s[i].patterns = {} \/ ~Qualifies(s, i))
  \/ s[i].verb = "except" /\ ~(s[i].patterns \subseteq Compiles)
  \/ s[i].verb = "adhere" /\ (s[i].predicate = NoPredicate \/ ~s[i].worded)

Mistakes(s) == {i \in DOMAIN s : Mistaken(s, i)}

\* An exception speaks of the select just before it.
TakenOut(s, i, x) ==
  \E j \in i + 1 .. Len(s) : /\ s[j].verb = "except"
                             /\ \A k \in i + 1 .. j - 1 : s[k].verb # "select"
                             /\ \E p \in s[j].patterns : x \in Describes[p]
Picks(s, i, x) == x \in Describes[s[i].pattern] /\ ~TakenOut(s, i, x)

Subject(s) == {f \in graph.files : \A i \in Subjects(s) : Picks(s, i, f)}
Object(s) == {f \in graph.files : \A i \in Objects(s) : Picks(s, i, f)}

\* What a sentence asks of a file, and the dependencies it is about.
Asks(s) == s[CHOOSE i \in DOMAIN s : s[i].verb \in Conditions \cup {"require", "adhere"}]
Negated(s) == \E i \in DOMAIN s : s[i].verb = "shouldNot"
Depends(f, x, external) == [source |-> f, target |-> x, external |-> external] \in graph.edges
Found(s, f) ==
  CASE Asks(s).verb = "dependency" -> {x \in Object(s) \ {f} : Depends(f, x, FALSE)}
    [] Asks(s).verb = "external" ->
         {x \in Module \ {f} : Depends(f, x, TRUE) /\ (Objects(s) = {} \/ \E i \in Objects(s) : Picks(s, i, x))}
    [] OTHER -> {}
Satisfies(s, f) ==
  CASE Asks(s).verb = "require" -> f \in Describes[Asks(s).pattern]
    [] Asks(s).verb = "adhere" -> contents[f] \in Asks(s).predicate
    [] OTHER -> Found(s, f) # {}

Within(files) == {d \in files \X files : d[1] # d[2] /\ Depends(d[1], d[2], FALSE)}
Along(c) == {<<c[i], c[(i % Len(c)) + 1]>> : i \in DOMAIN c}

-----------------------------------------------------------------------------
Selector == [pattern : Compiles, excluded : SUBSET Compiles]
Call == [verb : {"select", "require"}, pattern : Pattern]
        \cup [verb : {"except"}, patterns : SUBSET Pattern]
        \cup [verb : Moody \cup {"dependency", "external", "cycles"}]
        \cup [verb : {"adhere"}, predicate : Predicate \cup {NoPredicate}, worded : BOOLEAN]
Slice == [array : Nat, len : Nat]
Stage == [kind : {"files", "mood"} \cup Conditions, scope : Slice, objects : Slice, err : Nat,
          mood : Moody, required : Pattern \cup {NoPattern},
          accepts : Predicate \cup {NoPredicate}, said : Seq(Call)]

\* A slice is nil, or a prefix that is not empty of an array there is.
Sliced(slice) ==
  \/ slice = Nil
  \/ slice.array \in DOMAIN arrays /\ slice.len \in 1 .. Len(arrays[slice.array])

\* Besides the types, the slices of every stage are within their arrays, and a
\* condition that was not rejected has what it needs to be judged.
TypeOK ==
  /\ stages \in Seq(Stage) /\ arrays \in Seq(Seq(Selector))
  /\ \A k \in DOMAIN stages :
       /\ Sliced(stages[k].scope) /\ Sliced(stages[k].objects)
       /\ stages[k].err <= Len(stages[k].said)
       /\ stages[k].kind = "naming" /\ stages[k].err = NoError => stages[k].required \in Compiles
       /\ stages[k].kind = "adherence" /\ stages[k].err = NoError => stages[k].accepts \in Predicate
  /\ step \in {"idle", "judge", "read", "done"}
  /\ allowEmpty \in BOOLEAN
  /\ step = "idle" <=> rule = 0
  /\ rule # 0 => rule \in DOMAIN stages /\ stages[rule].kind \in Conditions
  /\ graph \in Graph \cup {NoGraph} /\ selected \subseteq graph.files
  /\ contents \in [DOMAIN contents -> Content] /\ DOMAIN contents \subseteq selected

\* A stored stage is a value: whatever is chained onto it, or onto a stage it was
\* made from, and whichever of them is checked, it keeps the selectors it had.
KeepsStages ==
  \A k \in DOMAIN stages :
    /\ k \in DOMAIN stages' /\ stages'[k] = stages[k]
    /\ Elements(stages[k].scope)' = Elements(stages[k].scope)
    /\ Elements(stages[k].objects)' = Elements(stages[k].objects)
StagesAreValues == [][KeepsStages]_vars

\* Whatever was typed after it, the first mistake on the way to a stage is the
\* one its check reports, and a rule with a mistake is given no graph.
FirstMistakeWins ==
  /\ \A k \in DOMAIN stages :
       LET mistakes == Mistakes(stages[k].said)
       IN  /\ stages[k].err = NoError => mistakes = {}
           /\ stages[k].err # NoError =>
                /\ stages[k].err \in mistakes
                /\ \A i \in mistakes : stages[k].err <= i
  /\ step # "idle" /\ Mistakes(stages[rule].said) # {} =>
       /\ result = [kind |-> "rejected", call |-> stages[rule].err]
       /\ graph = NoGraph

\* A judged rule reports the files of its subject that do not do as they are
\* asked, each with the dependencies it was asked about: every selector of the
\* subject and of the files to depend on narrows, any of the modules will do, an
\* exception narrows the one selector it follows.  A rule about contents has read
\* every file of its subject.  The circuits reported are circuits within the
\* subject; as long as there are fewer than a report is cut off at, they take
\* between them every dependency that is on one, and a report that is cut off
\* still has one whenever there is one.  A rule is not judged while its subject,
\* or the files it names to depend on, match nothing, unless the caller said that
\* they may, and what matched nothing is reported; modules that match nothing are
\* no such case.
VerdictIsTheSentence ==
  result.kind \in {"judged", "empty"} =>
    LET s == stages[rule].said
        files == Subject(s)
        circuits == {v.circuit : v \in result.violations}
        nothing == (IF files = {} THEN {"files"} ELSE {})
                   \cup (IF Asks(s).verb = "dependency" /\ Objects(s) # {} /\ Object(s) = {}
                         THEN {"objects"} ELSE {})
    IN  IF nothing # {} /\ ~allowEmpty
        THEN result.kind = "empty" /\ result.populations = nothing
        ELSE /\ result.kind = "judged"
             /\ IF Asks(s).verb = "cycles"
                THEN /\ \A c \in circuits : IsElementaryCircuit(Within(files), c)
                     /\ Cardinality(circuits) <= DefaultMaxCircuits
                     /\ Cardinality(circuits) < DefaultMaxCircuits =>
                          UNION {Along(c) : c \in circuits} = CyclicEdges(Within(files))
                     /\ circuits = {} => CyclicEdges(Within(files)) = {}
                ELSE /\ Asks(s).verb = "adhere" => DOMAIN contents = files
                     /\ result.violations = {[file |-> f, found |-> Found(s, f)] :
                                               f \in {x \in files : Satisfies(s, x) = Negated(s)}}

=============================================================================
