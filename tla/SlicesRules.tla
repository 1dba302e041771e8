------------------------------ MODULE SlicesRules ------------------------------
(***************************************************************************)
(* A rule about slices: the chain of slices/fluentapi that builds it, the  *)
(* check that judges a project by it (slices/projection, slices/assertion, *)
(* the empty-test guard), and the export that draws the project into the   *)
(* very file a rule may be checked against.                                *)
(*                                                                         *)
(* Every stage is a value without a slice in it, so following one chain is *)
(* enough.  A slicing is known by what it cuts out of identifiers: Cut[s]  *)
(* maps each file it names to a slice.  Some slicings do not compile.  The *)
(* diagram file belongs to everybody: it may be edited or exported over    *)
(* between any two steps.                                                  *)
(***************************************************************************)
EXTENDS ComponentDiagrams, TLC

CONSTANTS
  Slicing,       \* the patterns a user may slice by
  Cut,           \* what each slicing that compiles cuts out of which files
  Slice,         \* the slices a user may name, Unnamed (the empty string) among them
  Text,          \* the texts a user may give as a diagram or keep in the file
  SlicedProject, \* graphs a project may have: [files, edges], an edge being
                 \* [source, target, external]
  MaxSliceCalls, \* bound: the calls of one chain
  MaxEdits       \* bound: the edits and the exports of the file

NoSlicing == "none"

\* No slicing is called "none", and a project's graph is closed: an edge starts
\* at one of its files, and ends at one unless it is external (ImportGraph,
\* GraphIsClosed).
ASSUME SlicingAssumption ==
  /\ NoSlicing \notin Slicing
  /\ \A p \in SlicedProject : \A e \in p.edges :
       e.source \in p.files /\ (e.external \/ e.target \in p.files)

VARIABLES
  rule,       \* what the chain has come to: slicing, mood, predicate, first rejection
  sliceStage, \* which verbs the chain has now
  spoken,     \* history: the verbs typed so far
  disk,       \* the lines of the diagram file, or Missing
  judged,     \* the project the check was given
  lenient,    \* CheckOptions.AllowEmptyTests of the check
  judgedBy,   \* the diagram the check judges by, once it has one
  answer,     \* what Check returned
  edits,      \* how often the file was written
  drawn,      \* history: what the file was exported from, while nobody changed it
  onDisk      \* history: what the file has held while the check runs

sliceVars == <<rule, sliceStage, spoken, disk, judged, lenient, judgedBy, answer, edits, drawn, onDisk>>

Compiled == DOMAIN Cut
Missing == <<<<"missing">>>>
NoPredicate == [verb |-> "none"]
NothingJudged == [files |-> {}, edges |-> {}]
NoDiagram == [components |-> {}, dependencies |-> {}]
Unanswered == [kind |-> "none"]
NotDrawn == [slicing |-> NoSlicing, project |-> NothingJudged]

Error(cause) == [kind |-> "error", cause |-> cause]
EmptyTest(subjects) == [kind |-> "empty", subjects |-> subjects]
Violations(found) == [kind |-> "violations", found |-> found]

SlicesInit ==
  /\ rule = [slicing |-> NoSlicing, mood |-> "none", predicate |-> NoPredicate, err |-> 0]
  /\ sliceStage = "slices"
  /\ spoken = << >>
  /\ disk \in Text \cup {Missing}
  /\ judged = NothingJudged
  /\ lenient = FALSE
  /\ judgedBy = NoDiagram
  /\ answer = Unanswered
  /\ edits = 0
  /\ drawn = NotDrawn
  /\ onDisk = {}

Speak(word) == Len(spoken) < MaxSliceCalls /\ spoken' = Append(spoken, word)

-----------------------------------------------------------------------------
\* rejecting: the first rejection wins, known by the number of its call.
SlicesRejecting(r) == [r EXCEPT !.err = IF @ = 0 THEN Len(spoken) + 1 ELSE @]

Building == UNCHANGED <<disk, judged, lenient, judgedBy, answer, edits, drawn, onDisk>>

\* DefinedBy and DefinedByRegex.  A slicing that follows a rejection joins
\* nothing, and the second one is refused before it is compiled.
SlicesDefinedBy(slicing) ==
  /\ sliceStage = "slices"
  /\ Speak([verb |-> "definedBy", slicing |-> slicing])
  /\ rule' = IF rule.slicing # NoSlicing \/ slicing \notin Compiled THEN SlicesRejecting(rule)
             ELSE IF rule.err # 0 THEN rule
             ELSE [rule EXCEPT !.slicing = slicing]
  /\ UNCHANGED sliceStage
  /\ Building

\* Should and ShouldNot: the first stage to see that no slicing was given.
Moods(mood) ==
  /\ sliceStage = "slices"
  /\ Speak([verb |-> mood])
  /\ rule' = [IF rule.slicing = NoSlicing THEN SlicesRejecting(rule) ELSE rule EXCEPT !.mood = mood]
  /\ sliceStage' = "mood"
  /\ Building

ContainDependency(from, to) ==
  /\ sliceStage = "mood"
  /\ Speak([verb |-> "contain", from |-> from, to |-> to])
  /\ rule' = [IF from = Unnamed \/ to = Unnamed \/ from = to THEN SlicesRejecting(rule) ELSE rule
              EXCEPT !.predicate = [verb |-> "contain", from |-> from, to |-> to]]
  /\ sliceStage' = "rule"
  /\ Building

Adherence(file, diagram) ==
  [verb |-> "adhere", file |-> file, diagram |-> diagram, orphans |-> FALSE, externals |-> FALSE]

\* A text is read while the rule is built, and rejected if it is no diagram.
AdhereToDiagram(text) ==
  LET read == ParseDiagram(text)
      good == read.kind = "read"
  IN  /\ sliceStage = "mood" /\ rule.mood = "should"
      /\ Speak([verb |-> "adhere", text |-> text])
      /\ rule' = [IF good THEN rule ELSE SlicesRejecting(rule)
                  EXCEPT !.predicate = Adherence(FALSE, IF good THEN read.diagram ELSE NoDiagram)]
      /\ sliceStage' = "rule"
      /\ Building

\* Mutant of AdhereToDiagramInFile: the file is read as soon as it is named.
AdhereToDiagramInFileAtOnce(named) ==
  LET read == ParseDiagram(disk)
      good == named /\ read.kind = "read"
  IN  /\ sliceStage = "mood" /\ rule.mood = "should"
      /\ Speak([verb |-> "adhereInFile", named |-> named])
      /\ rule' = [IF good THEN rule ELSE SlicesRejecting(rule)
                  EXCEPT !.predicate = Adherence(FALSE, IF good THEN read.diagram ELSE NoDiagram)]
      /\ sliceStage' = "rule"
      /\ Building

\* A file is only named; a path that is empty is rejected.
AdhereToDiagramInFile(named) ==
  /\ sliceStage = "mood" /\ rule.mood = "should"
  /\ Speak([verb |-> "adhereInFile", named |-> named])
  /\ rule' = [IF named THEN rule ELSE SlicesRejecting(rule) EXCEPT !.predicate = Adherence(named, NoDiagram)]
  /\ sliceStage' = "rule"
  /\ Building

IgnoringOrphanSlices ==
  /\ sliceStage = "rule" /\ rule.predicate.verb = "adhere"
  /\ Speak([verb |-> "orphans"])
  /\ rule' = [rule EXCEPT !.predicate.orphans = TRUE]
  /\ UNCHANGED sliceStage
  /\ Building

IgnoringExternalSlices ==
  /\ sliceStage = "rule" /\ rule.predicate.verb = "adhere"
  /\ Speak([verb |-> "externals"])
  /\ rule' = [rule EXCEPT !.predicate.externals = TRUE]
  /\ UNCHANGED sliceStage
  /\ Building

-----------------------------------------------------------------------------
\* slices/projection.  An external import is in no slice, and an edge is kept
\* when both of its ends are in one; ProjectEdges drops what stays inside.
Sliced(slicing) == DOMAIN Cut[slicing]

\* Mutant of DependenciesBetween: an import of something external is kept when
\* its path is one that the slicing describes.
DependenciesBetweenAll(slicing, p) ==
  {[from |-> Cut[slicing][e.source], to |-> Cut[slicing][e.target]] :
     e \in {e \in p.edges : /\ {e.source, e.target} \subseteq Sliced(slicing)
                            /\ Cut[slicing][e.source] # Cut[slicing][e.target]}}

DependenciesBetween(slicing, p) ==
  {[from |-> Cut[slicing][e.source], to |-> Cut[slicing][e.target]] :
     e \in {e \in p.edges : /\ ~e.external
                            /\ {e.source, e.target} \subseteq Sliced(slicing)
                            /\ Cut[slicing][e.source] # Cut[slicing][e.target]}}

SlicesOf(slicing, p) == {Cut[slicing][f] : f \in p.files \cap Sliced(slicing)}

-----------------------------------------------------------------------------
\* Check, step by step.
Checking == UNCHANGED <<rule, spoken, disk, edits, drawn>>

Resolve(p, allowEmptyTests) ==
  /\ sliceStage = "rule"
  /\ lenient' = allowEmptyTests
  /\ IF rule.err # 0
     THEN answer' = Error(rule.err) /\ sliceStage' = "done" /\ UNCHANGED <<judged, onDisk>>
     ELSE judged' = p /\ onDisk' = {disk} /\ sliceStage' = "resolved" /\ UNCHANGED answer
  /\ UNCHANGED judgedBy
  /\ Checking

ResolveFails ==
  /\ sliceStage = "rule" /\ rule.err = 0
  /\ answer' = Error("project")
  /\ sliceStage' = "done"
  /\ UNCHANGED <<judged, lenient, judgedBy, onDisk>>
  /\ Checking

\* drawing: the diagram the rule carries, or the one the file holds now.
Drawing ==
  LET inFile == rule.predicate.verb = "adhere" /\ rule.predicate.file
      read == ParseDiagram(disk)
  IN  /\ sliceStage = "resolved"
      /\ CASE inFile /\ disk = Missing ->
                answer' = Error("read") /\ sliceStage' = "done" /\ UNCHANGED judgedBy
           [] inFile /\ disk # Missing /\ read.kind # "read" ->
                answer' = Error("no diagram") /\ sliceStage' = "done" /\ UNCHANGED judgedBy
           [] inFile /\ disk # Missing /\ read.kind = "read" ->
                judgedBy' = read.diagram /\ sliceStage' = "judging" /\ UNCHANGED answer
           [] ~inFile ->
                /\ judgedBy' = IF rule.predicate.verb = "adhere" THEN rule.predicate.diagram ELSE NoDiagram
                /\ sliceStage' = "judging" /\ UNCHANGED answer
      /\ UNCHANGED <<judged, lenient, onDisk>>
      /\ Checking

\* The populations of the empty-test guard that nothing is in.  The two ends of
\* a dependency are asked about only if there are slices at all.
EmptyPopulations(present) ==
  IF present = {} THEN {"slices"}
  ELSE IF rule.predicate.verb = "contain" THEN {rule.predicate.from, rule.predicate.to} \ present
  ELSE {}

\* GatherDependencyViolations.
ContainFound(dependencies) ==
  LET pair == [from |-> rule.predicate.from, to |-> rule.predicate.to]
  IN  IF (pair \in dependencies) = (rule.mood = "should") THEN {} ELSE {[finding |-> rule.mood] @@ pair}

Orphaned(slice, dependencies) == \A d \in dependencies : slice \notin {d.from, d.to}

\* GatherDiagramViolations.
DiagramFound(diagram, dependencies, present) ==
  LET undrawn == {d \in dependencies : /\ Shows(diagram, d.from) /\ Shows(diagram, d.to)
                                       /\ ~Draws(diagram, d.from, d.to)}
      undeclared == {s \in present : /\ ~Shows(diagram, s)
                                     /\ ~(rule.predicate.orphans /\ Orphaned(s, dependencies))}
      absent == IF rule.predicate.externals THEN {} ELSE diagram.components \ present
  IN  {[finding |-> "undrawn"] @@ d : d \in undrawn}
      \cup {[finding |-> "undeclared", name |-> s] : s \in undeclared}
      \cup {[finding |-> "absent", name |-> c] : c \in absent}

Judge ==
  LET present == SlicesOf(rule.slicing, judged)
      dependencies == DependenciesBetween(rule.slicing, judged)
  IN  /\ sliceStage = "judging"
      /\ answer' = IF ~lenient /\ EmptyPopulations(present) # {} THEN EmptyTest(EmptyPopulations(present))
                   ELSE Violations(IF rule.predicate.verb = "contain" THEN ContainFound(dependencies)
                                   ELSE DiagramFound(judgedBy, dependencies, present))
      /\ sliceStage' = "done"
      /\ UNCHANGED <<judged, lenient, judgedBy, onDisk>>
      /\ Checking

-----------------------------------------------------------------------------
\* The diagram file, which is written to while a rule is made or checked.
Writable == edits < MaxEdits /\ sliceStage # "done"

FileHolds(lines) ==
  /\ disk' = lines
  /\ edits' = edits + 1
  /\ onDisk' = IF sliceStage \in {"resolved", "judging"} THEN onDisk \cup {lines} ELSE onDisk
  /\ UNCHANGED <<rule, sliceStage, spoken, judged, lenient, judgedBy, answer>>

EditDiagram(text) ==
  /\ Writable
  /\ FileHolds(text)
  /\ drawn' = NotDrawn

Document(slicing, p) == RenderPlantUML(SlicesOf(slicing, p), DependenciesBetween(slicing, p))

\* ExportAsPlantUML, by a test of its own: a slicing that finds nothing is
\* refused unless empty tests are allowed, and an existing file is overwritten.
ExportAsPlantUML(slicing, p, allowEmptyTests) ==
  /\ Writable
  /\ allowEmptyTests \/ SlicesOf(slicing, p) # {}
  /\ FileHolds(Document(slicing, p))
  /\ drawn' = [slicing |-> slicing, project |-> p]

\* os.WriteFile has truncated the file when a write is refused half-way.
ExportTorn(slicing, p) ==
  LET document == Document(slicing, p)
  IN  /\ Writable
      /\ SlicesOf(slicing, p) # {}
      /\ \E n \in 0 .. Len(document) - 1 : FileHolds(SubSeq(document, 1, n))
      /\ drawn' = NotDrawn

-----------------------------------------------------------------------------
SlicesNext ==
  \/ \E s \in Slicing : SlicesDefinedBy(s)
  \/ \E m \in {"should", "shouldNot"} : Moods(m)
  \/ \E from, to \in Slice : ContainDependency(from, to)
  \/ \E t \in Text : AdhereToDiagram(t) \/ EditDiagram(t)
  \/ \E named \in BOOLEAN : AdhereToDiagramInFile(named)
  \/ IgnoringOrphanSlices \/ IgnoringExternalSlices
  \/ \E p \in SlicedProject, allowed \in BOOLEAN : Resolve(p, allowed)
  \/ ResolveFails \/ Drawing \/ Judge
  \/ \E s \in Compiled, p \in SlicedProject :
        ExportTorn(s, p) \/ \E allowed \in BOOLEAN : ExportAsPlantUML(s, p, allowed)

SlicesSpec == SlicesInit /\ [][SlicesNext]_sliceVars

-----------------------------------------------------------------------------
\* The calls of the chain that a reader of it would call mistakes, if no call
\* before was one.
Mistake(i) ==
  LET word == spoken[i]
      sliced == \E j \in 1 .. i - 1 : spoken[j].verb = "definedBy"
  IN  CASE word.verb = "definedBy" -> sliced \/ word.slicing \notin Compiled
        [] word.verb \in {"should", "shouldNot"} -> ~sliced
        [] word.verb = "contain" -> word.from = word.to \/ Unnamed \in {word.from, word.to}
        [] word.verb = "adhere" -> ParseDiagram(word.text).kind # "read"
        [] word.verb = "adhereInFile" -> ~word.named
        [] word.verb \in {"orphans", "externals"} -> FALSE

Spoke(verb) == \E i \in DOMAIN spoken : spoken[i].verb = verb
The(verb) == spoken[CHOOSE i \in DOMAIN spoken : spoken[i].verb = verb]

\* Somebody in the first slice imports somebody in the second, in this project.
Reaches(cut, from, to) ==
  \E e \in judged.edges :
    /\ ~e.external /\ e.source \in DOMAIN cut /\ e.target \in DOMAIN cut
    /\ cut[e.source] = from /\ cut[e.target] = to

\* A chain with a mistake is answered with its first one, and without looking
\* at a project (SlicesBuilder.rejecting: "the first rejection wins").  Any other
\* chain about two slices is answered as its sentence reads: an end nobody is
\* in is reported instead of judged unless empty tests are allowed, and "should"
\* and "should not" differ in the mood alone.
VerdictIsTheSentence ==
  LET mistakes == {i \in DOMAIN spoken : Mistake(i)}
      word == The("contain")
      cut == Cut[The("definedBy").slicing]
      held == Reaches(cut, word.from, word.to)
      populated(slice) == \E f \in judged.files \cap DOMAIN cut : cut[f] = slice
  IN  sliceStage = "done" =>
        IF mistakes # {}
        THEN /\ judged = NothingJudged
             /\ answer = Error(CHOOSE i \in mistakes : \A j \in mistakes : i <= j)
        ELSE Spoke("contain") /\ answer.kind # "error" =>
          IF ~lenient /\ ~(populated(word.from) /\ populated(word.to)) THEN answer.kind = "empty"
          ELSE /\ answer.kind = "violations"
               /\ (answer.found = {}) = (held = Spoke("should"))

\* No dependency goes unmentioned, whatever the modifiers leave out: it is
\* drawn, or reported as undrawn, or one of its ends is reported as undeclared
\* (GatherDiagramViolations: "the hole in a diagram that this modifier must not
\* hide").  A rule with no modifiers passes only where the drawing has the
\* project's slices and no others.  And a drawing in a file is one the file held
\* while the check ran, not what it was when the rule named it.
EveryDependencyIsAccountedFor ==
  answer.kind = "violations" /\ rule.predicate.verb = "adhere" =>
    /\ \A d \in DependenciesBetween(rule.slicing, judged) :
         \/ d \in judgedBy.dependencies
         \/ [finding |-> "undrawn"] @@ d \in answer.found
         \/ \E end \in {d.from, d.to} : [finding |-> "undeclared", name |-> end] \in answer.found
    /\ answer.found = {} /\ ~Spoke("orphans") /\ ~Spoke("externals") =>
         judgedBy.components = SlicesOf(rule.slicing, judged)
    /\ Spoke("adhereInFile") =>
         \E lines \in onDisk \ {Missing} :
           ParseDiagram(lines).kind = "read" /\ ParseDiagram(lines).diagram = judgedBy

\* A name is drawn as it is if it holds none of the reader's own marks.
Plain(name) == \A i \in DOMAIN name : name[i] \notin {"[", "]", "<", ">", ":"}

\* What was exported is read back as the project it was exported from, as long
\* as nobody changed the file and its slices have plain names ("a project's own
\* diagram can be committed as the drawing the next run ... judges it against").
ExportIsReadBack ==
  LET present == SlicesOf(drawn.slicing, drawn.project)
  IN  drawn # NotDrawn /\ present # {} /\ (\A s \in present : Plain(s)) =>
        ParseDiagram(disk) =
          Read([components |-> present,
                dependencies |-> DependenciesBetween(drawn.slicing, drawn.project)])

\* What was exported is never refused: "with the brackets PlantUML reserves and
\* anything that would break a line replaced, so that what is drawn can be read
\* back" (RenderPlantUML).  A colon is neither, and it ends an arrow's target.
DrawnIsReadBack ==
  drawn # NotDrawn /\ SlicesOf(drawn.slicing, drawn.project) # {} => ParseDiagram(disk).kind = "read"
=============================================================================
