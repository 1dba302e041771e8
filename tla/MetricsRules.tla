----------------------------- MODULE MetricsRules -----------------------------
(***************************************************************************)
(* A rule about numbers (src/metrics): the chain that scopes it, names a   *)
(* metric and states a condition; what it is measured over, which the      *)
(* graph selects and the disk answers; the numbers; and the verdict, the   *)
(* bare measurements or the exported page.                                 *)
(*                                                                         *)
(* Every stage is a value of its own (a scope verb clones the selectors),  *)
(* so following one chain is enough. A pattern is known by the files and   *)
(* the classes it describes, a predicate and a measure of the user's by    *)
(* what they answer. Folders and identifiers are sequences of segments.    *)
(* What one file counts of its own text is a single number here.           *)
(***************************************************************************)
EXTENDS Integers, Sequences, FiniteSets, SequencesExt

CONSTANTS
  MetricsDescribes, \* what each one that compiles describes: [files, classes]
  Scopes,       \* the scope verbs a user may type: [verb, population, patterns]
  Conditions,   \* the conditions a user may type
  Projects,     \* [edges, disk]: the graph ExtractGraph returns and what each of
                \* its files holds when it is read
  MaxScope      \* bound on the scope verbs of a chain

VARIABLES
  chain,        \* what the chain has come to: selectors, metric, condition, first rejection
  stage,        \* which verbs it has now
  typed,        \* history: the verbs typed so far
  project,      \* one of Projects
  outcome       \* what the terminal returned

metricsVars == <<chain, stage, typed, project, outcome>>

Gone == [kind |-> "gone"]
Unparsable == [kind |-> "unparsable"]
Unanswered == [kind |-> "none"]

\* Projects are finite, and every file of one has an edge to itself (NewGraph).
ASSUME MetricsAssumption ==
  \A p \in Projects :
    /\ IsFiniteSet(p.edges)
    /\ DOMAIN p.disk = {e.source : e \in {d \in p.edges : d.source = d.target}}
    /\ \A f \in DOMAIN p.disk :
         \/ p.disk[f] \in {Gone, Unparsable}
         \/ /\ IsFiniteSet(p.disk[f].types) /\ IsFiniteSet(p.disk[f].methods) /\ p.disk[f].code \in Nat
            /\ \A t \in p.disk[f].types : t.fields \in Nat /\ t.members \in Nat

\* A selecting verb takes a pattern, and a figure is a number or no number.
ASSUME MetricsCallsAssumption ==
  /\ \A call \in Scopes : call.verb = "select" => call.patterns # {}
  /\ \A call \in Conditions :
       /\ call.verb = "compare" =>
            /\ call.comparison \in {"below", "above", "exactly", "belowOrEqual", "aboveOrEqual"}
            /\ call.limit \in [n : Int, d : Nat, halved : {FALSE}]
            /\ call.limit.d = 0 => call.limit.n = 0
       /\ call.verb = "satisfy" => call.given \in BOOLEAN

-----------------------------------------------------------------------------
\* A number: a ratio, divided by the root of two when it is halved as a square;
\* 0/0 is NaN. Numbers are not negative but a limit may be, so their squares, each
\* with the sign of its number, compare them. An infinite limit is one beyond them.
Number(n, d) == [n |-> n, d |-> d, halved |-> FALSE]
NaN == Number(0, 0)
Square(v) == <<IF v.n < 0 THEN -(v.n * v.n) ELSE v.n * v.n, v.d * v.d * (IF v.halved THEN 2 ELSE 1)>>
Comparable(v, w) == v.d # 0 /\ w.d # 0
Less(v, w) == Comparable(v, w) /\ Square(v)[1] * Square(w)[2] < Square(w)[1] * Square(v)[2]
Same(v, w) == Comparable(v, w) /\ Square(v)[1] * Square(w)[2] = Square(w)[1] * Square(v)[2]

Thresholds ==
  [below |-> {"below"}, above |-> {"above"}, exactly |-> {"equal"},
   belowOrEqual |-> {"below", "equal"}, aboveOrEqual |-> {"above", "equal"}]

\* Threshold.Holds: a NaN is on no side of a figure.
HoldsUnlessBeyond(comparison, value, limit) == \* mutant: what is not on the wrong side holds
  /\ Less(value, limit) => "below" \in Thresholds[comparison]
  /\ Less(limit, value) => "above" \in Thresholds[comparison]
  /\ Same(value, limit) => "equal" \in Thresholds[comparison]
Holds(comparison, value, limit) ==
  \/ "below" \in Thresholds[comparison] /\ Less(value, limit)
  \/ "equal" \in Thresholds[comparison] /\ Same(value, limit)
  \/ "above" \in Thresholds[comparison] /\ Less(limit, value)

-----------------------------------------------------------------------------
\* rejecting: the first rejection wins, known by the number of its call.
MetricsRejecting(c) == [c EXCEPT !.err = IF @ = 0 THEN Len(typed) + 1 ELSE @]
Compiles == DOMAIN MetricsDescribes

Verb(call, next, given) ==
  /\ typed' = Append(typed, call)
  /\ chain' = given
  /\ stage' = next
  /\ UNCHANGED <<project, outcome>>

\* selecting: WithName, InFolder and InPath are about files, ForClassesMatching
\* about classes.
Select(call) ==
  /\ stage = "scope" /\ Len(typed) < MaxScope /\ call.verb = "select"
  /\ Verb(call, "scope",
          IF call.patterns \subseteq Compiles
          THEN [chain EXCEPT !.selectors =
                  Append(@, [population |-> call.population, patterns |-> call.patterns, except |-> {}])]
          ELSE MetricsRejecting(chain))

\* excepting, and matching.Excepting: an exclusion is of its verb's population.
MetricsExcept(call) ==
  LET last == Last(chain.selectors)
      sound == /\ chain.selectors # << >> /\ call.patterns # {} /\ call.patterns \subseteq Compiles
               /\ call.population \in {"plain", last.population}
  IN  /\ stage = "scope" /\ Len(typed) < MaxScope /\ call.verb = "except"
      /\ Verb(call, "scope",
              IF sound THEN [chain EXCEPT !.selectors[Len(chain.selectors)].except = @ \cup call.patterns]
              ELSE MetricsRejecting(chain))

FileMetrics == {"code", "classes", "interfaces"}
ClassMetrics == {"methods", "fields", "custom"}
ComponentMetrics == {"abstractness", "instability", "normalized", "distance", "coupling"}
CountGroup == FileMetrics \cup {"methods", "fields"}

\* Count and Distance, with the verbs of their groups. CustomMetric needs its
\* name, its description and its function.
Choose(metric) ==
  /\ stage = "scope"
  /\ Verb([verb |-> "metric", metric |-> metric, given |-> TRUE], "metric", [chain EXCEPT !.metric = metric])

CustomMetric(given) ==
  /\ stage = "scope"
  /\ Verb([verb |-> "metric", metric |-> "custom", given |-> given], "metric",
          [IF given THEN chain ELSE MetricsRejecting(chain) EXCEPT !.metric = "custom"])

\* comparing refuses a figure that is not a number; ShouldSatisfy needs its
\* predicate and its requirement.
ShouldBe(call) ==
  /\ stage = "metric" /\ call.verb = "compare"
  /\ Verb(call, "condition", [IF call.limit.d = 0 THEN MetricsRejecting(chain) ELSE chain EXCEPT !.condition = call])

ShouldSatisfy(call) ==
  /\ stage = "metric" /\ call.verb = "satisfy"
  /\ Verb(call, "condition", [IF call.given THEN chain ELSE MetricsRejecting(chain) EXCEPT !.condition = call])

\* ShouldNotBeInZoneOfPain and ShouldNotBeInZoneOfUselessness close a scope.
ShouldNotBeIn(call) ==
  /\ stage = "scope" /\ call.verb = "zone"
  /\ Verb(call, "condition", [chain EXCEPT !.condition = call])

-----------------------------------------------------------------------------
\* What a scope selects. Filter.Matches: an exclusion vetoes.
Matches(selector, subject) ==
  /\ \A p \in selector.patterns : subject \in MetricsDescribes[p][selector.population]
  /\ \A p \in selector.except : subject \notin MetricsDescribes[p][selector.population]
SelectorsFor(population) == {s \in Range(chain.selectors) : s.population = population}
MatchesEvery(population, subject) == \A s \in SelectorsFor(population) : Matches(s, subject)

SelectFiles == {e.source : e \in {d \in project.edges : d.source = d.target /\ MatchesEvery("files", d.source)}}

Dir(file) == IF Len(file) = 1 THEN <<".">> ELSE Front(file)
Qualify(folder, name) == IF folder = <<".">> THEN <<name>> ELSE folder \o <<".", name>>

\* ExtractFileInfo with attributeMethods: the methods of a type are those of the
\* files of its folder that were read.
InFolder(files, folder) == {f \in files : Dir(f) = folder}
MethodsOf(file, name) == {m \in project.disk[file].methods : m.on = name}
Tallied(files, file, name) ==
  SumFunction([f \in InFolder(files, Dir(file)) |-> Cardinality(MethodsOf(f, name))])

ClassesIn(files) ==
  UNION {{[id |-> Qualify(Dir(f), t.name), path |-> f, interface |-> t.interface, fields |-> t.fields,
           methods |-> t.members + Tallied(files, f, t.name)] : t \in project.disk[f].types} : f \in files}

\* SelectComponents: the folders of the measured files, with PerComponentEdge.
Crossing(files) ==
  {<<Dir(e.source), Dir(e.target)>> :
     e \in {d \in project.edges : /\ {d.source, d.target} \subseteq files
                                   /\ Dir(d.source) # Dir(d.target)}}

TypesOf(file) == project.disk[file].types
InterfacesOf(file) == {t \in TypesOf(file) : t.interface}

SelectComponents(files) ==
  LET crossing == Crossing(files)
  IN  {[label |-> folder,
        classes |-> SumFunction([f \in InFolder(files, folder) |-> Cardinality(TypesOf(f))]),
        interfaces |-> SumFunction([f \in InFolder(files, folder) |-> Cardinality(InterfacesOf(f))]),
        dependsOn |-> {p[2] : p \in {q \in crossing : q[1] = folder}},
        dependedOnBy |-> {p[1] : p \in {q \in crossing : q[2] = folder}}] : folder \in {Dir(f) : f \in files}}

\* SelectSubjects: a class selector narrows the files to those that declare one
\* of the classes, and the components follow the files.
SelectSubjects(files) ==
  LET classes == {c \in ClassesIn(files) : MatchesEvery("classes", c.id)}
      measured == IF SelectorsFor("classes") = {} THEN files ELSE {c.path : c \in classes}
  IN  [classes |-> classes, files |-> measured, components |-> SelectComponents(measured)]

-----------------------------------------------------------------------------
\* The numbers. AbstractnessOf and InstabilityOf are 0 where there is nothing.
AbstractnessOf(c) == IF c.classes = 0 THEN Number(0, 1) ELSE Number(c.interfaces, c.classes)
Efferent(c) == Cardinality(c.dependsOn)
Afferent(c) == Cardinality(c.dependedOnBy)
InstabilityOf(c) ==
  IF Efferent(c) + Afferent(c) = 0 THEN Number(0, 1) ELSE Number(Efferent(c), Efferent(c) + Afferent(c))
Absolute(i) == IF i < 0 THEN -i ELSE i
NormalizedDistance(c) ==
  LET a == AbstractnessOf(c)
      i == InstabilityOf(c)
  IN  Number(Absolute(a.n * i.d + i.n * a.d - a.d * i.d), a.d * i.d)
CouplingFactorOfOne(c, components) == Number(Efferent(c) + Afferent(c), 2 * (components - 1)) \* mutant
CouplingFactor(c, components) ==
  IF components < 2 THEN Number(0, 1) ELSE Number(Efferent(c) + Afferent(c), 2 * (components - 1))

MeasureComponent(metric, c, components) ==
  CASE metric = "abstractness" -> AbstractnessOf(c)
    [] metric = "instability" -> InstabilityOf(c)
    [] metric = "normalized" -> NormalizedDistance(c)
    [] metric = "distance" -> [NormalizedDistance(c) EXCEPT !.halved = TRUE]
    [] metric = "coupling" -> CouplingFactor(c, components)

\* The user's measure: methods for each field, a NaN where there is neither.
MeasureClass(metric, class) ==
  CASE metric = "methods" -> Number(class.methods, 1)
    [] metric = "fields" -> Number(class.fields, 1)
    [] metric = "custom" -> IF class.fields = 0 THEN NaN ELSE Number(class.methods, class.fields)

MeasureFile(metric, file) ==
  CASE metric = "code" -> Number(project.disk[file].code, 1)
    [] metric = "classes" -> Number(Cardinality(TypesOf(file)), 1)
    [] metric = "interfaces" -> Number(Cardinality(InterfacesOf(file)), 1)

Readings(metric, subjects) ==
  IF metric \in FileMetrics THEN {[subject |-> f, value |-> MeasureFile(metric, f)] : f \in subjects.files}
  ELSE IF metric \in ClassMetrics
  THEN {[subject |-> c.id, value |-> MeasureClass(metric, c)] : c \in subjects.classes}
  ELSE {[subject |-> c.label, value |-> MeasureComponent(metric, c, Cardinality(subjects.components))] :
          c \in subjects.components}

\* Zone.Contains: within three tenths of the corner, in a straight line.
InZone(zone, a, i) ==
  LET corner == IF zone = "pain" THEN 0 ELSE 1
      x == (a.n - corner * a.d) * i.d
      y == (i.n - corner * i.d) * a.d
  IN  100 * (x * x + y * y) <= 9 * a.d * a.d * i.d * i.d

\* classesByIdentifier, asked for the subject of a reading; the zero ClassInfo
\* otherwise. The user's predicate: less than two, or an interface.
NoClass == [interface |-> FALSE]
ClassNamed(classes, subject) ==
  LET named == {c \in classes : c.id = subject}
  IN  IF named = {} THEN NoClass ELSE CHOOSE c \in named : TRUE
Satisfied(value, class) == Less(value, Number(2, 1)) \/ class.interface

-----------------------------------------------------------------------------
\* resolve: the rejection, the graph, and every selected file, which are all
\* read before any is parsed. One that fails fails the whole of it.
Failing(files, kind) == {f \in files : project.disk[f] = kind}
Failure(files) ==
  CASE chain.err # 0 -> [kind |-> "rejected", call |-> chain.err]
    [] chain.err = 0 /\ Failing(files, Gone) # {} -> [kind |-> "gone"]
    [] chain.err = 0 /\ Failing(files, Gone) = {} /\ Failing(files, Unparsable) # {} -> [kind |-> "unparsable"]
    [] OTHER -> Unanswered
Readable(files) == {f \in files : project.disk[f] \notin {Gone, Unparsable}}

Return(given) == outcome' = given /\ stage' = "done" /\ UNCHANGED <<chain, typed, project>>

\* Measure has no empty-test guard.
Measure ==
  /\ stage = "metric"
  /\ LET files == SelectFiles
         failure == Failure(files)
     IN  Return(IF failure # Unanswered THEN failure
                ELSE [kind |-> "measured",
                      readings |-> Readings(chain.metric, SelectSubjects(Readable(files)))])

\* Check of the three conditions: the guard, then each subject by itself.
Offending(subjects) ==
  LET readings == Readings(chain.metric, subjects)
      condition == chain.condition
  IN  CASE condition.verb = "compare" ->
             {r.subject : r \in {m \in readings : ~Holds(condition.comparison, m.value, condition.limit)}}
        [] condition.verb = "satisfy" ->
             {r.subject : r \in {m \in readings : ~Satisfied(m.value, ClassNamed(subjects.classes, m.subject))}}
        [] condition.verb = "zone" ->
             {c.label : c \in {d \in subjects.components :
                                  InZone(condition.zone, AbstractnessOf(d), InstabilityOf(d))}}

Check(lenient) ==
  /\ stage = "condition"
  /\ LET files == SelectFiles
         failure == Failure(files)
         subjects == SelectSubjects(Readable(files))
         population == IF chain.condition.verb = "zone" THEN subjects.components
                       ELSE Readings(chain.metric, subjects)
     IN  Return(IF failure # Unanswered THEN failure
                ELSE IF population = {} /\ ~lenient THEN [kind |-> "empty"]
                ELSE [kind |-> "violations", subjects |-> Offending(subjects), lenient |-> lenient])

\* exportedAsHTML: the path, one resolution for the whole group, the guard, and
\* the disk last of all.
ExportAsHTML(group, path, lenient) ==
  /\ stage = "scope"
  /\ LET files == SelectFiles
         failure == Failure(files)
         subjects == SelectSubjects(Readable(files))
         data == [metric \in group |-> Readings(metric, subjects)]
     IN  IF ~path THEN Return([kind |-> "nopath"])
         ELSE IF failure # Unanswered THEN Return(failure)
         ELSE IF ~lenient /\ \A metric \in group : data[metric] = {} THEN Return([kind |-> "empty"])
         ELSE \/ Return([kind |-> "page", data |-> data, lenient |-> lenient])
              \/ Return([kind |-> "refused"])

-----------------------------------------------------------------------------
MetricsInit ==
  /\ chain = [selectors |-> << >>, metric |-> "none", condition |-> [verb |-> "none"], err |-> 0]
  /\ stage = "scope" /\ typed = << >>
  /\ project \in Projects
  /\ outcome = Unanswered

MetricsNext ==
  \/ \E call \in Scopes : Select(call) \/ MetricsExcept(call)
  \/ \E metric \in CountGroup \cup ComponentMetrics : Choose(metric)
  \/ \E given \in BOOLEAN : CustomMetric(given)
  \/ \E call \in Conditions : ShouldBe(call) \/ ShouldSatisfy(call) \/ ShouldNotBeIn(call)
  \/ Measure
  \/ \E lenient \in BOOLEAN : Check(lenient)
  \/ \E group \in {CountGroup, ComponentMetrics}, path, lenient \in BOOLEAN : ExportAsHTML(group, path, lenient)

MetricsSpec == MetricsInit /\ [][MetricsNext]_metricsVars

-----------------------------------------------------------------------------
\* The sentence, read off the verbs that were typed.
Qualified(k) == {i \in 1 .. k - 1 : typed[i].verb = "select" /\ \A j \in i + 1 .. k - 1 : typed[j].verb = "except"}
Mistaken(k) ==
  LET call == typed[k]
  IN  CASE call.verb \in {"select", "except"} ->
             \/ ~(call.patterns \subseteq Compiles) \/ call.patterns = {}
             \/ /\ call.verb = "except"
                /\ \A i \in Qualified(k) : call.population \notin {"plain", typed[i].population}
        [] call.verb \in {"metric", "satisfy"} -> ~call.given
        [] call.verb = "compare" -> call.limit = NaN
        [] OTHER -> FALSE
Mistakes == {k \in DOMAIN typed : Mistaken(k)}

NamesSubject(i, subject) ==
  /\ \A p \in typed[i].patterns : subject \in MetricsDescribes[p][typed[i].population]
  /\ \A k \in DOMAIN typed : typed[k].verb = "except" /\ i \in Qualified(k) =>
       \A p \in typed[k].patterns : subject \notin MetricsDescribes[p][typed[i].population]
Selects(population) == {i \in DOMAIN typed : typed[i].verb = "select" /\ typed[i].population = population}
WantedFiles == {f \in DOMAIN project.disk : \A i \in Selects("files") : NamesSubject(i, f)}

\* What is measured of them, and each number.
MeantTypes ==
  {ft \in UNION {{<<f, t>> : t \in project.disk[f].types} : f \in WantedFiles} :
     \A i \in Selects("classes") : NamesSubject(i, Qualify(Dir(ft[1]), ft[2].name))}
MeantFiles == IF Selects("classes") = {} THEN WantedFiles ELSE {ft[1] : ft \in MeantTypes}
MeantSubjects(metric) ==
  IF metric \in FileMetrics THEN MeantFiles
  ELSE IF metric \in ClassMetrics THEN {Qualify(Dir(ft[1]), ft[2].name) : ft \in MeantTypes}
  ELSE {Dir(f) : f \in MeantFiles}

MeantOfType(metric, id) ==
  LET ft == CHOOSE t \in MeantTypes : Qualify(Dir(t[1]), t[2].name) = id
      methods == {fm \in UNION {{f} \X project.disk[f].methods : f \in WantedFiles} :
                    Dir(fm[1]) = Dir(ft[1]) /\ fm[2].on = ft[2].name}
  IN  CASE metric = "methods" -> Number(ft[2].members + Cardinality(methods), 1)
        [] metric = "fields" -> Number(ft[2].fields, 1)
        [] metric = "custom" -> IF ft[2].fields = 0 THEN NaN ELSE Number(ft[2].members + Cardinality(methods), ft[2].fields)

MeantOfFolder(metric, folder) ==
  LET others == {Dir(f) : f \in MeantFiles} \ {folder}
      imports(from, to) == \E e \in project.edges : /\ {e.source, e.target} \subseteq MeantFiles
                                                   /\ Dir(e.source) = from /\ Dir(e.target) = to
      out == Cardinality({g \in others : imports(folder, g)})
      coupled == out + Cardinality({g \in others : imports(g, folder)})
      types == UNION {{f} \X project.disk[f].types : f \in {g \in MeantFiles : Dir(g) = folder}}
      abstract == IF types = {} THEN Number(0, 1) ELSE Number(Cardinality({ft \in types : ft[2].interface}), Cardinality(types))
      instable == IF coupled = 0 THEN Number(0, 1) ELSE Number(out, coupled)
      away == abstract.d * instable.d - abstract.n * instable.d - instable.n * abstract.d
  IN  CASE metric = "abstractness" -> abstract
        [] metric = "instability" -> instable
        [] metric = "normalized" -> Number(Absolute(away), abstract.d * instable.d)
        [] metric = "distance" -> [n |-> Absolute(away), d |-> abstract.d * instable.d, halved |-> TRUE]
        [] metric = "coupling" -> IF others = {} THEN Number(0, 1) ELSE Number(coupled, 2 * Cardinality(others))

MeantNumber(metric, subject) ==
  IF metric \in FileMetrics
  THEN LET source == project.disk[subject]
           counted == IF metric = "interfaces" THEN {t \in source.types : t.interface} ELSE source.types
       IN  Number(IF metric = "code" THEN source.code ELSE Cardinality(counted), 1)
  ELSE IF metric \in ClassMetrics THEN MeantOfType(metric, subject) ELSE MeantOfFolder(metric, subject)

\* A NaN breaks every comparison, and only a type can be an interface.
Breaks(condition, metric, subject) ==
  LET v == MeantNumber(metric, subject)
  IN  CASE condition.verb = "compare" /\ condition.comparison = "below" -> ~Less(v, condition.limit)
        [] condition.verb = "compare" /\ condition.comparison = "above" -> ~Less(condition.limit, v)
        [] condition.verb = "compare" /\ condition.comparison = "exactly" -> ~Same(v, condition.limit)
        [] condition.verb = "compare" /\ condition.comparison = "belowOrEqual" -> v = NaN \/ Less(condition.limit, v)
        [] condition.verb = "compare" /\ condition.comparison = "aboveOrEqual" -> v = NaN \/ Less(v, condition.limit)
        [] condition.verb = "satisfy" ->
             /\ v = NaN \/ ~Less(v, Number(2, 1))
             /\ ~\E ft \in MeantTypes : /\ metric \in ClassMetrics /\ ft[2].interface
                                        /\ subject = Qualify(Dir(ft[1]), ft[2].name)
        [] condition.verb = "zone" ->
             InZone(condition.zone, MeantOfFolder("abstractness", subject), MeantOfFolder("instability", subject))

\* A type is known by its qualified name, which no other type of the project has,
\* nor a file or a folder.
DeclaredIn(p) == UNION {{<<f, t>> : t \in p.disk[f].types} : f \in {g \in DOMAIN p.disk : p.disk[g] \notin {Gone, Unparsable}}}
TypeId(ft) == Qualify(Dir(ft[1]), ft[2].name)
NoNamesakes(p) ==
  /\ \A a, b \in DeclaredIn(p) : TypeId(a) = TypeId(b) => a = b
  /\ \A a \in DeclaredIn(p), f \in DOMAIN p.disk : TypeId(a) \notin {f, Dir(f)}

\* The verdict is about the numbers the sentence names, and about all of them.
\* The first mistake is the one reported, before anything is read (rejecting); a
\* file that was wanted and cannot be read or parsed fails the rule, it is not
\* left out of the counts (ExtractFileInfo); a rule that measured nothing says
\* so unless that was allowed; and otherwise a subject is among the violations
\* exactly when its number, taken over the files that were wanted and the
\* folders they are in, breaks the condition, a NaN breaking every comparison
\* (Holds). A page holds what each metric of its group would have measured.
VerdictIsTheNumbers ==
  outcome.kind \notin {"none", "nopath", "refused"} =>
    LET first == IF Mistakes = {} THEN 0 ELSE Min(Mistakes)
        kinds == {project.disk[f] : f \in WantedFiles}
        judged == IF chain.condition.verb = "zone" THEN "abstractness" ELSE chain.metric
        right(metric, readings) ==
          /\ {r.subject : r \in readings} = MeantSubjects(metric)
          /\ \A r \in readings : LET v == MeantNumber(metric, r.subject)
                                  IN  Same(v, r.value) \/ (v = NaN /\ r.value = NaN)
    IN  IF first # 0 THEN outcome = [kind |-> "rejected", call |-> first]
        ELSE IF Gone \in kinds THEN outcome.kind = "gone"
        ELSE IF Unparsable \in kinds THEN outcome.kind = "unparsable"
        ELSE CASE outcome.kind = "measured" -> right(chain.metric, outcome.readings)
               [] outcome.kind = "empty" /\ judged # "none" -> MeantSubjects(judged) = {}
               [] outcome.kind = "empty" /\ judged = "none" -> WantedFiles = {} \/ MeantFiles = {}
               [] outcome.kind = "violations" ->
                    /\ outcome.subjects = {s \in MeantSubjects(judged) : Breaks(chain.condition, judged, s)}
                    /\ outcome.lenient \/ MeantSubjects(judged) # {}
               [] outcome.kind = "page" ->
                    /\ \A metric \in DOMAIN outcome.data : right(metric, outcome.data[metric])
                    /\ outcome.lenient \/ MeantFiles # {}
               [] OTHER -> FALSE

\* The components of a scope hang together, whatever was selected: what is
\* efferent to one is afferent to another, so the two sum to the same; every
\* number stays on its scale, CF reaching 1 only where each of the others is
\* coupled in both directions; no component is in both zones, and one in a zone
\* is as far from the main sequence as the zone says (PerComponentEdge,
\* SelectComponents, DistanceMetric, Zone.Contains).
ComponentsKeepTheirScale ==
  stage = "scope" /\ Failure(SelectFiles) = Unanswered =>
    LET components == SelectSubjects(SelectFiles).components
        count == Cardinality(components)
        unit(v) == v.d > 0 /\ 0 <= v.n /\ v.n <= v.d
    IN  /\ SumFunction([c \in components |-> Efferent(c)]) = SumFunction([c \in components |-> Afferent(c)])
        /\ \A c \in components :
             LET a == AbstractnessOf(c)
                 i == InstabilityOf(c)
                 away == NormalizedDistance(c)
                 factor == CouplingFactor(c, count)
             IN  /\ \A v \in {a, i, away, factor} : unit(v)
                 /\ count > 1 => (Same(factor, Number(1, 1)) <=> Efferent(c) = count - 1 /\ Afferent(c) = count - 1)
                 /\ ~(InZone("pain", a, i) /\ InZone("uselessness", a, i))
                 /\ (InZone("pain", a, i) \/ InZone("uselessness", a, i)) =>
                      100 * (away.d - away.n) * (away.d - away.n) <= 18 * away.d * away.d

\* gather_satisfaction_violations.go:54-58 says that a measurement about a file
\* or a package matches no class and that the predicate is handed the zero one.
OnlyClassesHaveAClass ==
  stage = "condition" /\ chain.condition.verb = "satisfy" /\ chain.metric \notin ClassMetrics
    /\ Failure(SelectFiles) = Unanswered =>
      LET subjects == SelectSubjects(SelectFiles)
      IN  \A r \in Readings(chain.metric, subjects) : ClassNamed(subjects.classes, r.subject) = NoClass
=============================================================================
