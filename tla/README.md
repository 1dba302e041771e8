# A TLA+ model of ArchUnitGo

ArchUnitGo is a Go library of architecture rules.  A test describes a rule with
a fluent builder and calls `Check`, which extracts the project's import graph,
projects it onto what the rule speaks about, gathers violations, guards against
a rule that matched nothing, and logs what it did:

    LocateProject -> source walk -> go list -> parse imports -> Graph
        -> projection -> gather violations -> empty-test guard -> LoggedCheck -> archtest

Everything inside one check is synchronous.  What checks share is a process-wide
graph cache, the log file and the writer they are given, and the file system,
which a developer, a generator or another test may change while they run.

This directory holds the specifications, the TLC configurations and the proofs.
The inventory comes first, then the plan, then what is done, module by module.

## Inventory

| Component | State | Operations | What makes it correct |
|---|---|---|---|
| graph cache (`common/extraction/graph_cache.go`, `common/fluentapi/check_options.go`) | map from key to `Graph` under a mutex; the arrays of the slices handed out | lookup, store, clear; the unlocked extraction in between; `ClearGraphCache`, `CheckOptions.ClearCache` | an answer is to the question asked; copies are isolated; a clear reaches what it says it reaches; a failure leaves nothing behind |
| cache key (`graphCacheKey`, `SourceOptions`) | none | one function of root and options | one key, one analysis, in both directions |
| extraction (`extract_graph.go`, `locate_project.go`, `extract_source_files.go`, `extract_imports.go`) | the disk, read three times | locate, walk, `go list`, parse | the graph is of versions the disk really had |
| import graph (`graph.go`, `edge.go`, `import_kind.go`) | a canonical slice of edges | `NewGraph`, `Add`, filters | independent of order and duplicates; one edge per pair |
| import classification, ignore directives (`classify_target.go`, `ignore_directive.go`) | none | `classify`, `newIgnoreDirectives`, `of` | an import is external exactly when the project does not own it; a directive reaches only its own import |
| projection (`map_function.go`, `project_edges.go`, `project_nodes.go`) | none | map every edge, cumulate | every kept edge is in exactly one projected edge |
| cycle detection (`common/projection/cycles`) | the search's stacks, marks and counters | `tarjanSCC`, `ProjectCycles`, `johnsonCircuits`, `ProjectCircuits` | exactly the strong components; every elementary circuit once, or an honest prefix |
| matching (`common/matching`) | none | filters, exclusions, globs | an exclusion is a veto; a glob means what its regex means |
| assertion kernel (`common/assertion`, empty-test guard) | none | `Holds`, `GatherEmptyTestViolations` | a rule that matched nothing is reported, not passed |
| logged check (`logged_check.go`, `common/logging`) | open file, first failure | start, records, end, close | nothing is lost silently, the right error wins, a check always returns |
| files rules | an immutable builder: selectors, first mistake | select, reject, conditions, `Check` | first mistake wins; what is judged is what was selected |
| layers policy | layers in order, clauses in order, first mistake | declare, clause, `Check` | first layer wins, deny before allow, a violation per broken edge |
| slices (`slices/extraction`, `slices/projection`, `slices/assertion`, `slices/fluentapi`) | an immutable builder; a diagram file that others write | `DefinedBy`, `ContainDependency`, `AdhereToDiagram`, the modifiers, `Check`, `ExportAsPlantUML` | a diagram is read as it was meant; every dependency is drawn or reported; an export is read back |
| graph snapshot (`graph/fluentapi`, `graph/projection`) | builders whose queries share arrays | focus, reach, collapse, except, `Snapshot` | a builder means its chain; depth is distance; a collapsed edge stands for real ones |
| graph rendering (`graph/rendering`) | none | DOT, D2, Mermaid, CSV, JSON, HTML | a document says what the snapshot says, whatever the labels hold |
| metrics (`metrics/*`) | an immutable builder; sources read after the graph | scope, metric, condition, `Check`, `Measure`, `ExportAsHTML` | LCOM4 counts components; ratios keep their scale; a verdict follows from the numbers |
| archtest | the testing framework's failure flag | `AssertPasses`, `AssertAllPass` | every error and violation reaches the test |
| errors, facade | none | error values, re-exports | not modelled |

What is hard here, and what the properties are for, is listed with its line in
`PROJECT.json` under `hazards`: the lock that is not held across an extraction,
two critical sections where one was meant, several reads of a disk that changes,
several checks and several destinations behind one log, builders that are branched
from while their slices share arrays, the two graph searches whose correctness rests
on marks left by earlier steps, the limit the second of them runs under, a diagram
file that is edited between its naming and its reading, a line-by-line reader whose
state carries from line to line, and ratios whose divisors may be nought.

## Plan

Done, in this order:

1. `GraphMemo`, `GraphCache`, `CacheKey`: the shared state. Checked, proved.
2. `Digraphs`, `TarjanSCC`, `CircuitList`, `JohnsonCircuits`, composed by `CycleReports`:
   the algorithms. Checked, proved but for their coming to an end.
3. `LoggedCheck`, the other shared state, and `ArchTest` on top of it. Checked, proved.
4. `IgnoreDirectives`, `ImportGraph`: extraction, import classification, directives and
   `NewGraph`. Checked, proved.
5. `LayersPolicy`, `FilesRules`: the builder protocols with the checks they build.
   Checked, proved.
6. `ComponentDiagrams`, `DiagramWriting`, `SlicesRules`, `Globs`: slices, the diagrams
   they are judged by, and the globs that cut them. Checked; the rules' verdicts proved.
7. `GraphSnapshot`, `GraphDocuments`: the report of a graph. Checked; the builders and the
   snapshots they take proved.
8. `Cohesion`, `MetricsRules`: the rules about numbers. Checked; the numbers and the
   verdicts proved.

Left, in this order: the walk and its identifiers as a module of their own; a user's
regular expressions in `Globs`; JSON and HTML documents.

## Runs

Modules that share no state are explored side by side in one run, one behaviour
following one of them (`family`, `exploring`): a run is a question asked of one part
of the library, not of one module.

| Run | Modules | Shows |
|---|---|---|
| `cache_two_keys` | `GraphCache` | types, isolation, right answers, what a clear reaches, refinement of `GraphMemo`: two checks, two questions, an edit |
| `cache_one_key` | `GraphCache` | every check returns, whatever is done meanwhile to the one entry that both spell differently |
| `cache_clear_flag` | `GraphCache` | violated: `ClearCache` "makes the check extract the project from source again" |
| `cycles` | `CycleReports` | Tarjan's components are the strong ones; every elementary circuit is listed once, or the limit is reached and said to be; both searches end |
| `archtest` | `ArchTest` | nothing logged is lost silently, the rule's error wins, torn lines and failures reach the test, every rule of a suite is asserted |
| `logged_pairs` | `ArchTest` | violated: the log "can still be read as pairs" |
| `extraction` | `ImportGraph`, `CacheKey` | the graph is what the source says, in any order; one key is one analysis and one analysis one key |
| `files` | `FilesRules` | stages are values, the first mistake wins, a verdict is the sentence |
| `rules` | `LayersPolicy`, `SlicesRules`, `DiagramWriting`, `Globs` | the same of layers and slices; no dependency goes unmentioned; a diagram is read as meant and an export read back; a glob means its syntax |
| `slices_colon` | `SlicesRules` | violated: what is drawn "can be read back" |
| `reports` | `GraphSnapshot`, `GraphDocuments`, `Cohesion`, `MetricsRules` | builders mean their chains; a snapshot is the query; a document is read back; cohesion and distances keep their scale; a verdict follows from the numbers |
| `metrics_zero_class` | `MetricsRules` | violated: a measurement about a package is handed the zero class |

Deadlock is checked in the three cache runs only: everywhere else a call, a chain or
a test suite comes to its end and the model with it.

## Modules

### GraphMemo, GraphCache, CacheKey

`GraphMemo` is what the cache promises: a table of graphs by key, and checks that
ask and are answered by learning or recalling.  `GraphCache` is the code.  The
mutex is held by `lookup`, `store` and `clear` only, so each is one action;
`WalkSources`, `LoadProjectBuild` and `ParseImports` are the three readings of the
disk, and each may fail.  A `Graph` is a slice, so the state has a heap of arrays:
`slices.Clone` takes an unused one, and `ScribbleOwn` is a caller writing through
what it was handed.  A content is the analysis it is of and the first and the last
version of the source it was read at.  `began`, `floor` and `crossed` are
history variables.

`CacheKey` computes `graphCacheKey` and, separately, what extraction makes of a
root and an options bag (nil and zero bags, nil and empty lists, order and
repetition, and the folders the toolchain passes over whatever the bag says, so that
listing one of those changes the key and not the analysis).  `MCGraphCache` takes its keys from
it; `KeysAreAnalyses`, which `extraction` checks over every pair of requests and
`GraphCacheProofs` proves, is what the proofs about `GraphCache` assume as
`KeyNamesAnalysis`.  `Sorted` is said by what `slices.Sorted` promises: the names of the
list, rearranged in order.

Bounds: `MaxEdits` caps the edits (one: a version before and one after a clear are
what the properties tell apart).  `Ref` has one array more than the
goroutines and keys together, and the number of references never exceeds those,
so an unused array always exists and the bound does not restrict anything.
Two checks are enough for every race of one store against one lookup or clear;
the proofs are for any number.

Fairness: weak fairness of `Progress(p)`, the code of a check.  It contains no
wait for anything but the mutex, which is never held across a step of another
action, so the Go scheduler runs it to its end.  The environment's actions and
the caller's `Return` are not fair.

Two overlapping extractions of one key store in either order, so an older reading of
the source may replace a newer one, although the comment on `graph` says that it
"stores the same answer".  `OnlyCrossedKeysAreStale` says how far that reaches.

### Digraphs, TarjanSCC, CircuitList, JohnsonCircuits, CycleReports

`Digraphs` defines reachability, strong components and elementary circuits the
obvious way; labels are numbers because the code sorts them.  `TarjanSCC` is
`tarjanSCC` with its Go call stack as the sequence `visits`; each visit keeps the
successors it has yet to walk.  `ProjectCycles` is the edges inside each component
of two labels or more.

`CircuitList` says what `ProjectCircuits` promises: circuits are listed once each
until none is left and the answer is complete, or until the limit is reached and
one more exists.  `JohnsonCircuits` is the code: the loop over components with what
is left of the limit, the loop over starting labels, the recursion of `circuit`
with `blocked` and `blockedOn`, `emit` and its limit, the final sort.  `unblock`'s
recursion is one step, because it calls nothing but itself and its result does not
depend on order: `Released` is what is reached along `Waiting`.  The order of the
report is total (`compareCircuits`), so `Sorted` says where each circuit goes.
`JohnsonCircuits` extends `TarjanSCC` and `CycleReports` both: Tarjan's search runs
to its end, `HandOver` takes its cyclic components, Johnson's search runs on those,
and the whole implements `CircuitList`.

`cycles`: every projection of four labels without self-edges, those of three labels
with two self-edges on a chain or a ring, and those of five labels that the
repository's tests single out, with no limit, one, and the default
(`DefaultMaxCircuits` is 2 in the model, so that the default is reached; a
four-label component can hold 20 circuits).  Three labels already have a component
with a second entry; four have two nested returns and two components.
`DeadEndsAreDead` is why no circuit is missed, `EachCircuitOnce` why none is listed
as one of its rotations, and `ImplementsCircuitList` adds the limit.

Fairness: weak fairness of `Next`, a sequential program runs.

### LoggedCheck, ArchTest

`LoggedCheck` and its `Logger`, run by several checks.  `Record` is one line written
through `io.MultiWriter`: the writer first, then the file, stopping at the first
that fails; a file write may land partly.  A writer that was handed in either takes a
record or refuses it: a short write of its own is not shown as a torn line on it.  `OpenLog` truncates the shared file when
the bag says `Overwrite`, `CloseLog` reports the first failure.  A rule is left
open: it logs up to `MaxNotes` records and comes to at most `MaxViolations`
violations or to an error.

`ArchTest` is who calls it: `AssertPasses` begins a check and `Report` is the rest of
it, once the check has returned; a rule may be nil.  `AssertAllPass` is `Turn` (the
sorted names, one subtest after the other) and `AssertNoRules`; its rules share one
bag.  A report is its kind, how many violations it lists and how many it says it
leaves out (`ResultFactory.Result`); palettes and wording are left out.

`archtest`: two rules, asserted in two parallel tests, in one suite, or in a suite
one of whose rules is nil, and an empty suite; one failure, at any operation of
either; one note at either level; up to two violations, so that their loop is
repeated, of which a report lists one.  The two bags cover both destinations and
one, appending and starting fresh, a record written and one dropped by its threshold.
Fairness: weak fairness of `ArchStep(c)`, synchronous code, and of beginning a test
whose turn it is, which the testing framework runs.

### IgnoreDirectives, ImportGraph

`IgnoreDirectives` is `newIgnoreDirectives.of`: which comment an import carries,
decided by the lines the comments, the imports and the other code stand on.
`ImportGraph` is `ExtractGraph` over a project that holds still (`GraphCache` has
the disk that changes): `Walk` enumerates source files, `ReadPackage` indexes one
package of the toolchain's answer, `EmitNode` emits the edges of one file,
`MergeEdge` is one turn of `NewGraph`'s loop, `Fail` is every way to no graph.
Identifiers and import paths are sequences of their elements, so that "below" is
a prefix.  The code has one order for packages, nodes and edges each; the model
takes them in any, which is why `GraphIsTheUnion` says that no order matters.  An
emitted edge carries its line, so an import written twice is merged twice.  A file
that cannot be parsed to the end is one whose `parsed` prefix is shorter than its
text.  The code climbs from an import to its directive (`Carried`); the property looks
from a directive down to the import it is about (`IsAbout`, `LeftOut`), so a climb that
crossed a line of code or a blank one would not agree with it.  `Reported` is the toolchain's answer, external, with the tests' packages
and the generated test main as the code expects them.

`extraction`: one module whose packages have tests of both kinds, a build-tagged
file, an excludable folder, a `testdata` file and a nested module, in four families
of headers for one of its files: every pair of imports (a project path that is
owned, gone, excluded or nested, and two external ones); every placement of a
directive in three lines; one header under every combination of options and with
the parser stopping early; projects with few or no files.  Each family varies
what it is about and fixes the rest, since a directive and a path never look at
each other; two imports are the fewest that can merge, three lines the fewest that
put something between a directive and its import.

### LayersPolicy

One fluent chain, a verb per action, then its `Check`.  Each stage of the code is a
value that clones before it appends, so following one chain covers chains that
share a stage.  A pattern is known by the identifiers it describes.  `said` is
history: the properties read the rule off the words typed, independently of the
builder, and compare that with what the builder came to.  `CheckFails` is a project
that cannot be extracted.  `PolicyMeansItsSentence` has the empty-test guard in it:
a layer no file is in is reported instead of judged.

In `rules`: two names and the empty one, three patterns (one overlapping another, one
that does not compile), exceptions, and projects with mutual and external
dependencies and with a layer no file is in.  `MaxCalls` = 8 leaves room for three
declarations and a clause, or two declarations and two clauses, before the check:
the fewest in which a layer is widened after another was declared, and in which two
clauses judge one dependency.  `MaxMistakes` = 2: the first is followed by another.

### FilesRules

Every verb returns a new stage, and a test may keep any stage and chain several
rules onto it, so the state keeps all stages ever made and `Next` lets any of them
be chained onto or checked.  Stages are copied by value, but the Go slices in them
share arrays: `arrays` has those, a slice is a prefix of one, `Appending` is `append` onto
`slices.Clone` and `Excluding` is `matching.Excepting`.  As in `LayersPolicy`, a
pattern is known by what it describes and `said` is history: `Subject`, `Object`,
`Found` and `Satisfies` read the rule off the words alone.

| Action | Code |
|---|---|
| `Select`, `Except` | the scope's verbs and those of the objects (`selecting`, `excepting`) |
| `Moods`, `Requiring`, `Relating`, `AdhereTo` | `Should`, `ShouldNot` and the five conditions |
| `Resolve`, `ResolveFails` | `resolve`: the deferred mistake, then the graph and the selection |
| `Judge` | the rest of a `Check`: the empty-test guard, the projection, the gathering |
| `ReadSource`, `ReadFails`, `Adhere` | the rest of `AdhereTo`'s `Check`, after the guard |

`Resolve` is given any graph of `Graph`, since the graph may be the cache's
(`GraphCache`) and be of an earlier project than the one that `ReadSource` reads: what
it reads is any content.  Several edges of one pair are one edge, as `NewGraph`
leaves them (`ImportGraph`).  A cycle rule is handed the circuits of `Digraphs`, or as
many of them as `DefaultMaxCircuits` allows, whichever the search comes to first
(`ProjectCircuits`; `JohnsonCircuits` has the search): `Check` does not ask whether
those were all, so `Reports` is a set of reports, and a report that is cut off still
fails the rule.  A check does not run twice: stages do not change, so neither would
a second one.

`files`: patterns that overlap and one that does not compile, exceptions that are
empty, good or bad, three files with a circuit through all of them, one within each
pattern, and external imports, or one file that only one pattern describes.
`DefaultMaxCircuits` is 2 in the model: the report about all files is cut off, that about
a pattern is not.  `MaxStages` = 7 leaves six calls: a select with
an exception, the mood, the condition, and a select with an exception of the
object.  `MaxBranches` = 1: one stage is chained onto twice, which is what
sharing takes, and `BranchCost` = 2 stages less are then allowed, for two chains of
two or three calls.  `MaxMistakes` = 2, as above.

### ComponentDiagrams, DiagramWriting, SlicesRules

`ComponentDiagrams` is the reader (`ParseDiagram` and what it is made of) and the
drawing (`RenderPlantUML`).  A line is a sequence of tokens: the characters the
reader looks for, blanks, keywords, and the words of names.  `ReadLine` is one turn
of the reader's loop, with the state it carries to the next.  `DiagramWriting` is an
author who writes the documented dialect line by line and knows what each line is to
mean, `Blunder` included; `ReadAsMeant` compares that with what is read after every line.

`SlicesRules` is the chain of `slices/fluentapi` and the check it ends in.  A
slicing is known by what it cuts out of which files, as a pattern is elsewhere (what a
glob cuts is `Globs`).  The diagram file belongs to everybody: `EditDiagram`,
`ExportAsPlantUML` and `ExportTorn`, a write refused half-way, may come between any two
steps of the check that names it, which reads it in `Drawing`.  Stages hold no Go
slice, so one chain is enough.  `onDisk` is history: what the file has held since the
check began, which is what `EveryDependencyIsAccountedFor` compares a drawing from a
file with.

In `rules`: a slicing that cuts four files into three slices, one that cuts out names
with brackets, a blank and a colon, one that finds nothing and one that does not
compile; projects with dependencies inside and across slices, an unsliced file, an
external import, and no dependencies at all; diagrams that draw too much, too little,
nothing, or are none.  `MaxSliceCalls` = 5: a slicing said twice, the mood, and a
condition with a modifier, or said once with both.  `MaxEdits` = 1: the file changes
once, before or after it is named.  Diagrams are written in three lines (`MaxLines`),
the fewest in which a statement stands between the two marks of a comment or behind
one that was closed.

Seen while modelling, and not a property: `a-up->b`, written without blanks, is
read as a dependency of a component `a-up`, not as PlantUML's direction hint; and an
export that is refused half-way leaves the half it wrote (`ExportTorn`), although
`to_plantuml.go` speaks of no half-drawn diagram.

### Globs

`Regex` is `globToRegex`, an element of the expression for each construct of the glob;
`Matches` and `Capture` are the search that Go's regular expressions promise, leftmost
first: each element leads on to places in the order it prefers them.  `Documented`
and `Contractions` are the syntax as `NewGlobPattern` documents it, read as sets of
places and never as an expression.  A class is a token of its own.

In `rules`: globs typed from seven stems, three strokes each (`MaxStrokes`; two
contractions are all that `DocumentedGlob` looks for, and all that fit), against
every identifier of up to four characters over two letters and the separator
(`MaxLength`): long enough for `**` to cross none, one or two segments.  `**/**` and
`***` are excluded (`Regular`), since no documentation gives them a reading; two
comments about globs do not hold of them or of others (`a/**/**/b` does not match
`a/b`, and `internal/**/(*)/**` captures `b` out of `internal/a/b/c.go`).

### GraphSnapshot, GraphDocuments

`GraphSnapshot` keeps every builder ever made, and the heap behind the slices of their
queries: an array has a capacity, and `Appended` writes in place while there is room.
`Modifying` is the copy that `modifying` takes before a modifier writes; `Except` writes
into the last entry of the list that was written last.  `Snapshot` is the terminal:
universe, dependencies, focus and reach (`Reach`, one hop a turn), labels, nodes,
edges.  `WithCheckOptions` keeps the last bag, so an allowance of empty reports may be taken
back; `SnapshotFails` is a project that cannot be located or extracted.
`EveryBuilderMeansItsChain` reads the query off the calls that were said;
`SnapshotIsTheQuery` reads the nodes off walks and `Digraphs`, the edges off the graph.
What a box is called (`Label`), what a pattern selects (`Selected`) and which
dependencies are shown at all (`KeptDependencies`) are the same operators on both sides
of it.

`GraphDocuments` draws a snapshot with one awkward label as DOT, D2, Mermaid and CSV
and reads it back as those formats' readers do: where a quoted string ends, which
escapes and entities stand for what, where a field ends.

In `reports`: a graph with nested folders, a file at the root, a circuit and an external
module imported twice; two patterns that overlap, one that does not compile.  `MaxCalls` = 3: a list with one entry, a modifier, and a branch beside it,
or two entries and the exception of the second.  `Except` writes in place, so a branch
that shared its array would show after these; an append over a branch's entry takes
an array with room to spare, and two calls more.  Labels of up to four atoms (`MaxLabel`) over the marks of all four
formats: an entity takes four, a backslash before a quote two.  The arrows of a group in
Mermaid and D2 do not show that a dependency leaves the project, and nothing says
they should.

### Cohesion, MetricsRules

`Cohesion` is one class, its methods read one after the other, and the LCOM family
over it.  LCOM4's forest is computed as the code computes it (`Climb` halves the path
it walks and writes it back, `Connect` joins roots); ratios are pairs of numbers, so a
division by nought is there to be seen.  `PiecesHangTogether` compares the forest with
reachability in `Digraphs`.

`MetricsRules` is the chain (scope, metric, condition), the selection of files and of
what is measured of them, the three conditions, `Measure` and `ExportAsHTML`.  The
disk is read after the graph was made: a file may be gone or not parse.  The types
of a file stand for its syntax.  `VerdictIsTheNumbers` computes each number from the
files and folders of the sentence, without components, readings or joins by name.

In `reports`: classes of up to three fields and five methods, with a name that is no
field: four methods are the fewest in which two connected pairs are connected.
Three files in two folders and one at the root, methods in other files than their types, a
circuit of imports, files that are gone or broken; `MaxScope` = 3 scope verbs.
`metrics_zero_class` adds a type at the root named as a folder is.

Seen while modelling, and not a property, because no floating point and no Go syntax is
modelled: the zone of uselessness loses its boundary at an instability of 0.7 to
rounding where the zone of pain keeps its own at 0.3; a block comment of several lines
in a file with carriage returns counts a comment line as code; and methods are kept by
folder and type name, so `api` and `api_test` share them.

## What is proved

`GraphCacheProofs` proves, for any number of goroutines, requests, keys, arrays
and edits: type correctness, `CopyIsolation`, `AnswersItsOwnQuestion`,
`OnlyCrossedKeysAreStale` and that `GraphCache` implements `GraphMemo`.  The
argument comes in layers, each using the ones before it:

1. types (`TypeOK`);
2. ownership (`Owned`): no array is referred to twice.  `CopyIsolation` is not
   inductive without the part about two goroutines;
3. frames: lemmas saying what entries and handed-out graphs each step keeps;
4. contents (`Faithful`): an entry is a graph of its key's analysis, a handed-out
   array a graph of its request's analysis, at versions the disk has had;
5. freshness (`FreshOutsideCrossed`): a goroutine extracting under a key that was
   not being extracted at the last clear has walked since then;
6. refinement: from all of these, step by step.

Assumed of the constants: `KeyOf` and `AnalysisOf` are functions, `KeyNamesAnalysis`,
`NoRef \notin Ref`, `MaxEdits \in Nat`.

The same module proves `KeysAreAnalyses` for any spellings, options and lists of names
of any length (`OneKeyOneAnalysis`).  Every list can be sorted (`SortingExists`, one name
more at a time), what is sorted holds the same names in order (`SortedWorks`), and two
lists in strict order that hold the same names are one list (`OrderIsUnique`).  So a key
is one analysis, and an analysis one key where no list repeats a name and none lists a
folder that the toolchain passes over (`NoIdleNames`).
`CodeKeysNameAnalyses` then gives `KeyNamesAnalysis` for the keys the code builds.
Assumed: `KeyAssumption` (names can be compared, the default exclusions repeat none and
have none that the toolchain passes over, and nil differs from an empty list only where the code asks).

`DigraphProofs` and `CycleReportsProofs` prove, for any set of
finite projections, any limits and any default, every safety property of `cycles`
and that `CycleReports` implements `CircuitList`.  Assumed: `ProjectionsAssumption`
(a projection is finitely many edges between labels that can be compared) and
`LimitsAssumption` (limits are integers).  The argument:

1. the operators (`DigraphProofs`): what is reached is the least closed set, components
   are the classes of labels that reach each other, and `ElementaryCircuits`, counted
   out by length, holds every elementary circuit.  `Induction` and `LeastNat` stand in
   for the library's induction theorems, over a set where those take an operator;
2. Tarjan (`TarjanInv`): numbers rise along the stack and the path of visits, a visit
   reaches all that was put on the stack after it (`VisitsReach`), a low link names a
   label on the stack that is reached, a lower one once the visit is over
   (`LowLinksReach`), the visit below has heard of it (`LowLinksAreHeard`), and every
   successor walked is accounted for (`SuccessorsAreHeard`).  `ClosedIsStrong` alone
   is not inductive: it says nothing of the labels still on the stack;
3. Johnson's blocking (`PathHolds`, `DeadEnds`, `WalkedLeadsNowhere`,
   `ReleasesAreSafe`): a blocked label off the path leads to blocked ones only, each
   of which has a record of it, what an unsuccessful part of the path has walked is
   blocked, and nothing on the path waits for a label above it.  A release therefore
   leaves `DeadEnds` true, and `DeadEndsAreDead` follows along the edges;
4. the list (`NothingMissed`, `NothingTwice`, `LimitKept`): of the circuits of a
   start, the search has one ahead of it as long as it agrees with the path up to a
   call that has yet to walk its next label, and behind it once that is walked.  A
   circuit passes from ahead to behind by being emitted only: were it skipped or left
   at a blocked label, that label could get back to the start (`BlockedLeadsAstray`).
   What is spent of the limit is what is listed;
5. refinement: `Emit` adds a circuit that was not listed, `Finish` has listed all of
   them or, if the search was cut off, exactly the limit with one left out.

`RulesProofs` proves of `LayersPolicy`, for any names, patterns, projects and length of the
chain, `TypeOK` (with which the builder's lookups by name find one layer),
`FirstMistakeWins` and `PolicyMeansItsSentence`.  For the first two the invariant adds
`Agrees`, that the builder's first rejection is the first mistake of what was said and
its layers are those said before it, and `ResultAgrees`, what a check may have
answered.  For the third, as long as nothing was rejected:

1. `LayersHold`: selectors and definitions stand for each other, a selector for its
   definition's pattern without all that was excepted before the next one, and the
   selector an `Except` would narrow is the one that stands for the last definition.
   Without that a second `Except` could land on an older selector; it is what breaks
   when a name declared again becomes a layer of its own.  The layers are in the order
   of their first definitions, a wider one keeping its place;
2. `ClausesHold`: the clauses are those that were said, each at its position;
3. `Answered`: what a check answers, in the builder's terms.

From these, `LayerOf` is the layer an identifier belongs to, the projection has one
edge for every two layers connected, and the first broken clause is the one to blame.
Assumed: `LayersAssumption`.

`ImportGraphProofs` proves, for any project, options and order of packages, files
and edges, `TypeOK`, `GraphIsTheUnion`, `GraphIsClosed` and
`GraphIsWhatTheSourceSays`.  The third needs `Contributed`: every edge taken or
pending comes from a file in the build, and every such file that has been visited
contributed its own self-edge.  The last needs `Accounted`: the build and the targets
are at all times those of the packages read so far, and the edges taken or pending are
the contributions of the nodes visited.  When every package has been read, a path is
external exactly when it is not the module's own, since all the toolchain's paths are,
test mains among them, and it resolves to the source files of its folder; so each edge
is one that an import says (`EdgesSayWhatIsWritten`), and all edges between two
identifiers agree on whether they leave the project.  Assumed: `FilesAssumption` (no
file and no path is empty), `NamesAssumption` (identifiers and paths are made of names,
no nested module lies in a folder named like the `.test` of a test main, and no import
is written like the identifier of a file: where a project imports `github.com/x/y.go`
and has a file of that very path below its root, the graph cannot tell the two apart)
and `ProjectAssumption` (a line with an import on it is not a comment line).

`FilesRulesProofs` proves, for any patterns, graphs and predicates and any number
of stages and of calls, `TypeOK`, `StagesAreValues`, `FirstMistakeWins` and
`VerdictIsTheSentence`.  The invariant of the first three is
`Stages /\ Checking /\ AnswersRejection`: each stage is well formed, its slices are
within their arrays, what it holds agrees with what was said (the error is the least
mistake; there is something to except from exactly when a select was said in this half
of the sentence), a check under way has taken nothing that it was not given, and what
a rejected rule was answered is its rejection.
`StagesAreValues` follows because arrays only grow in number (`Grows`): no
array that a slice may be a prefix of is written to.

What a verdict means takes two invariants more.  `Meanings` relates what a stage holds
to what was said: the selectors of a half stand for its selects, each for its pattern
without everything excepted before the next select, and the last selector for the
newest select, without which a second except could land on an older one.  `Deciding`
says of a check what each of its steps has settled, in the terms of its stage.  That
a cycle rule reports the edges on a circuit is a matter of walks (`DigraphProofs`,
`CircuitsTakeCyclicEdges`): a shortest way back from the end of an edge to its start is
simple, and turned until its least file comes first it is one of the elementary
circuits that the sentence speaks of.  Of a report that was cut off at
`DefaultMaxCircuits`, all that is claimed is that its circuits are some of those, no
more than the limit, and at least one.  Assumed: `RulesAssumption` (the graphs are finite, their
files comparable, and an external edge ends in a module).

The same module proves of `SlicesRules`, for any slicings, texts, projects, length of the
chain and number of writes to the diagram file, `VerdictIsTheSentence` and
`EveryDependencyIsAccountedFor`.  Neither can be seen from one step: an answer is given
several calls after the words it is about.  The invariant is
`Typed /\ Means /\ Staged /\ SlicesAnswered`.  `Means` says that the error is the first
mistake of what was said (`FirstMistake`) and, without one, that slicing, mood and
predicate are the ones of its words; a slicing that follows a rejection is not among
them, for it joins nothing (`SlicingIsSaid` holds only while nothing was rejected).
`Staged` says what a stage has behind it, and `SlicesAnswered` that an answer is the
rejection, an error of the file or the project, or the `Verdict` on what the rule, the
project and the diagram are.  `ParseDiagram` is never looked into: the argument holds
whatever a text is read as, and whichever text the file held when it was read.  That it
held it while the check ran is a second invariant, `FileIInv`
(`FilesAreReadWhenChecked`): the predicate keeps the file its word named, and between
the resolving and the reading what is on disk is on record.  Assumed:
`SlicingAssumption` (no slicing is called "none", and a project's graph is closed,
which is what `GraphIsClosed` says of every graph extracted).  That an export is read
back is about the reader itself and stays with TLC.

`ArchTestProofs` proves, for any number of checks, bags of options, plans of tests,
limits on what is listed and refused operations, `RuleErrorWins`,
`TornLinesAreReported`, `EveryFailureReachesTheTest` and `NoSilentLoss`.  None but the
first stands alone: `Answer` says where a result can have come from at each step of a check,
`Reports` that a test knows nothing before its check is over and what it then says,
`InTurn` that a suite reaches a rule when those before it are over.  A check that
closes its log forgets the log's failure in the same step as it returns it, which is
why a torn line is accounted for throughout (`ReturningKeeps`).  `NoSilentLoss` looks
at a check that has answered; its invariant `LogsItsPart` says of every step that each
destination asked for holds, whole and in order, what is `Due` by then, as long as no
failure is remembered.  The other checks write to the same file and the same writer:
`Aside` shows that what they append leaves this check's own lines as they were, and
that a truncation by one of them is on record in `cut`.  Assumed: `OptionsType`,
`BoundsType`, `ArchTestAssumption`.

`ReportsProofs` proves, for a class of any size, `PiecesHangTogether` and
`ScoresKeepTheirScale`; for any project and any scope, `ComponentsKeepTheirScale`; and
for any patterns and any number of calls, `EveryBuilderMeansItsChain`,
`SnapshotIsTheQuery` and `VerdictIsTheNumbers`.

1. `PiecesHangTogether`: the forest is read as a partition (`HasRead`): the roots name its
   parts, a climb ends in the root it would have ended in however the paths were halved
   before (`Forested`), and joining two roots joins two parts.  When all pairs of a field
   and its methods have been read, the parts are the pieces that shared fields hold
   together (`ForestIsPieces`), because a part is never wider than what is reached and
   never narrower than what is shared.
2. `ScoresKeepTheirScale`: every sum the metrics take is a count of pairs
   (`SumIsCount`), counted along the other axis where the property speaks of fields and
   the code of methods, so a bound is one product against another.
3. `ComponentsKeepTheirScale`: a dependency between two components is counted once on
   either side; a component has at most one dependency on each of the others, and the
   corners that the zones cut off are apart.
4. `EveryBuilderMeansItsChain`: the invariant is `SnapshotInv`, each builder `Faithful`:
   its error is its first mistake and, without one, its slices hold what `Written` says
   of the chain and an except would narrow the entry of the newest list call.  The copy a
   call writes into has arrays of its own (`CopiesAreOwn`), filled to the last place, so
   `append` takes a new one (`AppendedIsNew`), and `Except` writes into an array nobody
   else has; so the memory in use only grows (`Grows`), and what the other builders say
   is not touched (`OneMoreBuilder`).
5. `SnapshotIsTheQuery`: an answer is about the builders and the graph as they are
   (`AnswerInv`: each call takes the last answer back), so what is left is what `Reach`
   computes in as many turns as there are nodes.  After each turn, what is behind the
   frontier has had its links followed, and a frontier that is not empty has made the
   reached nodes more than the turns (`TurnsWork`); so without a bound the last frontier
   is empty and the reached nodes are the least set the links do not leave
   (`FromIsReached`, `OfIsReached`), and with one they are the ends of the walks that are
   no longer (`ReachIsWithin`, `WithinIsReached`).  The counts of the arrows sum to the
   dependencies shown because each is behind the arrow between its own two boxes
   (`ArrowsCount`).
6. `VerdictIsTheNumbers`: the invariant is `SentenceInv`: whatever was typed, the error
   a chain holds is the first mistake of its sentence and, without one, its selectors are
   the selects of the sentence, each with the excepts that qualify it.  So the files
   selected are those that were wanted (`Judging`), one that cannot be read fails the
   check before anything is counted (`FailureIs`), the subjects are those that were meant
   and each reading is the number of the subject it names (`ReadingsMeant`).  A NaN needs
   care throughout: it is on no side of a limit and breaks every comparison
   (`HoldsOrBreaks`).  A verdict that was returned stays right because nothing it speaks
   of changes any more (`JudgesStays`).  The theorem is about projects in which an
   identifier names one subject (`NoNamesakes`): no package declares a type twice and no
   file or folder is called what a type is.  The first the Go compiler ensures except
   across files that different build tags select; the second nothing ensures, and
   `metrics_zero_class` shows what the code does then.

Assumed: `ClassesAssumption` (a class has finitely many fields), `MetricsAssumption`
(the graphs are finite, the disk is asked for their nodes, and a file that parses
declares finitely many types and methods, with sizes that are natural numbers),
`MetricsCallsAssumption` (a selecting verb takes a pattern; a limit is a number of
either sign, or NaN, an infinite one being a figure beyond every number; a comparison is
one of the five) and `SnapshotAssumption` (graphs are finite, a
call with a pattern is one of the four verbs that take one, a depth is an integer).

Only model-checked: liveness (`Terminates`; out of the prover's reach), the
reading and the writing of diagrams (`ReadAsMeant`, `ExportIsReadBack`), globs
(`GlobMeansItsSyntax`) and documents (`DocumentsAreReadBack`).
Globs, diagrams and documents compare a function that goes letter by letter or line by
line with a reference: each would need an induction of its own, as `DigraphProofs` has
for reachability, and has none yet.

## Not modelled

Wording of violations, logs and reports, file I/O beyond what fails or tears, the Go
toolchain and the testing framework (external steps that the models let answer in any
way the code expects), the syntax of Go below declarations, imports and selections,
floating-point rounding, a user's own regular expressions, JSON and HTML, a rule or a
predicate that panics.  `errors` and the facade keep no state and decide nothing.
