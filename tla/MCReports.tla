------------------------------ MODULE MCReports ------------------------------
(***************************************************************************)
(* Four explorations of what is read off a graph and reported rather than  *)
(* ruled about, one behaviour following one of them: the builders of a     *)
(* snapshot ("graph"), the labels of a rendered document ("documents"),    *)
(* the cohesion of a class ("classes") and the rules about numbers         *)
(* ("metrics").                                                            *)
(***************************************************************************)
EXTENDS GraphSnapshot, Cohesion, MetricsRules, TLC

CONSTANTS
  Families,     \* which of the four are explored
  MaxLabel,     \* bound on the atoms of a label
  Namesakes     \* whether a type at the root of a project is named as a folder is

VARIABLES
  family,
  label

-----------------------------------------------------------------------------
\* A folder with a folder in it, one beside them and a file at the root; two of
\* the files import each other.
A == <<"api", "a">>
B == <<"api", "v1", "b">>
D == <<"db", "d">>
Main == <<"main">>
Fmt == <<"fmt">>
Own(n) == [source |-> n, target |-> n, external |-> FALSE, kinds |-> {}]
Edge(m, n) == [source |-> m, target |-> n, external |-> n = Fmt, kinds |-> {"plain"}]
MCGraphs ==
  {{Own(A), Own(B), Own(D), Own(Main), Edge(Main, A), Edge(A, B), Edge(B, A), Edge(B, D), Edge(A, D),
    Edge(D, Fmt), [Edge(B, Fmt) EXCEPT !.kinds = {"blank"}]}}
Call(verb, pattern, depth, group) ==
  [verb |-> verb, pattern |-> pattern, except |-> {}, depth |-> depth, label |-> group]
MCCalls ==
  {Call("focus", "api", -1, << >>), Call("focus", "flat", 1, << >>), Call("focus", "[", 0, << >>),
   Call("from", "api", 0, << >>), Call("of", "api", 0, << >>),
   Call("groups", "[", 0, << >>), Call("groups", "api", 0, <<"g">>), Call("groups", "flat", 0, <<"api">>)}

MCDescribes == ("api" :> {A, B}) @@ ("flat" :> {A, Main, Fmt})
MCExceptions == {{}, {"flat"}, {"["}}

Documents == INSTANCE GraphDocuments WITH
  Atoms <- {"a", "quote", "bs", "n", "newline", "return", "hash", "quot", "semi", "comma"}, Plain <- <<"a">>

-----------------------------------------------------------------------------
Class(fields, others, most) == [fields |-> fields, others |-> others, most |-> most]
MCClasses ==
  {Class({}, {"o"}, 2), Class({"f"}, {"o"}, 4), Class({"f", "g"}, {}, 5), Class({"f", "g"}, {"o"}, 3),
   Class({"f", "g", "h"}, {}, 3)}

-----------------------------------------------------------------------------
\* Two files of one folder that share a type, one of another folder, and main.
MCMetricsDescribes ==
  ("wide" :> [files |-> {<<"x", "a">>, <<"y", "c">>}, classes |-> {<<"x", ".", "S">>, <<"y", ".", "T">>}]) @@
  ("xs" :> [files |-> {<<"x", "a">>, <<"x", "b">>}, classes |-> {<<"x", ".", "S">>, <<"x", ".", "I">>}])
Scope(verb, population, patterns) == [verb |-> verb, population |-> population, patterns |-> patterns]
MCScopes ==
  {Scope("select", population, {pattern}) : population \in {"files", "classes"}, pattern \in {"wide", "xs", "["}} \cup
  {Scope("except", population, {"xs"}) : population \in {"plain", "files", "classes"}} \cup
  {Scope("except", "plain", {}), Scope("except", "plain", {"xs", "["})}

Compare(comparison, n, d) ==
  [verb |-> "compare", comparison |-> comparison, limit |-> [n |-> n, d |-> d, halved |-> FALSE]]
MCConditions ==
  {Compare(comparison, 1, 1) : comparison \in {"below", "above", "exactly", "belowOrEqual", "aboveOrEqual"}} \cup
  {Compare("below", 1, 2), Compare("above", 0, 0), Compare("exactly", 1, 2), Compare("above", -1, 1)} \cup
  {[verb |-> "satisfy", given |-> given] : given \in BOOLEAN} \cup
  {[verb |-> "zone", zone |-> zone] : zone \in {"pain", "uselessness"}}

Source(code, types, methods) == [code |-> code, types |-> types, methods |-> methods]
Struct(name, fields) == [name |-> name, interface |-> FALSE, fields |-> fields, members |-> 0]
Interface(name, members) == [name |-> name, interface |-> TRUE, fields |-> 0, members |-> members]
Method(name, on) == [name |-> name, on |-> on]
Dependency(source, target) == [source |-> source, target |-> target, external |-> target = Fmt]
Disk(a, b, c, main) ==
  (<<"x", "a">> :> a) @@ (<<"x", "b">> :> b) @@ (<<"y", "c">> :> c) @@ (Main :> main)
Owning(disk, edges) == [edges |-> edges \cup {Dependency(f, f) : f \in DOMAIN disk}, disk |-> disk]

MCProjects ==
  {Owning(Disk(Source(3, {Struct("S", 2)}, {Method("m", "S")}),
               Source(1, {Interface("I", 1)}, {Method("n", "S"), Method("o", "Elsewhere")}),
               Source(2, {Struct("T", 0)}, {Method("m", "T")}),
               Source(0, IF Namesakes THEN {Interface("x", 3)} ELSE {}, {})),
          {Dependency(<<"x", "a">>, <<"x", "b">>), Dependency(<<"x", "a">>, <<"y", "c">>),
           Dependency(<<"x", "b">>, <<"y", "c">>), Dependency(<<"y", "c">>, <<"x", "a">>),
           Dependency(Main, <<"x", "a">>), Dependency(<<"x", "a">>, Fmt)}),
   Owning(Disk(Source(1, {Struct("S", 0)}, {}), Source(1, {}, {}), Source(1, {Interface("T", 0)}, {}),
               Source(2, {Struct("M", 1)}, {Method("m", "M"), Method("n", "M")})),
          {Dependency(<<"y", "c">>, <<"x", "a">>), Dependency(Main, <<"x", "b">>)}),
   Owning(Disk([kind |-> "gone"], Source(1, {Interface("I", 1)}, {}), [kind |-> "unparsable"], Source(1, {}, {})), {})}

\* The one project that has namesakes has them on purpose.
ASSUME NamesakesAssumption == Namesakes <=> \E p \in MCProjects : ~NoNamesakes(p)

-----------------------------------------------------------------------------
Init ==
  /\ family \in Families
  /\ SnapshotInit /\ (family = "graph" \/ graph = CHOOSE g \in MCGraphs : TRUE)
  /\ Documents!DrawInit /\ (family = "documents" \/ label = <<"a">>)
  /\ CohesionInit /\ (family = "classes" \/ class = CHOOSE c \in MCClasses : TRUE)
  /\ MetricsInit /\ (family = "metrics" \/ project = CHOOSE p \in MCProjects : TRUE)

Next ==
  \/ family = "graph" /\ SnapshotNext /\ UNCHANGED <<family, label, cohesionVars, metricsVars>>
  \/ family = "documents" /\ Documents!DrawNext /\ UNCHANGED <<family, snapshotVars, cohesionVars, metricsVars>>
  \/ family = "classes" /\ CohesionNext /\ UNCHANGED <<family, snapshotVars, label, metricsVars>>
  \/ family = "metrics" /\ MetricsNext /\ UNCHANGED <<family, snapshotVars, label, cohesionVars>>

Spec == Init /\ [][Next]_<<family, snapshotVars, label, cohesionVars, metricsVars>>

-----------------------------------------------------------------------------
\* A document drawn of a snapshot is read back as that snapshot (GraphDocuments).
DocumentsAreReadBack == family = "documents" => Documents!DocumentsAreReadBack
=============================================================================
