------------------------------- MODULE MCRules -------------------------------
(***************************************************************************)
(* Four explorations of the rules that are chained verb by verb, one       *)
(* behaviour following one of them: a layer policy ("layers"), the rules   *)
(* about slices and the diagram file they may be checked against           *)
(* ("slices"), the texts an author of a diagram may write ("texts"), and   *)
(* the globs a slicing or a selector may be ("globs").                     *)
(***************************************************************************)
EXTENDS LayersPolicy, SlicesRules

CONSTANTS
  MaxMistakes,      \* bound on the mistakes in the chain of one policy
  MaxLines, MaxStrokes,
  MaxLength,        \* bound on the identifiers that globs are matched with
  Families          \* which of the four are explored

VARIABLES
  family,
  text, block, meant,
  glob, strokes

texts == <<text, block, meant>>
globs == <<glob, strokes>>

-----------------------------------------------------------------------------
\* Two layers over four files. "wide" overlaps "left", so the order of the
\* declarations decides, and an exception can move a file from one layer to the
\* next; "broken" does not compile. A project may also depend on an external
\* identifier that a pattern happens to describe, and has a file no layer
\* speaks of.
MCName == {"", "api", "db"}
MCPattern == {"left", "wide", "broken"}
MCDescribes == [left |-> {"l"}, wide |-> {"l", "m", "external"}]
MCExceptions == {{}, {"left"}, {"left", "broken"}}

Dependency(source, target) == [source |-> source, target |-> target, external |-> FALSE]
MCProject ==
  {[files |-> {"l", "m", "r"},
    edges |-> {Dependency("l", "m"), Dependency("m", "l"), Dependency("m", "r"),
               [source |-> "l", target |-> "external", external |-> TRUE]}],
   [files |-> {"l", "r"}, edges |-> {Dependency("l", "r"), Dependency("r", "l")}]}

-----------------------------------------------------------------------------
\* "folders" cuts four files into two slices and a plain third; "empty" finds
\* nothing; "broken" does not compile; "odd" cuts out names that PlantUML has
\* uses of its own for.
Api == <<"api">>
Db == <<"db">>
Lib == <<"lib", "-", "x">>
MCCut ==
  [folders |-> ("a" :> Api) @@ ("d" :> Db) @@ ("e" :> Db) @@ ("l" :> Lib) @@ ("out" :> Api),
   odd |-> ("a" :> <<"a", "[", "1", "]">>) @@ ("d" :> <<"d", " ", "b">>) @@
          ("l" :> <<"l", ":", "1">>),
   empty |-> ("nowhere" :> Api)]
Edge(source, target) == [source |-> source, target |-> target, external |-> FALSE]
MCSliced ==
  {[files |-> {"a", "d", "e", "l", "x"},
    edges |-> {Edge("a", "d"), Edge("d", "e"), Edge("x", "a"), Edge("l", "x"),
               [source |-> "e", target |-> "out", external |-> TRUE]}],
   [files |-> {"a", "d", "l"}, edges |-> {Edge("a", "d"), Edge("d", "l"), Edge("d", "a")}],
   [files |-> {"d", "l"}, edges |-> {}]}
MCText ==
  {<<<<"api", "-", ">", "db">>, <<"[", "db", "]", "-", "-", ">", "[", "lib", "-", "x", "]">>>>,
   <<<<"component", " ", "api">>, <<"component", " ", "db">>>>,
   <<<<"/'">>, <<"api", "-", ">", "db">>>>,
   <<<<"api", " ", "db">>>>}

MCSlicing == {"folders", "odd", "empty", "broken"}
MCSlice == {Api, Db, << >>}

-----------------------------------------------------------------------------
Statement == <<"[", "a", "]", "-", ">", "[", "d", "]">>
MCRemarks == {<< >>, Statement, <<"/'">>}
MCNonsense ==
  {<<"a">>, <<"component">>, <<"[", "a", "]", "<", "-", "[", "b", "]">>,
   <<"a", " ", "-", "up", "-", ">", " ", "b">>, <<"a", ">", "b">>,
   <<"a", "-", ">", "b", "-", ">", "c">>, <<"component", " ", "[", "a", "]", " ", "as", " ", "b">>,
   <<"[", "a", "]", "-", ">", "[", "b", ":", "c", "]">>, <<"-", ">", "a">>, <<"[", "]">>,
   <<"a", "-", ">", "b", " ", "'">>, <<"title", " ", "a">>}
MCStrokes ==
  {[dashes |-> 1, gap |-> << >>, label |-> << >>],
   [dashes |-> 2, gap |-> <<" ">>, label |-> << >>],
   [dashes |-> 2, gap |-> << >>, label |-> <<":", " ", "uses", "[">>]}

Texts == INSTANCE DiagramWriting WITH
  Bare <- {<<"a">>}, Bracketed <- {<<"a">>, <<"b", " ", "-", "c">>}, Strokes <- MCStrokes,
  Remarks <- MCRemarks, Nonsense <- MCNonsense

-----------------------------------------------------------------------------
MCCandidate ==
  {c \in UNION {[1 .. n -> {"a", "b", "/"}] : n \in 1 .. MaxLength} :
     /\ "/" \notin {c[1], c[Len(c)]}
     /\ \A i \in 1 .. Len(c) - 1 : c[i] # "/" \/ c[i + 1] # "/"}
MCStem ==
  {<< >>, <<"(", "*", "*", ")">>, <<"a", "/", "(">>, <<"a", "/", "(", "*", "*", ")">>,
   <<"*", "*", "/", "(", "*", ")">>, <<"a", "/", "*", "*">>, <<"b", "*", "*", "/">>}

Globs == INSTANCE Globs WITH
  Letter <- {"a", "b"}, Class <- ("[!b]" :> {"a", "/"}), Candidate <- MCCandidate, Stem <- MCStem

-----------------------------------------------------------------------------
\* A user makes few mistakes in one sentence; two are enough for the first of
\* them to be followed by another.
LayersNext == Next /\ Cardinality(Mistakes(said')) <= MaxMistakes

MCInit ==
  /\ family \in Families
  /\ Init
  /\ SlicesInit /\ (family = "slices" \/ disk = Missing)
  /\ Texts!WriteInit
  /\ Globs!GlobInit /\ (family = "globs" \/ glob = << >>)

MCNext ==
  \/ family = "layers" /\ LayersNext /\ UNCHANGED <<family, sliceVars, texts, globs>>
  \/ family = "slices" /\ SlicesNext /\ UNCHANGED <<family, vars, texts, globs>>
  \/ family = "texts" /\ Texts!WriteNext /\ UNCHANGED <<family, vars, sliceVars, globs>>
  \/ family = "globs" /\ Globs!TypeNext /\ UNCHANGED <<family, vars, sliceVars, texts>>

MCSpec == MCInit /\ [][MCNext]_<<family, vars, sliceVars, texts, globs>>

-----------------------------------------------------------------------------
\* The properties of DiagramWriting and Globs; those of LayersPolicy and
\* SlicesRules are their own.
ReadAsMeant == family = "texts" => Texts!ReadAsMeant
GlobMeansItsSyntax == family = "globs" => Globs!GlobMeansItsSyntax
=============================================================================
