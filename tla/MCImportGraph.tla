---------------------------- MODULE MCImportGraph ----------------------------
(***************************************************************************)
(* One module with a package api that has tests of both kinds, a package   *)
(* db of which a build tag adds a file, a package in a folder the walk     *)
(* leaves out by default, a file in testdata and a nested module.  Three   *)
(* families of headers for api/a.go: every pair of imports, every          *)
(* placement of directives in three lines, and one header under every      *)
(* combination of options, with the parser giving up at three lines.       *)
(* Another exploration is of the key the graph is kept under: one project  *)
(* written two ways and another project, with lists that are nil, empty,   *)
(* equal to the defaults, permuted and repeating, and lists of folders     *)
(* that name one the toolchain ignores, which is 4.                        *)
(***************************************************************************)
EXTENDS ImportGraph, CacheKey, TLC

VARIABLE exploring   \* "graphs" or "keys"

A == <<"api", "a.go">>
B == <<"api", "b.go">>
ATest == <<"api", "a_test.go">>
XTest == <<"api", "x_test.go">>
D == <<"db", "d.go">>
DTag == <<"db", "d_tag.go">>
G == <<"build", "g.go">>
S == <<"sub", "s.go">>
T == <<"api", "testdata", "t.go">>

MCFile == {A, B, ATest, XTest, D, DTag, G, S, T}
MCRole == [f \in MCFile |-> CASE f = ATest -> "test" [] f = XTest -> "outsideTest" [] OTHER -> "source"]
MCModulePath == <<"m">>
MCConstrained == {DTag}
MCNestedModules == {<<"sub">>}
Api == <<"m", "api">>
Db == <<"m", "db">>
Outside == {<<"fmt">>, <<"mx", "db">>}
MCImportPath == {Api, Db, <<"m", "build">>, <<"m", "gone">>, <<"m", "sub">>} \cup Outside
MCGenerated == <<"..", "main.go">>

Declares(path, kind, directive) ==
  [code |-> TRUE, imports |-> {[path |-> path, kind |-> kind]},
   commented |-> directive.present, directive |-> directive]
CommentLine(directive) ==
  [code |-> FALSE, imports |-> {}, commented |-> TRUE, directive |-> directive]
Blank == [code |-> FALSE, imports |-> {}, commented |-> FALSE, directive |-> NoDirective]
\* The package clause, or a parenthesis of an import declaration.
Clause == [Blank EXCEPT !.code = TRUE]
Everywhere == [present |-> TRUE, scopes |-> {}]
InLayers == [present |-> TRUE, scopes |-> {"layers"}]
Directives == {NoDirective, Everywhere, InLayers}

Plain(path) == <<Clause, Declares(path, "plain", NoDirective)>>
\* The headers of the files other than api/a.go.
Elsewhere ==
  (B :> <<Clause>>) @@ (D :> Plain(<<"fmt">>)) @@ (DTag :> Plain(Api)) @@ (G :> Plain(Db))
    @@ (S :> Plain(Api)) @@ (T :> Plain(Db)) @@ (ATest :> Plain(Db))
    @@ (XTest :> <<Clause, Declares(Api, "dot", NoDirective)>>)
Projects(headers, files) ==
  {LET text == (A :> header) @@ Elsewhere
   IN  [files |-> files, text |-> text, parsed |-> [f \in MCFile |-> Len(text[f])]]
     : header \in headers}

PairLine == {Declares(path, kind, NoDirective) : path \in MCImportPath, kind \in {"plain", "blank"}}
Pairs == Projects({<<Clause, i, j>> : i, j \in PairLine}, {A, D, DTag, G, S})

Db1(directive) == Declares(Db, "plain", directive)
Api1(directive) == Declares(Api, "plain", directive)
PlacementLine == {Db1(d) : d \in Directives} \cup {CommentLine(d) : d \in Directives} \cup {Blank, Clause}
Placements ==
  Projects({<<Clause>> \o lines : lines \in [1 .. 3 -> PlacementLine]}
           \cup {<<Clause, above, Api1(trailing), Db1(NoDirective)>>
                   : above \in PlacementLine, trailing \in Directives}, {A, B, D})

Swept == <<Clause, Declares(Api, "blank", NoDirective), Db1(InLayers), Declares(<<"fmt">>, "dot", NoDirective)>>
Cut == UNION {{[p EXCEPT !.parsed[A] = n] : n \in {0, 2, 4}} : p \in Projects({Swept}, MCFile \ {B})}
Unusual == Projects({Swept}, {}) \cup Projects({Swept}, {G, S}) \cup Projects({Swept}, {ATest, XTest, DTag})

MCProject == Pairs \cup Placements \cup Cut \cup Unusual

Default == [tests |-> FALSE, excluded |-> {"build"}, tagged |-> FALSE, kinds |-> {}, scopes |-> {}]
MCOptions == [tests : BOOLEAN, excluded : {{}, {"build"}}, tagged : BOOLEAN,
              kinds : {{}, {"blank"}}, scopes : {{}, {"layers"}}]

MCSpelling == {"./shop", "/src/shop", "/src/bank"}
MCResolvedRoot == [s \in MCSpelling |-> IF s = "/src/bank" THEN "bank" ELSE "shop"]
MCDefaultFolders == <<2, 1>>
MCFolderLists == {NilList, << >>, <<1>>, <<1, 2>>, <<3, 3>>, <<4>>, <<4, 1>>}
MCTagLists == {<< >>, <<1, 2>>, <<2, 1>>}
MCKindSets == {{}, {"blank"}}
MCScopeLists == {<< >>, <<1>>}
NoRequest == [root |-> "./shop", options |-> NilBag]

\* Each family under the options that bear on it.
MCInit ==
  /\ exploring \in {"graphs", "keys"}
  /\ Init
  /\ project \in Pairs => options \in {Default, [Default EXCEPT !.tagged = TRUE, !.excluded = {}]}
  /\ project \in Placements => options \in {Default, [Default EXCEPT !.scopes = {"layers"}]}
  /\ KeysInit
  /\ exploring = "keys" => project = CHOOSE p \in Unusual : TRUE
  /\ exploring = "keys" => options = Default
  /\ exploring = "graphs" => left = NoRequest /\ right = NoRequest
MCNext ==
  \/ exploring = "graphs" /\ Next /\ UNCHANGED <<exploring, left, right>>
  \/ exploring = "keys" /\ AskAgain /\ UNCHANGED <<vars, exploring>>
MCSpec == MCInit /\ [][MCNext]_<<vars, exploring, left, right>>
=============================================================================
