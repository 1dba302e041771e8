----------------------------- MODULE ImportGraph -----------------------------
(***************************************************************************)
(* ExtractGraph: from a project on disk to the import graph every rule is  *)
(* judged on.  The walk enumerates files, the toolchain reports packages,  *)
(* their intersection becomes nodes; every node contributes its self-edge  *)
(* and its imports, each resolved to files of the project or to an         *)
(* external path; NewGraph merges what was contributed.                    *)
(*                                                                         *)
(* Identifiers and import paths are sequences of their elements.  The code *)
(* reads the packages in the toolchain's order, the nodes in the order of  *)
(* the enumeration and the edges in the order they were appended: the      *)
(* model takes each of the three in any order.  The disk does not change   *)
(* here; GraphCache is about one that does.                                *)
(***************************************************************************)
EXTENDS IgnoreDirectives, SequencesExt

CONSTANTS
  File,              \* identifiers of files below the project root
  Role,              \* file -> "source", "test" or "outsideTest" (a package of its own)
  Constrained,       \* the files only a build tag brings into the build
  ModulePath,        \* the path of the module under analysis
  NestedModules,     \* the folders that hold a go.mod of their own
  ToolchainIgnored,  \* the folder names the toolchain passes over, testdata among them
  FolderName,        \* the names a caller may exclude
  Generated,         \* a file outside the project that the toolchain reports
  Project,           \* the projects analysed: files, their headers, lines the parser reads
  Options            \* the source options they are analysed with

SourceOptions == [tests : BOOLEAN, excluded : SUBSET FolderName, tagged : BOOLEAN,
                  kinds : SUBSET Kind, scopes : SUBSET Scope]

ASSUME FilesAssumption ==
  /\ <<>> \notin File /\ Generated \notin File
  /\ Role \in [File -> {"source", "test", "outsideTest"}]
  /\ <<>> \notin ImportPath
\* Names of folders and files are the elements of identifiers and paths; what the
\* toolchain appends for a test main is none of them.  No import is written like
\* the identifier of a file.
ASSUME NamesAssumption ==
  /\ ModulePath \in Seq(STRING) /\ File \subseteq Seq(STRING) /\ ImportPath \subseteq Seq(STRING)
  /\ \A folder \in NestedModules : \A i \in DOMAIN folder : folder[i] # ".test"
  /\ File \cap ImportPath = {}
ASSUME ProjectAssumption ==
  /\ Project \subseteq [files : SUBSET File, text : [File -> Seq(Line)], parsed : [File -> Nat]]
  /\ \A p \in Project : \A f \in File : /\ p.parsed[f] <= Len(p.text[f])
                                      /\ \A l \in DOMAIN p.text[f] :
                                           p.text[f][l].imports # {} => p.text[f][l].code
  /\ Options \subseteq SourceOptions

VARIABLES
  project, options,  \* what is analysed, and how
  pc,                \* "walk", "load", "emit", "merge", "done" or "failed"
  enumerated,        \* what the walk found
  unread,            \* packages of the toolchain's answer not yet looked at
  targets, inBuild,  \* targetIndex.packages, and the enumerated files in the build
  unvisited,         \* nodes whose edges have not been emitted
  pending, taken,    \* emitted edges before and after NewGraph has merged them
  graph              \* pair of identifiers -> [external, kinds]

vars == <<project, options, pc, enumerated, unread, targets, inBuild, unvisited,
          pending, taken, graph>>
given == <<project, options>>
loaded == <<enumerated, unread, targets, inBuild>>

Identifier == File \cup ImportPath
Edge == [source : Identifier, target : Identifier, external : BOOLEAN, kinds : SUBSET Kind]
\* An edge and the line it was written on, 0 for the edge of the file to itself:
\* the same edge written twice is emitted twice.
Emission == [line : Nat, edge : Edge]

-----------------------------------------------------------------------------
\* The walk.

IgnoredByToolchain(f) == \E i \in 1 .. Len(f) - 1 : f[i] \in ToolchainIgnored
ExcludesFolder(name) == name \in ToolchainIgnored \cup options.excluded
IsSourceFile(f) == options.tests \/ Role[f] = "source"
SourceFiles ==
  {f \in project.files : IsSourceFile(f) /\ \A i \in 1 .. Len(f) - 1 : ~ExcludesFolder(f[i])}

\* What go list answers.  A package with tests is reported again, built with
\* them; tests that stand outside it are a package of their own, and the test
\* main is generated.
InsideNestedModule(folder) == \E n \in 1 .. Len(folder) : SubSeq(folder, 1, n) \in NestedModules
PackagePath(f) == ModulePath \o Front(f)
Listed == {f \in project.files : /\ f \in Constrained => options.tagged
                                 /\ ~IgnoredByToolchain(f)
                                 /\ ~InsideNestedModule(Front(f))}
Package(path, forTest, f, roles) ==
  [path |-> path, forTest |-> forTest,
   goFiles |-> {g \in Listed : Front(g) = Front(f) /\ Role[g] \in roles}]
Tested(f) == options.tests /\ Role[f] # "source"
Reported ==
  {Package(PackagePath(f), FALSE, f, {"source"}) : f \in Listed}
  \cup {Package(PackagePath(f), TRUE, f, {"source", "test"})
          : f \in {g \in Listed : options.tests /\ Role[g] = "test"}}
  \cup {Package(Append(PackagePath(f), "_test"), TRUE, f, {"outsideTest"})
          : f \in {g \in Listed : options.tests /\ Role[g] = "outsideTest"}}
  \cup {[path |-> Append(PackagePath(f), ".test"), forTest |-> FALSE, goFiles |-> {Generated}]
          : f \in {g \in Listed : Tested(g)}}

-----------------------------------------------------------------------------
\* classify_target.go.  Every package of the pattern belongs to the module, so
\* its path is known once one has been read.

\* A mutant: whatever lies below the module's path is the module's.
OwnsPrefix(path) == DOMAIN targets # {} /\ IsPrefix(ModulePath, path)

OwnsImportPath(path) ==
  /\ DOMAIN targets # {}
  /\ IsPrefix(ModulePath, path)
  /\ ~InsideNestedModule(SubSeq(path, Len(ModulePath) + 1, Len(path)))
IsExternal(path) == path \notin DOMAIN targets /\ ~OwnsImportPath(path)
Resolved(path) == IF path \in DOMAIN targets THEN targets[path] ELSE {}

IgnoresImport(text, l, import) ==
  \/ import.kind \in options.kinds
  \/ AppliesIn(DirectiveOf(text, l), options.scopes)

NewEdge(source, target, external, kinds) ==
  [source |-> source, target |-> target, external |-> external, kinds |-> kinds]
SelfEdge(f) == NewEdge(f, f, FALSE, {})
SelfEmission(f) == [line |-> 0, edge |-> SelfEdge(f)]

\* The edges of one import of f, written on line l.
EdgesOf(f, l, import) ==
  LET From(target, external) ==
        [line |-> l, edge |-> NewEdge(f, target, external, {import.kind})]
  IN  IF IgnoresImport(project.text[f], l, import) THEN {}
      ELSE IF IsExternal(import.path) THEN {From(import.path, TRUE)}
      ELSE {From(target, FALSE) : target \in Resolved(import.path)}

\* What the parser read of f before it came to the end or gave up.
Declared(f) == {d \in (1 .. project.parsed[f]) \X Import : d[2] \in project.text[f][d[1]].imports}
ImportEdges(f) == UNION {EdgesOf(f, d[1], d[2]) : d \in Declared(f)}

-----------------------------------------------------------------------------
\* graph.go and edge.go.

Key(edge) == <<edge.source, edge.target>>
IsSelfEdge(edge) == edge.source = edge.target
Canonical(edge) == IF IsSelfEdge(edge) THEN SelfEdge(edge.source) ELSE edge
Weight(edge) == [external |-> edge.external, kinds |-> edge.kinds]
\* A mutant: the last of several edges between two identifiers wins.
MergeLast(old, edge) == Weight(edge)

Merge(old, edge) ==
  [external |-> old.external \/ edge.external, kinds |-> old.kinds \cup edge.kinds]

Folded(g, edge) ==
  IF edge.source = <<>> \/ edge.target = <<>> THEN g
  ELSE [k \in DOMAIN g \cup {Key(edge)} |->
          IF k # Key(edge) THEN g[k]
          ELSE IF k \in DOMAIN g THEN Merge(g[k], edge) ELSE Weight(edge)]

-----------------------------------------------------------------------------

Init ==
  /\ project \in Project /\ options \in Options
  /\ pc = "walk"
  /\ enumerated = {} /\ unread = {} /\ targets = <<>> /\ inBuild = {}
  /\ unvisited = {} /\ pending = {} /\ taken = {} /\ graph = <<>>

\* A project without source files is an empty graph, and the toolchain is not run.
Walk ==
  /\ pc = "walk"
  /\ enumerated' = SourceFiles
  /\ pc' = IF SourceFiles = {} THEN "done" ELSE "load"
  /\ unread' = IF SourceFiles = {} THEN {} ELSE Reported
  /\ UNCHANGED <<project, options, targets, inBuild, unvisited, pending, taken, graph>>

\* The root cannot be resolved, the walk or the toolchain fails: there is no graph.
Fail ==
  /\ \/ pc = "walk"
     \/ pc = "load" /\ unread = Reported
  /\ pc' = "failed"
  /\ UNCHANGED <<given, loaded, unvisited, pending, taken, graph>>

\* A mutant: the files the walk left out are kept.
ReadPackageWhole(package) ==
  /\ pc = "load" /\ package \in unread
  /\ unread' = unread \ {package}
  /\ inBuild' = inBuild \cup package.goFiles
  /\ targets' = IF package.forTest THEN targets
                ELSE [path \in DOMAIN targets \cup {package.path} |->
                        IF path = package.path THEN Resolved(path) \cup package.goFiles
                        ELSE targets[path]]
  /\ UNCHANGED <<given, pc, enumerated, unvisited, pending, taken, graph>>

\* Files that were not enumerated are dropped from the package, the package stays.
ReadPackage(package) ==
  LET kept == package.goFiles \cap enumerated
  IN  /\ pc = "load" /\ package \in unread
      /\ unread' = unread \ {package}
      /\ inBuild' = inBuild \cup kept
      /\ targets' = IF package.forTest THEN targets
                    ELSE [path \in DOMAIN targets \cup {package.path} |->
                            IF path = package.path THEN Resolved(path) \cup kept
                            ELSE targets[path]]
      /\ UNCHANGED <<given, pc, enumerated, unvisited, pending, taken, graph>>

Loaded ==
  /\ pc = "load" /\ unread = {}
  /\ pc' = "emit"
  /\ unvisited' = enumerated \cap inBuild
  /\ UNCHANGED <<given, loaded, pending, taken, graph>>

EmitNode(f) ==
  /\ pc = "emit" /\ f \in unvisited
  /\ unvisited' = unvisited \ {f}
  /\ pending' = pending \cup {SelfEmission(f)} \cup ImportEdges(f)
  /\ UNCHANGED <<given, loaded, pc, taken, graph>>

Emitted ==
  /\ pc = "emit" /\ unvisited = {}
  /\ pc' = "merge"
  /\ UNCHANGED <<given, loaded, unvisited, pending, taken, graph>>

MergeEdge(emission) ==
  /\ pc = "merge" /\ emission \in pending
  /\ pending' = pending \ {emission}
  /\ taken' = taken \cup {emission}
  /\ graph' = Folded(graph, Canonical(emission.edge))
  /\ UNCHANGED <<given, loaded, pc, unvisited>>

Merged ==
  /\ pc = "merge" /\ pending = {}
  /\ pc' = "done"
  /\ UNCHANGED <<given, loaded, unvisited, pending, taken, graph>>

Next ==
  \/ Walk \/ Fail \/ Loaded \/ Emitted \/ Merged
  \/ \E package \in unread : ReadPackage(package)
  \/ \E f \in unvisited : EmitNode(f)
  \/ \E emission \in pending : MergeEdge(emission)

Spec == Init /\ [][Next]_vars

-----------------------------------------------------------------------------
\* Properties.

\* Every part of the extraction has its shape.
TypeOK ==
  /\ project \in Project /\ options \in Options
  /\ pc \in {"walk", "load", "emit", "merge", "done", "failed"}
  /\ enumerated \subseteq File /\ inBuild \subseteq enumerated /\ unvisited \subseteq inBuild
  /\ targets \in [DOMAIN targets -> SUBSET inBuild]
  /\ pending \subseteq Emission /\ taken \subseteq Emission
  /\ DOMAIN graph \subseteq Identifier \X Identifier
  /\ graph \in [DOMAIN graph -> [external : BOOLEAN, kinds : SUBSET Kind]]

\* NewGraph does not depend on the order of its edges nor on how often one of
\* them occurs: at every moment the graph has exactly the pairs taken so far,
\* each external when any of its edges was and with all the kinds of all of
\* them, and an edge of a file to itself bare, whatever an import claimed.
GraphIsTheUnion ==
  LET Of(k) == {o.edge : o \in {e \in taken : Key(e.edge) = k}}
  IN  /\ DOMAIN graph = {Key(o.edge) : o \in taken}
      /\ \A k \in DOMAIN graph :
           IF k[1] = k[2] THEN graph[k] = Weight(SelfEdge(k[1]))
           ELSE /\ graph[k].external <=> \E e \in Of(k) : e.external
                /\ graph[k].kinds = UNION {e.kinds : e \in Of(k)}

\* A finished graph is closed: whatever it names that is not external has the
\* self-edge a node is known by, even if it came in as the target of an import
\* of a package that was read before, after, or twice.
GraphIsClosed ==
  pc = "done" =>
    \A k \in DOMAIN graph :
      /\ <<k[1], k[1]>> \in DOMAIN graph
      /\ ~graph[k].external => <<k[2], k[2]>> \in DOMAIN graph

\* An import, read off its path, points at this file or external path.
PointsAt(import, x, external) ==
  LET folder == SubSeq(import.path, Len(ModulePath) + 1, Len(import.path))
      ours == IsPrefix(ModulePath, import.path) /\ ~InsideNestedModule(folder)
  IN  external = ~ours /\ IF external THEN x = import.path
                          ELSE /\ x \in SourceFiles \cap Listed
                               /\ Role[x] = "source" /\ Front(x) = folder

\* What the documentation of ExtractGraph promises, read off the project: the
\* nodes are the files that are walked and built, parsable or not; a pair is a
\* dependency exactly when an import that was read and not left out points at
\* the target, which is a file of the package it names, never a test, or else,
\* for a path that is not the project's own, that path.  An ignore directive is
\* one import's, on every file, and leaves out the one it is about.
GraphIsWhatTheSourceSays ==
  LET nodes == SourceFiles \cap Listed
      Written(f) == {d \in Declared(f) : /\ d[2].kind \notin options.kinds
                                         /\ ~LeftOut(project.text[f], d[1], options.scopes)}
      Imports(f, x, external) == {d[2] : d \in {e \in Written(f) : PointsAt(e[2], x, external)}}
  IN  /\ \A f \in project.files : NoDirectiveIsShared(project.text[f])
      /\ pc = "done" =>
        /\ {k[1] : k \in {e \in DOMAIN graph : e[1] = e[2]}} = nodes
        /\ \A f \in File, external \in BOOLEAN : \A x \in Identifier \ {f} :
             (<<f, x>> \in DOMAIN graph /\ graph[<<f, x>>].external = external)
               <=> (f \in nodes /\ Imports(f, x, external) # {})
        /\ \A k \in DOMAIN graph :
             k[1] # k[2] => graph[k].kinds = {i.kind : i \in Imports(k[1], k[2], graph[k].external)}
=============================================================================
