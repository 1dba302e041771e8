-------------------------- MODULE ImportGraphProofs --------------------------
(***************************************************************************)
(* Proofs about ImportGraph, for any project, options and toolchain        *)
(* answer: every part keeps its shape, the graph is the union of the edges *)
(* merged so far in whatever order they came, and a finished graph is      *)
(* closed and is what the source says: the index is at all times that of   *)
(* the packages read (Accounted), so when all are read an import goes      *)
(* where its path reads.                                                   *)
(***************************************************************************)
EXTENDS ImportGraph, SequenceTheorems, WellFoundedInduction, TLAPS

\* Where edges come from and what has been contributed at each stage: an edge
\* starts at a node and, unless it leaves the project, ends at one; every node
\* that has been visited has contributed its self-edge.
Contributed ==
  /\ pc = "walk" => inBuild = {}
  /\ pc \in {"walk", "load"} => unvisited = {} /\ pending = {} /\ taken = {}
  /\ pc \in {"merge", "done"} => unvisited = {}
  /\ pc = "done" => pending = {}
  /\ \A o \in pending \cup taken :
       o.edge.source \in inBuild /\ (~o.edge.external => o.edge.target \in inBuild)
  /\ pc \in {"emit", "merge", "done"} =>
       \A f \in inBuild \ unvisited : SelfEmission(f) \in pending \cup taken

IInv == TypeOK /\ GraphIsTheUnion /\ Contributed

-----------------------------------------------------------------------------
\* What one file contributes.

LEMMA NewEdgeIsAnEdge ==
  ASSUME NEW s \in Identifier, NEW t \in Identifier, NEW x \in BOOLEAN, NEW K \in SUBSET Kind
  PROVE  NewEdge(s, t, x, K) \in Edge
BY DEF NewEdge, Edge

LEMMA SelfEmissionIsAnEmission ==
  ASSUME NEW f \in File
  PROVE  /\ SelfEmission(f) \in Emission
         /\ SelfEmission(f).edge.source = f /\ SelfEmission(f).edge.target = f
<1>1. f \in Identifier
  BY DEF Identifier
<1>2. NewEdge(f, f, FALSE, {}) \in Edge
  BY <1>1, NewEdgeIsAnEdge
<1> QED
  BY <1>2 DEF SelfEmission, SelfEdge, Emission, NewEdge

\* The edges of an import start at the file, and those inside the project end
\* at files of the build.
LEMMA ImportEdgesAreEmissions ==
  ASSUME TypeOK, NEW f \in inBuild
  PROVE  \A o \in ImportEdges(f) :
           /\ o \in Emission /\ o.edge.source = f
           /\ ~o.edge.external => o.edge.target \in inBuild
<1>1. SUFFICES ASSUME NEW d \in Declared(f), NEW o \in EdgesOf(f, d[1], d[2])
               PROVE  /\ o \in Emission /\ o.edge.source = f
                      /\ ~o.edge.external => o.edge.target \in inBuild
  BY Zenon DEF ImportEdges
<1> DEFINE l == d[1]
           path == d[2].path
           kind == d[2].kind
           From(target, external) ==
             [line |-> l, edge |-> NewEdge(f, target, external, {kind})]
<1>2. f \in File /\ f \in Identifier /\ inBuild \subseteq Identifier
  BY DEF TypeOK, Identifier
<1>3. l \in Nat /\ path \in ImportPath /\ kind \in Kind
  <2>1. project.parsed[f] \in Nat
    BY <1>2, ProjectAssumption DEF TypeOK
  <2>2. d \in (1 .. project.parsed[f]) \X Import
    BY DEF Declared
  <2> QED
    BY <2>1, <2>2 DEF Import
<1>4. \A target \in Identifier, external \in BOOLEAN :
        /\ From(target, external) \in Emission
        /\ From(target, external).edge.source = f
        /\ From(target, external).edge.target = target
        /\ From(target, external).edge.external = external
  <2> TAKE target \in Identifier, external \in BOOLEAN
  <2>1. NewEdge(f, target, external, {kind}) \in Edge
    BY <1>2, <1>3, NewEdgeIsAnEdge
  <2> QED
    BY <2>1, <1>3 DEF Emission, NewEdge
<1>5. Resolved(path) \subseteq inBuild
  BY DEF Resolved, TypeOK
<1>6. path \in Identifier
  BY <1>3 DEF Identifier
<1>7. \/ o = From(path, TRUE)
      \/ \E target \in Resolved(path) : o = From(target, FALSE)
  BY Zenon DEF EdgesOf
<1> HIDE DEF From, path
<1>8. CASE o = From(path, TRUE)
  <2>1. o \in Emission /\ o.edge.source = f /\ o.edge.external = TRUE
    BY <1>4, <1>6, <1>8, TRUE \in BOOLEAN, Zenon
  <2> QED
    BY <2>1
<1>9. ASSUME NEW target \in Resolved(path), o = From(target, FALSE)
      PROVE  o \in Emission /\ o.edge.source = f /\ o.edge.target \in inBuild
  <2>1. target \in inBuild /\ target \in Identifier
    BY <1>2, <1>5
  <2>2. o \in Emission /\ o.edge.source = f /\ o.edge.target = target
    BY <1>4, <1>9, <2>1, FALSE \in BOOLEAN, Zenon
  <2> QED
    BY <2>1, <2>2
<1> QED
  BY <1>7, <1>8, <1>9, Zenon

-----------------------------------------------------------------------------
\* What merging one edge does.

LEMMA CanonicalEdge ==
  ASSUME NEW e \in Edge
  PROVE  /\ Canonical(e) \in Edge /\ Key(Canonical(e)) = Key(e)
         /\ IsSelfEdge(e) => Weight(Canonical(e)) = Weight(SelfEdge(e.source))
         /\ ~IsSelfEdge(e) => Canonical(e) = e
BY DEF Canonical, Key, Weight, IsSelfEdge, SelfEdge, NewEdge, Edge

\* No edge is dropped for want of an identifier, and the entry of its pair is
\* the only one that changes.
LEMMA FoldedEdge ==
  ASSUME NEW g, NEW e \in Edge
  PROVE  LET c == Canonical(e)
             h == Folded(g, c)
         IN  /\ DOMAIN h = DOMAIN g \cup {Key(e)}
             /\ \A k \in DOMAIN g : k # Key(e) => h[k] = g[k]
             /\ h[Key(e)] = IF Key(e) \in DOMAIN g THEN Merge(g[Key(e)], c) ELSE Weight(c)
<1> DEFINE c == Canonical(e)
<1>1. c \in Edge /\ Key(c) = Key(e)
  BY CanonicalEdge
<1>2. <<>> \notin Identifier
  BY FilesAssumption DEF Identifier
<1>3. c.source # <<>> /\ c.target # <<>>
  BY <1>1, <1>2 DEF Edge
<1> HIDE DEF c
<1>4. Folded(g, c) = [k \in DOMAIN g \cup {Key(e)} |->
                        IF k # Key(e) THEN g[k]
                        ELSE IF k \in DOMAIN g THEN Merge(g[k], c) ELSE Weight(c)]
  BY <1>1, <1>3 DEF Folded
<1> QED
  BY <1>4 DEF c

-----------------------------------------------------------------------------
\* Types.

LEMMA InitTypeOK == Init => TypeOK
BY DEF Init, TypeOK, Emission

LEMMA WalkTypeOK == IInv /\ Walk => TypeOK'
<1> SUFFICES ASSUME IInv, Walk PROVE TypeOK'
  OBVIOUS
<1> USE DEF IInv, TypeOK
<1>1. SourceFiles \subseteq File
  <2>1. project.files \subseteq File
    BY ProjectAssumption
  <2> QED
    BY <2>1 DEF SourceFiles
<1>2. inBuild = {} /\ unvisited = {}
  BY DEF Walk, Contributed
<1> QED
  BY <1>1, <1>2 DEF Walk

LEMMA ReadPackageTypeOK == ASSUME NEW p, IInv, ReadPackage(p) PROVE TypeOK'
<1> USE DEF IInv, TypeOK
<1> DEFINE kept == p.goFiles \cap enumerated
<1>1. kept \subseteq enumerated /\ inBuild' = inBuild \cup kept /\ enumerated' = enumerated
  BY DEF ReadPackage, given
<1>2. UNCHANGED <<project, options, pc, unvisited, pending, taken, graph>>
  BY DEF ReadPackage, given
<1>3. targets' \in [DOMAIN targets' -> SUBSET inBuild']
  <2>1. CASE p.forTest
    <3>1. targets' = targets
      BY <2>1 DEF ReadPackage
    <3> QED
      BY <1>1, <3>1
  <2>2. CASE ~p.forTest
    <3>1. targets' = [path \in DOMAIN targets \cup {p.path} |->
                        IF path = p.path THEN Resolved(path) \cup kept ELSE targets[path]]
      BY <2>2 DEF ReadPackage
    <3>2. \A path : Resolved(path) \subseteq inBuild
      BY DEF Resolved
    <3> HIDE DEF kept
    <3>3. \A path \in DOMAIN targets' : targets'[path] \in SUBSET inBuild'
      BY <1>1, <3>1, <3>2
    <3> QED
      BY <3>1, <3>3
  <2> QED
    BY <2>1, <2>2
<1> QED
  BY <1>1, <1>2, <1>3

LEMMA EmitNodeTypeOK == ASSUME NEW f \in unvisited, IInv, EmitNode(f) PROVE TypeOK'
<1> USE DEF IInv
<1>1. f \in inBuild /\ f \in File
  BY DEF TypeOK
<1>2. ImportEdges(f) \subseteq Emission /\ SelfEmission(f) \in Emission
  BY <1>1, ImportEdgesAreEmissions, SelfEmissionIsAnEmission
<1> QED
  BY <1>2 DEF TypeOK, EmitNode, given, loaded

LEMMA MergeEdgeTypeOK == ASSUME NEW o \in pending, IInv, MergeEdge(o) PROVE TypeOK'
<1> USE DEF IInv
<1> DEFINE e == o.edge
           c == Canonical(e)
<1>1. o \in Emission /\ e \in Edge /\ c \in Edge
  <2>1. o \in Emission
    BY DEF TypeOK
  <2> QED
    BY <2>1, CanonicalEdge DEF Emission
<1>2. /\ DOMAIN graph' = DOMAIN graph \cup {Key(e)}
      /\ \A k \in DOMAIN graph : k # Key(e) => graph'[k] = graph[k]
      /\ graph'[Key(e)] = IF Key(e) \in DOMAIN graph THEN Merge(graph[Key(e)], c) ELSE Weight(c)
  BY <1>1, FoldedEdge DEF MergeEdge
<1>3. graph' = [k \in DOMAIN graph' |-> graph'[k]]
  <2>1. graph' = Folded(graph, c)
    BY DEF MergeEdge
  <2> QED
    BY <2>1 DEF Folded, TypeOK
<1> DEFINE W == [external : BOOLEAN, kinds : SUBSET Kind]
<1>4. Weight(c) \in W /\ \A w \in W : Merge(w, c) \in W
  BY <1>1 DEF Weight, Merge, Edge
<1>5. Key(e) \in Identifier \X Identifier
  BY <1>1 DEF Key, Edge
<1>6. UNCHANGED <<project, options, pc, enumerated, inBuild, targets, unvisited>>
      /\ pending' \subseteq pending /\ taken' = taken \cup {o}
  BY DEF MergeEdge, given, loaded
<1> HIDE DEF e, c, W
<1>7. graph \in [DOMAIN graph -> W] /\ DOMAIN graph \subseteq Identifier \X Identifier
  BY DEF TypeOK, W
<1>8. graph' \in [DOMAIN graph' -> W] /\ DOMAIN graph' \subseteq Identifier \X Identifier
  BY <1>2, <1>3, <1>4, <1>5, <1>7
<1> QED
  BY <1>1, <1>6, <1>8 DEF TypeOK, W

-----------------------------------------------------------------------------
\* The union: only MergeEdge touches the graph.

LEMMA MergeEdgeKeepsTheUnion ==
  ASSUME NEW o \in pending, IInv, MergeEdge(o) PROVE GraphIsTheUnion'
<1> USE DEF IInv
<1> DEFINE e == o.edge
           c == Canonical(e)
           Of(k) == {p.edge : p \in {q \in taken : Key(q.edge) = k}}
           Now(k) == {p.edge : p \in {q \in taken' : Key(q.edge) = k}}
           Is(w, k, E) == IF k[1] = k[2] THEN w = Weight(SelfEdge(k[1]))
                          ELSE /\ w.external <=> \E x \in E : x.external
                               /\ w.kinds = UNION {x.kinds : x \in E}
<1>1. o \in Emission /\ e \in Edge /\ taken \subseteq Emission
  <2>1. o \in Emission /\ taken \subseteq Emission
    BY DEF TypeOK
  <2> QED
    BY <2>1 DEF Emission
<1>2. taken' = taken \cup {o} /\ graph' = Folded(graph, c)
  BY DEF MergeEdge
<1>3. /\ DOMAIN graph' = DOMAIN graph \cup {Key(e)}
      /\ \A k \in DOMAIN graph : k # Key(e) => graph'[k] = graph[k]
      /\ graph'[Key(e)] = IF Key(e) \in DOMAIN graph THEN Merge(graph[Key(e)], c) ELSE Weight(c)
  BY <1>1, <1>2, FoldedEdge
<1>4. /\ DOMAIN graph = {Key(p.edge) : p \in taken}
      /\ \A k \in DOMAIN graph : Is(graph[k], k, Of(k))
  BY Zenon DEF GraphIsTheUnion
<1>5. DOMAIN graph' = {Key(p.edge) : p \in taken'}
  BY <1>2, <1>3, <1>4
<1>6. /\ \A k : k # Key(e) => Now(k) = Of(k)
      /\ Now(Key(e)) = Of(Key(e)) \cup {e}
  BY <1>2
<1>7. Key(e) \notin DOMAIN graph => Of(Key(e)) = {}
  BY <1>4
<1>8. Is(graph'[Key(e)], Key(e), Now(Key(e)))
  <2> DEFINE k == Key(e)
             old == graph[k]
             E == Of(k)
  <2>1. k[1] = e.source /\ k[2] = e.target
    BY DEF Key
  <2>2. CASE IsSelfEdge(e)
    <3>1. Weight(c) = Weight(SelfEdge(e.source)) /\ k[1] = k[2]
      BY <1>1, <2>1, <2>2, CanonicalEdge DEF IsSelfEdge
    <3>2. c.external = FALSE /\ c.kinds = {}
      BY <3>1 DEF Weight, SelfEdge, NewEdge
    <3>3. k \in DOMAIN graph => old = [external |-> FALSE, kinds |-> {}]
      BY <1>4, <3>1 DEF Weight, SelfEdge, NewEdge
    <3>4. k \in DOMAIN graph => Merge(old, c) = [external |-> FALSE, kinds |-> {}]
      <4> SUFFICES ASSUME k \in DOMAIN graph PROVE Merge(old, c) = [external |-> FALSE, kinds |-> {}]
        OBVIOUS
      <4>1. ~old.external /\ ~c.external /\ old.kinds \cup c.kinds = {}
        BY <3>2, <3>3
      <4>2. (old.external \/ c.external) = FALSE
        BY <4>1
      <4> HIDE DEF old, c
      <4> QED
        BY <4>1, <4>2, Zenon DEF Merge
    <3>5. Weight(SelfEdge(e.source)) = [external |-> FALSE, kinds |-> {}]
      BY DEF Weight, SelfEdge, NewEdge
    <3> QED
      BY <1>3, <2>1, <3>1, <3>4, <3>5
  <2>3. CASE ~IsSelfEdge(e)
    <3>1. c = e /\ k[1] # k[2]
      BY <1>1, <2>1, <2>3, CanonicalEdge DEF IsSelfEdge
    <3>2. k \in DOMAIN graph =>
            /\ old.external <=> \E x \in E : x.external
            /\ old.kinds = UNION {x.kinds : x \in E}
      BY <1>4, <3>1
    <3>3. /\ graph'[k].external <=> (k \in DOMAIN graph /\ old.external) \/ e.external
          /\ graph'[k].kinds = (IF k \in DOMAIN graph THEN old.kinds ELSE {}) \cup e.kinds
      <4>1. CASE k \in DOMAIN graph
        <5>1. graph'[k] = Merge(old, e)
          BY <1>3, <3>1, <4>1
        <5> HIDE DEF old, e
        <5>2. Merge(old, e).external <=> old.external \/ e.external
          BY Zenon DEF Merge
        <5>3. Merge(old, e).kinds = old.kinds \cup e.kinds
          BY DEF Merge
        <5> QED
          BY <4>1, <5>1, <5>2, <5>3
      <4>2. CASE k \notin DOMAIN graph
        <5>1. graph'[k] = Weight(e)
          BY <1>3, <3>1, <4>2
        <5> QED
          BY <4>2, <5>1 DEF Weight
      <4> QED
        BY <4>1, <4>2
    <3>4. k \notin DOMAIN graph => E = {}
      BY <1>7
    <3> HIDE DEF E, old
    <3>5. /\ graph'[k].external <=> \E x \in E \cup {e} : x.external
          /\ graph'[k].kinds = UNION {x.kinds : x \in E \cup {e}}
      BY <3>2, <3>3, <3>4
    <3>6. Now(k) = E \cup {e}
      BY <1>6 DEF E
    <3> QED
      BY <3>1, <3>5, <3>6
  <2> QED
    BY <2>2, <2>3
<1>9. \A k \in DOMAIN graph' : Is(graph'[k], k, Now(k))
  <2> HIDE DEF Is, Of, Now
  <2> QED
    BY <1>3, <1>4, <1>6, <1>8
<1> QED
  BY <1>5, <1>9, Zenon DEF GraphIsTheUnion

-----------------------------------------------------------------------------
\* Contributions.

LEMMA WalkContributed == IInv /\ Walk => Contributed'
<1> SUFFICES ASSUME IInv, Walk PROVE Contributed'
  OBVIOUS
<1>1. inBuild' = {} /\ unvisited' = {} /\ pending' = {} /\ taken' = {}
  BY DEF IInv, Contributed, Walk
<1>2. pc' \in {"load", "done"}
  BY DEF Walk
<1> QED
  BY <1>1, <1>2 DEF Contributed

LEMMA ReadPackageContributed == ASSUME NEW p, IInv, ReadPackage(p) PROVE Contributed'
<1>1. pc' = "load" /\ unvisited' = {} /\ pending' = {} /\ taken' = {}
  BY DEF IInv, Contributed, ReadPackage
<1> QED
  BY <1>1 DEF Contributed

LEMMA EmitNodeContributed == ASSUME NEW f \in unvisited, IInv, EmitNode(f) PROVE Contributed'
<1> USE DEF IInv
<1>1. f \in inBuild /\ f \in File
  BY DEF TypeOK
<1>2. /\ pc = "emit" /\ pc' = "emit" /\ unvisited' = unvisited \ {f}
      /\ inBuild' = inBuild /\ taken' = taken
      /\ pending' = pending \cup {SelfEmission(f)} \cup ImportEdges(f)
  BY DEF EmitNode, loaded
<1>3. \A o \in {SelfEmission(f)} \cup ImportEdges(f) :
        o.edge.source \in inBuild /\ (~o.edge.external => o.edge.target \in inBuild)
  BY <1>1, SelfEmissionIsAnEmission, ImportEdgesAreEmissions
<1>4. \A o \in pending \cup taken :
        o.edge.source \in inBuild /\ (~o.edge.external => o.edge.target \in inBuild)
  BY DEF Contributed
<1>5. \A g \in inBuild \ unvisited : SelfEmission(g) \in pending \cup taken
  BY <1>2 DEF Contributed
<1>6. \A o \in pending' \cup taken' :
        o.edge.source \in inBuild' /\ (~o.edge.external => o.edge.target \in inBuild')
  BY <1>2, <1>3, <1>4
<1>7. \A g \in inBuild' \ unvisited' : SelfEmission(g) \in pending' \cup taken'
  BY <1>2, <1>5
<1>8. \A g : SelfEmission(g)' = SelfEmission(g)
  BY DEF SelfEmission, SelfEdge, NewEdge
<1> QED
  BY <1>2, <1>6, <1>7, <1>8 DEF Contributed

LEMMA MergeEdgeContributed == ASSUME NEW o \in pending, IInv, MergeEdge(o) PROVE Contributed'
<1> USE DEF IInv
<1>1. /\ pc = "merge" /\ pc' = "merge" /\ unvisited' = unvisited /\ inBuild' = inBuild
      /\ pending' \cup taken' = pending \cup taken
  BY DEF MergeEdge, loaded
<1> QED
  BY <1>1 DEF Contributed, SelfEmission, SelfEdge, NewEdge

-----------------------------------------------------------------------------
\* The steps between the stages.

LEMMA StageTypeOK == IInv /\ (Fail \/ Loaded \/ Emitted \/ Merged) => TypeOK'
BY DEF IInv, TypeOK, Fail, Loaded, Emitted, Merged, given, loaded

LEMMA StageContributed == IInv /\ (Fail \/ Loaded \/ Emitted \/ Merged) => Contributed'
<1> SUFFICES ASSUME IInv, Fail \/ Loaded \/ Emitted \/ Merged PROVE Contributed'
  OBVIOUS
<1> USE DEF IInv, Contributed, SelfEmission, SelfEdge, NewEdge
<1>1. CASE Fail
  BY <1>1 DEF Fail, loaded
<1>2. CASE Loaded
  <2>1. enumerated \cap inBuild = inBuild
    BY DEF TypeOK
  <2> QED
    BY <1>2, <2>1 DEF Loaded, loaded
<1>3. CASE Emitted
  BY <1>3 DEF Emitted, loaded
<1>4. CASE Merged
  BY <1>4 DEF Merged, loaded
<1> QED
  BY <1>1, <1>2, <1>3, <1>4

LEMMA UnionIsKept ==
  IInv /\ taken' = taken /\ graph' = graph => GraphIsTheUnion'
BY DEF IInv, GraphIsTheUnion, Key, Weight, SelfEdge, NewEdge

LEMMA InitIInv == Init => IInv
<1> SUFFICES ASSUME Init PROVE IInv
  OBVIOUS
<1>1. GraphIsTheUnion
  BY DEF Init, GraphIsTheUnion
<1>2. Contributed
  BY DEF Init, Contributed
<1> QED
  BY <1>1, <1>2, InitTypeOK DEF IInv

LEMMA NextIInv == IInv /\ [Next]_vars => IInv'
<1> SUFFICES ASSUME IInv, [Next]_vars PROVE IInv'
  OBVIOUS
<1>1. CASE Walk
  BY <1>1, WalkTypeOK, WalkContributed, UnionIsKept DEF Walk, IInv
<1>2. CASE Fail \/ Loaded \/ Emitted \/ Merged
  <2>1. taken' = taken /\ graph' = graph
    BY <1>2 DEF Fail, Loaded, Emitted, Merged
  <2> QED
    BY <1>2, <2>1, StageTypeOK, StageContributed, UnionIsKept DEF IInv
<1>3. ASSUME NEW p \in unread, ReadPackage(p) PROVE IInv'
  <2>1. taken' = taken /\ graph' = graph
    BY <1>3 DEF ReadPackage
  <2> QED
    BY <1>3, <2>1, ReadPackageTypeOK, ReadPackageContributed, UnionIsKept DEF IInv
<1>4. ASSUME NEW f \in unvisited, EmitNode(f) PROVE IInv'
  <2>1. taken' = taken /\ graph' = graph
    BY <1>4 DEF EmitNode
  <2> QED
    BY <1>4, <2>1, EmitNodeTypeOK, EmitNodeContributed, UnionIsKept DEF IInv
<1>5. ASSUME NEW o \in pending, MergeEdge(o) PROVE IInv'
  BY <1>5, MergeEdgeTypeOK, MergeEdgeContributed, MergeEdgeKeepsTheUnion DEF IInv
<1>6. CASE UNCHANGED vars
  <2>1. TypeOK'
    BY <1>6 DEF IInv, TypeOK, vars
  <2>2. Contributed'
    BY <1>6 DEF IInv, Contributed, vars, SelfEmission, SelfEdge, NewEdge
  <2> QED
    BY <1>6, <2>1, <2>2, UnionIsKept DEF IInv, vars
<1> QED
  BY <1>1, <1>2, <1>3, <1>4, <1>5, <1>6 DEF Next

-----------------------------------------------------------------------------
\* Paths and folders.

\* Names, and what the toolchain appends to one for a test main.
Word == STRING \cup {".test"}

LEMMA Words ==
  ModulePath \in Seq(Word) /\ File \subseteq Seq(Word) /\ ImportPath \subseteq Seq(Word)
<1>1. STRING \subseteq Word
  BY DEF Word
<1> QED
  BY <1>1, NamesAssumption, SeqMonotonic

\* A path of the module and the folder it names determine each other.
LEMMA PathIsItsFolder ==
  ASSUME NEW path \in Seq(Word), NEW folder \in Seq(Word)
  PROVE  path = ModulePath \o folder
           <=> /\ IsPrefix(ModulePath, path)
               /\ folder = SubSeq(path, Len(ModulePath) + 1, Len(path))
<1> DEFINE m == Len(ModulePath)
           n == Len(path)
           rest == SubSeq(path, m + 1, n)
<1>1. ModulePath \in Seq(Word)
  BY Words
<1>2. m \in Nat /\ n \in Nat
  BY <1>1, LenProperties
<1>3. ASSUME path = ModulePath \o folder
      PROVE  IsPrefix(ModulePath, path) /\ folder = rest
  <2>1. /\ n = m + Len(folder) /\ Len(folder) \in Nat
        /\ \A i \in 1 .. n : path[i] = IF i <= m THEN ModulePath[i] ELSE folder[i - m]
    BY <1>1, <1>3, ConcatProperties, LenProperties
  <2>2. SubSeq(ModulePath, 1, m) = ModulePath
    BY <1>1, SubSeqFull
  <2>3. SubSeq(path, 1, m) = ModulePath
    <3>1. \A i \in 1 .. m : path[i] \in Word
      BY <1>2, <2>1, ElementOfSeq
    <3>2. /\ SubSeq(path, 1, m) \in Seq(Word)
          /\ Len(SubSeq(path, 1, m)) = IF 1 <= m THEN m - 1 + 1 ELSE 0
          /\ \A i \in 1 .. m - 1 + 1 : SubSeq(path, 1, m)[i] = path[1 + i - 1]
      BY <1>2, <3>1, SubSeqProperties
    <3>3. Len(SubSeq(path, 1, m)) = m /\ \A i \in 1 .. m : SubSeq(path, 1, m)[i] = ModulePath[i]
      BY <1>2, <2>1, <3>2
    <3> QED
      BY <1>1, <3>2, <3>3, SeqEqual
  <2>4. rest = folder
    <3>1. \A i \in m + 1 .. n : path[i] \in Word
      BY <1>2, <2>1, ElementOfSeq
    <3>2. /\ rest \in Seq(Word)
          /\ Len(rest) = IF m + 1 <= n THEN n - (m + 1) + 1 ELSE 0
          /\ \A i \in 1 .. n - (m + 1) + 1 : rest[i] = path[m + 1 + i - 1]
      BY <1>2, <3>1, SubSeqProperties
    <3>3. Len(rest) = Len(folder)
      BY <1>2, <2>1, <3>2
    <3>4. ASSUME NEW i \in 1 .. Len(rest) PROVE rest[i] = folder[i]
      <4>1. /\ i \in 1 .. n - (m + 1) + 1 /\ m + 1 + i - 1 = m + i /\ m + i \in 1 .. n
            /\ ~(m + i <= m) /\ (m + i) - m = i
        BY <1>2, <2>1, <3>3
      <4>2. rest[i] = path[m + i]
        BY <3>2, <4>1
      <4> HIDE DEF rest
      <4> QED
        BY <2>1, <4>1, <4>2
    <3> QED
      BY <3>2, <3>3, <3>4, SeqEqual
  <2> QED
    BY <2>1, <2>2, <2>3, <2>4, <1>2 DEF IsPrefix
<1>4. ASSUME IsPrefix(ModulePath, path), folder = rest
      PROVE  path = ModulePath \o folder
  <2>1. m <= n /\ SubSeq(ModulePath, 1, m) = SubSeq(path, 1, m)
    BY <1>4 DEF IsPrefix
  <2>2. SubSeq(path, 1, m) = ModulePath
    BY <1>1, <2>1, SubSeqFull
  <2>3. SubSeq(path, 1, n) = path
    BY SubSeqFull
  <2>4. SubSeq(path, 1, m) \o SubSeq(path, m + 1, n) = SubSeq(path, 1, n)
    <3>1. 1 \in 1 .. n + 1 /\ m \in 1 - 1 .. n /\ n \in m .. n
      BY <1>2, <2>1
    <3> HIDE DEF m, n
    <3> QED
      BY <3>1, ConcatAdjacentSubSeq DEF n
  <2> QED
    BY <1>4, <2>2, <2>3, <2>4
<1> QED
  BY <1>3, <1>4

LEMMA FolderOfAFile == ASSUME NEW f \in File PROVE Front(f) \in Seq(Word)
<1>1. f \in Seq(Word)
  BY Words
<1>2. Len(f) \in Nat
  BY <1>1, LenProperties
<1>3. \A i \in 1 .. Len(f) - 1 : f[i] \in Word
  BY <1>1, <1>2, ElementOfSeq
<1> QED
  BY <1>2, <1>3, SubSeqProperties DEF Front

\* The folder a test main is reported in would be nested only where its package is.
LEMMA SuffixNestsNothing ==
  ASSUME NEW folder \in Seq(Word), InsideNestedModule(Append(folder, ".test"))
  PROVE  InsideNestedModule(folder)
<1> DEFINE main == Append(folder, ".test")
<1>1. /\ main \in Seq(Word) /\ Len(main) = Len(folder) + 1 /\ Len(folder) \in Nat
      /\ main[Len(main)] = ".test"
      /\ \A i \in 1 .. Len(folder) : main[i] = folder[i]
  <2>1. ".test" \in Word
    BY DEF Word
  <2>2. Len(folder) \in Nat
    BY LenProperties
  <2>3. /\ main \in Seq(Word) /\ Len(main) = Len(folder) + 1
        /\ \A i \in 1 .. Len(folder) : main[i] = folder[i]
        /\ main[Len(folder) + 1] = ".test"
    BY <2>1, AppendProperties
  <2> HIDE DEF main
  <2> QED
    BY <2>2, <2>3
<1>2. PICK n \in 1 .. Len(main) : SubSeq(main, 1, n) \in NestedModules
  BY DEF InsideNestedModule
<1> HIDE DEF main
<1>3. n <= Len(folder)
  <2> SUFFICES ASSUME n = Len(main) PROVE FALSE
    BY <1>1, <1>2
  <2>1. main \in NestedModules
    BY <1>1, <1>2, SubSeqFull
  <2>2. Len(main) \in DOMAIN main
    BY <1>1, LenProperties
  <2> QED
    BY <1>1, <2>1, <2>2, NamesAssumption
<1>4. SubSeq(main, 1, n) = SubSeq(folder, 1, n)
  <2>1. /\ \A i \in 1 .. n : main[i] \in Word
        /\ \A i \in 1 .. n : folder[i] \in Word
    BY <1>1, <1>2, <1>3, ElementOfSeq
  <2>2. /\ SubSeq(main, 1, n) \in Seq(Word)
        /\ Len(SubSeq(main, 1, n)) = IF 1 <= n THEN n - 1 + 1 ELSE 0
        /\ \A i \in 1 .. n - 1 + 1 : SubSeq(main, 1, n)[i] = main[1 + i - 1]
    BY <1>2, <2>1, SubSeqProperties
  <2>3. /\ SubSeq(folder, 1, n) \in Seq(Word)
        /\ Len(SubSeq(folder, 1, n)) = IF 1 <= n THEN n - 1 + 1 ELSE 0
        /\ \A i \in 1 .. n - 1 + 1 : SubSeq(folder, 1, n)[i] = folder[1 + i - 1]
    BY <1>2, <2>1, SubSeqProperties
  <2>4. \A i \in 1 .. n : SubSeq(main, 1, n)[i] = SubSeq(folder, 1, n)[i]
    BY <1>1, <1>2, <1>3, <2>2, <2>3
  <2> QED
    BY <1>2, <2>2, <2>3, <2>4, SeqEqual
<1>5. n \in 1 .. Len(folder)
  BY <1>1, <1>2, <1>3
<1>6. SubSeq(folder, 1, n) \in NestedModules
  BY <1>2, <1>4, Zenon
<1> QED
  BY <1>5, <1>6 DEF InsideNestedModule

-----------------------------------------------------------------------------
\* Directives.

LEMMA GreatestOfSome ==
  ASSUME NEW n \in Nat, NEW S \in SUBSET (1 .. n), S # {}
  PROVE  \E c \in S : \A i \in S : c >= i
<1> DEFINE Smaller == OpToRel(<, Nat)
           Below == {k \in Nat : k <= n /\ n - k \in S}
<1>1. IsWellFoundedOn(Smaller, Nat)
  BY NatLessThanWellFounded
<1>2. \A a, b \in Nat : a < b => <<a, b>> \in Smaller
  BY DEF OpToRel
<1>3. Below \in SUBSET Nat /\ Below # {}
  <2>1. PICK m \in S : TRUE
    OBVIOUS
  <2>2. n - m \in Below
    BY <2>1
  <2> QED
    BY <2>2
<1> HIDE DEF Smaller, Below
<1>4. \E k \in Below : \A a \in Below : ~(<<a, k>> \in Smaller)
  BY <1>1, <1>3, WFMin
<1>5. PICK k \in Below : \A a \in Below : ~(<<a, k>> \in Smaller)
  BY <1>4
<1>6. k \in Nat /\ k <= n /\ n - k \in S
  BY DEF Below
<1>7. \A m \in S : n - m \in Below /\ n - m \in Nat
  BY DEF Below
<1>8. \A m \in S : ~(n - m < k)
  BY <1>2, <1>5, <1>6, <1>7
<1>9. \A m \in S : n - k >= m
  BY <1>6, <1>8
<1> QED
  BY <1>6, <1>9

LEMMA GreatestBelow ==
  ASSUME NEW n \in Nat, NEW S \in SUBSET (1 .. n), S # {}
  PROVE  Max(S) \in S
BY GreatestOfSome DEF Max

\* A directive stands on its import's line, or above it with nothing but comments between.
LEMMA CarriedStandsClose ==
  ASSUME NEW text, NEW l \in Nat, NEW c \in Carried(text, l)
  PROVE  c = l \/ (c \in 1 .. l - 1 /\ \A j \in c .. l - 1 : CommentOnly(text[j]))
<1> DEFINE above == {k \in 1 .. l - 1 : /\ text[k].directive.present
                                        /\ \A j \in k .. l - 1 : CommentOnly(text[j])}
<1>1. c = l \/ (above # {} /\ c = Max(above))
  <2> DEFINE here == text[l].directive.present
  <2>1. Carried(text, l) = CASE here -> {l} [] ~here /\ above # {} -> {Max(above)} [] OTHER -> {}
    BY DEF Carried
  <2> HIDE DEF above
  <2>2. CASE here
    BY <2>1, <2>2
  <2>3. CASE ~here /\ above # {}
    BY <2>1, <2>3
  <2>4. CASE ~here /\ ~(above # {})
    BY <2>1, <2>4
  <2> QED
    BY <2>2, <2>3, <2>4
<1>2. ASSUME above # {} PROVE Max(above) \in above
  <2>1. l - 1 \in Nat
    BY <1>2
  <2>2. above \in SUBSET (1 .. l - 1)
    OBVIOUS
  <2> HIDE DEF above
  <2> QED
    BY <1>2, <2>1, <2>2, GreatestBelow
<1> QED
  BY <1>1, <1>2

\* The greatest line of some is among them, and no other comes after it.
LEMMA GreatestIs ==
  ASSUME NEW n \in Nat, NEW S \in SUBSET (1 .. n), NEW m \in S, \A k \in S : k <= m
  PROVE  Max(S) = m
<1>1. Max(S) \in S
  BY GreatestBelow
<1>2. \A k \in S : k <= Max(S)
  <2>1. \E k \in S : \A j \in S : k >= j
    OBVIOUS
  <2> QED
    BY <2>1 DEF Max
<1>3. PICK c : c = Max(S)
  OBVIOUS
<1>4. c \in S /\ m <= c
  BY <1>1, <1>2, <1>3
<1> QED
  BY <1>3, <1>4

\* The directive an import carries is the one that is about its line.
LEMMA CarriedIsAbout ==
  ASSUME NEW text \in Seq(Line), NEW l \in DOMAIN text, text[l].code, NEW k
  PROVE  k \in Carried(text, l) <=> k \in DOMAIN text /\ IsAbout(text, k, l)
<1> DEFINE above == {c \in 1 .. l - 1 : /\ text[c].directive.present
                                        /\ \A j \in c .. l - 1 : CommentOnly(text[j])}
           here == text[l].directive.present
<1>1. DOMAIN text = 1 .. Len(text) /\ Len(text) \in Nat /\ l \in 1 .. Len(text) /\ l - 1 \in Nat
  BY LenProperties
<1>2. Carried(text, l) = CASE here -> {l} [] ~here /\ above # {} -> {Max(above)} [] OTHER -> {}
  BY DEF Carried
<1>3. \A c : c \in above <=> /\ c \in 1 .. l - 1 /\ text[c].directive.present
                            /\ \A j \in c .. l - 1 : CommentOnly(text[j])
  OBVIOUS
<1>4. above \in SUBSET (1 .. l - 1)
  OBVIOUS
<1> HIDE DEF above
<1>5. ~CommentOnly(text[l])
  BY DEF CommentOnly
<1>6. CASE here
  <2>1. Carried(text, l) = {l}
    BY <1>2, <1>6
  <2>2. IsAbout(text, l, l)
    BY <1>6 DEF IsAbout
  <2>3. ASSUME k \in DOMAIN text, IsAbout(text, k, l), k # l PROVE FALSE
    <3>1. ~text[k].code /\ k < l /\ \A j \in k + 1 .. l : ~text[j].directive.present
      BY <2>3 DEF IsAbout
    <3>2. l \in k + 1 .. l
      BY <1>1, <2>3, <3>1
    <3> QED
      BY <1>6, <3>1, <3>2
  <2> QED
    BY <2>1, <2>2, <2>3
<1>7. CASE ~here
  <2>1. ASSUME k \in Carried(text, l) PROVE k \in DOMAIN text /\ IsAbout(text, k, l)
    <3>1. above # {} /\ k = Max(above)
      BY <1>2, <1>7, <2>1
    <3>2. k \in above
      BY <1>1, <1>4, <3>1, GreatestBelow
    <3>3. k \in 1 .. l - 1 /\ k \in DOMAIN text /\ CommentOnly(text[k])
      BY <1>1, <1>3, <3>2
    <3>4. ASSUME NEW j \in k + 1 .. l, text[j].directive.present PROVE FALSE
      <4>1. j \in 1 .. l - 1
        BY <1>1, <1>7, <3>3, <3>4
      <4>2. j \in above
        BY <1>1, <1>3, <3>2, <3>3, <3>4, <4>1
      <4>3. \E c \in above : \A i \in above : c >= i
        <5>1. PICK n \in Nat : n = l - 1
          BY <1>1
        <5> QED
          BY <1>4, <4>2, <5>1, GreatestOfSome
      <4>4. Max(above) >= j
        BY <4>2, <4>3 DEF Max
      <4> QED
        BY <1>1, <3>1, <3>3, <3>4, <4>1, <4>4
    <3> QED
      BY <1>3, <1>5, <3>2, <3>3, <3>4 DEF IsAbout, CommentOnly
  <2>2. ASSUME k \in DOMAIN text, IsAbout(text, k, l) PROVE k \in Carried(text, l)
    <3>1. k # l
      BY <1>7, <2>2 DEF IsAbout
    <3>2. /\ k < l /\ text[k].directive.present /\ \A j \in k .. l - 1 : CommentOnly(text[j])
          /\ \A j \in k + 1 .. l : ~text[j].directive.present
      BY <2>2, <3>1 DEF IsAbout
    <3>3. k \in above
      BY <1>1, <1>3, <2>2, <3>2
    <3>4. ASSUME NEW j \in above PROVE j <= k
      <4>1. j \in 1 .. l - 1 /\ text[j].directive.present
        BY <1>3
      <4>2. ~(j \in k + 1 .. l)
        BY <3>2, <4>1
      <4> QED
        BY <1>1, <2>2, <4>1, <4>2
    <3>5. Max(above) = k
      BY <1>1, <1>4, <3>3, <3>4, GreatestIs
    <3> QED
      BY <1>2, <1>7, <3>3, <3>5
  <2> QED
    BY <2>1, <2>2
<1> QED
  BY <1>6, <1>7

\* So an import is left out exactly when its directive applies.
LEMMA LeftOutIsCarried ==
  ASSUME NEW text \in Seq(Line), NEW l \in DOMAIN text, text[l].code, NEW scopes
  PROVE  AppliesIn(DirectiveOf(text, l), scopes) <=> LeftOut(text, l, scopes)
<1>1. \A k : k \in Carried(text, l) <=> k \in DOMAIN text /\ IsAbout(text, k, l)
  BY CarriedIsAbout
<1>2. CASE Carried(text, l) = {}
  <2>1. ~AppliesIn(DirectiveOf(text, l), scopes)
    BY <1>2 DEF DirectiveOf, NoDirective, AppliesIn
  <2> QED
    BY <1>1, <1>2, <2>1 DEF LeftOut
<1>3. CASE Carried(text, l) # {}
  <2>1. PICK c : Carried(text, l) = {c}
    <3> DEFINE above == {k \in 1 .. l - 1 : /\ text[k].directive.present
                                            /\ \A j \in k .. l - 1 : CommentOnly(text[j])}
               here == text[l].directive.present
    <3>1. Carried(text, l) = CASE here -> {l} [] ~here /\ above # {} -> {Max(above)} [] OTHER -> {}
      BY DEF Carried
    <3> HIDE DEF above
    <3>2. CASE here
      BY <3>1, <3>2
    <3>3. CASE ~here
      BY <1>3, <3>1, <3>3
    <3> QED
      BY <3>2, <3>3
  <2>2. DirectiveOf(text, l) = text[c].directive
    BY <2>1 DEF DirectiveOf
  <2> QED
    BY <1>1, <2>1, <2>2 DEF LeftOut
<1> QED
  BY <1>2, <1>3

\* So the line of an import, which is no comment, cuts off what stands above it.
LEMMA DirectivesAreNotShared ==
  ASSUME NEW p \in Project, NEW f \in File PROVE NoDirectiveIsShared(p.text[f])
<1> DEFINE text == p.text[f]
<1>1. text \in Seq(Line) /\ \A l \in DOMAIN text : text[l].imports # {} => text[l].code
  BY ProjectAssumption
<1>2. DOMAIN text \subseteq Nat
  BY <1>1, LenProperties
<1> HIDE DEF text
<1>3. ASSUME NEW l \in DOMAIN text, NEW k \in DOMAIN text, l < k, text[l].imports # {},
             NEW c, c \in Carried(text, l), c \in Carried(text, k)
      PROVE  FALSE
  <2>1. l \in Nat /\ k \in Nat
    BY <1>2
  <2>2. c = l \/ c \in 1 .. l - 1
    BY <1>3, <2>1, CarriedStandsClose
  <2>3. c = k \/ (c \in 1 .. k - 1 /\ \A j \in c .. k - 1 : CommentOnly(text[j]))
    BY <1>3, <2>1, CarriedStandsClose
  <2>4. c # k /\ l \in c .. k - 1
    BY <1>3, <2>1, <2>2
  <2>5. CommentOnly(text[l])
    BY <2>3, <2>4
  <2> QED
    BY <1>1, <1>3, <2>5 DEF CommentOnly
<1>4. ASSUME NEW l \in DOMAIN text, NEW k \in DOMAIN text, l # k, text[l].imports # {},
             text[k].imports # {}, NEW c, c \in Carried(text, l), c \in Carried(text, k)
      PROVE  FALSE
  <2>1. l < k \/ k < l
    BY <1>2, <1>4
  <2> QED
    BY <1>3, <1>4, <2>1
<1>5. NoDirectiveIsShared(text)
  BY <1>4 DEF NoDirectiveIsShared
<1> QED
  BY <1>5 DEF text

-----------------------------------------------------------------------------
\* What has been read, and what it has been turned into.

\* The packages an import of this path can mean, and the files found of some.
Given(path, package) == ~package.forTest /\ package.path = path
FilesOf(packages) == enumerated \cap UNION {p.goFiles : p \in packages}
\* The index is that of these packages: what the walk did not find is left out of them.
Indexed(packages) ==
  /\ inBuild = FilesOf(packages)
  /\ DOMAIN targets = {p.path : p \in {q \in packages : ~q.forTest}}
  /\ \A path \in DOMAIN targets : targets[path] = FilesOf({p \in packages : Given(path, p)})
\* What one node adds to the edges.
Contribution(f) == {SelfEmission(f)} \cup ImportEdges(f)

\* Every part is accounted for by what has been walked, read and visited so far.
Accounted ==
  /\ pc = "walk" => targets = <<>>
  /\ pc \in {"load", "emit", "merge", "done"} => enumerated = SourceFiles
  /\ pc = "load" => unread \subseteq Reported
  /\ pc \in {"emit", "merge", "done"} => unread = {}
  /\ pc \in {"load", "emit", "merge"} \/ (pc = "done" /\ enumerated # {})
       => Indexed(Reported \ unread)
  /\ pc \in {"emit", "merge", "done"} =>
       pending \cup taken = UNION {Contribution(f) : f \in inBuild \ unvisited}

LEMMA GivenStays ==
  ASSUME UNCHANGED given
  PROVE  SourceFiles' = SourceFiles /\ Reported' = Reported
<1>1. project' = project /\ options' = options
  BY DEF given
<1>2. Listed' = Listed
  BY <1>1 DEF Listed
<1>3. \A path, forTest, f, roles : Package(path, forTest, f, roles)' = Package(path, forTest, f, roles)
  BY <1>2 DEF Package
<1>4. \A f : Tested(f)' <=> Tested(f)
  BY <1>1 DEF Tested
<1>5. SourceFiles' = SourceFiles
  BY <1>1 DEF SourceFiles, ExcludesFolder, IsSourceFile
<1>6. Reported' = Reported
  BY <1>1, <1>2, <1>3, <1>4 DEF Reported
<1> QED
  BY <1>5, <1>6

LEMMA ContributionStays ==
  ASSUME UNCHANGED <<project, options, targets>>
  PROVE  \A f : Contribution(f)' = Contribution(f)
<1>1. \A path : (IsExternal(path)' <=> IsExternal(path)) /\ Resolved(path)' = Resolved(path)
  BY DEF IsExternal, OwnsImportPath, Resolved
<1>2. \A text, l, i : IgnoresImport(text, l, i)' <=> IgnoresImport(text, l, i)
  BY DEF IgnoresImport
<1>3. ASSUME NEW f, NEW l, NEW i PROVE EdgesOf(f, l, i)' = EdgesOf(f, l, i)
  BY <1>1, <1>2 DEF EdgesOf
<1>4. \A f : Declared(f)' = Declared(f)
  BY DEF Declared
<1>5. \A f : ImportEdges(f)' = ImportEdges(f)
  BY <1>3, <1>4 DEF ImportEdges
<1> QED
  BY <1>5 DEF Contribution, SelfEmission, SelfEdge, NewEdge

LEMMA IndexedStays ==
  ASSUME UNCHANGED <<enumerated, targets, inBuild>>
  PROVE  \A packages : Indexed(packages)' <=> Indexed(packages)
BY DEF Indexed, FilesOf, Given

LEMMA WalkAccounted == IInv /\ Accounted /\ Walk => Accounted'
<1> SUFFICES ASSUME IInv, Accounted, Walk PROVE Accounted'
  OBVIOUS
<1>1. UNCHANGED given /\ pc = "walk" /\ enumerated' = SourceFiles
  BY DEF Walk, given
<1>2. SourceFiles' = SourceFiles /\ Reported' = Reported
  BY <1>1, GivenStays
<1>3. /\ targets' = <<>> /\ inBuild' = {} /\ unvisited' = {} /\ pending' = {} /\ taken' = {}
  BY <1>1 DEF IInv, Contributed, Accounted, Walk
<1>4. CASE SourceFiles = {}
  <2>1. pc' = "done" /\ unread' = {} /\ enumerated' = {}
    BY <1>1, <1>4 DEF Walk
  <2> QED
    BY <1>1, <1>2, <1>3, <2>1 DEF Accounted
<1>5. CASE SourceFiles # {}
  <2>1. pc' = "load" /\ unread' = Reported
    BY <1>5 DEF Walk
  <2>2. Reported' \ unread' = {}
    BY <1>2, <2>1
  <2>3. Indexed({})'
    BY <1>3 DEF Indexed, FilesOf, Given
  <2> QED
    BY <1>1, <1>2, <1>3, <2>1, <2>2, <2>3 DEF Accounted
<1> QED
  BY <1>4, <1>5

\* A package read joins those the index is of.
LEMMA ReadPackageIndexes ==
  ASSUME NEW p, NEW packages, Indexed(packages), ReadPackage(p)
  PROVE  Indexed(packages \cup {p})'
<1> DEFINE kept == p.goFiles \cap enumerated
           more == packages \cup {p}
           At(path, P) == {q \in P : Given(path, q)}
<1>1. /\ enumerated' = enumerated /\ inBuild' = inBuild \cup kept
      /\ targets' = IF p.forTest THEN targets
                    ELSE [path \in DOMAIN targets \cup {p.path} |->
                            IF path = p.path THEN Resolved(path) \cup kept ELSE targets[path]]
  BY DEF ReadPackage
<1>2. \A P : FilesOf(P)' = enumerated \cap UNION {q.goFiles : q \in P}
  BY <1>1 DEF FilesOf
<1>3. \A P : FilesOf(P) \cup kept = enumerated \cap UNION {q.goFiles : q \in P \cup {p}}
  BY DEF FilesOf
<1>4. inBuild' = FilesOf(more)'
  BY <1>1, <1>2, <1>3 DEF Indexed
<1>5. CASE p.forTest
  <2>1. targets' = targets
    BY <1>1, <1>5
  <2>2. {q \in more : ~q.forTest} = {q \in packages : ~q.forTest}
    BY <1>5
  <2>3. \A path : At(path, more) = At(path, packages)
    BY <1>5 DEF Given
  <2>4. \A path : FilesOf(At(path, more))' = FilesOf(At(path, packages))
    BY <1>2, <2>3 DEF FilesOf
  <2> QED
    BY <1>4, <2>1, <2>2, <2>4 DEF Indexed, Given
<1>6. CASE ~p.forTest
  <2>1. targets' = [path \in DOMAIN targets \cup {p.path} |->
                      IF path = p.path THEN Resolved(path) \cup kept ELSE targets[path]]
    BY <1>1, <1>6
  <2>2. DOMAIN targets' = {q.path : q \in {r \in more : ~r.forTest}}
    <3>1. {r \in more : ~r.forTest} = {r \in packages : ~r.forTest} \cup {p}
      BY <1>6
    <3>2. DOMAIN targets = {q.path : q \in {r \in packages : ~r.forTest}}
      BY DEF Indexed
    <3> QED
      BY <2>1, <3>1, <3>2
  <2>3. ASSUME NEW path \in DOMAIN targets'
        PROVE  targets'[path] = enumerated \cap UNION {q.goFiles : q \in At(path, more)}
    <3>1. CASE path # p.path
      <4>1. At(path, more) = At(path, packages)
        BY <3>1 DEF Given
      <4>2. path \in DOMAIN targets /\ targets'[path] = targets[path]
        BY <2>1, <3>1
      <4>3. targets[path] = FilesOf(At(path, packages))
        BY <4>2 DEF Indexed
      <4> QED
        BY <4>1, <4>2, <4>3 DEF FilesOf
    <3>2. CASE path = p.path
      <4>1. At(path, more) = At(path, packages) \cup {p}
        BY <1>6, <3>2 DEF Given
      <4>2. targets'[path] = Resolved(path) \cup kept
        BY <2>1, <3>2
      <4>3. Resolved(path) = FilesOf(At(path, packages))
        <5>1. CASE path \in DOMAIN targets
          BY <5>1 DEF Resolved, Indexed
        <5>2. CASE path \notin DOMAIN targets
          <6>1. At(path, packages) = {}
            BY <5>2 DEF Indexed, Given
          <6> QED
            BY <5>2, <6>1 DEF Resolved, FilesOf
        <5> QED
          BY <5>1, <5>2
      <4> HIDE DEF At, kept
      <4> QED
        BY <1>3, <4>1, <4>2, <4>3
    <3> QED
      BY <3>1, <3>2
  <2>4. \A path \in DOMAIN targets' : targets'[path] = FilesOf(At(path, more))'
    BY <1>2, <2>3 DEF Given
  <2> QED
    BY <1>4, <2>2, <2>4 DEF Indexed, Given
<1> QED
  BY <1>5, <1>6

LEMMA ReadPackageAccounted ==
  ASSUME NEW p \in unread, Accounted, ReadPackage(p) PROVE Accounted'
<1>1. pc = "load" /\ pc' = "load" /\ unread' = unread \ {p} /\ UNCHANGED given
  BY DEF ReadPackage
<1>2. SourceFiles' = SourceFiles /\ Reported' = Reported
  BY <1>1, GivenStays
<1>3. unread \subseteq Reported /\ Indexed(Reported \ unread)
  BY <1>1 DEF Accounted
<1>4. PICK packages : packages = Reported \ unread
  OBVIOUS
<1>5. Reported' \ unread' = packages \cup {p}
  BY <1>1, <1>2, <1>3, <1>4
<1>6. Indexed(Reported \ unread)'
  <2>1. Indexed(packages)
    BY <1>3, <1>4 DEF Indexed, FilesOf, Given
  <2>2. Indexed(packages \cup {p})'
    BY <2>1, ReadPackageIndexes
  <2> QED
    BY <1>5, <2>2 DEF Indexed, FilesOf, Given
<1>7. enumerated' = SourceFiles'
  BY <1>1, <1>2 DEF ReadPackage, Accounted
<1> QED
  BY <1>1, <1>2, <1>3, <1>6, <1>7 DEF Accounted

LEMMA EmitNodeAccounted ==
  ASSUME NEW f \in unvisited, IInv, Accounted, EmitNode(f) PROVE Accounted'
<1>1. /\ pc = "emit" /\ pc' = "emit" /\ unvisited' = unvisited \ {f} /\ UNCHANGED given
      /\ UNCHANGED <<enumerated, unread, targets, inBuild, taken>>
      /\ pending' = pending \cup Contribution(f)
  BY DEF EmitNode, loaded, Contribution
<1>2. SourceFiles' = SourceFiles /\ Reported' = Reported
  BY <1>1, GivenStays
<1>3. UNCHANGED <<project, options, targets>>
  BY <1>1 DEF given
<1>4. \A g : Contribution(g)' = Contribution(g)
  BY <1>3, ContributionStays
<1>5. Indexed(Reported \ unread)'
  <2>1. Indexed(Reported \ unread)
    BY <1>1 DEF Accounted
  <2> QED
    BY <1>1, <1>2, <2>1 DEF Indexed, FilesOf, Given
<1>6. inBuild \ unvisited' = (inBuild \ unvisited) \cup {f}
  BY <1>1 DEF IInv, TypeOK
<1>7. pending \cup taken = UNION {Contribution(g) : g \in inBuild \ unvisited}
  BY <1>1 DEF Accounted
<1>8. pending' \cup taken' = UNION {Contribution(g) : g \in inBuild' \ unvisited'}
  <2> HIDE DEF Contribution
  <2>1. pending' \cup taken' = (pending \cup taken) \cup Contribution(f)
    BY <1>1
  <2> QED
    BY <1>1, <1>6, <1>7, <2>1
<1>9. (UNION {Contribution(g) : g \in inBuild \ unvisited})'
        = UNION {Contribution(g) : g \in inBuild' \ unvisited'}
  BY <1>4
<1>10. enumerated' = SourceFiles' /\ unread' = {}
  BY <1>1, <1>2 DEF Accounted
<1> QED
  BY <1>1, <1>5, <1>8, <1>9, <1>10 DEF Accounted

LEMMA MergeEdgeAccounted ==
  ASSUME NEW o \in pending, IInv, Accounted, MergeEdge(o) PROVE Accounted'
<1>1. /\ pc = "merge" /\ pc' = "merge" /\ UNCHANGED given /\ unvisited' = unvisited
      /\ UNCHANGED <<enumerated, unread, targets, inBuild>>
      /\ pending' \cup taken' = pending \cup taken
  BY DEF MergeEdge, loaded
<1>2. SourceFiles' = SourceFiles /\ Reported' = Reported
  BY <1>1, GivenStays
<1>3. \A f : Contribution(f)' = Contribution(f)
  BY <1>1, ContributionStays DEF given
<1>4. Indexed(Reported \ unread)'
  <2>1. Indexed(Reported \ unread)
    BY <1>1 DEF Accounted
  <2> QED
    BY <1>1, <1>2, <2>1 DEF Indexed, FilesOf, Given
<1>5. (UNION {Contribution(f) : f \in inBuild \ unvisited})'
        = UNION {Contribution(f) : f \in inBuild \ unvisited}
  BY <1>1, <1>3
<1> QED
  BY <1>1, <1>2, <1>4, <1>5 DEF Accounted

LEMMA StageAccounted ==
  IInv /\ Accounted /\ (Fail \/ Loaded \/ Emitted \/ Merged \/ UNCHANGED vars) => Accounted'
<1> SUFFICES ASSUME IInv, Accounted, Fail \/ Loaded \/ Emitted \/ Merged \/ UNCHANGED vars
             PROVE  Accounted'
  OBVIOUS
<1>1. UNCHANGED given /\ UNCHANGED <<enumerated, unread, targets, inBuild, pending, taken>>
  BY DEF Fail, Loaded, Emitted, Merged, vars, given, loaded
<1>2. SourceFiles' = SourceFiles /\ Reported' = Reported
  BY <1>1, GivenStays
<1>3. \A f : Contribution(f)' = Contribution(f)
  BY <1>1, ContributionStays DEF given
<1>4. Indexed(Reported \ unread)' <=> Indexed(Reported \ unread)
  BY <1>1, <1>2 DEF Indexed, FilesOf, Given
<1>5. \A F : UNION {Contribution(f)' : f \in F} = UNION {Contribution(f) : f \in F}
  BY <1>3
<1>6. (UNION {Contribution(f) : f \in inBuild \ unvisited})'
        = UNION {Contribution(f) : f \in inBuild \ unvisited'}
  BY <1>1, <1>5
<1>7. CASE Fail
  BY <1>7 DEF Fail, Accounted
<1>8. CASE Loaded
  <2>1. pc = "load" /\ unread = {} /\ pc' = "emit" /\ unvisited' = inBuild
    BY <1>8 DEF Loaded, IInv, TypeOK
  <2>2. pending \cup taken = {}
    BY <2>1 DEF IInv, Contributed
  <2>3. UNION {Contribution(f) : f \in inBuild \ unvisited'} = {}
    BY <2>1
  <2> QED
    BY <1>1, <1>2, <1>4, <1>6, <2>1, <2>2, <2>3 DEF Accounted
<1>9. CASE Emitted
  <2>1. pc = "emit" /\ pc' = "merge" /\ unvisited' = unvisited
    BY <1>9 DEF Emitted
  <2> QED
    BY <1>1, <1>2, <1>4, <1>6, <2>1 DEF Accounted
<1>10. CASE Merged
  <2>1. pc = "merge" /\ pc' = "done" /\ unvisited' = unvisited
    BY <1>10 DEF Merged
  <2> QED
    BY <1>1, <1>2, <1>4, <1>6, <2>1 DEF Accounted
<1>11. CASE UNCHANGED vars
  <2>1. pc' = pc /\ unvisited' = unvisited
    BY <1>11 DEF vars
  <2> QED
    BY <1>1, <1>2, <1>4, <1>6, <2>1 DEF Accounted
<1> QED
  BY <1>7, <1>8, <1>9, <1>10, <1>11

LEMMA InitAccounted == Init => Accounted
BY DEF Init, Accounted

LEMMA NextAccounted == IInv /\ Accounted /\ [Next]_vars => Accounted'
<1> SUFFICES ASSUME IInv, Accounted, [Next]_vars PROVE Accounted'
  OBVIOUS
<1>1. CASE Walk
  BY <1>1, WalkAccounted
<1>2. CASE Fail \/ Loaded \/ Emitted \/ Merged \/ UNCHANGED vars
  BY <1>2, StageAccounted
<1>3. ASSUME NEW p \in unread, ReadPackage(p) PROVE Accounted'
  BY <1>3, ReadPackageAccounted
<1>4. ASSUME NEW f \in unvisited, EmitNode(f) PROVE Accounted'
  BY <1>4, EmitNodeAccounted
<1>5. ASSUME NEW o \in pending, MergeEdge(o) PROVE Accounted'
  BY <1>5, MergeEdgeAccounted
<1> QED
  BY <1>1, <1>2, <1>3, <1>4, <1>5 DEF Next

-----------------------------------------------------------------------------
\* What the index comes to when every package has been read.

\* An import path of the project's own module, and the folder it names.
Folder(path) == SubSeq(path, Len(ModulePath) + 1, Len(path))
Ours(path) == IsPrefix(ModulePath, path) /\ ~InsideNestedModule(Folder(path))
\* What is walked and built.
Nodes == SourceFiles \cap Listed
\* The project's own packages, and the test mains made up for them.
Main(f) == Append(PackagePath(f), ".test")
Source(f) == Package(PackagePath(f), FALSE, f, {"source"})

LEMMA ReportedIs ==
  ASSUME NEW p
  PROVE  p \in Reported <=>
           \/ \E f \in Listed : p = Source(f)
           \/ \E f \in Listed : /\ options.tests /\ Role[f] = "test"
                                /\ p = Package(PackagePath(f), TRUE, f, {"source", "test"})
           \/ \E f \in Listed : /\ options.tests /\ Role[f] = "outsideTest"
                                /\ p = Package(Append(PackagePath(f), "_test"), TRUE, f, {"outsideTest"})
           \/ \E f \in Listed : /\ Tested(f)
                                /\ p = [path |-> Main(f), forTest |-> FALSE, goFiles |-> {Generated}]
BY Zenon DEF Reported, Source, Main

LEMMA ListedFiles == TypeOK => SourceFiles \subseteq File /\ Listed \subseteq File
<1>1. TypeOK => project.files \subseteq File
  BY ProjectAssumption DEF TypeOK
<1> QED
  BY <1>1 DEF SourceFiles, Listed

\* What is built is what is listed: a test outside its package is reported as well.
LEMMA BuiltIsListed ==
  ASSUME TypeOK, NEW f \in SourceFiles
  PROVE  (\E p \in Reported : f \in p.goFiles) <=> f \in Listed
<1>1. f \in File /\ f # Generated /\ Role[f] \in {"source", "test", "outsideTest"}
  BY ListedFiles, FilesAssumption
<1>2. ASSUME NEW p \in Reported, f \in p.goFiles PROVE f \in Listed
  <2>1. ASSUME NEW path, NEW forTest, NEW g, NEW roles, p = Package(path, forTest, g, roles)
        PROVE  f \in Listed
    BY <1>2, <2>1 DEF Package
  <2>2. ASSUME NEW g, p = [path |-> Main(g), forTest |-> FALSE, goFiles |-> {Generated}]
        PROVE  FALSE
    BY <1>1, <1>2, <2>2
  <2>3. \/ \E g \in Listed : p = Source(g)
        \/ \E g \in Listed : p = Package(PackagePath(g), TRUE, g, {"source", "test"})
        \/ \E g \in Listed : p = Package(Append(PackagePath(g), "_test"), TRUE, g, {"outsideTest"})
        \/ \E g \in Listed : p = [path |-> Main(g), forTest |-> FALSE, goFiles |-> {Generated}]
    BY <1>2, ReportedIs, Zenon
  <2> QED
    BY <2>1, <2>2, <2>3, Zenon DEF Source
<1>3. ASSUME f \in Listed PROVE \E p \in Reported : f \in p.goFiles
  <2>1. options.tests \/ Role[f] = "source"
    BY DEF SourceFiles, IsSourceFile
  <2>2. ASSUME NEW path, NEW forTest, NEW roles, Role[f] \in roles
        PROVE  f \in Package(path, forTest, f, roles).goFiles
    BY <1>3, <2>2 DEF Package
  <2>3. CASE Role[f] = "source"
    <3>1. f \in Source(f).goFiles
      BY <2>2, <2>3 DEF Source
    <3> QED
      BY <1>3, <3>1, ReportedIs
  <2>4. CASE Role[f] = "test"
    <3> DEFINE p == Package(PackagePath(f), TRUE, f, {"source", "test"})
    <3>1. f \in p.goFiles
      BY <2>2, <2>4
    <3>2. p \in Reported
      BY <1>3, <2>1, <2>4, ReportedIs
    <3> QED
      BY <3>1, <3>2
  <2>5. CASE Role[f] = "outsideTest"
    <3> DEFINE p == Package(Append(PackagePath(f), "_test"), TRUE, f, {"outsideTest"})
    <3>1. f \in p.goFiles
      BY <2>2, <2>5
    <3>2. p \in Reported
      BY <1>3, <2>1, <2>5, ReportedIs
    <3> QED
      BY <3>1, <3>2
  <2> QED
    BY <1>1, <2>3, <2>4, <2>5
<1> QED
  BY <1>2, <1>3

LEMMA PackageOfAFile ==
  ASSUME NEW f \in Listed, TypeOK
  PROVE  /\ f \in File /\ Front(f) \in Seq(Word) /\ PackagePath(f) = ModulePath \o Front(f)
         /\ PackagePath(f) \in Seq(Word) /\ ~InsideNestedModule(Front(f))
<1>1. f \in File /\ Front(f) \in Seq(Word)
  BY ListedFiles, FolderOfAFile
<1>2. ModulePath \o Front(f) \in Seq(Word)
  BY <1>1, Words, ConcatProperties
<1> QED
  BY <1>1, <1>2 DEF PackagePath, Listed

\* The path of a test main is the module's, and names no file's folder of another module.
LEMMA MainsAreOurs ==
  ASSUME NEW f \in Listed, TypeOK, Main(f) \in Seq(Word) PROVE Ours(Main(f))
<1> DEFINE folder == Front(f)
           inner == Append(folder, ".test")
<1>1. /\ folder \in Seq(Word) /\ PackagePath(f) = ModulePath \o folder
      /\ ~InsideNestedModule(folder) /\ ModulePath \in Seq(Word)
  BY PackageOfAFile, Words
<1> HIDE DEF folder
<1>2. ".test" \in Word
  BY DEF Word
<1>3. inner \in Seq(Word) /\ inner = folder \o <<".test">> /\ <<".test">> \in Seq(Word)
  BY <1>1, <1>2, AppendProperties, AppendIsConcat
<1>4. Main(f) = (ModulePath \o folder) \o <<".test">>
  <2>1. ModulePath \o folder \in Seq(Word)
    BY <1>1, ConcatProperties
  <2> QED
    BY <1>1, <1>2, <2>1, AppendIsConcat DEF Main
<1>5. Main(f) = ModulePath \o inner
  <2>1. (ModulePath \o folder) \o <<".test">> = ModulePath \o (folder \o <<".test">>)
    BY <1>1, <1>3, ConcatAssociative
  <2> QED
    BY <1>3, <1>4, <2>1, Zenon
<1>6. IsPrefix(ModulePath, Main(f)) /\ inner = Folder(Main(f))
  BY <1>3, <1>5, PathIsItsFolder DEF Folder
<1>7. ~InsideNestedModule(inner)
  BY <1>1, SuffixNestsNothing
<1> QED
  BY <1>6, <1>7 DEF Ours

\* An import is classified as it reads: the toolchain's paths are among the module's
\* own, and one of these points at the source files of the folder it names.
LEMMA ClassifiedAsWritten ==
  ASSUME TypeOK, inBuild # {}, enumerated = SourceFiles, Indexed(Reported), NEW path \in ImportPath
  PROVE  /\ IsExternal(path) <=> ~Ours(path)
         /\ Ours(path) => Resolved(path) = {x \in Nodes : Role[x] = "source" /\ Front(x) = Folder(path)}
<1> DEFINE There == {x \in Nodes : Role[x] = "source" /\ Front(x) = Folder(path)}
<1>1. path \in Seq(Word)
  BY Words
<1>2. ASSUME NEW p \in Reported, ~p.forTest
      PROVE  \/ \E f \in Listed : p = Source(f)
             \/ \E f \in Listed : p = [path |-> Main(f), forTest |-> FALSE, goFiles |-> {Generated}]
  <2>1. \A q, f, r : Package(q, TRUE, f, r).forTest
    BY DEF Package
  <2>2. ASSUME NEW f, NEW q, NEW r, p = Package(q, TRUE, f, r) PROVE FALSE
    BY <1>2, <2>1, <2>2
  <2>3. \/ \E f \in Listed : p = Source(f)
        \/ \E f \in Listed : p = Package(PackagePath(f), TRUE, f, {"source", "test"})
        \/ \E f \in Listed : p = Package(Append(PackagePath(f), "_test"), TRUE, f, {"outsideTest"})
        \/ \E f \in Listed : p = [path |-> Main(f), forTest |-> FALSE, goFiles |-> {Generated}]
    BY ReportedIs, Zenon
  <2> QED
    BY <2>2, <2>3, Zenon
<1>3. \A f : Source(f).path = PackagePath(f) /\ ~Source(f).forTest
  BY DEF Source, Package
<1>4. \A f \in Listed : Source(f) \in Reported
  BY ReportedIs
<1>5. DOMAIN targets = {p.path : p \in {q \in Reported : ~q.forTest}}
  BY DEF Indexed
<1>6. DOMAIN targets # {}
  <2>1. PICK f \in inBuild : TRUE
    OBVIOUS
  <2>2. f \in SourceFiles /\ f \in UNION {p.goFiles : p \in Reported}
    BY <2>1 DEF Indexed, FilesOf
  <2>3. f \in Listed
    BY <2>2, BuiltIsListed
  <2> QED
    BY <1>3, <1>4, <1>5, <2>3
<1>7. path \in DOMAIN targets => Ours(path)
  <2> SUFFICES ASSUME path \in DOMAIN targets PROVE Ours(path)
    OBVIOUS
  <2>1. PICK p \in Reported : ~p.forTest /\ p.path = path
    BY <1>5
  <2>2. CASE \E f \in Listed : p = Source(f)
    <3>1. PICK f \in Listed : path = PackagePath(f)
      BY <1>3, <2>1, <2>2
    <3>2. path = ModulePath \o Front(f) /\ Front(f) \in Seq(Word) /\ ~InsideNestedModule(Front(f))
      BY <3>1, PackageOfAFile
    <3>3. IsPrefix(ModulePath, path) /\ Front(f) = Folder(path)
      BY <1>1, <3>2, PathIsItsFolder DEF Folder
    <3> QED
      BY <3>2, <3>3 DEF Ours
  <2>3. CASE \E f \in Listed : p = [path |-> Main(f), forTest |-> FALSE, goFiles |-> {Generated}]
    <3>1. PICK f \in Listed : path = Main(f)
      BY <2>1, <2>3
    <3> QED
      BY <1>1, <3>1, MainsAreOurs
  <2> QED
    BY <1>2, <2>1, <2>2, <2>3
<1>8. OwnsImportPath(path) <=> Ours(path)
  BY <1>6 DEF OwnsImportPath, Ours, Folder
<1>9. ASSUME NEW x \in There, Ours(path) PROVE x \in Resolved(path)
  <2>1. x \in Listed /\ x \in SourceFiles /\ Role[x] = "source" /\ Front(x) = Folder(path)
    BY DEF Nodes
  <2>2. path = ModulePath \o Front(x)
    <3>1. Front(x) \in Seq(Word)
      BY <2>1, PackageOfAFile
    <3> QED
      BY <1>1, <1>9, <2>1, <3>1, PathIsItsFolder DEF Ours, Folder
  <2>3. PackagePath(x) = path
    BY <2>1, <2>2, PackageOfAFile
  <2>4. Source(x) \in Reported /\ Given(path, Source(x))
    BY <1>3, <1>4, <2>1, <2>3 DEF Given
  <2>5. x \in Source(x).goFiles
    BY <2>1 DEF Source, Package
  <2>6. path \in DOMAIN targets
    BY <1>5, <2>4 DEF Given
  <2>7. targets[path] = FilesOf({p \in Reported : Given(path, p)})
    BY <2>6 DEF Indexed
  <2> QED
    BY <2>1, <2>4, <2>5, <2>6, <2>7 DEF Resolved, FilesOf
<1>10. ASSUME NEW x \in Resolved(path) PROVE x \in There
  <2>1. path \in DOMAIN targets /\ x \in targets[path]
    BY DEF Resolved
  <2>2. targets[path] = FilesOf({p \in Reported : Given(path, p)})
    BY <2>1 DEF Indexed
  <2>3. PICK p \in Reported : Given(path, p) /\ x \in p.goFiles
    BY <2>1, <2>2 DEF FilesOf
  <2>4. x \in SourceFiles /\ x \in File /\ x # Generated
    BY <2>1, <2>2, ListedFiles, FilesAssumption DEF FilesOf
  <2>5. CASE \E f \in Listed : p = Source(f)
    <3>1. PICK f \in Listed : p = Source(f)
      BY <2>5
    <3>2. x \in Listed /\ Front(x) = Front(f) /\ Role[x] \in {"source"}
      BY <2>3, <3>1 DEF Source, Package
    <3>3. path = PackagePath(f)
      BY <1>3, <2>3, <3>1 DEF Given
    <3>4. Front(f) = Folder(path)
      BY <1>1, <3>3, PackageOfAFile, PathIsItsFolder DEF Folder
    <3> QED
      BY <2>4, <3>2, <3>4 DEF Nodes
  <2>6. CASE \E f \in Listed : p = [path |-> Main(f), forTest |-> FALSE, goFiles |-> {Generated}]
    BY <2>3, <2>4, <2>6
  <2>7. ~p.forTest
    BY <2>3 DEF Given
  <2> QED
    BY <1>2, <2>5, <2>6, <2>7
<1>11. IsExternal(path) <=> ~Ours(path)
  BY <1>7, <1>8 DEF IsExternal
<1>12. Ours(path) => Resolved(path) = There
  BY <1>9, <1>10
<1> QED
  BY <1>11, <1>12

-----------------------------------------------------------------------------
\* From what was contributed to what the source says.

\* A declaration that is left out, and one that says an edge.
Ignored(f, d) == IgnoresImport(project.text[f], d[1], d[2])
Says(f, d, e) ==
  /\ ~Ignored(f, d)
  /\ \E external \in BOOLEAN : \E x \in Identifier :
       PointsAt(d[2], x, external) /\ e = NewEdge(f, x, external, {d[2].kind})

LEMMA DeclaredImports ==
  ASSUME TypeOK, NEW f \in File, NEW d \in Declared(f)
  PROVE  d[1] \in Nat /\ d[2] \in Import /\ d[2].path \in ImportPath /\ d[2].kind \in Kind
<1>1. project.parsed[f] \in Nat
  BY ProjectAssumption DEF TypeOK
<1>2. d \in (1 .. project.parsed[f]) \X Import
  BY DEF Declared
<1> QED
  BY <1>1, <1>2 DEF Import

LEMMA PointsAtIs ==
  ASSUME NEW i, NEW x, NEW external \in BOOLEAN
  PROVE  PointsAt(i, x, external) <=>
           IF external THEN ~Ours(i.path) /\ x = i.path
           ELSE Ours(i.path) /\ x \in Nodes /\ Role[x] = "source" /\ Front(x) = Folder(i.path)
BY DEF PointsAt, Ours, Folder, Nodes

LEMMA EdgesSayWhatIsWritten ==
  ASSUME TypeOK, inBuild # {}, enumerated = SourceFiles, Indexed(Reported),
         NEW f \in File, NEW d \in Declared(f), NEW e
  PROVE  (\E o \in EdgesOf(f, d[1], d[2]) : o.edge = e) <=> Says(f, d, e)
<1> DEFINE path == d[2].path
           From(target, external) ==
             [line |-> d[1], edge |-> NewEdge(f, target, external, {d[2].kind})]
<1>1. path \in ImportPath
  BY DeclaredImports
<1>2. /\ IsExternal(path) <=> ~Ours(path)
      /\ Ours(path) => Resolved(path) = {x \in Nodes : Role[x] = "source" /\ Front(x) = Folder(path)}
  BY <1>1, ClassifiedAsWritten
<1>3. path \in Identifier /\ Nodes \subseteq Identifier
  BY <1>1, ListedFiles DEF Identifier, Nodes
<1>4. EdgesOf(f, d[1], d[2]) =
        IF Ignored(f, d) THEN {}
        ELSE IF IsExternal(path) THEN {From(path, TRUE)}
        ELSE {From(target, FALSE) : target \in Resolved(path)}
  BY Zenon DEF EdgesOf, Ignored
<1>5. \A target, external : From(target, external).edge = NewEdge(f, target, external, {d[2].kind})
  OBVIOUS
<1> HIDE DEF path, From
<1>6. \A x : PointsAt(d[2], x, TRUE) <=> ~Ours(path) /\ x = path
  BY PointsAtIs DEF path
<1>7. \A x : PointsAt(d[2], x, FALSE) <=>
               Ours(path) /\ x \in Nodes /\ Role[x] = "source" /\ Front(x) = Folder(path)
  BY PointsAtIs DEF path
<1>8. CASE Ignored(f, d)
  BY <1>4, <1>8 DEF Says
<1>9. CASE ~Ignored(f, d) /\ ~Ours(path)
  <2>1. EdgesOf(f, d[1], d[2]) = {From(path, TRUE)}
    BY <1>2, <1>4, <1>9
  <2>2. (\E o \in EdgesOf(f, d[1], d[2]) : o.edge = e) <=> e = NewEdge(f, path, TRUE, {d[2].kind})
    BY <1>5, <2>1
  <2>3. Says(f, d, e) <=> e = NewEdge(f, path, TRUE, {d[2].kind})
    BY <1>3, <1>6, <1>7, <1>9, Zenon DEF Says
  <2> QED
    BY <2>2, <2>3
<1>10. CASE ~Ignored(f, d) /\ Ours(path)
  <2>1. EdgesOf(f, d[1], d[2]) = {From(target, FALSE) : target \in Resolved(path)}
    BY <1>2, <1>4, <1>10
  <2>2. (\E o \in EdgesOf(f, d[1], d[2]) : o.edge = e)
          <=> \E x \in Resolved(path) : e = NewEdge(f, x, FALSE, {d[2].kind})
    BY <1>5, <2>1
  <2>3. \A x : x \in Resolved(path) <=> PointsAt(d[2], x, FALSE)
    BY <1>2, <1>7, <1>10
  <2>4. \A x : x \in Resolved(path) => x \in Identifier
    BY <1>2, <1>3, <1>10
  <2>5. \A x : ~PointsAt(d[2], x, TRUE)
    BY <1>6, <1>10
  <2>6. Says(f, d, e) <=> \E x \in Resolved(path) : e = NewEdge(f, x, FALSE, {d[2].kind})
    BY <1>10, <2>3, <2>4, <2>5, Zenon DEF Says
  <2> QED
    BY <2>2, <2>6
<1> QED
  BY <1>8, <1>9, <1>10

LEMMA WhenDone ==
  ASSUME IInv, Accounted, pc = "done"
  PROVE  /\ inBuild = Nodes
         /\ inBuild # {} => enumerated = SourceFiles /\ Indexed(Reported)
         /\ taken = UNION {Contribution(f) : f \in inBuild}
<1>1. pending = {} /\ unvisited = {} /\ unread = {} /\ enumerated = SourceFiles
  BY DEF IInv, Contributed, Accounted
<1>2. taken = UNION {Contribution(f) : f \in inBuild}
  <2>1. inBuild \ unvisited = inBuild /\ pending \cup taken = taken
    BY <1>1
  <2> QED
    BY <2>1, Zenon DEF Accounted
<1>3. inBuild \subseteq enumerated /\ TypeOK
  BY DEF IInv, TypeOK
<1>4. CASE enumerated = {}
  BY <1>1, <1>2, <1>3, <1>4 DEF Nodes
<1>5. CASE enumerated # {}
  <2>1. Indexed(Reported)
    <3>1. Reported \ unread = Reported
      BY <1>1
    <3>2. Indexed(Reported \ unread)
      BY <1>5 DEF Accounted
    <3> QED
      BY <3>1, <3>2
  <2>2. inBuild = SourceFiles \cap UNION {p.goFiles : p \in Reported}
    BY <1>1, <2>1 DEF Indexed, FilesOf
  <2>3. \A f \in SourceFiles : (\E p \in Reported : f \in p.goFiles) <=> f \in Listed
    BY <1>3, BuiltIsListed
  <2>4. inBuild = SourceFiles \cap Listed
    BY <2>2, <2>3
  <2> QED
    BY <1>1, <1>2, <2>1, <2>4 DEF Nodes
<1> QED
  BY <1>4, <1>5

\* The edges contributed between two identifiers are those that imports say.
LEMMA EdgesBetween ==
  ASSUME IInv, Accounted, pc = "done",
         NEW f \in File, NEW x \in Identifier \ {f}, NEW e
  PROVE  (\E o \in taken : Key(o.edge) = <<f, x>> /\ o.edge = e)
           <=> /\ f \in Nodes
               /\ \E d \in Declared(f), external \in BOOLEAN :
                    /\ ~Ignored(f, d) /\ PointsAt(d[2], x, external)
                    /\ e = NewEdge(f, x, external, {d[2].kind})
<1>1. /\ inBuild = Nodes
      /\ inBuild # {} => enumerated = SourceFiles /\ Indexed(Reported)
      /\ taken = UNION {Contribution(g) : g \in inBuild}
  BY WhenDone
<1>2. TypeOK /\ inBuild \subseteq File
  BY DEF IInv, TypeOK
<1>3. \A s, t, b, K : Key(NewEdge(s, t, b, K)) = <<s, t>>
  BY DEF Key, NewEdge
<1>4. ASSUME NEW o \in taken, Key(o.edge) = <<f, x>>, o.edge = e
      PROVE  /\ f \in Nodes
             /\ \E d \in Declared(f), external \in BOOLEAN :
                  /\ ~Ignored(f, d) /\ PointsAt(d[2], x, external)
                  /\ e = NewEdge(f, x, external, {d[2].kind})
  <2>1. PICK g \in inBuild : o \in Contribution(g)
    BY <1>1, <1>4, Zenon
  <2>2. g \in File
    BY <1>2
  <2>3. o # SelfEmission(g)
    <3>1. Key(SelfEmission(g).edge) = <<g, g>>
      BY <2>2, SelfEmissionIsAnEmission DEF Key
    <3> QED
      BY <1>4, <3>1
  <2>4. PICK d \in Declared(g) : o \in EdgesOf(g, d[1], d[2])
    BY <2>1, <2>3 DEF Contribution, ImportEdges
  <2>5. Says(g, d, e)
    <3>1. inBuild # {} /\ enumerated = SourceFiles /\ Indexed(Reported)
      BY <1>1, <2>1
    <3> QED
      BY <1>2, <1>4, <2>2, <2>4, <3>1, EdgesSayWhatIsWritten
  <2>6. PICK external \in BOOLEAN, y \in Identifier :
          ~Ignored(g, d) /\ PointsAt(d[2], y, external) /\ e = NewEdge(g, y, external, {d[2].kind})
    BY <2>5 DEF Says
  <2>7. g = f /\ y = x
    <3>1. <<g, y>> = <<f, x>>
      BY <1>3, <1>4, <2>6
    <3> QED
      BY <3>1
  <2> QED
    BY <1>1, <2>1, <2>4, <2>6, <2>7
<1>5. ASSUME f \in Nodes, NEW d \in Declared(f), NEW external \in BOOLEAN,
             ~Ignored(f, d), PointsAt(d[2], x, external), e = NewEdge(f, x, external, {d[2].kind})
      PROVE  \E o \in taken : Key(o.edge) = <<f, x>> /\ o.edge = e
  <2>1. Says(f, d, e)
    BY <1>5 DEF Says
  <2>2. \E o \in EdgesOf(f, d[1], d[2]) : o.edge = e
    <3>1. inBuild # {} /\ enumerated = SourceFiles /\ Indexed(Reported)
      BY <1>1, <1>5
    <3> QED
      BY <1>2, <2>1, <3>1, EdgesSayWhatIsWritten
  <2>3. PICK o \in EdgesOf(f, d[1], d[2]) : o.edge = e
    BY <2>2
  <2>4. o \in Contribution(f)
    BY <2>3 DEF Contribution, ImportEdges
  <2>5. o \in taken
    BY <1>1, <1>5, <2>4
  <2>6. Key(e) = <<f, x>>
    BY <1>3, <1>5
  <2> QED
    BY <2>3, <2>5, <2>6
<1> QED
  BY <1>4, <1>5

\* What an import names is a file or leaves the project, and never both.
LEMMA EitherWay ==
  ASSUME TypeOK, NEW f \in File, NEW c \in Declared(f), NEW d \in Declared(f),
         NEW x, PointsAt(c[2], x, TRUE), PointsAt(d[2], x, FALSE)
  PROVE  FALSE
<1>1. x \in ImportPath
  <2>1. c[2].path \in ImportPath
    BY DeclaredImports
  <2>2. x = c[2].path
    BY PointsAtIs
  <2> QED
    BY <2>1, <2>2
<1>2. x \in File
  BY PointsAtIs, ListedFiles DEF Nodes
<1> QED
  BY <1>1, <1>2, NamesAssumption

\* A pair of a finished graph, and what its edges have in common.
LEMMA PairsSayWhatIsWritten ==
  ASSUME IInv, Accounted, pc = "done", NEW f \in File, NEW x \in Identifier \ {f}
  PROVE  LET k == <<f, x>>
             Saying(external) ==
               {d \in Declared(f) : ~Ignored(f, d) /\ PointsAt(d[2], x, external)}
         IN  /\ \A external \in BOOLEAN :
                  (k \in DOMAIN graph /\ graph[k].external = external)
                    <=> (f \in Nodes /\ Saying(external) # {})
             /\ k \in DOMAIN graph =>
                  graph[k].kinds = {d[2].kind : d \in Saying(graph[k].external)}
<1> DEFINE k == <<f, x>>
           Saying(external) == {d \in Declared(f) : ~Ignored(f, d) /\ PointsAt(d[2], x, external)}
           E == {o.edge : o \in {q \in taken : Key(q.edge) = k}}
<1>1. \A e : e \in E <=> /\ f \in Nodes
                         /\ \E external \in BOOLEAN : \E d \in Saying(external) :
                              e = NewEdge(f, x, external, {d[2].kind})
  <2> TAKE e
  <2>1. e \in E <=> \E o \in taken : Key(o.edge) = k /\ o.edge = e
    OBVIOUS
  <2>2. (\E o \in taken : Key(o.edge) = k /\ o.edge = e)
          <=> /\ f \in Nodes
              /\ \E d \in Declared(f), external \in BOOLEAN :
                   /\ ~Ignored(f, d) /\ PointsAt(d[2], x, external)
                   /\ e = NewEdge(f, x, external, {d[2].kind})
    BY EdgesBetween
  <2> HIDE DEF E, k
  <2> QED
    BY <2>1, <2>2, Zenon
<1>2. TypeOK
  BY DEF IInv
<1>3. \A c \in Saying(TRUE), d \in Saying(FALSE) : FALSE
  BY <1>2, EitherWay, Zenon
<1>4. k \in DOMAIN graph <=> E # {}
  <2>1. DOMAIN graph = {Key(o.edge) : o \in taken}
    BY DEF IInv, GraphIsTheUnion
  <2> QED
    BY <2>1
<1>5. k \in DOMAIN graph => /\ graph[k].external <=> \E e \in E : e.external
                            /\ graph[k].kinds = UNION {e.kinds : e \in E}
                            /\ graph[k].external \in BOOLEAN
  <2>1. k[1] # k[2]
    OBVIOUS
  <2>2. k \in DOMAIN graph => graph[k].external \in BOOLEAN
    BY <1>2 DEF TypeOK
  <2>3. k \in DOMAIN graph => /\ graph[k].external <=> \E e \in E : e.external
                              /\ graph[k].kinds = UNION {e.kinds : e \in E}
    <3> HIDE DEF k
    <3> QED
      BY <2>1, Zenon DEF IInv, GraphIsTheUnion
  <2> QED
    BY <2>2, <2>3
<1>6. \A s, t, b, K : NewEdge(s, t, b, K).external = b /\ NewEdge(s, t, b, K).kinds = K
  BY DEF NewEdge
<1> HIDE DEF k, Saying, E
<1>7. ASSUME NEW external \in BOOLEAN, f \in Nodes, Saying(external) # {}
      PROVE  /\ k \in DOMAIN graph /\ graph[k].external = external
             /\ graph[k].kinds = {d[2].kind : d \in Saying(external)}
  <2>1. \A other \in BOOLEAN : Saying(other) # {} => other = external
    <3> SUFFICES ASSUME NEW other \in BOOLEAN, Saying(other) # {}, other # external PROVE FALSE
      OBVIOUS
    <3>1. PICK c \in Saying(other) : TRUE
      OBVIOUS
    <3>2. PICK d \in Saying(external) : TRUE
      BY <1>7
    <3>3. CASE external = TRUE
      <4>1. other = FALSE
        BY <3>3
      <4> QED
        BY <1>3, <3>1, <3>2, <3>3, <4>1, Zenon
    <3>4. CASE external = FALSE
      <4>1. other = TRUE
        BY <3>4
      <4> QED
        BY <1>3, <3>1, <3>2, <3>4, <4>1, Zenon
    <3> QED
      BY <3>3, <3>4
  <2>2. \A e : e \in E <=> \E d \in Saying(external) : e = NewEdge(f, x, external, {d[2].kind})
    BY <1>1, <1>7, <2>1
  <2>3. \A e \in E : e.external = external
    <3> TAKE e \in E
    <3>1. PICK d \in Saying(external) : e = NewEdge(f, x, external, {d[2].kind})
      BY <2>2, Zenon
    <3> QED
      BY <1>6, <3>1
  <2>4. E # {}
    BY <1>7, <2>2
  <2>5. k \in DOMAIN graph /\ graph[k].external = external
    BY <1>4, <1>5, <2>3, <2>4
  <2>6. UNION {e.kinds : e \in E} = {d[2].kind : d \in Saying(external)}
    <3>1. \A e \in E : \E d \in Saying(external) : e.kinds = {d[2].kind}
      <4> TAKE e \in E
      <4>1. PICK d \in Saying(external) : e = NewEdge(f, x, external, {d[2].kind})
        BY <2>2, Zenon
      <4> QED
        BY <1>6, <4>1
    <3>2. \A d \in Saying(external) : \E e \in E : e.kinds = {d[2].kind}
      BY <1>6, <2>2, Zenon
    <3>3. ASSUME NEW v, v \in UNION {e.kinds : e \in E}
          PROVE  v \in {d[2].kind : d \in Saying(external)}
      <4>1. PICK e \in E : v \in e.kinds
        BY <3>3, Zenon
      <4>2. PICK d \in Saying(external) : e.kinds = {d[2].kind}
        BY <3>1
      <4> QED
        BY <4>1, <4>2
    <3>4. ASSUME NEW d \in Saying(external) PROVE d[2].kind \in UNION {e.kinds : e \in E}
      <4>1. PICK e \in E : e.kinds = {d[2].kind}
        BY <3>2
      <4> QED
        BY <4>1, Zenon
    <3> QED
      BY <3>3, <3>4
  <2> QED
    BY <1>5, <2>5, <2>6
<1>8. ASSUME k \in DOMAIN graph
      PROVE  \E external \in BOOLEAN : f \in Nodes /\ Saying(external) # {}
  BY <1>1, <1>4, <1>8
<1>9. \A external \in BOOLEAN :
        (k \in DOMAIN graph /\ graph[k].external = external) <=> (f \in Nodes /\ Saying(external) # {})
  BY <1>7, <1>8
<1>10. k \in DOMAIN graph => graph[k].kinds = {d[2].kind : d \in Saying(graph[k].external)}
  BY <1>7, <1>8
<1> QED
  BY <1>9, <1>10 DEF k, Saying

\* An import is ignored for its kind, or left out by the directive about it.
LEMMA IgnoredIsLeftOut ==
  ASSUME TypeOK, NEW f \in File, NEW d \in Declared(f)
  PROVE  ~Ignored(f, d) <=> d[2].kind \notin options.kinds /\ ~LeftOut(project.text[f], d[1], options.scopes)
<1> DEFINE text == project.text[f]
<1>1. /\ text \in Seq(Line) /\ project.parsed[f] \in Nat /\ project.parsed[f] <= Len(text)
      /\ \A l \in DOMAIN text : text[l].imports # {} => text[l].code
  BY ProjectAssumption DEF TypeOK
<1>2. d[1] \in 1 .. project.parsed[f] /\ d[2] \in text[d[1]].imports
  BY DEF Declared
<1>3. d[1] \in DOMAIN text /\ text[d[1]].code
  BY <1>1, <1>2, LenProperties
<1> HIDE DEF text
<1>4. AppliesIn(DirectiveOf(text, d[1]), options.scopes) <=> LeftOut(text, d[1], options.scopes)
  BY <1>1, <1>3, LeftOutIsCarried
<1> QED
  BY <1>4 DEF Ignored, IgnoresImport, text

LEMMA FinishedGraphsSayWhatIsWritten == IInv /\ Accounted => GraphIsWhatTheSourceSays
<1> SUFFICES ASSUME IInv, Accounted PROVE GraphIsWhatTheSourceSays
  OBVIOUS
<1> DEFINE Written(f) == {d \in Declared(f) : /\ d[2].kind \notin options.kinds
                                              /\ ~LeftOut(project.text[f], d[1], options.scopes)}
           Imports(f, x, external) == {d[2] : d \in {e \in Written(f) : PointsAt(e[2], x, external)}}
           Saying(f, x, external) ==
             {d \in Declared(f) : ~Ignored(f, d) /\ PointsAt(d[2], x, external)}
<1>1. TypeOK
  BY DEF IInv
<1>2. \A f \in project.files : NoDirectiveIsShared(project.text[f])
  <2>1. project \in Project /\ project.files \subseteq File
    BY <1>1, ProjectAssumption DEF TypeOK
  <2> QED
    BY <2>1, DirectivesAreNotShared
<1>3. \A f \in File : \A x, external : Imports(f, x, external) = {d[2] : d \in Saying(f, x, external)}
  <2> SUFFICES ASSUME NEW f \in File, NEW x, NEW external
               PROVE  Imports(f, x, external) = {d[2] : d \in Saying(f, x, external)}
    OBVIOUS
  <2>1. \A d \in Declared(f) : /\ d[2].kind \notin options.kinds
                              /\ ~LeftOut(project.text[f], d[1], options.scopes)
                              <=> ~Ignored(f, d)
    BY <1>1, IgnoredIsLeftOut
  <2>2. {d \in Written(f) : PointsAt(d[2], x, external)} = Saying(f, x, external)
    BY <2>1
  <2> QED
    BY <2>2
<1>4. ASSUME pc = "done" PROVE {k[1] : k \in {e \in DOMAIN graph : e[1] = e[2]}} = SourceFiles \cap Listed
  <2>1. inBuild = SourceFiles \cap Listed /\ inBuild \subseteq File
    BY <1>1, <1>4, WhenDone DEF Nodes, TypeOK
  <2>2. \A f \in inBuild : SelfEmission(f) \in taken
    BY <1>4 DEF IInv, Contributed
  <2>3. \A f \in inBuild : Key(SelfEmission(f).edge) = <<f, f>>
    BY <2>1, SelfEmissionIsAnEmission DEF Key
  <2>4. DOMAIN graph = {Key(o.edge) : o \in taken}
    BY DEF IInv, GraphIsTheUnion
  <2>5. \A f \in inBuild : <<f, f>> \in DOMAIN graph
    BY <2>2, <2>3, <2>4
  <2>6. \A k \in DOMAIN graph : k[1] \in inBuild
    <3>1. \A o \in taken : o.edge.source \in inBuild
      BY DEF IInv, Contributed
    <3> QED
      BY <2>4, <3>1 DEF Key
  <2>7. \A f \in inBuild : f \in {k[1] : k \in {e \in DOMAIN graph : e[1] = e[2]}}
    <3> TAKE f \in inBuild
    <3>1. <<f, f>> \in {e \in DOMAIN graph : e[1] = e[2]} /\ <<f, f>>[1] = f
      BY <2>5
    <3> QED
      BY <3>1
  <2> QED
    BY <2>1, <2>6, <2>7
<1>5. ASSUME pc = "done", NEW f \in File, NEW external \in BOOLEAN, NEW x \in Identifier \ {f}
      PROVE  (<<f, x>> \in DOMAIN graph /\ graph[<<f, x>>].external = external)
               <=> (f \in SourceFiles \cap Listed /\ Imports(f, x, external) # {})
  <2>1. (<<f, x>> \in DOMAIN graph /\ graph[<<f, x>>].external = external)
          <=> (f \in Nodes /\ Saying(f, x, external) # {})
    BY <1>5, PairsSayWhatIsWritten, Zenon
  <2>2. Imports(f, x, external) # {} <=> Saying(f, x, external) # {}
    <3> HIDE DEF Imports, Saying
    <3>1. Imports(f, x, external) = {d[2] : d \in Saying(f, x, external)}
      BY <1>3
    <3> QED
      BY <3>1
  <2> QED
    BY <2>1, <2>2 DEF Nodes
<1>6. ASSUME pc = "done", NEW k \in DOMAIN graph, k[1] # k[2]
      PROVE  graph[k].kinds = {i.kind : i \in Imports(k[1], k[2], graph[k].external)}
  <2>1. k \in Identifier \X Identifier /\ k[1] \in File
    <3>1. DOMAIN graph = {Key(o.edge) : o \in taken}
      BY DEF IInv, GraphIsTheUnion
    <3>2. \A o \in taken : o.edge.source \in inBuild /\ inBuild \subseteq File
      BY DEF IInv, Contributed, TypeOK
    <3> QED
      BY <1>1, <3>1, <3>2 DEF TypeOK, Key
  <2>2. k = <<k[1], k[2]>> /\ k[2] \in Identifier \ {k[1]}
    BY <1>6, <2>1
  <2>3. PICK f \in File : f = k[1]
    BY <2>1
  <2>4. PICK x \in Identifier \ {f} : x = k[2] /\ k = <<f, x>>
    BY <2>2, <2>3
  <2>5. graph[<<f, x>>].kinds = {d[2].kind : d \in Saying(f, x, graph[<<f, x>>].external)}
    BY <1>6, <2>3, <2>4, PairsSayWhatIsWritten, Zenon
  <2> HIDE DEF Saying, Imports
  <2>6. graph[k].kinds = {d[2].kind : d \in Saying(f, x, graph[k].external)}
    BY <2>3, <2>4, <2>5
  <2>7. Imports(f, x, graph[k].external) = {d[2] : d \in Saying(f, x, graph[k].external)}
    BY <1>3
  <2>8. graph[k].kinds = {i.kind : i \in Imports(f, x, graph[k].external)}
    BY <2>6, <2>7
  <2> QED
    BY <2>3, <2>4, <2>8
<1> QED
  BY <1>2, <1>4, <1>5, <1>6, Zenon DEF GraphIsWhatTheSourceSays

-----------------------------------------------------------------------------
\* Theorems.

\* Whatever the project and the toolchain's answer, every part of the extraction
\* keeps its shape; nothing is a target or a node that was not enumerated.
THEOREM ExtractionIsWellFormed == Spec => []TypeOK
<1>1. IInv => TypeOK
  BY DEF IInv
<1> QED
  BY <1>1, InitIInv, NextIInv, PTL DEF Spec

\* NewGraph depends neither on the order of its edges nor on their repetition.
THEOREM OrderDoesNotMatter == Spec => []GraphIsTheUnion
<1>1. IInv => GraphIsTheUnion
  BY DEF IInv
<1> QED
  BY <1>1, InitIInv, NextIInv, PTL DEF Spec

\* Every end of an edge that does not leave the project is a node of the
\* finished graph, known by its self-edge.
THEOREM FinishedGraphsAreClosed == Spec => []GraphIsClosed
<1>1. IInv => GraphIsClosed
  <2> SUFFICES ASSUME IInv, pc = "done", NEW k \in DOMAIN graph
               PROVE  /\ <<k[1], k[1]>> \in DOMAIN graph
                      /\ ~graph[k].external => <<k[2], k[2]>> \in DOMAIN graph
    BY DEF GraphIsClosed
  <2> USE DEF IInv
  <2>1. \A f \in inBuild : SelfEmission(f) \in taken
    BY DEF Contributed
  <2>2. \A f \in inBuild : f \in File
    BY DEF TypeOK
  <2>3. \A f \in inBuild : Key(SelfEmission(f).edge) = <<f, f>>
    BY <2>2, SelfEmissionIsAnEmission DEF Key
  <2>4. DOMAIN graph = {Key(o.edge) : o \in taken}
    BY DEF GraphIsTheUnion
  <2>5. \A f \in inBuild : <<f, f>> \in DOMAIN graph
    BY <2>1, <2>3, <2>4
  <2>6. PICK o \in taken : k = Key(o.edge)
    BY <2>4
  <2>7. /\ o.edge.source \in inBuild /\ k = <<o.edge.source, o.edge.target>>
        /\ ~o.edge.external => o.edge.target \in inBuild
    BY <2>6 DEF Contributed, Key
  <2>8. ASSUME ~graph[k].external PROVE k[2] \in inBuild
    <3>1. CASE k[1] = k[2]
      BY <2>7, <3>1
    <3>2. CASE k[1] # k[2]
      <4> DEFINE E == {q.edge : q \in {p \in taken : Key(p.edge) = k}}
      <4>1. graph[k].external <=> \E e \in E : e.external
        BY <3>2, Zenon DEF GraphIsTheUnion
      <4>2. o.edge \in E
        BY <2>6
      <4> QED
        BY <2>7, <2>8, <4>1, <4>2
    <3> QED
      BY <3>1, <3>2
  <2> QED
    BY <2>5, <2>7, <2>8
<1> QED
  BY <1>1, InitIInv, NextIInv, PTL DEF Spec

\* A finished graph is what the source says: its nodes are the files walked and
\* built, its edges the imports written, each with the kinds it was written in,
\* whatever the order in which packages and files were read.
THEOREM GraphsAreWhatTheSourceSays == Spec => []GraphIsWhatTheSourceSays
<1> QED
  BY InitIInv, NextIInv, InitAccounted, NextAccounted, FinishedGraphsSayWhatIsWritten, PTL DEF Spec

=============================================================================
