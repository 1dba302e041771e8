---------------------------- MODULE GraphSnapshot ----------------------------
(***************************************************************************)
(* The dependency-graph report: a chain of modifiers is stored and branched *)
(* from (src/graph/fluentapi), and its terminal reshapes the extracted      *)
(* graph into the snapshot that is rendered (src/graph/projection).         *)
(*                                                                          *)
(* Builders are values that share memory. A query holds four Go slices, and *)
(* copying a builder copies their headers only, so the heap is part of the  *)
(* state: an array has a capacity, and append writes in place while there   *)
(* is room. Nodes are paths, sequences of segments; a pattern is known by   *)
(* the nodes it describes, and one outside Describes does not compile.      *)
(***************************************************************************)
EXTENDS Integers, Sequences, FiniteSets, SequencesExt, Digraphs

CONSTANTS
  Graphs,       \* the extracted graphs: sets of [source, target, external, kinds]
  Describes,    \* the nodes each pattern that compiles describes
  Calls,        \* the calls with a pattern that a user may write: the verb, the
                \* pattern, the hops of a focus, the name of a group (<< >> for none)
  FolderDepth,  \* the folder depths a user may ask for, zero included
  Exceptions,   \* the sets of patterns a user may except
  MaxCalls      \* bound on the calls that make builders

VARIABLES
  graph,        \* what ExtractGraph returns
  heap,         \* the arrays behind the slices of the queries
  builders,     \* every builder the test holds; builders[1] is ProjectGraph(nil)
  answer        \* what the last Snapshot returned, none since the last call

\* A project has finitely many imports, and a call with a pattern is one of the
\* four that select or group.
ASSUME SnapshotAssumption ==
  /\ \A extracted \in Graphs : IsFiniteSet(extracted)
  /\ \A call \in Calls : call.verb \in {"focus", "from", "of", "groups"} /\ call.depth \in Int
  /\ FolderDepth \subseteq Int

snapshotVars == <<graph, heap, builders, answer>>

Lists == <<"focus", "from", "of", "groups">>
NoSlice == [array |-> 0, len |-> 0]
NoMistake == <<"none", "none">>
NoAnswer == [of |-> 0, error |-> NoMistake, nodes |-> {}, edges |-> {}]
Unused == [pattern |-> "unused", except |-> {}, depth |-> 0, label |-> << >>]
NoCall == [verb |-> "none", pattern |-> "none", except |-> {}, depth |-> 0, label |-> << >>]

-----------------------------------------------------------------------------
\* A Go slice: the part of an array that is in use.
Elements(h, slice) == IF slice.len = 0 THEN << >> ELSE SubSeq(h[slice.array], 1, slice.len)

\* append: in place while the array has room, otherwise into one twice as long.
Appended(h, slice, entry) ==
  IF slice.len > 0 /\ slice.len < Len(h[slice.array])
  THEN [heap |-> [h EXCEPT ![slice.array][slice.len + 1] = entry],
        slice |-> [slice EXCEPT !.len = @ + 1]]
  ELSE [heap |-> Append(h, Append(Elements(h, slice), entry) \o
                             [i \in 1 .. slice.len - 1 |-> Unused]),
        slice |-> [array |-> Len(h) + 1, len |-> slice.len + 1]]

\* Mutant of Modifying: the copy keeps the arrays it was copied from.
ModifyingShares(slices) == [heap |-> heap, slices |-> slices]

\* modifying and WithDefaults: the copy a modifier writes into owns its arrays.
Modifying(slices) ==
  [heap |-> heap \o [i \in 1 .. Len(Lists) |-> Elements(heap, slices[Lists[i]])],
   slices |-> [l \in Range(Lists) |->
                 IF slices[l].len = 0 THEN NoSlice
                 ELSE [array |-> Len(heap) + (CHOOSE i \in 1 .. Len(Lists) : Lists[i] = l),
                       len |-> slices[l].len]]]

\* rejecting: the first mistake wins, and the query is the one there was.
Rejecting(old, verb, cause) == IF old.err # NoMistake THEN old ELSE [old EXCEPT !.err = <<verb, cause>>]

\* A call on builder b hands back a new builder, and the test keeps both.
Stored(new, call) ==
  /\ Len(builders) <= MaxCalls
  /\ builders' = Append(builders, [new EXCEPT !.said = Append(@, call)])
  /\ answer' = NoAnswer
  /\ UNCHANGED graph

-----------------------------------------------------------------------------
\* FocusOn, ReachableFrom, DependentsOf and CollapseByPattern.
Selecting(b, call) ==
  LET old == builders[b]
      own == Modifying(old.slices)
      grown == Appended(own.heap, own.slices[call.verb],
                        [pattern |-> call.pattern, except |-> {}, depth |-> call.depth, label |-> call.label])
  IN  /\ call.pattern \in DOMAIN Describes
      /\ call.verb = "groups" => call.label # << >>
      /\ Stored([old EXCEPT !.slices = [own.slices EXCEPT ![call.verb] = grown.slice],
                            !.qualified = call.verb], call)
      /\ heap' = grown.heap

SelectingRejected(b, call) ==
  LET unnamed == call.verb = "groups" /\ call.label = << >>
  IN  /\ unnamed \/ call.pattern \notin DOMAIN Describes
      /\ Stored(Rejecting(builders[b], call.verb, IF unnamed THEN "unnamed" ELSE "syntax"), call)
      /\ UNCHANGED heap

\* Except, written over the last entry of the list the chain wrote last.
ExceptCall(patterns) == [NoCall EXCEPT !.verb = "except", !.except = patterns]

Except(b, patterns) ==
  LET old == builders[b]
      own == Modifying(old.slices)
      last == own.slices[old.qualified]
  IN  /\ old.qualified # "none" /\ patterns # {} /\ patterns \subseteq DOMAIN Describes
      /\ Stored([old EXCEPT !.slices = own.slices], ExceptCall(patterns))
      /\ heap' = [own.heap EXCEPT ![last.array][last.len].except = @ \cup patterns]

ExceptRejected(b, patterns) ==
  LET old == builders[b]
      cause == IF old.qualified = "none" THEN "without a selector"
               ELSE IF patterns = {} THEN "without a pattern" ELSE "syntax"
  IN  /\ old.qualified = "none" \/ patterns = {} \/ ~(patterns \subseteq DOMAIN Describes)
      /\ Stored(Rejecting(old, "except", cause), ExceptCall(patterns))
      /\ UNCHANGED heap

\* IncludingExternalDependencies and IncludingSelfDependencies.
Switch(b, field) ==
  LET own == Modifying(builders[b].slices)
  IN  /\ Stored([builders[b] EXCEPT !.slices = own.slices, ![field] = TRUE], [NoCall EXCEPT !.verb = field])
      /\ heap' = own.heap

\* WithCheckOptions: the last bag is kept, so a later one may take the allowance back.
BagCall(allowed) == [NoCall EXCEPT !.verb = IF allowed THEN "allowEmpty" ELSE "refuseEmpty"]

WithCheckOptions(b, allowed) ==
  LET own == Modifying(builders[b].slices)
  IN  /\ Stored([builders[b] EXCEPT !.slices = own.slices, !.allowEmpty = allowed], BagCall(allowed))
      /\ heap' = own.heap

CollapseToFolderDepth(b, depth) ==
  LET own == Modifying(builders[b].slices)
      call == [NoCall EXCEPT !.verb = "folder", !.depth = depth]
  IN  \/ /\ depth >= 1
         /\ Stored([builders[b] EXCEPT !.slices = own.slices, !.folder = depth], call)
         /\ heap' = own.heap
      \/ /\ depth < 1
         /\ Stored(Rejecting(builders[b], "folder", "depth"), call)
         /\ UNCHANGED heap

-----------------------------------------------------------------------------
\* ProjectSnapshot, over the query as it is read from the heap.
Nodes == {e.source : e \in graph} \cup {e.target : e \in graph}

ExternalNodes == {e.target : e \in {d \in graph : d.external}}

Universe(query) == IF query.external THEN Nodes ELSE Nodes \ ExternalNodes

KeptDependencies(query) == {e \in graph : e.source # e.target /\ (e.external => query.external)}

\* Filter.Matches: an exclusion vetoes.
Selected(entry, nodes) ==
  {n \in nodes : n \in Describes[entry.pattern] /\ \A p \in entry.except : n \notin Describes[p]}

\* adjacency, one way or both.
Links(dependencies, towards) ==
  (IF towards # "backward" THEN {<<e.source, e.target>> : e \in dependencies} ELSE {}) \cup
  (IF towards # "forward" THEN {<<e.target, e.source>> : e \in dependencies} ELSE {})

Unlimited == -1

\* Mutant of Reach: the depth is compared after the hop it should have stopped.
ReachOneMore(seeds, links, depth) ==
  LET hop[h \in 0 .. Cardinality(Nodes)] ==
        IF h = 0 THEN seeds
        ELSE LET last == hop[h - 1]
             IN  last \cup {n \in Nodes : (depth < 0 \/ h <= depth + 1) /\ \E m \in last : <<m, n>> \in links}
  IN  hop[Cardinality(Nodes)]

\* reach: breadth first, the reached nodes doubling as the visited ones, a
\* negative depth for no bound. Hop h is after h turns of the loop.
Reach(seeds, links, depth) ==
  LET hop[h \in 0 .. Cardinality(Nodes)] ==
        IF h = 0 THEN [reached |-> seeds, frontier |-> seeds]
        ELSE LET last == hop[h - 1]
             IN  IF last.frontier = {} \/ (depth >= 0 /\ h - 1 >= depth) THEN last
                 ELSE [reached |-> last.reached \cup {n \in Nodes : \E m \in last.frontier : <<m, n>> \in links},
                       frontier |-> {n \in Nodes \ last.reached : \E m \in last.frontier : <<m, n>> \in links}]
  IN  hop[Cardinality(Nodes)].reached

\* Focus.hops: a mistyped depth narrows a report.
Hops(depth) == IF depth < 0 THEN 0 ELSE depth

\* keptNodes: each option against the whole universe, the results intersected.
Reached(query, list, entry) ==
  LET links(towards) == Links(KeptDependencies(query), towards)
      seeds == Selected(entry, Universe(query))
  IN  CASE list = "focus" -> Reach(seeds, links("both"), Hops(entry.depth))
        [] list = "from" -> Reach(seeds, links("forward"), Unlimited)
        [] list = "of" -> Reach(seeds, links("backward"), Unlimited)

KeptNodes(query) ==
  {n \in Universe(query) :
     \A list \in {"focus", "from", "of"} : \A i \in 1 .. Len(query.lists[list]) :
       n \in Reached(query, list, query.lists[list][i])}

\* folderAtDepth, with path.Dir: a file at the root lives in ".".
FolderAtDepth(node, depth) ==
  LET folder == IF Len(node) = 1 THEN <<".">> ELSE Front(node)
  IN  IF Len(folder) <= depth THEN folder ELSE SubSeq(folder, 1, depth)

\* labeling: the first group that matches, then the folder, then the node itself.
Label(query, node) ==
  LET groups == query.lists["groups"]
      matching == {i \in 1 .. Len(groups) : node \in Selected(groups[i], {node})}
  IN  IF matching # {} THEN groups[CHOOSE i \in matching : \A j \in matching : i <= j].label
      ELSE IF query.folder > 0 /\ node \notin ExternalNodes THEN FolderAtDepth(node, query.folder)
      ELSE node

\* snapshotNodes: external only when everything behind the label is.
SnapshotNodes(query) ==
  LET kept == KeptNodes(query)
  IN  {[label |-> l, external |-> \A n \in kept : Label(query, n) = l => n \in ExternalNodes] :
         l \in {Label(query, n) : n \in kept}}

\* snapshotEdges and NewEdge.
Collected(query) ==
  LET kept == KeptNodes(query)
  IN  {e \in KeptDependencies(query) : e.source \in kept /\ e.target \in kept}

SnapshotEdges(query) ==
  LET collected == Collected(query)
      behind(pair) == {e \in collected : <<Label(query, e.source), Label(query, e.target)>> = pair}
      pairs == {<<Label(query, e.source), Label(query, e.target)>> : e \in collected}
  IN  {[source |-> p[1], target |-> p[2], count |-> Cardinality(behind(p)),
        external |-> \E e \in behind(p) : e.external,
        kinds |-> UNION {e.kinds : e \in behind(p)}] : p \in {q \in pairs : query.self \/ q[1] # q[2]}}

\* newSummary: the dependencies behind all the arrows.
SumCounts(edges) == SumFunction([e \in edges |-> e.count])

\* Snapshot: the mistake first, the empty report next to last.
Query(b) ==
  [lists |-> [l \in Range(Lists) |-> Elements(heap, builders[b].slices[l])],
   external |-> builders[b].external, self |-> builders[b].self, folder |-> builders[b].folder]

Snapshot(b) ==
  LET nodes == SnapshotNodes(Query(b))
  IN  /\ answer = NoAnswer
      /\ answer' = IF builders[b].err # NoMistake THEN [NoAnswer EXCEPT !.of = b, !.error = builders[b].err]
                   ELSE IF nodes = {} /\ ~builders[b].allowEmpty
                   THEN [NoAnswer EXCEPT !.of = b, !.error = <<"snapshot", "empty">>]
                   ELSE [of |-> b, error |-> NoMistake, nodes |-> nodes, edges |-> SnapshotEdges(Query(b))]
      /\ UNCHANGED <<graph, heap, builders>>

\* The project is not found or its listing fails, which is asked about only of a
\* chain without a mistake.
SnapshotFails(b) ==
  /\ answer = NoAnswer
  /\ builders[b].err = NoMistake
  /\ answer' = [NoAnswer EXCEPT !.of = b, !.error = <<"project", "unread">>]
  /\ UNCHANGED <<graph, heap, builders>>

-----------------------------------------------------------------------------
ProjectGraph ==
  [slices |-> [l \in Range(Lists) |-> NoSlice], qualified |-> "none", err |-> NoMistake,
   external |-> FALSE, self |-> FALSE, folder |-> 0, allowEmpty |-> FALSE, said |-> << >>]

SnapshotInit ==
  /\ graph \in Graphs
  /\ heap = << >>
  /\ builders = <<ProjectGraph>>
  /\ answer = NoAnswer

SnapshotNext ==
  \E b \in DOMAIN builders :
    \/ \E call \in Calls : Selecting(b, call) \/ SelectingRejected(b, call)
    \/ \E patterns \in Exceptions : Except(b, patterns) \/ ExceptRejected(b, patterns)
    \/ \E field \in {"external", "self"} : Switch(b, field)
    \/ \E allowed \in BOOLEAN : WithCheckOptions(b, allowed)
    \/ \E depth \in FolderDepth : CollapseToFolderDepth(b, depth)
    \/ Snapshot(b) \/ SnapshotFails(b)

SnapshotSpec == SnapshotInit /\ [][SnapshotNext]_snapshotVars

-----------------------------------------------------------------------------
\* What a chain of calls says, read off the calls and not off the builder.
Qualifies(said, j, i) ==
  /\ j > i /\ said[j].verb = "except"
  /\ \A k \in i + 1 .. j : said[k].verb \notin Range(Lists)

Entry(said, i) ==
  [pattern |-> said[i].pattern, depth |-> said[i].depth, label |-> said[i].label,
   except |-> UNION {said[j].except : j \in {j \in DOMAIN said : Qualifies(said, j, i)}}]

Written(said, list) ==
  LET upTo[k \in 0 .. Len(said)] ==
        IF k = 0 THEN << >>
        ELSE IF said[k].verb = list THEN Append(upTo[k - 1], Entry(said, k)) ELSE upTo[k - 1]
  IN  upTo[Len(said)]

Said(said, verb) == \E i \in DOMAIN said : said[i].verb = verb

\* The last bag a chain was given allows an empty report.
AllowsEmpty(said) ==
  \E i \in DOMAIN said :
    said[i].verb = "allowEmpty" /\ \A j \in i + 1 .. Len(said) : said[j].verb # "refuseEmpty"

Newest(said, verb) ==
  CHOOSE i \in DOMAIN said : said[i].verb = verb /\ \A j \in i + 1 .. Len(said) : said[j].verb # verb

Asked(said) ==
  [lists |-> [l \in Range(Lists) |-> Written(said, l)],
   external |-> Said(said, "external"), self |-> Said(said, "self"),
   folder |-> IF Said(said, "folder") THEN said[Newest(said, "folder")].depth ELSE 0]

Mistake(said, i) ==
  LET call == said[i]
  IN  \/ call.verb \in Range(Lists) /\ call.pattern \notin DOMAIN Describes
      \/ call.verb = "groups" /\ call.label = << >>
      \/ call.verb = "folder" /\ call.depth < 1
      \/ /\ call.verb = "except"
         /\ \/ call.except = {} \/ ~(call.except \subseteq DOMAIN Describes)
            \/ \A j \in 1 .. i - 1 : said[j].verb \notin Range(Lists)

\* Every builder the test holds means the chain that made it, whatever was
\* chained onto it or beside it since: an except or a second focus said to one
\* branch never reaches the query of another (GraphBuilder.modifying). What a
\* chain got wrong is its first mistake.
EveryBuilderMeansItsChain ==
  \A b \in DOMAIN builders :
    LET said == builders[b].said
        wrong == {i \in DOMAIN said : Mistake(said, i)}
    IN  IF wrong = {} THEN builders[b].err = NoMistake /\ Query(b) = Asked(said)
        ELSE builders[b].err[1] = said[CHOOSE i \in wrong : \A j \in wrong : i <= j].verb

\* A walk of at most n steps along some links, from one node to another.
Walk(links, from, to, n) ==
  \E k \in 0 .. n : \E w \in [0 .. k -> Nodes] :
    w[0] = from /\ w[k] = to /\ \A i \in 1 .. k : <<w[i - 1], w[i]>> \in links

\* The nodes a chain asks for. Unbounded reach is defined by Digraphs, and a
\* focus by the walks that are no longer than it says.
Wanted(said, query, node) ==
  LET forward == Links(KeptDependencies(query), "forward")
      seeds(entry) == Selected(entry, Universe(query))
      all(list) == Range(query.lists[list])
  IN  /\ \A entry \in all("from") : \E s \in seeds(entry) : node \in ReachedFrom(forward \cup {<<s, s>>}, s)
      /\ \A entry \in all("of") : seeds(entry) \cap ReachedFrom(forward \cup {<<node, node>>}, node) # {}
      /\ \A entry \in all("focus") :
           \E s \in seeds(entry) : Walk(Links(KeptDependencies(query), "both"), s, node, Hops(entry.depth))

\* A snapshot holds the nodes its chain asks for and no others; every dependency
\* between two of them stands behind exactly one arrow, which counts it, or runs
\* inside one box; no arrow leads off the diagram; and an empty report is an
\* error unless the last bag of the chain allows it (ProjectSnapshot, Snapshot,
\* WithCheckOptions).
SnapshotIsTheQuery ==
  (answer.of # 0 /\ answer.error[1] \in {"none", "snapshot"}) =>
    LET said == builders[answer.of].said
        query == Asked(said)
        wanted == {n \in Universe(query) : Wanted(said, query, n)}
        between == {e \in KeptDependencies(query) : e.source \in wanted /\ e.target \in wanted}
        inside == {e \in between : Label(query, e.source) = Label(query, e.target)}
        labels == {n.label : n \in answer.nodes}
    IN  IF answer.error # NoMistake THEN wanted = {} /\ ~AllowsEmpty(said)
        ELSE /\ wanted = {} => AllowsEmpty(said)
             /\ labels = {Label(query, n) : n \in wanted}
             /\ Cardinality(answer.nodes) = Cardinality(labels)
             /\ \A n \in answer.nodes : n.external <=> {m \in wanted \ ExternalNodes : Label(query, m) = n.label} = {}
             /\ \A e \in answer.edges : {e.source, e.target} \subseteq labels
             /\ SumCounts(answer.edges) = Cardinality(IF query.self THEN between ELSE between \ inside)
             /\ \A e \in between : \/ e \in inside /\ ~query.self
                                   \/ \E a \in answer.edges : /\ a.source = Label(query, e.source)
                                                              /\ a.target = Label(query, e.target)
                                                              /\ e.external => a.external
                                                              /\ e.kinds \subseteq a.kinds
=============================================================================
