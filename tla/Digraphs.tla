------------------------------- MODULE Digraphs -------------------------------
(***************************************************************************)
(* Directed graphs of labels, and what the algorithms of                   *)
(* common/projection/cycles are about, defined the slow and obvious way.   *)
(* Labels are numbers, so that "sorted" has a meaning; a projection is a   *)
(* set of pairs, because (SourceLabel, TargetLabel) is unique in one.      *)
(***************************************************************************)
EXTENDS Integers, Sequences, FiniteSets, SequencesExt

Labels(edges) == {e[1] : e \in edges} \cup {e[2] : e \in edges}

\* adjacency: the successors of a label, its self-edge left out.
Targets(edges, label) == {e[2] : e \in {d \in edges : d[1] = label /\ d[2] # label}}

\* inducedSuccessors: the edges with both ends in a set of labels.
Induced(edges, labels) == {e \in edges : e[1] \in labels /\ e[2] \in labels}

-----------------------------------------------------------------------------
\* What can be reached from a label by following edges, the label included.
ReachedFrom(edges, label) ==
  LET within[k \in 0 .. Cardinality(Labels(edges))] ==
        IF k = 0 THEN {label}
        ELSE UNION {{l} \cup Targets(edges, l) : l \in within[k - 1]}
  IN  within[Cardinality(Labels(edges))]

\* The strongly connected component of a label among some labels.
StrongComponentOf(edges, labels, label) ==
  {other \in ReachedFrom(Induced(edges, labels), label) :
      label \in ReachedFrom(Induced(edges, labels), other)}

StrongComponents(edges) ==
  {StrongComponentOf(edges, Labels(edges), label) : label \in Labels(edges)}

\* The edges that are part of some cycle of two labels or more.
CyclicEdges(edges) ==
  {e \in edges : e[1] # e[2] /\ e[1] \in ReachedFrom(edges, e[2])}

-----------------------------------------------------------------------------
\* An elementary circuit, written from its least label: no label twice, each
\* label with an edge to the next, and the last one back to the first.
IsElementaryCircuit(edges, c) ==
  /\ Len(c) >= 2
  /\ IsInjective(c)
  /\ \A i \in 1 .. Len(c) : c[1] <= c[i]
  /\ \A i \in 1 .. Len(c) : <<c[i], c[(i % Len(c)) + 1]>> \in edges

\* All of them: the simple paths over labels greater than their first, kept
\* when an edge leads from the last label back to the first.
ElementaryCircuits(edges) ==
  LET paths[n \in 1 .. Cardinality(Labels(edges))] ==
        IF n = 1 THEN {<<label>> : label \in Labels(edges)}
        ELSE UNION {{Append(p, l) : l \in {t \in Targets(edges, Last(p)) :
                                            t > p[1] /\ t \notin Range(p)}} : p \in paths[n - 1]}
  IN  UNION {{p \in paths[n] : <<Last(p), p[1]>> \in edges} :
               n \in 2 .. Cardinality(Labels(edges))}

=============================================================================
