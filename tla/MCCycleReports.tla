---------------------------- MODULE MCCycleReports ----------------------------
(* Every projection of four labels, some of three labels with self-edges,    *)
(* and the projections of five labels that the tests of johnson_circuits.go  *)
(* single out, under every kind of limit.                                    *)
EXTENDS CycleReports

FourLabels == SUBSET {e \in (1 .. 4) \X (1 .. 4) : e[1] # e[2]}
SelfEdges == {s \cup {<<1, 1>>, <<3, 3>>} : s \in SUBSET {<<1, 2>>, <<2, 1>>, <<2, 3>>, <<3, 1>>}}

\* "a dead end inside a component", "a label blocked on twice", "two
\* independent cycles", "five labels in a ring with every shortcut back".
FiveLabels ==
  { {<<1, 2>>, <<2, 3>>, <<3, 1>>, <<2, 4>>, <<4, 2>>, <<4, 5>>, <<5, 4>>},
    {<<1, 3>>, <<2, 1>>, <<2, 4>>, <<3, 2>>, <<3, 5>>, <<4, 2>>, <<4, 3>>, <<5, 2>>},
    {<<1, 2>>, <<2, 1>>, <<1, 4>>, <<4, 5>>, <<5, 4>>},
    {<<1, 2>>, <<2, 3>>, <<3, 4>>, <<4, 5>>, <<5, 1>>,
     <<2, 1>>, <<3, 1>>, <<4, 1>>, <<5, 2>>, <<5, 3>>} }

MCProjections == FourLabels \cup SelfEdges \cup FiveLabels
MCLimits == {-1, 0, 1}
=============================================================================
