----------------------------- MODULE MCFilesRules -----------------------------
(***************************************************************************)
(* Three files and two external modules.  "left" and "right" overlap, so   *)
(* that narrowing, widening and excepting differ; "broken" does not        *)
(* compile.  One graph has a circuit through all files and two shorter     *)
(* ones, one within each pattern: a report holds two, so that that of all  *)
(* files is cut off and that of a pattern is not.  The other graph has a   *)
(* single file, which only "right" describes.                              *)
(***************************************************************************)
EXTENDS FilesRules

CONSTANTS
  MaxMistakes,  \* bound: the mistakes in one chain
  MaxBranches,  \* bound: the stages that are not chained onto the newest one
  BranchCost    \* bound: how many stages less there are for each of them

MCPattern == {"left", "right", "broken"}
MCDescribes == [left |-> {1, 2, 8}, right |-> {2, 3, 9}]
MCExceptions == {{}, {"right"}, {"right", "broken"}}

Dependency(source, target) == [source |-> source, target |-> target, external |-> target \in Module]
MCGraph ==
  {[files |-> {1, 2, 3},
    edges |-> {Dependency(1, 2), Dependency(2, 1), Dependency(2, 3), Dependency(3, 2), Dependency(3, 1),
               Dependency(1, 8), Dependency(1, 9), Dependency(3, 9)}],
   [files |-> {3}, edges |-> {Dependency(3, 8)}]}

Branches(chain) ==
  {k \in 2 .. Len(chain) : ~IsPrefix(chain[k - 1].said, chain[k].said)}
MCNext ==
  /\ Next
  /\ LET newest == Last(stages')
         branches == Cardinality(Branches(stages'))
     IN  /\ Cardinality(Mistakes(newest.said)) <= MaxMistakes
         /\ branches <= MaxBranches
         /\ Len(stages') + BranchCost * branches <= MaxStages
MCSpec == Init /\ [][MCNext]_vars

=============================================================================
