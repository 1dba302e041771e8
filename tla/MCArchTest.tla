------------------------------ MODULE MCArchTest -------------------------------
(* Two rules, in parallel tests that share a log file, a writer, or both, or *)
(* in one suite; one of them may be nil, and a suite may have no rules.      *)
EXTENDS ArchTest

Bag(level, writer, file, overwrite) ==
  [level |-> level, writer |-> writer, file |-> file, overwrite |-> overwrite]

\* The default threshold into both destinations, and failures alone into a
\* file started fresh.
Mixed == {Bag(0, TRUE, TRUE, FALSE), Bag(2, FALSE, TRUE, TRUE)}
Fresh == {Bag(0, FALSE, TRUE, TRUE)}

\* One rule has something of its own to log.
OneNote == [c \in Check |-> IF c = 1 THEN 1 ELSE 0]
NoNotes == [c \in Check |-> 0]

Plan(alone, suite, missing) == [alone |-> alone, suite |-> suite, missing |-> missing]
MCPlans ==
  {Plan({1, 2}, NotCalled, {}), Plan({}, {}, {}), Plan({}, {1, 2}, {}), Plan({}, {1, 2}, {1})}

TwoTests == {Plan({1, 2}, NotCalled, {})}
================================================================================
