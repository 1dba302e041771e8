------------------------------- MODULE ArchTest --------------------------------
(***************************************************************************)
(* archtest: AssertPasses asserts one rule in a test of its own, and       *)
(* AssertAllPass a suite of them, each in a subtest, in the order of their *)
(* names.  Tests may run in parallel, so the checks underneath are those   *)
(* of LoggedCheck; a name is known by its place in that order.  What a     *)
(* report says is its kind, how many violations it lists and how many it   *)
(* says it leaves out.                                                     *)
(***************************************************************************)
EXTENDS LoggedCheck

CONSTANTS
  Plans,       \* how the rules are asserted: [alone, suite, missing]
  LimitListed  \* MessageOptions.MaxViolations: how many violations a report lists

NotCalled == {0}
ASSUME ArchTestAssumption ==
  /\ Check \subseteq Nat \ {0} /\ LimitListed \in Int
  /\ \A p \in Plans : /\ p.alone \subseteq Check /\ p.missing \subseteq Check
                      /\ p.suite = NotCalled \/ p.suite \subseteq Check \ p.alone

VARIABLES
  plan,        \* the rules asserted alone, the suite, and the rules that are nil
  test,        \* what came of each test: "waiting", "checking", "passed" or "failed"
  report,      \* what each failed test reported
  suiteReport  \* what AssertAllPass reported itself

testing == <<plan, test, report, suiteReport>>
archVars == <<vars, testing>>

NoReport == [kind |-> "none"]
Complaint(what) == [kind |-> what]
Listing(listed, left) == [kind |-> "violations", listed |-> listed, left |-> left]

ArchInit ==
  /\ Init
  /\ plan \in Plans
  /\ test = [c \in Check |-> "waiting"]
  /\ report = [c \in Check |-> NoReport]
  /\ suiteReport = NoReport

\* A suite with no rules in it is one failure.
AssertNoRules ==
  /\ plan.suite = {} /\ suiteReport = NoReport
  /\ suiteReport' = Complaint("no rules")
  /\ UNCHANGED <<vars, plan, test, report>>

\* AssertAllPass: t.Run returns when its subtest is over, and the whole suite
\* shares one bag of options.
Turn(c) ==
  \/ c \in plan.alone
  \/ c \in plan.suite /\ \A d \in plan.suite : d < c => test[d] \in {"passed", "failed"}
SuiteBag(c, bag) ==
  c \in plan.suite => \A d \in plan.suite : options[d] \in {NoBag, bag}

\* AssertPasses: a nil rule is reported without a check.
AssertPasses(c, bag) ==
  /\ test[c] = "waiting" /\ Turn(c)
  /\ SuiteBag(c, bag)
  /\ IF c \in plan.missing
     THEN /\ report' = [report EXCEPT ![c] = Complaint("nil rule")]
          /\ test' = [test EXCEPT ![c] = "failed"]
          /\ UNCHANGED vars
     ELSE /\ Begin(c, bag)
          /\ test' = [test EXCEPT ![c] = "checking"]
          /\ UNCHANGED report
  /\ UNCHANGED <<plan, suiteReport>>

\* ResultFactory.listed: a limit of nought or less is none.
Listed(count) == IF LimitListed <= 0 \/ LimitListed >= count THEN count ELSE LimitListed

\* Mutant of Reported: the violations are looked at although there is an error.
ReportedAnyway(came) ==
  IF came.kind = "violations" /\ came.count > 0 THEN Listing(Listed(came.count), came.count - Listed(came.count))
  ELSE NoReport

\* What a test reports of what its check came back with.
Reported(came) ==
  IF came.kind = "error" THEN Complaint("check failed")
  ELSE IF came.count = 0 THEN NoReport
  ELSE Listing(Listed(came.count), came.count - Listed(came.count))

Report(c) ==
  /\ test[c] = "checking" /\ pc[c] = "returned"
  /\ report' = [report EXCEPT ![c] = Reported(result[c])]
  /\ test' = [test EXCEPT ![c] = IF Reported(result[c]) = NoReport THEN "passed" ELSE "failed"]
  /\ UNCHANGED <<vars, plan, suiteReport>>

ArchStep(c) == (Advance(c) /\ UNCHANGED testing) \/ Report(c)

ArchNext ==
  \/ AssertNoRules
  \/ \E c \in Check : ArchStep(c) \/ \E bag \in Options : AssertPasses(c, bag)

\* A test is synchronous code, and a test that was written is run.
ArchSpec ==
  /\ ArchInit /\ [][ArchNext]_archVars
  /\ \A c \in Check : /\ WF_archVars(ArchStep(c))
                      /\ WF_archVars(\E bag \in Options : AssertPasses(c, bag))

-----------------------------------------------------------------------------
\* A test passes only if its rule was there, was checked, and held; any other
\* says why, and a report that lists fewer violations than there are says how
\* many it leaves out ("a truncated report can never be mistaken for a complete
\* one").  A suite asserts its rules one at a time.
EveryFailureReachesTheTest ==
  /\ \A c \in Check : test[c] = "passed" =>
       c \notin plan.missing /\ outcome[c] = 0 /\ logError[c] = NoError /\ result[c].kind = "violations"
  /\ \A c \in Check : test[c] = "failed" =>
       CASE c \in plan.missing -> report[c].kind = "nil rule"
         [] c \notin plan.missing /\ result[c].kind = "error" -> report[c].kind = "check failed"
         [] c \notin plan.missing /\ result[c].kind # "error" ->
              report[c].listed > 0 /\ report[c].listed + report[c].left = outcome[c]
  /\ \A c, d \in plan.suite \cap Check : c # d => test[c] # "checking" \/ test[d] # "checking"

\* Every rule that a test names is passed or failed in the end: a suite does not
\* stop at a rule that broke, that is nil, or whose check failed.
EveryRuleIsAsserted ==
  \A c \in Check : c \in plan.alone \cup plan.suite ~> test[c] \in {"passed", "failed"}
=============================================================================
