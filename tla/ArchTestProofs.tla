---------------------------- MODULE ArchTestProofs -----------------------------
(***************************************************************************)
(* Proofs about ArchTest and the logged checks under it, for any number of *)
(* checks, any plan, any bags of options and any number of refused         *)
(* operations: what a check comes back with, what its log must admit, and  *)
(* what the test that asserts it reports.                                  *)
(***************************************************************************)
EXTENDS ArchTest, FiniteSetTheorems, SequenceTheorems, TLAPS

Cause == Word \cup {NoError, "open", "rule", "close"}
Came == [kind : {"violations"}, count : Outcome] \cup [kind : {"error"}, cause : Cause]
Result == {NoResult} \cup Came
Said ==
  {NoReport} \cup {Complaint("nil rule"), Complaint("check failed")}
  \cup [kind : {"violations"}, listed : Int, left : Int]
Over == {"passed", "failed"}

\* What every variable holds, as far as the rest depends on it.
Typed ==
  /\ logFile \in Seq(Line)
  /\ pc \in [Check -> Running \cup {"idle", "returned"}]
  /\ logError \in [Check -> Cause]
  /\ outcome \in [Check -> Outcome]
  /\ result \in [Check -> Result]
  /\ plan \in Plans
  /\ test \in [Check -> {"waiting", "checking"} \cup Over]
  /\ report \in [Check -> Said]

\* A check has no result before it is over, a rule comes to nothing before it is
\* run, and what a check comes back with is that its log would not open, or its
\* rule's outcome and the first failure of its log taken together.
Answer(c) ==
  /\ pc[c] # "returned" => result[c] = NoResult
  /\ pc[c] \in {"idle", "open", "start", "rule"} => outcome[c] = 0
  /\ pc[c] \in {"idle", "open", "returned"} => logError[c] = NoError
  /\ pc[c] = "returned" =>
       \/ result[c] = Error("open") /\ outcome[c] = 0
       \/ \E failure \in Cause : result[c] = Verdict(c, failure)

\* A test that is not over has no check that is, and one that is over reports
\* what the check came back with, or that there was no rule to check.
Reports(c) ==
  /\ test[c] = "waiting" => pc[c] = "idle"
  /\ test[c] \in {"checking", "passed"} => c \notin plan.missing
  /\ test[c] \in Over /\ c \notin plan.missing =>
       /\ pc[c] = "returned"
       /\ report[c] = Reported(result[c])
       /\ test[c] = IF Reported(result[c]) = NoReport THEN "passed" ELSE "failed"
  /\ test[c] \in Over /\ c \in plan.missing => report[c] = Complaint("nil rule")

\* A suite reaches a rule when those before it are over.
InTurn ==
  \A c, d \in plan.suite \cap Check : d < c /\ test[c] # "waiting" => test[d] \in Over

IInv ==
  /\ Typed
  /\ \A c \in Check : Answer(c)
  /\ \A c \in Check : Reports(c)
  /\ TornLinesAreReported
  /\ InTurn

-----------------------------------------------------------------------------
LEMMA InitIInv == ArchInit => IInv
<1> SUFFICES ASSUME ArchInit PROVE IInv
  OBVIOUS
<1>1. 0 \in Outcome
  BY BoundsType DEF Outcome, Failed
<1>2. Typed
  BY <1>1 DEF ArchInit, Init, Typed, Running, Cause, Result, Said, Over
<1>3. \A c \in Check : Answer(c) /\ Reports(c)
  BY DEF ArchInit, Init, Answer, Reports, Over
<1>4. TornLinesAreReported
  BY DEF ArchInit, Init, TornLinesAreReported
<1>5. InTurn
  BY DEF ArchInit, InTurn
<1> QED
  BY <1>2, <1>3, <1>4, <1>5 DEF IInv

-----------------------------------------------------------------------------
LEMMA AppendWorks ==
  ASSUME NEW S, NEW seq \in Seq(S), NEW e \in S
  PROVE  /\ Append(seq, e) \in Seq(S)
         /\ DOMAIN Append(seq, e) = DOMAIN seq \cup {Len(seq) + 1}
         /\ Append(seq, e)[Len(seq) + 1] = e
         /\ \A i \in DOMAIN seq : Append(seq, e)[i] = seq[i]
OBVIOUS

\* A record that is cut short, or not written at all, is remembered by the check
\* that wrote it, and by that check alone.
Admits(c) ==
  /\ logFile' \in Seq(Line)
  /\ logError' \in [Check -> Cause]
  /\ \A d \in Check : logError[d] # NoError => logError'[d] # NoError
  /\ \A d \in Check \ {c} : logError'[d] = logError[d]
  /\ \A i \in DOMAIN logFile' :
       \/ i \in DOMAIN logFile /\ logFile'[i] = logFile[i]
       \/ logFile'[i].whole
       \/ logFile'[i].by = c /\ logError'[c] # NoError

LEMMA RecordAdmits ==
  ASSUME Typed, NEW c \in Check, NEW level, NEW word \in Word, Record(c, level, word)
  PROVE  Admits(c)
<1> DEFINE line(whole) == [by |-> c, word |-> word, whole |-> whole]
<1>1. /\ logFile \in Seq(Line) /\ logError \in [Check -> Cause]
      /\ line(TRUE) \in Line /\ line(FALSE) \in Line
  BY DEF Typed, Line
<1>2. word # NoError /\ word \in Cause
  BY DEF Word, NoError, Cause
<1>3. CASE UNCHANGED <<logFile, logError>>
  BY <1>1, <1>3 DEF Admits
<1>4. CASE logFile' = Append(logFile, line(TRUE)) /\ UNCHANGED logError
  <2>1. /\ logFile' \in Seq(Line)
        /\ DOMAIN logFile' = DOMAIN logFile \cup {Len(logFile) + 1}
        /\ logFile'[Len(logFile) + 1] = line(TRUE)
        /\ \A i \in DOMAIN logFile : logFile'[i] = logFile[i]
    BY <1>1, <1>4, AppendWorks
  <2> QED
    BY <1>1, <1>4, <2>1 DEF Admits
<1>5. CASE /\ logFile' \in {logFile, Append(logFile, line(FALSE))}
           /\ Remember(c, word)
  <2>1. /\ logError' \in [Check -> Cause]
        /\ \A d \in Check \ {c} : logError'[d] = logError[d]
        /\ logError'[c] # NoError
    BY <1>1, <1>2, <1>5 DEF Remember
  <2>2. CASE logFile' = logFile
    BY <1>1, <2>1, <2>2 DEF Admits
  <2>3. CASE logFile' = Append(logFile, line(FALSE))
    <3>1. /\ logFile' \in Seq(Line)
          /\ DOMAIN logFile' = DOMAIN logFile \cup {Len(logFile) + 1}
          /\ logFile'[Len(logFile) + 1] = line(FALSE)
          /\ \A i \in DOMAIN logFile : logFile'[i] = logFile[i]
      BY <1>1, <2>3, AppendWorks
    <3> QED
      BY <1>1, <2>1, <3>1 DEF Admits
  <2> QED
    BY <1>5, <2>2, <2>3
<1> QED
  BY <1>3, <1>4, <1>5
  DEF Record, WrittenEverywhere, RefusedByWriter, RefusedByFile, Taken

\* A step that only writes a record breaks nothing: the check it is of is not over.
Writes(c) ==
  /\ Admits(c)
  /\ \E step \in {"rule", "violations", "end", "close"} : Goto(c, step)
  /\ UNCHANGED <<outcome, result, testing>>

LEMMA WritingKeeps ==
  ASSUME IInv, NEW c \in Check, Writes(c),
         pc[c] \in Running \ {"open"}, outcome[c] = 0 \/ pc'[c] # "rule"
  PROVE  IInv'
<1>1. PICK step \in {"rule", "violations", "end", "close"} : pc' = [pc EXCEPT ![c] = step]
  BY DEF Writes, Goto
<1>2. Typed'
  BY <1>1 DEF IInv, Typed, Writes, Admits, Running, testing
<1>3. ASSUME NEW d \in Check PROVE Answer(d)'
  BY <1>1, <1>3 DEF IInv, Typed, Answer, Writes, Admits, Running, Verdict
<1>4. ASSUME NEW d \in Check PROVE Reports(d)'
  BY <1>1, <1>4 DEF IInv, Typed, Reports, Writes, Running, testing, Over
<1>5. TornLinesAreReported'
  <2>1. \A i \in DOMAIN logFile : logFile[i] \in Line
    BY DEF IInv, Typed
  <2>2. \A i \in DOMAIN logFile : logFile[i].by \in Check
    BY <2>1 DEF Line
  <2> QED
    BY <2>2 DEF IInv, TornLinesAreReported, Writes, Admits
<1>6. InTurn'
  BY DEF IInv, InTurn, Writes, testing
<1> QED
  BY <1>2, <1>3, <1>4, <1>5, <1>6 DEF IInv

LEMMA RecordingStep ==
  ASSUME IInv, NEW c \in Check, UNCHANGED testing,
         StartCheck(c) \/ LogProgress(c) \/ LogMetric(c) \/ LogViolation(c) \/ EndCheck(c)
  PROVE  IInv'
<1> USE DEF Word
<1>0. Typed /\ pc \in [Check -> Running \cup {"idle", "returned"}] /\ Answer(c)
  BY DEF IInv, Typed
<1>1. CASE StartCheck(c)
  <2>1. Writes(c) /\ pc[c] = "start"
    BY <1>0, <1>1, RecordAdmits DEF StartCheck, Writes, own
  <2> QED
    BY <1>0, <2>1, WritingKeeps DEF Answer, Running
<1>2. ASSUME NEW level, NEW word \in Word, Note(c, level, word) PROVE IInv'
  <2>1. Goto(c, "rule")
    BY <1>0, <1>2 DEF Note, Goto
  <2>2. Writes(c) /\ pc[c] = "rule"
    BY <1>0, <1>2, <2>1, RecordAdmits DEF Note, Writes
  <2> QED
    BY <1>0, <2>2, WritingKeeps DEF Answer, Running
<1>3. CASE LogViolation(c)
  <2>1. Writes(c) /\ pc[c] = "violations" /\ pc'[c] # "rule"
    BY <1>0, <1>3, RecordAdmits DEF LogViolation, Writes, Goto
  <2> QED
    BY <2>1, WritingKeeps DEF Running
<1>4. CASE EndCheck(c)
  <2>1. Writes(c) /\ pc[c] = "end" /\ pc'[c] # "rule"
    BY <1>0, <1>4, RecordAdmits DEF EndCheck, Writes, Goto, own
  <2> QED
    BY <2>1, WritingKeeps DEF Running
<1> QED
  BY <1>1, <1>2, <1>3, <1>4 DEF LogProgress, LogMetric

-----------------------------------------------------------------------------
LEMMA OpenLogStep ==
  ASSUME IInv, NEW c \in Check, OpenLog(c), UNCHANGED testing
  PROVE  IInv'
<1>1. Typed /\ pc' = [pc EXCEPT ![c] = "start"] /\ pc[c] = "open"
  BY DEF IInv, OpenLog, Goto
<1>2. logFile' = << >> \/ logFile' = logFile
  BY DEF OpenLog
<1>3. Typed'
  <2>1. logFile' \in Seq(Line)
    <3>1. << >> \in Seq(Line)
      OBVIOUS
    <3> QED
      BY <1>1, <1>2, <3>1 DEF Typed
  <2>2. pc' \in [Check -> Running \cup {"idle", "returned"}]
    BY <1>1 DEF Typed, Running
  <2> QED
    BY <1>1, <2>1, <2>2 DEF Typed, OpenLog, own, testing
<1>4. ASSUME NEW d \in Check PROVE Answer(d)'
  BY <1>1, <1>4 DEF IInv, Typed, Answer, OpenLog, own, Verdict
<1>5. ASSUME NEW d \in Check PROVE Reports(d)'
  BY <1>1, <1>5 DEF IInv, Typed, Reports, OpenLog, testing, Over
<1>6. TornLinesAreReported'
  BY <1>2 DEF IInv, TornLinesAreReported, OpenLog
<1>7. InTurn'
  BY DEF IInv, InTurn, testing
<1> QED
  BY <1>3, <1>4, <1>5, <1>6, <1>7 DEF IInv

\* What a check comes back with is told to no test yet.
LEMMA RuleStep ==
  ASSUME IInv, NEW c \in Check, NEW came \in Outcome, RuleComesTo(c, came), UNCHANGED testing
  PROVE  IInv'
<1>1. /\ Typed /\ pc[c] = "rule"
      /\ outcome' = [outcome EXCEPT ![c] = came]
      /\ UNCHANGED <<logFile, logError, result, testing>>
  BY DEF IInv, RuleComesTo
<1>2. PICK step \in {"violations", "end"} : pc' = [pc EXCEPT ![c] = step]
  BY DEF RuleComesTo, Goto
<1>3. Typed'
  BY <1>1, <1>2 DEF Typed, testing, Running
<1>4. ASSUME NEW d \in Check PROVE Answer(d)'
  BY <1>1, <1>2, <1>4 DEF IInv, Typed, Answer, Verdict
<1>5. ASSUME NEW d \in Check PROVE Reports(d)'
  BY <1>1, <1>2, <1>5 DEF IInv, Typed, Reports, testing, Over
<1>6. TornLinesAreReported' /\ InTurn'
  BY <1>1 DEF IInv, TornLinesAreReported, InTurn, testing
<1> QED
  BY <1>3, <1>4, <1>5, <1>6 DEF IInv

-----------------------------------------------------------------------------
LEMMA VerdictIsResult ==
  ASSUME NEW c \in Check, outcome[c] \in Outcome, NEW failure \in Cause
  PROVE  /\ Verdict(c, failure) \in Result
         /\ failure # NoError => Verdict(c, failure).kind = "error"
BY DEF Verdict, Result, Came, Error, Violations, Cause

\* A check that ends with a result blames its log if a line of it was cut short.
LEMMA ReturningKeeps ==
  ASSUME IInv, NEW c \in Check, UNCHANGED testing,
         pc[c] \in Running, pc' = [pc EXCEPT ![c] = "returned"],
         NEW came \in Result, result' = [result EXCEPT ![c] = came],
         logError' = [logError EXCEPT ![c] = NoError],
         UNCHANGED <<logFile, outcome>>,
         logError[c] # NoError => came.kind = "error",
         \/ came = Error("open") /\ outcome[c] = 0
         \/ \E failure \in Cause : came = Verdict(c, failure)
  PROVE  IInv'
<1>1. Typed /\ Answer(c)
  BY DEF IInv
<1>2. Typed'
  BY <1>1 DEF Typed, testing, Cause
<1>3. ASSUME NEW d \in Check PROVE Answer(d)'
  BY <1>1, <1>3 DEF IInv, Typed, Answer, Verdict
<1>4. ASSUME NEW d \in Check PROVE Reports(d)'
  BY <1>1, <1>4 DEF IInv, Typed, Reports, testing, Over, Running
<1>5. TornLinesAreReported'
  <2>1. result[c].kind # "error"
    BY <1>1 DEF Answer, NoResult, Running
  <2>2. \A i \in DOMAIN logFile : logFile[i] \in Line
    BY <1>1 DEF Typed
  <2>3. \A i \in DOMAIN logFile : logFile[i].by \in Check
    BY <2>2 DEF Line
  <2> QED
    BY <1>1, <2>1, <2>3 DEF IInv, Typed, TornLinesAreReported
<1>6. InTurn'
  BY DEF IInv, InTurn, testing
<1> QED
  BY <1>2, <1>3, <1>4, <1>5, <1>6 DEF IInv

LEMMA ReturningStep ==
  ASSUME IInv, NEW c \in Check, UNCHANGED testing,
         OpenLogFails(c) \/ CloseLog(c) \/ CloseLogFails(c)
  PROVE  IInv'
<1>1. Typed /\ Answer(c) /\ outcome[c] \in Outcome /\ logError[c] \in Cause
  BY DEF IInv, Typed
<1>2. CASE OpenLogFails(c)
  <2>1. Error("open") \in Result /\ Error("open").kind = "error"
    BY DEF Result, Came, Error, Cause
  <2>2. /\ outcome[c] = 0 /\ logError[c] = NoError
        /\ UNCHANGED <<logFile, outcome>> /\ pc[c] \in Running
        /\ pc' = [pc EXCEPT ![c] = "returned"]
        /\ result' = [result EXCEPT ![c] = Error("open")]
    BY <1>1, <1>2 DEF OpenLogFails, Answer, Goto, own, Running
  <2>3. logError' = [logError EXCEPT ![c] = NoError]
    BY <1>1, <1>2, <2>2 DEF OpenLogFails, Typed
  <2> QED
    BY <2>1, <2>2, <2>3, ReturningKeeps
<1>3. CASE CloseLog(c) \/ CloseLogFails(c)
  <2>1. PICK failure \in Cause :
          /\ result' = [result EXCEPT ![c] = Verdict(c, failure)]
          /\ logError[c] # NoError => failure # NoError
    <3>1. "close" \in Cause /\ "close" # NoError
      BY DEF Cause, NoError
    <3> QED
      BY <1>1, <1>3, <3>1 DEF CloseLog, CloseLogFails
  <2>2. /\ UNCHANGED <<logFile, outcome>> /\ pc[c] \in Running
        /\ pc' = [pc EXCEPT ![c] = "returned"]
        /\ logError' = [logError EXCEPT ![c] = NoError]
    BY <1>3 DEF CloseLog, CloseLogFails, Goto, own, Running
  <2>3. /\ Verdict(c, failure) \in Result
        /\ failure # NoError => Verdict(c, failure).kind = "error"
    BY <1>1, VerdictIsResult
  <2> QED
    BY <2>1, <2>2, <2>3, ReturningKeeps
<1> QED
  BY <1>2, <1>3

-----------------------------------------------------------------------------
\* A check that is over has come to an error, or to its rule's violations.
LEMMA WhatComesBack ==
  ASSUME NEW c \in Check, Typed, Answer(c), pc[c] = "returned"
  PROVE  /\ result[c] \in Came
         /\ \/ /\ result[c].kind = "error"
               /\ outcome[c] = Failed => result[c] = Error("rule")
            \/ /\ result[c] = Violations(outcome[c])
               /\ result[c].kind = "violations" /\ result[c].count = outcome[c]
               /\ outcome[c] # Failed
<1>1. outcome[c] \in Outcome /\ result[c] \in Result
  BY DEF Typed
<1>2. CASE result[c] = Error("open") /\ outcome[c] = 0
  BY <1>2 DEF Came, Error, Cause, Failed
<1>3. ASSUME NEW failure \in Cause, result[c] = Verdict(c, failure)
      PROVE  \/ /\ \E cause \in Cause : result[c] = Error(cause)
                /\ outcome[c] = Failed => result[c] = Error("rule")
             \/ result[c] = Violations(outcome[c]) /\ outcome[c] # Failed
  BY <1>3 DEF Verdict, Cause
<1>4. ASSUME NEW cause \in Cause PROVE Error(cause) \in Came /\ Error(cause).kind = "error"
  BY <1>4 DEF Error, Came
<1>5. /\ Violations(outcome[c]) \in Came /\ Violations(outcome[c]).kind = "violations"
      /\ Violations(outcome[c]).count = outcome[c]
  BY <1>1 DEF Violations, Came
<1> QED
  BY <1>2, <1>3, <1>4, <1>5 DEF Answer

LEMMA ComplaintKind == ASSUME NEW what PROVE Complaint(what).kind = what
BY DEF Complaint

LEMMA ReportIsSaid ==
  ASSUME NEW came \in Came
  PROVE  Reported(came) \in Said
<1>1. CASE came.kind = "error"
  BY <1>1 DEF Reported, Said
<1>2. CASE came.kind # "error" /\ came.count = 0
  BY <1>2 DEF Reported, Said
<1>3. CASE came.kind # "error" /\ came.count # 0
  <2>1. came.count \in Int
    BY <1>3, BoundsType DEF Came, Outcome, Failed
  <2>2. Listed(came.count) \in Int /\ came.count - Listed(came.count) \in Int
    BY <2>1, ArchTestAssumption DEF Listed
  <2>3. Reported(came) = Listing(Listed(came.count), came.count - Listed(came.count))
    BY <1>3 DEF Reported
  <2>4. \A listed \in Int, left \in Int : Listing(listed, left) \in Said
    BY DEF Said, Listing
  <2> QED
    BY <2>2, <2>3, <2>4
<1> QED
  BY <1>1, <1>2, <1>3

LEMMA AssertingStep ==
  ASSUME IInv, NEW c \in Check, NEW bag \in Options, AssertPasses(c, bag)
  PROVE  IInv'
<1>1. /\ Typed /\ test[c] = "waiting" /\ plan' = plan /\ Reports(c)
      /\ pc[c] = "idle"
  BY DEF IInv, AssertPasses, Reports
<1>2. /\ UNCHANGED <<logFile, logError, outcome, result>>
      /\ pc' = pc \/ pc' = [pc EXCEPT ![c] = "open"]
  BY <1>1 DEF AssertPasses, Begin, Goto, vars
<1>3. PICK now \in {"checking", "failed"} : test' = [test EXCEPT ![c] = now]
  BY DEF AssertPasses
<1>4. Typed'
  <2>1. pc' \in [Check -> Running \cup {"idle", "returned"}]
    BY <1>1, <1>2 DEF Typed, Running
  <2>2. test' \in [Check -> {"waiting", "checking"} \cup Over]
    BY <1>1, <1>3 DEF Typed, Over
  <2>3. report' \in [Check -> Said]
    <3>1. Complaint("nil rule") \in Said
      BY DEF Said
    <3> QED
      BY <1>1, <3>1 DEF Typed, AssertPasses
  <2> QED
    BY <1>1, <1>2, <2>1, <2>2, <2>3 DEF Typed
<1>5. ASSUME NEW d \in Check PROVE Answer(d)'
  BY <1>1, <1>2, <1>5 DEF IInv, Typed, Answer, Verdict
<1>6. ASSUME NEW d \in Check PROVE Reports(d)'
  <2>1. CASE d # c
    BY <1>1, <1>2, <1>3, <1>6, <2>1 DEF IInv, Typed, Reports, AssertPasses
  <2>2. CASE d = c /\ c \in plan.missing
    BY <1>1, <2>2 DEF Typed, Reports, AssertPasses, Over
  <2>3. CASE d = c /\ c \notin plan.missing
    BY <1>1, <2>3 DEF Typed, Reports, AssertPasses, Over
  <2> QED
    BY <2>1, <2>2, <2>3
<1>7. TornLinesAreReported'
  BY <1>2 DEF IInv, TornLinesAreReported
<1>8. InTurn'
  <2> SUFFICES ASSUME NEW d \in plan.suite \cap Check, NEW e \in plan.suite \cap Check,
                      d < e, test'[e] # "waiting"
               PROVE  test'[d] \in Over
    BY <1>1 DEF InTurn
  <2>1. CASE e = c
    <3>1. c \notin plan.alone
      BY <1>1, <2>1, ArchTestAssumption DEF Typed, NotCalled
    <3>2. test[d] \in Over
      BY <2>1, <3>1 DEF AssertPasses, Turn, Over
    <3> QED
      BY <1>1, <1>3, <3>2 DEF Typed, Over
  <2>2. CASE e # c
    <3>1. test[d] \in Over
      BY <1>1, <1>3, <2>2 DEF IInv, InTurn, Typed
    <3> QED
      BY <1>1, <1>3, <3>1 DEF Typed, Over
  <2> QED
    BY <2>1, <2>2
<1> QED
  BY <1>4, <1>5, <1>6, <1>7, <1>8 DEF IInv

LEMMA ReportStep ==
  ASSUME IInv, NEW c \in Check, Report(c)
  PROVE  IInv'
<1>1. /\ Typed /\ test[c] = "checking" /\ pc[c] = "returned" /\ c \notin plan.missing
      /\ result[c] \in Came
      /\ UNCHANGED <<logFile, pc, logError, outcome, result, plan>>
  BY WhatComesBack DEF IInv, Report, Reports, vars
<1>2. PICK now \in Over : /\ test' = [test EXCEPT ![c] = now]
                          /\ now = IF Reported(result[c]) = NoReport THEN "passed" ELSE "failed"
  BY DEF Report, Over
<1>3. report' = [report EXCEPT ![c] = Reported(result[c])] /\ Reported(result[c]) \in Said
  BY <1>1, ReportIsSaid DEF Report
<1>4. Typed'
  BY <1>1, <1>2, <1>3 DEF Typed
<1>5. ASSUME NEW d \in Check PROVE Answer(d)'
  BY <1>1, <1>5 DEF IInv, Answer, Verdict
<1>6. ASSUME NEW d \in Check PROVE Reports(d)'
  <2>1. CASE d = c
    BY <1>1, <1>2, <1>3, <2>1 DEF Typed, Reports, Over
  <2>2. CASE d # c
    BY <1>1, <1>2, <1>3, <1>6, <2>2 DEF IInv, Typed, Reports
  <2> QED
    BY <2>1, <2>2
<1>7. TornLinesAreReported'
  BY <1>1 DEF IInv, TornLinesAreReported
<1>8. InTurn'
  BY <1>1, <1>2 DEF IInv, InTurn, Typed, Over
<1> QED
  BY <1>4, <1>5, <1>6, <1>7, <1>8 DEF IInv

-----------------------------------------------------------------------------
LEMMA StutterKeeps == ASSUME IInv, UNCHANGED archVars PROVE IInv'
BY DEF IInv, Typed, Answer, Reports, TornLinesAreReported, InTurn, archVars, vars, testing, Verdict

LEMMA Invariance == ArchSpec => []IInv
<1>1. ASSUME IInv, [ArchNext]_archVars PROVE IInv'
  <2>1. CASE AssertNoRules
    BY <1>1, <2>1 DEF AssertNoRules, IInv, Typed, Answer, Reports, TornLinesAreReported, InTurn,
       vars, Verdict
  <2>2. ASSUME NEW c \in Check, Advance(c), UNCHANGED testing PROVE IInv'
    BY <1>1, <2>2, RecordingStep, OpenLogStep, RuleStep, ReturningStep DEF Advance
  <2>3. ASSUME NEW c \in Check, Report(c) PROVE IInv'
    BY <1>1, <2>3, ReportStep
  <2>4. ASSUME NEW c \in Check, NEW bag \in Options, AssertPasses(c, bag) PROVE IInv'
    BY <1>1, <2>4, AssertingStep
  <2>5. CASE UNCHANGED archVars
    BY <1>1, <2>5, StutterKeeps
  <2> QED
    BY <1>1, <2>1, <2>2, <2>3, <2>4, <2>5 DEF ArchNext, ArchStep
<1> QED
  BY InitIInv, <1>1, PTL DEF ArchSpec

-----------------------------------------------------------------------------
\* logged_check.go: violations and an error are never returned together, a rule
\* that failed is reported as itself whatever happened to its log, and the log is
\* blamed only when the rule succeeded.
THEOREM TheRulesErrorWins == ArchSpec => []RuleErrorWins
<1>1. ASSUME IInv PROVE RuleErrorWins
  <2> SUFFICES ASSUME NEW c \in Check, pc[c] = "returned"
               PROVE  /\ result[c].kind \in {"violations", "error"}
                      /\ outcome[c] = Failed => result[c] = Error("rule")
                      /\ result[c].kind = "violations" => result[c].count = outcome[c]
    BY DEF RuleErrorWins
  <2>1. Typed /\ Answer(c)
    BY <1>1 DEF IInv
  <2> QED
    BY <2>1, WhatComesBack
<1> QED
  BY <1>1, Invariance, PTL

\* logger.go, Logger.record: a line of the shared file that was cut short belongs
\* to a check that is not over, or that came back with an error, however many
\* checks write to the file at once.
THEOREM TornLinesAreNeverSilent == ArchSpec => []TornLinesAreReported
<1>1. IInv => TornLinesAreReported
  BY DEF IInv
<1> QED
  BY <1>1, Invariance, PTL

\* archtest.AssertPasses and AssertAllPass: a test passes only if its rule was
\* there and its check came back with no error and no violation; the report of any
\* other says which it was, and accounts for every violation; a suite asserts its
\* rules one at a time.
THEOREM NoFailureIsSwallowed == ArchSpec => []EveryFailureReachesTheTest
<1>1. ASSUME IInv PROVE EveryFailureReachesTheTest
  <2>1. ASSUME NEW c \in Check, test[c] = "passed"
        PROVE  /\ c \notin plan.missing /\ outcome[c] = 0 /\ logError[c] = NoError
               /\ result[c].kind = "violations"
    <3>1. Typed /\ Answer(c) /\ Reports(c)
      BY <1>1 DEF IInv
    <3>2. c \notin plan.missing /\ pc[c] = "returned" /\ Reported(result[c]) = NoReport
      BY <2>1, <3>1 DEF Reports, Over
    <3>3. result[c].kind # "error" /\ result[c].count = 0
      <4>1. Complaint("check failed").kind # NoReport.kind
        BY DEF Complaint, NoReport
      <4>2. \A listed, left : Listing(listed, left).kind # NoReport.kind
        BY DEF Listing, NoReport
      <4> QED
        BY <3>2, <4>1, <4>2 DEF Reported
    <3> QED
      BY <3>1, <3>2, <3>3, WhatComesBack DEF Answer
  <2>2. ASSUME NEW c \in Check, test[c] = "failed", c \in plan.missing
        PROVE  report[c].kind = "nil rule"
    <3>1. report[c] = Complaint("nil rule")
      BY <1>1, <2>2 DEF IInv, Reports, Over
    <3> QED
      BY <3>1, ComplaintKind
  <2>3. ASSUME NEW c \in Check, test[c] = "failed", c \notin plan.missing
        PROVE  /\ result[c].kind = "error" => report[c].kind = "check failed"
               /\ result[c].kind # "error" =>
                    report[c].listed > 0 /\ report[c].listed + report[c].left = outcome[c]
    <3>1. Typed /\ Answer(c) /\ Reports(c) /\ outcome[c] \in Outcome
      BY <1>1 DEF IInv, Typed
    <3>2. /\ pc[c] = "returned" /\ report[c] = Reported(result[c])
          /\ Reported(result[c]) # NoReport
      BY <2>3, <3>1 DEF Reports, Over
    <3>3. CASE result[c].kind = "error"
      BY <3>2, <3>3, ComplaintKind DEF Reported
    <3>4. CASE result[c].kind # "error"
      <4>1. result[c] = Violations(outcome[c]) /\ outcome[c] # Failed
        BY <3>1, <3>2, <3>4, WhatComesBack
      <4>2. result[c].count = outcome[c] /\ outcome[c] # 0
        BY <3>2, <3>4, <4>1 DEF Reported, Violations
      <4>3. outcome[c] \in Nat \ {0}
        BY <3>1, <4>1, <4>2, BoundsType DEF Outcome, Failed
      <4>4. report[c] = Listing(Listed(outcome[c]), outcome[c] - Listed(outcome[c]))
        BY <3>2, <3>4, <4>2 DEF Reported
      <4>5. Listed(outcome[c]) \in Nat \ {0}
        BY <4>3, ArchTestAssumption DEF Listed
      <4> QED
        BY <3>4, <4>3, <4>4, <4>5 DEF Listing
    <3> QED
      BY <3>3, <3>4
  <2>4. ASSUME NEW c \in plan.suite \cap Check, NEW d \in plan.suite \cap Check, c # d
        PROVE  test[c] # "checking" \/ test[d] # "checking"
    <3>1. c < d \/ d < c
      BY <2>4, ArchTestAssumption
    <3> QED
      BY <1>1, <3>1 DEF IInv, InTurn, Over
  <2> QED
    BY <2>1, <2>2, <2>3, <2>4 DEF EveryFailureReachesTheTest
<1> QED
  BY <1>1, Invariance, PTL

-----------------------------------------------------------------------------
\* What a log owes.  The variables no other part of the invariant speaks of.
LogTyped ==
  /\ screen \in Seq(Line) /\ logFile \in Seq(Line)
  /\ options \in [Check -> Options \cup {NoBag}]
  /\ handle \in [Check -> BOOLEAN]
  /\ notes \in [Check -> Seq(Word)]
  /\ logged \in [Check -> Nat]

\* The records due so far.
Due(c) ==
  CASE pc[c] = "rule" -> Reaching(c, <<"start">>, Level.info) \o Noted(c)
    [] pc[c] = "violations" ->
         Reaching(c, <<"start">>, Level.info) \o Noted(c)
         \o Reaching(c, Repeat("violation", logged[c]), Level.warn)
    [] pc[c] = "end" ->
         Reaching(c, <<"start">>, Level.info) \o Noted(c)
         \o (IF outcome[c] = Failed THEN << >> ELSE Reaching(c, Repeat("violation", outcome[c]), Level.warn))
    [] pc[c] \in {"close", "returned"} -> Owed(c)
    [] OTHER -> << >>

\* Every destination asked for holds these words of the check.
Logs(c, words) ==
  /\ options[c].file /\ c \notin cut => Holds(logFile, c, words)
  /\ options[c].writer => Holds(screen, c, words)

\* A check that has not opened its log has written nothing; one that has, and has
\* no failure to remember, has written what is due so far, and so has one that came
\* back without an error.
LogsItsPart(c) ==
  /\ handle[c] <=> pc[c] \in Running \ {"open"} /\ options[c].file
  /\ pc[c] \in {"idle", "open"} => Holds(logFile, c, << >>) /\ Holds(screen, c, << >>)
  /\ pc[c] \in {"idle", "open", "start"} => notes[c] = << >>
  /\ pc[c] \in {"idle", "open", "start", "rule"} => logged[c] = 0
  /\ pc[c] = "violations" => outcome[c] > 0 /\ logged[c] < outcome[c]
  /\ \/ pc[c] \in Running \ {"open"} /\ logError[c] = NoError
     \/ result[c].kind = "violations"
     => Logs(c, Due(c))

\* The invariant of the logs.
LogInv == LogTyped /\ \A c \in Check : LogsItsPart(c)

\* A step of one check leaves another's part alone: its lines stay, or the file was
\* started fresh under it.
Aside(d) ==
  /\ pc'[d] = pc[d] /\ options'[d] = options[d] /\ handle'[d] = handle[d] /\ logError'[d] = logError[d]
  /\ notes'[d] = notes[d] /\ outcome'[d] = outcome[d] /\ logged'[d] = logged[d] /\ result'[d] = result[d]
  /\ \A words : Holds(screen, d, words) => Holds(screen', d, words)
  /\ \/ d \in cut' /\ Holds(logFile', d, << >>)
     \/ /\ d \in cut => d \in cut'
        /\ \A words : Holds(logFile, d, words) => Holds(logFile', d, words)

\* The lines of a check in a destination: those it had, and the one just written.
LEMMA MineWorks ==
  ASSUME NEW lines \in Seq(Line), NEW c \in Check
  PROVE  /\ IsFiniteSet(Mine(lines, c)) /\ Mine(lines, c) \subseteq 1 .. Len(lines) /\ Len(lines) \in Nat
         /\ Cardinality(Mine(lines, c)) \in Nat
         /\ \A i \in Mine(lines, c) : Rank(lines, c, i) \in 1 .. Cardinality(Mine(lines, c))
<1>1. Mine(lines, c) \subseteq 1 .. Len(lines) /\ Len(lines) \in Nat
  BY DEF Mine
<1>2. IsFiniteSet(1 .. Len(lines))
  BY <1>1, FS_Interval
<1>3. IsFiniteSet(Mine(lines, c)) /\ Cardinality(Mine(lines, c)) \in Nat
  BY <1>1, <1>2, FS_Subset, FS_CardinalityType
<1>4. ASSUME NEW i \in Mine(lines, c) PROVE Rank(lines, c, i) \in 1 .. Cardinality(Mine(lines, c))
  <2> DEFINE upto == {j \in Mine(lines, c) : j <= i}
  <2>1. upto \subseteq Mine(lines, c) /\ i \in upto
    BY <1>1, <1>4
  <2>2. IsFiniteSet(upto) /\ Cardinality(upto) <= Cardinality(Mine(lines, c)) /\ Cardinality(upto) \in Nat
    BY <1>3, <2>1, FS_Subset, FS_CardinalityType
  <2>3. Cardinality(upto) # 0
    BY <2>1, <2>2, FS_EmptySet
  <2> QED
    BY <1>3, <2>2, <2>3 DEF Rank
<1> QED
  BY <1>1, <1>3, <1>4

\* Another check's line leaves a check's words where they are.
LEMMA OthersHold ==
  ASSUME NEW lines \in Seq(Line), NEW c \in Check, NEW line \in Line, line.by # c
  PROVE  \A words : Holds(lines, c, words) => Holds(Append(lines, line), c, words)
<1> DEFINE more == Append(lines, line)
           n == Len(lines) + 1
<1>1. /\ DOMAIN lines = 1 .. Len(lines) /\ Len(lines) \in Nat /\ n \in Nat /\ n \notin 1 .. Len(lines)
      /\ DOMAIN more = 1 .. Len(lines) \cup {n} /\ more[n] = line
      /\ \A i \in 1 .. Len(lines) : more[i] = lines[i] /\ i < n
  OBVIOUS
<1>2. Mine(lines, c) \subseteq 1 .. Len(lines)
  BY MineWorks
<1> HIDE DEF more, n
<1>3. Mine(more, c) = Mine(lines, c)
  BY <1>1 DEF Mine
<1>4. \A i \in Mine(lines, c) : Rank(more, c, i) = Rank(lines, c, i) /\ more[i] = lines[i]
  BY <1>1, <1>2, <1>3 DEF Rank
<1>5. ASSUME NEW words, Holds(lines, c, words) PROVE Holds(more, c, words)
  BY <1>3, <1>4, <1>5, Zenon DEF Holds
<1> QED
  BY <1>5 DEF more

\* Its own line, whole, adds its word to them.
LEMMA HoldsGrow ==
  ASSUME NEW lines \in Seq(Line), NEW c \in Check, NEW line \in Line, NEW words \in Seq(Word),
         Holds(lines, c, words), line.by = c, line.whole
  PROVE  Holds(Append(lines, line), c, Append(words, line.word))
<1> DEFINE more == Append(lines, line)
           n == Len(lines) + 1
<1>1. /\ DOMAIN lines = 1 .. Len(lines) /\ Len(lines) \in Nat /\ n \in Nat /\ n \notin 1 .. Len(lines)
      /\ DOMAIN more = 1 .. Len(lines) \cup {n} /\ more[n] = line
      /\ \A i \in 1 .. Len(lines) : more[i] = lines[i] /\ i < n
  OBVIOUS
<1>2. /\ IsFiniteSet(Mine(lines, c)) /\ Mine(lines, c) \subseteq 1 .. Len(lines)
      /\ Cardinality(Mine(lines, c)) \in Nat
      /\ \A i \in Mine(lines, c) : Rank(lines, c, i) \in 1 .. Cardinality(Mine(lines, c))
  BY MineWorks
<1>3. /\ Cardinality(Mine(lines, c)) = Len(words)
      /\ \A i \in Mine(lines, c) : lines[i].whole /\ lines[i].word = words[Rank(lines, c, i)]
  BY Zenon DEF Holds
<1> HIDE DEF more, n
<1>4. Mine(more, c) = Mine(lines, c) \cup {n} /\ n \notin Mine(lines, c)
  BY <1>1, <1>2 DEF Mine
<1>5. Cardinality(Mine(more, c)) = Len(words) + 1
  BY <1>2, <1>3, <1>4, FS_AddElement
<1>6. ASSUME NEW i \in Mine(lines, c)
      PROVE  Rank(more, c, i) = Rank(lines, c, i) /\ more[i] = lines[i]
  <2>1. {j \in Mine(more, c) : j <= i} = {j \in Mine(lines, c) : j <= i}
    BY <1>1, <1>2, <1>4
  <2> QED
    BY <1>1, <1>2, <2>1 DEF Rank
<1>7. Rank(more, c, n) = Len(words) + 1
  <2>1. {j \in Mine(more, c) : j <= n} = Mine(more, c)
    BY <1>1, <1>2, <1>4
  <2> QED
    BY <1>5, <2>1 DEF Rank
<1> DEFINE longer == Append(words, line.word)
<1>8. line.word \in Word
  BY DEF Line
<1>9. /\ Len(longer) = Len(words) + 1 /\ longer[Len(words) + 1] = line.word
      /\ \A k \in 1 .. Len(words) : longer[k] = words[k]
  BY <1>8
<1> HIDE DEF longer
<1>10. ASSUME NEW i \in Mine(more, c) PROVE more[i].whole /\ more[i].word = longer[Rank(more, c, i)]
  <2>1. CASE i \in Mine(lines, c)
    <3>1. Rank(lines, c, i) \in 1 .. Len(words)
      BY <1>2, <1>3, <2>1
    <3> QED
      BY <1>3, <1>6, <1>9, <2>1, <3>1
  <2>2. CASE i = n
    BY <1>1, <1>7, <1>9, <2>2
  <2> QED
    BY <1>4, <2>1, <2>2
<1>11. Holds(more, c, longer)
  BY <1>5, <1>9, <1>10 DEF Holds
<1> QED
  BY <1>11 DEF more, longer

\* A record is held by every destination that was asked for, or the failure is
\* remembered.
LEMMA RecordHolds ==
  ASSUME LogTyped, logError \in [Check -> Cause], NEW c \in Check, NEW level \in Int, NEW word \in Word,
         Record(c, level, word), handle[c] <=> options[c].file
  PROVE  /\ logFile' \in Seq(Line) /\ screen' \in Seq(Line)
         /\ \A d \in Check \ {c} : \A words :
              /\ Holds(logFile, d, words) => Holds(logFile', d, words)
              /\ Holds(screen, d, words) => Holds(screen', d, words)
         /\ \A d \in Check \ {c} : logError'[d] = logError[d]
         /\ logError'[c] = NoError =>
              /\ logError[c] = NoError
              /\ \A words \in Seq(Word) :
                   LET more == words \o Reaching(c, <<word>>, level)
                   IN  /\ options[c].file /\ Holds(logFile, c, words) => Holds(logFile', c, more)
                       /\ options[c].writer /\ Holds(screen, c, words) => Holds(screen', c, more)
<1> DEFINE line(whole) == [by |-> c, word |-> word, whole |-> whole]
<1>1. /\ logFile \in Seq(Line) /\ screen \in Seq(Line)
      /\ \A whole \in BOOLEAN : line(whole) \in Line /\ line(whole).by = c /\ line(whole).word = word
      /\ line(TRUE).whole
  BY DEF LogTyped, Line
<1>2. logFile' = logFile \/ \E whole \in BOOLEAN : logFile' = Append(logFile, line(whole))
  BY DEF Record, WrittenEverywhere, RefusedByWriter, RefusedByFile, Taken
<1>3. screen' = screen \/ \E whole \in BOOLEAN : screen' = Append(screen, line(whole))
  BY DEF Record, WrittenEverywhere, RefusedByWriter, RefusedByFile, Taken
<1>4. \A whole \in BOOLEAN : Append(logFile, line(whole)) \in Seq(Line) /\ Append(screen, line(whole)) \in Seq(Line)
  BY <1>1
<1>5. logFile' \in Seq(Line) /\ screen' \in Seq(Line)
  BY <1>1, <1>2, <1>3, <1>4
<1>6. ASSUME NEW d \in Check \ {c}, NEW words
      PROVE  /\ Holds(logFile, d, words) => Holds(logFile', d, words)
             /\ Holds(screen, d, words) => Holds(screen', d, words)
  BY <1>1, <1>2, <1>3, OthersHold
<1>7. \A d \in Check \ {c} : logError'[d] = logError[d]
  BY DEF Record, WrittenEverywhere, RefusedByWriter, RefusedByFile, Remember
<1>8. CASE logError'[c] # NoError
  BY <1>5, <1>6, <1>7, <1>8
<1>9. CASE logError'[c] = NoError
  <2>1. word # NoError
    BY DEF Word, NoError
  <2>2. ~Remember(c, word)
    BY <1>9, <2>1 DEF Remember
  <2>3. CASE Enabled(c, level)
    <3>1. WrittenEverywhere(c, word) /\ level >= options[c].level
      BY <2>2, <2>3 DEF Record, RefusedByWriter, RefusedByFile, Enabled
    <3>2. logError[c] = NoError
      BY <1>9, <3>1 DEF WrittenEverywhere
    <3>3. ASSUME NEW words \in Seq(Word)
          PROVE  LET more == words \o Reaching(c, <<word>>, level)
                 IN  /\ options[c].file /\ Holds(logFile, c, words) => Holds(logFile', c, more)
                     /\ options[c].writer /\ Holds(screen, c, words) => Holds(screen', c, more)
      <4>1. words \o Reaching(c, <<word>>, level) = Append(words, word)
        BY <3>1 DEF Reaching
      <4>2. options[c].file => logFile' = Append(logFile, line(TRUE))
        BY <3>1 DEF WrittenEverywhere, Taken
      <4>3. options[c].writer => screen' = Append(screen, line(TRUE))
        BY <3>1 DEF WrittenEverywhere, Taken
      <4>4. Holds(logFile, c, words) => Holds(Append(logFile, line(TRUE)), c, Append(words, word))
        BY <1>1, HoldsGrow
      <4>5. Holds(screen, c, words) => Holds(Append(screen, line(TRUE)), c, Append(words, word))
        BY <1>1, HoldsGrow
      <4> QED
        BY <4>1, <4>2, <4>3, <4>4, <4>5
    <3> QED
      BY <1>5, <1>6, <1>7, <3>2, <3>3
  <2>4. CASE ~Enabled(c, level)
    <3>1. UNCHANGED <<screen, logFile, logError>>
      BY <2>4 DEF Record
    <3>2. ASSUME NEW words \in Seq(Word), options[c].file \/ options[c].writer
          PROVE  words \o Reaching(c, <<word>>, level) = words
      <4>1. Reaching(c, <<word>>, level) = << >>
        BY <2>4, <3>2 DEF Enabled, Reaching
      <4> QED
        BY <4>1
    <3> QED
      BY <1>5, <1>6, <1>7, <1>9, <3>1, <3>2
  <2> QED
    BY <2>3, <2>4
<1> QED
  BY <1>8, <1>9

\* What another check does leaves a check's part as it was.
LEMMA OthersLog ==
  ASSUME NEW d \in Check, LogsItsPart(d), Aside(d)
  PROVE  LogsItsPart(d)'
<1>0. /\ pc'[d] = pc[d] /\ options'[d] = options[d] /\ notes'[d] = notes[d] /\ outcome'[d] = outcome[d]
      /\ logged'[d] = logged[d]
  BY DEF Aside
<1>1. \A words, level : Reaching(d, words, level)' = Reaching(d, words, level)
  BY <1>0, Zenon DEF Reaching
<1>2. Due(d)' = Due(d)
  <2>1. Noted(d)' = Noted(d)
    <3>1. Metrics(d)' = Metrics(d)
      BY <1>0, Zenon DEF Metrics
    <3> QED
      BY <1>0, <1>1, <3>1, Zenon DEF Noted
  <2>2. Owed(d)' = Owed(d)
    BY <1>0, <1>1, <2>1, Zenon DEF Owed
  <2> QED
    BY <1>0, <1>1, <2>1, <2>2, Zenon DEF Due
<1>3. PICK due : due = Due(d)
  OBVIOUS
<1> QED
  BY <1>2, <1>3 DEF LogsItsPart, Aside, Logs

\* Levels can be compared.
LEMMA LevelsCompare ==
  ASSUME LogTyped, NEW c \in Check
  PROVE  /\ options[c].level \in Int
         /\ Level.debug = -1 /\ Level.info = 0 /\ Level.warn = 1 /\ Level.error = 2
<1>1. \A bag \in Options : bag.level \in Int
  BY OptionsType DEF Threshold
<1>2. NoBag.level \in Int
  BY DEF NoBag, Level
<1>3. options[c] \in Options \cup {NoBag}
  BY DEF LogTyped
<1> QED
  BY <1>1, <1>2, <1>3 DEF Level

\* The same word n times.
LEMMA RepeatWorks ==
  ASSUME NEW word \in Word, NEW n \in Nat
  PROVE  /\ Repeat(word, n) \in Seq(Word)
         /\ n = 0 => Repeat(word, n) = << >>
         /\ Repeat(word, n + 1) = Repeat(word, n) \o <<word>>
<1>1. Repeat(word, n) \in Seq(Word) /\ Repeat(word, n + 1) \in Seq(Word)
  BY DEF Repeat
<1>2. n = 0 => Repeat(word, n) = << >>
  BY DEF Repeat
<1>3. Repeat(word, n + 1) = Append(Repeat(word, n), word)
  BY <1>1 DEF Repeat
<1> QED
  BY <1>1, <1>2, <1>3, AppendIsConcat

\* Metrics are counted as they are logged.
LEMMA CountWorks ==
  ASSUME NEW said \in Seq(Word), NEW word \in Word
  PROVE  LET Count(s) == Cardinality({i \in DOMAIN s : s[i] = "metric"})
         IN  /\ Count(said) \in Nat
             /\ word # "metric" => Count(Append(said, word)) = Count(said)
             /\ word = "metric" => Count(Append(said, word)) = Count(said) + 1
<1> DEFINE Count(s) == Cardinality({i \in DOMAIN s : s[i] = "metric"})
           at == {i \in DOMAIN said : said[i] = "metric"}
           more == Append(said, word)
           n == Len(said) + 1
<1>1. /\ DOMAIN said = 1 .. Len(said) /\ Len(said) \in Nat /\ n \notin 1 .. Len(said)
      /\ DOMAIN more = 1 .. Len(said) \cup {n} /\ more[n] = word
      /\ \A i \in 1 .. Len(said) : more[i] = said[i]
  OBVIOUS
<1>2. IsFiniteSet(1 .. Len(said))
  BY <1>1, FS_Interval
<1>3. IsFiniteSet(at) /\ Cardinality(at) \in Nat
  BY <1>1, <1>2, FS_Subset, FS_CardinalityType
<1> HIDE DEF more, n
<1>4. word # "metric" => {i \in DOMAIN more : more[i] = "metric"} = at
  BY <1>1
<1>5. word = "metric" => {i \in DOMAIN more : more[i] = "metric"} = at \cup {n} /\ n \notin at
  BY <1>1
<1>6. Count(said) = Cardinality(at)
  OBVIOUS
<1> HIDE DEF at
<1>7. word = "metric" => Count(more) = Cardinality(at) + 1
  BY <1>3, <1>5, FS_AddElement
<1>8. word # "metric" => Count(more) = Cardinality(at)
  BY <1>4
<1> QED
  BY <1>3, <1>6, <1>7, <1>8 DEF more

\* What a rule logged is words, and nothing before it logs.
LEMMA NotedWorks ==
  ASSUME LogTyped, NEW c \in Check
  PROVE  /\ Noted(c) \in Seq(Word)
         /\ notes[c] = << >> => Noted(c) = << >>
<1>1. notes[c] \in Seq(Word) /\ "metric" \in Word
  BY DEF LogTyped, Word
<1>2. Metrics(c) \in Nat
  BY <1>1, CountWorks DEF Metrics
<1>3. Repeat("metric", Metrics(c)) \in Seq(Word)
  BY <1>1, <1>2, RepeatWorks
<1>4. Noted(c) \in Seq(Word)
  BY <1>1, <1>3 DEF Noted, Reaching
<1>5. notes[c] = << >> => Metrics(c) = 0
  BY FS_EmptySet DEF Metrics
<1>6. notes[c] = << >> => Repeat("metric", Metrics(c)) = << >>
  BY <1>1, <1>5, RepeatWorks
<1> QED
  BY <1>4, <1>6 DEF Noted, Reaching

\* A note made by the rule is due at once, if its level reaches the threshold.
LEMMA NotedGrows ==
  ASSUME LogTyped, NEW c \in Check, UNCHANGED options,
         NEW level, NEW word,
         (level = Level.debug /\ word = "progress") \/ (level = Level.info /\ word = "metric"),
         notes' = [notes EXCEPT ![c] = Append(@, word)]
  PROVE  Noted(c)' = Noted(c) \o Reaching(c, <<word>>, level)
<1>1. notes[c] \in Seq(Word) /\ word \in Word /\ "metric" \in Word /\ notes'[c] = Append(notes[c], word)
  BY DEF LogTyped, Word
<1>2. notes'[c] = notes[c] \o <<word>>
  BY <1>1, AppendIsConcat
<1>3. /\ options[c].level \in Int
      /\ Level.debug = -1 /\ Level.info = 0
  BY LevelsCompare
<1>4. /\ Metrics(c) \in Nat
      /\ word = "progress" => Metrics(c)' = Metrics(c)
      /\ word = "metric" => Metrics(c)' = Metrics(c) + 1
  <2>1. PICK said \in Seq(Word) : said = notes[c]
    BY <1>1
  <2>2. Metrics(c) = Cardinality({i \in DOMAIN said : said[i] = "metric"})
    BY <2>1 DEF Metrics
  <2>3. Metrics(c)' = Cardinality({i \in DOMAIN Append(said, word) : Append(said, word)[i] = "metric"})
    BY <1>1, <2>1 DEF Metrics
  <2> QED
    BY <1>1, <2>2, <2>3, CountWorks
<1>5. /\ Repeat("metric", Metrics(c)) \in Seq(Word)
      /\ Repeat("metric", Metrics(c) + 1) = Repeat("metric", Metrics(c)) \o <<"metric">>
  BY <1>1, <1>4, RepeatWorks
<1>6. /\ Repeat("metric", Metrics(c)) \o << >> = Repeat("metric", Metrics(c))
      /\ << >> \o << >> = << >>
  BY <1>5
<1>7. CASE level = Level.debug /\ word = "progress"
  BY <1>2, <1>3, <1>4, <1>6, <1>7 DEF Noted, Reaching
<1>8. CASE level = Level.info /\ word = "metric"
  <2>1. CASE Level.debug >= options[c].level
    <3>1. Level.info >= options[c].level
      BY <1>3, <2>1
    <3>2. Noted(c) = notes[c] /\ Noted(c)' = notes'[c]
      BY <2>1 DEF Noted
    <3>3. Reaching(c, <<word>>, level) = <<word>>
      BY <1>8, <3>1 DEF Reaching
    <3> QED
      BY <1>2, <3>2, <3>3
  <2>2. CASE ~(Level.debug >= options[c].level)
    BY <1>4, <1>5, <1>6, <1>8, <2>2 DEF Noted, Reaching
  <2> QED
    BY <2>1, <2>2
<1> QED
  BY <1>7, <1>8

\* What is due is a sequence of words.
LEMMA DueIsWords ==
  ASSUME LogTyped, NEW c \in Check, outcome[c] \in Outcome
  PROVE  /\ Due(c) \in Seq(Word) /\ Owed(c) \in Seq(Word)
         /\ \A words \in Seq(Word) : \A level : Reaching(c, words, level) \in Seq(Word)
<1>1. \A words \in Seq(Word) : \A level : Reaching(c, words, level) \in Seq(Word)
  BY DEF Reaching
<1>2. /\ "start" \in Word /\ "end" \in Word /\ "violation" \in Word
      /\ <<"start">> \in Seq(Word) /\ <<"end">> \in Seq(Word)
  BY DEF Word
<1>3. logged[c] \in Nat /\ (outcome[c] # Failed => outcome[c] \in Nat)
  BY BoundsType DEF LogTyped, Outcome, Failed
<1>4. Noted(c) \in Seq(Word)
  BY NotedWorks
<1>5. /\ Repeat("violation", logged[c]) \in Seq(Word)
      /\ outcome[c] # Failed => Repeat("violation", outcome[c]) \in Seq(Word)
  BY <1>2, <1>3, RepeatWorks
<1>6. \A s, t \in Seq(Word) : s \o t \in Seq(Word)
  BY ConcatProperties
<1> DEFINE A == Reaching(c, <<"start">>, Level.info)
           V == IF outcome[c] = Failed THEN << >> ELSE Reaching(c, Repeat("violation", outcome[c]), Level.warn)
           Z == Reaching(c, <<"end">>, IF outcome[c] = Failed THEN Level.error ELSE Level.info)
           R == Reaching(c, Repeat("violation", logged[c]), Level.warn)
<1>7. << >> \in Seq(Word) /\ A \in Seq(Word) /\ Z \in Seq(Word) /\ R \in Seq(Word)
  <2>1. << >> \in Seq(Word)
    OBVIOUS
  <2>2. A \in Seq(Word) /\ R \in Seq(Word)
    BY <1>1, <1>2, <1>5, Zenon
  <2>3. Z \in Seq(Word)
    BY <1>1, <1>2, Zenon
  <2> QED
    BY <2>1, <2>2, <2>3, Zenon
<1>8. V \in Seq(Word)
  BY <1>1, <1>5, <1>7
<1>9. /\ Owed(c) = A \o Noted(c) \o V \o Z
      /\ \/ Due(c) = A \o Noted(c)
         \/ Due(c) = A \o Noted(c) \o R
         \/ Due(c) = A \o Noted(c) \o V
         \/ Due(c) = Owed(c)
         \/ Due(c) = << >>
  BY DEF Due, Owed
<1> HIDE DEF A, V, Z, R
<1>10. /\ A \o Noted(c) \in Seq(Word) /\ A \o Noted(c) \o V \in Seq(Word)
       /\ A \o Noted(c) \o R \in Seq(Word)
  BY <1>4, <1>6, <1>7, <1>8
<1>11. Owed(c) \in Seq(Word)
  BY <1>6, <1>7, <1>9, <1>10
<1> QED
  BY <1>1, <1>7, <1>9, <1>10, <1>11

\* What is due after each record is what was due before it, and the record.
LEMMA DueParts ==
  ASSUME LogTyped, NEW c \in Check, outcome[c] \in Outcome, UNCHANGED options
  PROVE  /\ \A words, level : Reaching(c, words, level)' = Reaching(c, words, level)
         /\ notes'[c] = notes[c] => Noted(c)' = Noted(c)
         /\ \A word \in Word : \A level : Reaching(c, <<word>>, level) \in Seq(Word)
         /\ Noted(c) \in Seq(Word) /\ logged[c] \in Nat
         /\ "start" \in Word /\ "violation" \in Word /\ "end" \in Word /\ "progress" \in Word /\ "metric" \in Word
<1>1. /\ \A words, level : Reaching(c, words, level)' = Reaching(c, words, level)
      /\ notes'[c] = notes[c] => Noted(c)' = Noted(c)
  BY Zenon DEF Reaching, Noted, Metrics
<1>2. \A word \in Word : <<word>> \in Seq(Word)
  OBVIOUS
<1>3. \A word \in Word : \A level : Reaching(c, <<word>>, level) \in Seq(Word)
  BY <1>2, DueIsWords
<1>4. Noted(c) \in Seq(Word) /\ logged[c] \in Nat
  BY NotedWorks DEF LogTyped
<1> QED
  BY <1>1, <1>3, <1>4 DEF Word

\* The start record.
LEMMA DueAfterStart ==
  ASSUME LogTyped, NEW c \in Check, outcome[c] \in Outcome, UNCHANGED options,
         notes[c] = << >>, pc[c] = "start", pc'[c] = "rule", notes'[c] = notes[c]
  PROVE  Due(c)' = Due(c) \o Reaching(c, <<"start">>, Level.info)
<1> DEFINE A == Reaching(c, <<"start">>, Level.info)
<1>1. A \in Seq(Word) /\ A' = A /\ Noted(c)' = Noted(c)
  BY DueParts
<1>2. Noted(c) = << >> /\ Due(c) = << >>
  BY NotedWorks DEF Due
<1>3. Due(c)' = A' \o Noted(c)'
  BY DEF Due
<1> HIDE DEF A
<1>4. Due(c)' = Due(c) \o A
  BY <1>1, <1>2, <1>3, ConcatEmptySeq
<1> QED
  BY <1>4 DEF A

\* A record of the rule.
LEMMA DueAfterNote ==
  ASSUME LogTyped, NEW c \in Check, outcome[c] \in Outcome, UNCHANGED options,
         NEW level, NEW word,
         (level = Level.debug /\ word = "progress") \/ (level = Level.info /\ word = "metric"),
         pc[c] = "rule", pc'[c] = "rule", notes' = [notes EXCEPT ![c] = Append(@, word)]
  PROVE  Due(c)' = Due(c) \o Reaching(c, <<word>>, level)
<1> DEFINE A == Reaching(c, <<"start">>, Level.info)
           W == Reaching(c, <<word>>, level)
<1>1. A \in Seq(Word) /\ A' = A /\ Noted(c) \in Seq(Word)
  BY DueParts
<1>2. W \in Seq(Word)
  BY DueParts
<1>3. Noted(c)' = Noted(c) \o W
  BY NotedGrows, Zenon
<1>4. Due(c) = A \o Noted(c) /\ Due(c)' = A' \o Noted(c)'
  BY DEF Due
<1> HIDE DEF A, W
<1>5. Due(c)' = Due(c) \o W
  BY <1>1, <1>2, <1>3, <1>4, ConcatAssociative
<1> QED
  BY <1>5 DEF W

\* The record of a violation.
LEMMA DueAfterViolation ==
  ASSUME LogTyped, NEW c \in Check, outcome[c] \in Outcome, UNCHANGED options,
         pc[c] = "violations", outcome[c] > 0, notes'[c] = notes[c], outcome'[c] = outcome[c],
         logged'[c] = logged[c] + 1,
         pc'[c] = "violations" \/ (pc'[c] = "end" /\ logged[c] + 1 = outcome[c])
  PROVE  Due(c)' = Due(c) \o Reaching(c, <<"violation">>, Level.warn)
<1> DEFINE A == Reaching(c, <<"start">>, Level.info)
           R(n) == Reaching(c, Repeat("violation", n), Level.warn)
           E == Reaching(c, <<"violation">>, Level.warn)
<1>1. /\ A \in Seq(Word) /\ E \in Seq(Word) /\ A' = A
      /\ Noted(c) \in Seq(Word) /\ Noted(c)' = Noted(c)
      /\ logged[c] \in Nat /\ "violation" \in Word
  BY DueParts
<1>2. /\ Repeat("violation", logged[c]) \in Seq(Word)
      /\ Repeat("violation", logged[c] + 1) = Repeat("violation", logged[c]) \o <<"violation">>
  BY <1>1, RepeatWorks
<1>3. R(logged[c]) \in Seq(Word) /\ R(logged[c] + 1) = R(logged[c]) \o E
  BY <1>2 DEF Reaching
<1>4. outcome[c] # Failed
  BY DEF Failed
<1>5. Due(c) = A \o Noted(c) \o R(logged[c])
  BY DEF Due
<1>6. Due(c)' = A \o Noted(c) \o R(logged[c] + 1)
  <2>1. \A n : Reaching(c, Repeat("violation", n), Level.warn)' = Reaching(c, Repeat("violation", n), Level.warn)
    BY Zenon DEF Reaching
  <2>2. CASE pc'[c] = "violations"
    <3>1. Due(c)' = (Reaching(c, <<"start">>, Level.info) \o Noted(c)
                     \o Reaching(c, Repeat("violation", logged[c]), Level.warn))'
      BY <2>2 DEF Due
    <3> QED
      BY <1>1, <2>1, <3>1
  <2>3. CASE pc'[c] = "end" /\ logged[c] + 1 = outcome[c]
    <3>1. Due(c)' = (Reaching(c, <<"start">>, Level.info) \o Noted(c)
                     \o Reaching(c, Repeat("violation", outcome[c]), Level.warn))'
      BY <1>4, <2>3 DEF Due
    <3> QED
      BY <1>1, <2>1, <2>3, <3>1
  <2> QED
    BY <2>2, <2>3
<1> HIDE DEF A, R, E
<1>7. A \o Noted(c) \in Seq(Word)
  BY <1>1, ConcatProperties
<1>8. PICK many \in Seq(Word) : many = R(logged[c])
  BY <1>3
<1>9. PICK before \in Seq(Word) : before = A \o Noted(c)
  BY <1>7
<1>10. before \o (many \o E) = (before \o many) \o E
  <2>1. PICK one \in Seq(Word) : one = E
    BY <1>1
  <2>2. before \o (many \o one) = (before \o many) \o one
    BY ConcatAssociative
  <2> QED
    BY <2>1, <2>2
<1>11. Due(c)' = Due(c) \o E
  BY <1>3, <1>5, <1>6, <1>8, <1>9, <1>10
<1> QED
  BY <1>11 DEF E

\* The end record.
LEMMA DueAfterEnd ==
  ASSUME LogTyped, NEW c \in Check, UNCHANGED options,
         pc[c] = "end", pc'[c] = "close", notes'[c] = notes[c], outcome'[c] = outcome[c]
  PROVE  Due(c)' = Due(c) \o Reaching(c, <<"end">>, IF outcome[c] = Failed THEN Level.error ELSE Level.info)
<1>1. /\ \A words, level : Reaching(c, words, level)' = Reaching(c, words, level)
      /\ Noted(c)' = Noted(c)
  BY Zenon DEF Reaching, Noted, Metrics
<1>2. Due(c) = Reaching(c, <<"start">>, Level.info) \o Noted(c)
               \o (IF outcome[c] = Failed THEN << >> ELSE Reaching(c, Repeat("violation", outcome[c]), Level.warn))
  BY DEF Due
<1>3. Due(c)' = Owed(c)'
  BY DEF Due
<1>4. Owed(c)' = Owed(c)
  BY <1>1, Zenon DEF Owed
<1> QED
  BY <1>2, <1>3, <1>4, Zenon DEF Owed

\* A check that writes a record, and moves on, logs its part.
LEMMA WritingLogs ==
  ASSUME LogTyped, IInv, NEW c \in Check, LogsItsPart(c),
         NEW level \in Int, NEW word \in Word, Record(c, level, word),
         UNCHANGED <<options, handle, cut, result>>,
         pc[c] \in Running \ {"open"}, pc'[c] \in Running \ {"open", "start"},
         pc'[c] = "rule" => logged'[c] = 0,
         pc'[c] = "violations" => outcome'[c] > 0 /\ logged'[c] < outcome'[c],
         Due(c)' = Due(c) \o Reaching(c, <<word>>, level)
  PROVE  LogsItsPart(c)' /\ logFile' \in Seq(Line) /\ screen' \in Seq(Line)
<1>1. Typed /\ result[c] = NoResult
  BY DEF IInv, Answer, Running
<1>2. handle[c] <=> options[c].file
  BY DEF LogsItsPart
<1>3. Due(c) \in Seq(Word)
  BY <1>1, DueIsWords DEF Typed
<1>4. logError \in [Check -> Cause]
  BY <1>1 DEF Typed
<1>5. /\ logFile' \in Seq(Line) /\ screen' \in Seq(Line)
      /\ logError'[c] = NoError =>
           /\ logError[c] = NoError
           /\ \A words \in Seq(Word) :
                LET more == words \o Reaching(c, <<word>>, level)
                IN  /\ options[c].file /\ Holds(logFile, c, words) => Holds(logFile', c, more)
                    /\ options[c].writer /\ Holds(screen, c, words) => Holds(screen', c, more)
  BY <1>2, <1>4, RecordHolds
<1>6. PICK due \in Seq(Word) : due = Due(c)
  BY <1>3
<1>7. PICK now : now = due \o Reaching(c, <<word>>, level)
  OBVIOUS
<1>8. Due(c)' = now
  BY <1>6, <1>7
<1>9. logError'[c] = NoError =>
        /\ options'[c].file /\ c \notin cut' => Holds(logFile', c, now)
        /\ options'[c].writer => Holds(screen', c, now)
  <2> SUFFICES ASSUME logError'[c] = NoError
               PROVE  /\ options'[c].file /\ c \notin cut' => Holds(logFile', c, now)
                      /\ options'[c].writer => Holds(screen', c, now)
    OBVIOUS
  <2>1. Logs(c, due)
    BY <1>5, <1>6 DEF LogsItsPart
  <2> QED
    BY <1>5, <1>7, <2>1 DEF Logs
<1>10. result'[c].kind # "violations"
  BY <1>1 DEF NoResult
<1>11. logError'[c] = NoError => Logs(c, Due(c))'
  BY <1>8, <1>9 DEF Logs
<1> QED
  BY <1>2, <1>5, <1>10, <1>11 DEF LogsItsPart, Running

\* Between records, nothing is due that was not.
LEMMA DueAfterRule ==
  ASSUME LogTyped, NEW c \in Check, NEW came \in Outcome, UNCHANGED <<options, notes, logged>>,
         pc[c] = "rule", logged[c] = 0, outcome[c] \in Outcome, outcome'[c] = came,
         pc'[c] = IF came > 0 THEN "violations" ELSE "end"
  PROVE  Due(c)' = Due(c)
<1> DEFINE A == Reaching(c, <<"start">>, Level.info)
           R(n) == Reaching(c, Repeat("violation", n), Level.warn)
<1>1. /\ A' = A /\ A \in Seq(Word) /\ Noted(c)' = Noted(c) /\ Noted(c) \in Seq(Word) /\ "violation" \in Word
  BY DueParts
<1>2. R(0) = << >> /\ \A n : R(n)' = R(n)
  <2>1. Repeat("violation", 0) = << >>
    BY DEF Repeat
  <2> QED
    BY <2>1 DEF Reaching
<1>3. Due(c) = A \o Noted(c)
  BY DEF Due
<1>4. (A \o Noted(c)) \o << >> = A \o Noted(c)
  BY <1>1, ConcatProperties, ConcatEmptySeq
<1>5. CASE came > 0
  <2>1. Due(c)' = (Reaching(c, <<"start">>, Level.info) \o Noted(c)
                   \o Reaching(c, Repeat("violation", logged[c]), Level.warn))'
    BY <1>5 DEF Due
  <2>2. Reaching(c, Repeat("violation", logged[c]), Level.warn)' = << >>
    BY <1>2 DEF LogTyped
  <2> QED
    BY <1>1, <1>3, <1>4, <2>1, <2>2
<1>6. CASE ~(came > 0)
  <2>1. came = 0 \/ came = Failed
    BY <1>6, BoundsType DEF Outcome, Failed
  <2>2. Due(c)' = (Reaching(c, <<"start">>, Level.info) \o Noted(c)
                   \o (IF outcome[c] = Failed THEN << >>
                       ELSE Reaching(c, Repeat("violation", outcome[c]), Level.warn)))'
    BY <1>6 DEF Due
  <2>3. (IF outcome[c] = Failed THEN << >>
         ELSE Reaching(c, Repeat("violation", outcome[c]), Level.warn))' = << >>
    BY <1>2, <2>1
  <2> QED
    BY <1>1, <1>3, <1>4, <2>2, <2>3
<1> QED
  BY <1>5, <1>6

\* Nothing is held of a check that has written nothing.
LEMMA NothingHeld == ASSUME NEW c PROVE Holds(<< >>, c, << >>)
<1>1. Mine(<< >>, c) = {}
  BY DEF Mine
<1> QED
  BY <1>1, FS_EmptySet DEF Holds

\* A step of a check keeps those types.
LEMMA TypesOfLog ==
  ASSUME LogTyped, NEW c \in Check, Advance(c), logFile' \in Seq(Line), screen' \in Seq(Line)
  PROVE  LogTyped'
<1> USE DEF LogTyped
<1>1. notes[c] \in Seq(Word) /\ "progress" \in Word /\ "metric" \in Word /\ logged[c] + 1 \in Nat
  BY DEF Word
<1>2. Append(notes[c], "progress") \in Seq(Word) /\ Append(notes[c], "metric") \in Seq(Word)
  BY <1>1
<1>3. /\ options' = options
      /\ handle' \in [Check -> BOOLEAN]
      /\ notes' \in [Check -> Seq(Word)]
      /\ logged' \in [Check -> Nat]
  <2>1. \A b \in Options \cup {NoBag} : b.file \in BOOLEAN
    <3>1. \A b \in Options : b.file \in BOOLEAN
      BY OptionsType
    <3>2. NoBag.file \in BOOLEAN
      BY DEF NoBag
    <3> QED
      BY <3>1, <3>2
  <2>2. options[c].file \in BOOLEAN
    BY <2>1
  <2>3. CASE OpenLog(c) \/ OpenLogFails(c)
    BY <2>2, <2>3 DEF OpenLog, OpenLogFails, own
  <2>4. CASE StartCheck(c) \/ EndCheck(c) \/ CloseLog(c) \/ CloseLogFails(c)
    BY <2>4 DEF StartCheck, EndCheck, CloseLog, CloseLogFails, own
  <2>5. CASE LogProgress(c) \/ LogMetric(c)
    BY <1>1, <1>2, <2>5 DEF LogProgress, LogMetric, Note
  <2>6. CASE LogViolation(c)
    BY <1>1, <2>6 DEF LogViolation
  <2>7. CASE \E came \in Outcome : RuleComesTo(c, came)
    BY <2>7 DEF RuleComesTo
  <2> QED
    BY <2>3, <2>4, <2>5, <2>6, <2>7 DEF Advance
<1> QED
  BY <1>3

\* The five steps that write a record.
LEMMA RecordsLog ==
  ASSUME LogInv, IInv, NEW c \in Check,
         StartCheck(c) \/ LogProgress(c) \/ LogMetric(c) \/ LogViolation(c) \/ EndCheck(c)
  PROVE  /\ LogsItsPart(c)' /\ logFile' \in Seq(Line) /\ screen' \in Seq(Line)
         /\ \A d \in Check \ {c} : Aside(d)
<1>1. /\ LogTyped /\ LogsItsPart(c) /\ Typed /\ Answer(c)
      /\ pc \in [Check -> Running \cup {"idle", "returned"}] /\ outcome[c] \in Outcome
      /\ logged \in [Check -> Nat] /\ notes \in [Check -> Seq(Word)]
      /\ logError \in [Check -> Cause]
  BY DEF LogInv, IInv, Typed, LogTyped
<1>2. /\ "start" \in Word /\ "progress" \in Word /\ "metric" \in Word /\ "violation" \in Word /\ "end" \in Word
  BY DEF Word
<1>3. /\ Level.debug \in Int /\ Level.info \in Int /\ Level.warn \in Int /\ Level.error \in Int
  BY DEF Level
<1>4. ASSUME NEW level \in Int, NEW word \in Word, Record(c, level, word), handle[c] <=> options[c].file,
             UNCHANGED <<options, handle, cut, result>>,
             \A d \in Check \ {c} : /\ pc'[d] = pc[d] /\ notes'[d] = notes[d]
                                    /\ outcome'[d] = outcome[d] /\ logged'[d] = logged[d]
      PROVE  \A d \in Check \ {c} : Aside(d)
  <2>1. /\ \A d \in Check \ {c} : \A words : /\ Holds(logFile, d, words) => Holds(logFile', d, words)
                                             /\ Holds(screen, d, words) => Holds(screen', d, words)
        /\ \A d \in Check \ {c} : logError'[d] = logError[d]
    BY <1>1, <1>4, RecordHolds
  <2> QED
    BY <1>4, <2>1 DEF Aside
<1>5. CASE StartCheck(c)
  <2>1. /\ Record(c, Level.info, "start") /\ UNCHANGED <<options, handle, cut, result, notes, outcome, logged>>
        /\ pc[c] = "start" /\ pc' = [pc EXCEPT ![c] = "rule"] /\ pc'[c] = "rule"
        /\ notes[c] = << >> /\ logged[c] = 0
        /\ handle[c] <=> options[c].file
    BY <1>1, <1>5 DEF StartCheck, Goto, own, LogsItsPart, Running
  <2>2. Due(c)' = Due(c) \o Reaching(c, <<"start">>, Level.info)
    BY <1>1, <2>1, DueAfterStart
  <2>3. LogsItsPart(c)' /\ logFile' \in Seq(Line) /\ screen' \in Seq(Line)
    BY <1>1, <1>2, <1>3, <2>1, <2>2, WritingLogs DEF Running
  <2> QED
    BY <1>1, <1>2, <1>3, <1>4, <2>1, <2>3
<1>6. ASSUME NEW level, NEW word, Note(c, level, word),
             (level = Level.debug /\ word = "progress") \/ (level = Level.info /\ word = "metric")
      PROVE  /\ LogsItsPart(c)' /\ logFile' \in Seq(Line) /\ screen' \in Seq(Line)
             /\ \A d \in Check \ {c} : Aside(d)
  <2>1. /\ Record(c, level, word) /\ UNCHANGED <<options, handle, cut, result, outcome, logged, pc>>
        /\ pc[c] = "rule" /\ pc'[c] = "rule" /\ logged[c] = 0 /\ logged'[c] = 0
        /\ notes' = [notes EXCEPT ![c] = Append(@, word)]
        /\ handle[c] <=> options[c].file
    BY <1>1, <1>6 DEF Note, LogsItsPart, Running
  <2>2. level \in Int /\ word \in Word
    BY <1>2, <1>3, <1>6
  <2>3. Due(c)' = Due(c) \o Reaching(c, <<word>>, level)
    BY <1>1, <1>6, <2>1, DueAfterNote
  <2>4. LogsItsPart(c)' /\ logFile' \in Seq(Line) /\ screen' \in Seq(Line)
    BY <1>1, <2>1, <2>2, <2>3, WritingLogs DEF Running
  <2> QED
    BY <1>1, <1>4, <2>1, <2>2, <2>4
<1>7. CASE LogViolation(c)
  <2>1. /\ Record(c, Level.warn, "violation") /\ UNCHANGED <<options, handle, cut, result, notes, outcome>>
        /\ pc[c] = "violations" /\ logged' = [logged EXCEPT ![c] = @ + 1] /\ logged'[c] = logged[c] + 1
        /\ pc' = [pc EXCEPT ![c] = IF logged[c] + 1 = outcome[c] THEN "end" ELSE "violations"]
        /\ outcome[c] > 0 /\ logged[c] < outcome[c]
        /\ handle[c] <=> options[c].file
    BY <1>1, <1>7 DEF LogViolation, Goto, LogsItsPart, Running
  <2>2. \/ pc'[c] = "violations" /\ logged[c] + 1 # outcome[c]
        \/ pc'[c] = "end" /\ logged[c] + 1 = outcome[c]
    BY <1>1, <2>1
  <2>3. Due(c)' = Due(c) \o Reaching(c, <<"violation">>, Level.warn)
    BY <1>1, <2>1, <2>2, DueAfterViolation
  <2>4. outcome[c] \in Int /\ logged[c] \in Nat
    BY <1>1, BoundsType DEF Outcome, Failed
  <2>5. pc'[c] = "violations" => outcome'[c] > 0 /\ logged'[c] < outcome'[c]
    BY <2>1, <2>2, <2>4
  <2>6. pc'[c] \in Running \ {"open", "start"} /\ pc'[c] # "rule" /\ pc[c] \in Running \ {"open"}
    BY <2>1, <2>2 DEF Running
  <2>7. LogsItsPart(c)' /\ logFile' \in Seq(Line) /\ screen' \in Seq(Line)
    BY <1>1, <1>2, <1>3, <2>1, <2>3, <2>5, <2>6, WritingLogs
  <2> QED
    BY <1>1, <1>2, <1>3, <1>4, <2>1, <2>7
<1>8. CASE EndCheck(c)
  <2> DEFINE level == IF outcome[c] = Failed THEN Level.error ELSE Level.info
  <2>1. /\ Record(c, level, "end") /\ UNCHANGED <<options, handle, cut, result, notes, outcome, logged>>
        /\ pc[c] = "end" /\ pc' = [pc EXCEPT ![c] = "close"] /\ pc'[c] = "close"
        /\ handle[c] <=> options[c].file
    BY <1>1, <1>8 DEF EndCheck, Goto, own, LogsItsPart, Running
  <2>2. Due(c)' = Due(c) \o Reaching(c, <<"end">>, level)
    BY <1>1, <2>1, DueAfterEnd
  <2>3. level \in Int
    BY <1>3
  <2> HIDE DEF level
  <2>4. LogsItsPart(c)' /\ logFile' \in Seq(Line) /\ screen' \in Seq(Line)
    BY <1>1, <1>2, <2>1, <2>2, <2>3, WritingLogs DEF Running
  <2> QED
    BY <1>1, <1>2, <1>4, <2>1, <2>3, <2>4
<1> QED
  BY <1>5, <1>6, <1>7, <1>8 DEF LogProgress, LogMetric

\* Opening the log, afresh or not.
LEMMA OpenLogLogs ==
  ASSUME LogInv, IInv, NEW c \in Check, OpenLog(c)
  PROVE  /\ LogsItsPart(c)' /\ logFile' \in Seq(Line) /\ screen' \in Seq(Line)
         /\ \A d \in Check \ {c} : Aside(d)
<1>1. /\ LogTyped /\ LogsItsPart(c) /\ Typed /\ pc[c] = "open"
      /\ pc' = [pc EXCEPT ![c] = "start"] /\ pc \in [Check -> Running \cup {"idle", "returned"}]
      /\ handle' = [handle EXCEPT ![c] = options[c].file] /\ handle \in [Check -> BOOLEAN]
      /\ UNCHANGED <<screen, options, notes, outcome, logged, logError, result>>
      /\ result[c] = NoResult
  BY DEF LogInv, IInv, Typed, Answer, OpenLog, Goto, own, LogTyped
<1>2. \/ logFile' = << >> /\ cut' = Check \ {c}
      \/ logFile' = logFile /\ cut' = cut \ {c}
  BY DEF OpenLog
<1>3. logFile' \in Seq(Line) /\ screen' \in Seq(Line)
  <2>1. << >> \in Seq(Line)
    OBVIOUS
  <2> QED
    BY <1>1, <1>2, <2>1 DEF LogTyped
<1>4. ASSUME NEW d \in Check \ {c} PROVE Aside(d)
  BY <1>1, <1>2, NothingHeld DEF Aside
<1>5. Holds(logFile', c, << >>) /\ Holds(screen', c, << >>)
  BY <1>1, <1>2, NothingHeld DEF LogsItsPart
<1>6. Due(c)' = << >> /\ pc'[c] = "start"
  BY <1>1 DEF Due
<1>7. Logs(c, Due(c))'
  BY <1>5, <1>6 DEF Logs
<1>8. handle'[c] = options'[c].file
  BY <1>1
<1>9. notes'[c] = << >> /\ logged'[c] = 0
  BY <1>1 DEF LogsItsPart
<1>10. LogsItsPart(c)'
  BY <1>6, <1>7, <1>8, <1>9 DEF LogsItsPart, Running
<1> QED
  BY <1>3, <1>4, <1>10

\* The rule coming to something.
LEMMA RuleLogs ==
  ASSUME LogInv, IInv, NEW c \in Check, NEW came \in Outcome, RuleComesTo(c, came)
  PROVE  /\ LogsItsPart(c)' /\ logFile' \in Seq(Line) /\ screen' \in Seq(Line)
         /\ \A d \in Check \ {c} : Aside(d)
<1>1. /\ LogTyped /\ LogsItsPart(c) /\ Typed /\ pc[c] = "rule" /\ outcome[c] \in Outcome
      /\ outcome' = [outcome EXCEPT ![c] = came] /\ outcome \in [Check -> Outcome]
      /\ pc' = [pc EXCEPT ![c] = IF came > 0 THEN "violations" ELSE "end"]
      /\ pc \in [Check -> Running \cup {"idle", "returned"}]
      /\ UNCHANGED <<logFile, screen, options, notes, logged, handle, logError, result, cut>>
      /\ result[c] = NoResult /\ logged[c] = 0
  BY DEF LogInv, IInv, Typed, Answer, RuleComesTo, Goto, LogsItsPart
<1>2. logFile' \in Seq(Line) /\ screen' \in Seq(Line)
  BY <1>1 DEF LogTyped
<1>3. ASSUME NEW d \in Check \ {c} PROVE Aside(d)
  BY <1>1 DEF Aside
<1>4. outcome'[c] = came /\ pc'[c] = IF came > 0 THEN "violations" ELSE "end"
  BY <1>1
<1>5. Due(c)' = Due(c)
  BY <1>1, <1>4, DueAfterRule
<1>6. PICK due : due = Due(c)
  OBVIOUS
<1>7. logError'[c] = NoError => Logs(c, Due(c))'
  <2>1. logError'[c] = NoError => Logs(c, due)
    BY <1>1, <1>6 DEF LogsItsPart, Running
  <2> QED
    BY <1>1, <1>5, <1>6, <2>1 DEF Logs
<1>8. pc'[c] = "violations" => outcome'[c] > 0 /\ logged'[c] < outcome'[c]
  BY <1>1, <1>4
<1>9. handle[c] <=> options[c].file
  BY <1>1 DEF LogsItsPart, Running
<1>10. LogsItsPart(c)'
  BY <1>1, <1>4, <1>7, <1>8, <1>9 DEF LogsItsPart, Running, NoResult
<1> QED
  BY <1>2, <1>3, <1>10

\* A check that comes back without an error had nothing to remember: all it owed is there.
LEMMA ReturnLogs ==
  ASSUME LogInv, IInv, NEW c \in Check, OpenLogFails(c) \/ CloseLog(c) \/ CloseLogFails(c)
  PROVE  /\ LogsItsPart(c)' /\ logFile' \in Seq(Line) /\ screen' \in Seq(Line)
         /\ \A d \in Check \ {c} : Aside(d)
<1>1. /\ LogTyped /\ LogsItsPart(c) /\ Typed
      /\ pc' = [pc EXCEPT ![c] = "returned"] /\ pc \in [Check -> Running \cup {"idle", "returned"}]
      /\ UNCHANGED <<logFile, screen, options, notes, logged, outcome, cut>>
      /\ logError \in [Check -> Cause] /\ result \in [Check -> Result] /\ handle \in [Check -> BOOLEAN]
  BY DEF LogInv, IInv, Typed, OpenLogFails, CloseLog, CloseLogFails, Goto, own, LogTyped
<1>2. logFile' \in Seq(Line) /\ screen' \in Seq(Line)
  BY <1>1 DEF LogTyped
<1>3. /\ \A d \in Check \ {c} : result'[d] = result[d] /\ handle'[d] = handle[d] /\ logError'[d] = logError[d]
  BY <1>1 DEF OpenLogFails, CloseLog, CloseLogFails
<1>4. ASSUME NEW d \in Check \ {c} PROVE Aside(d)
  BY <1>1, <1>3 DEF Aside
<1>5. pc'[c] = "returned" /\ ~handle'[c]
  BY <1>1 DEF OpenLogFails, CloseLog, CloseLogFails, LogsItsPart
<1>6. result'[c].kind = "violations" => pc[c] = "close" /\ logError[c] = NoError
  <2>1. \A cause : Error(cause).kind # "violations"
    BY DEF Error
  <2>2. \A failure : failure # NoError => Verdict(c, failure).kind # "violations"
    BY <2>1 DEF Verdict
  <2>3. "close" # NoError
    BY DEF NoError
  <2> QED
    BY <1>1, <2>1, <2>2, <2>3 DEF OpenLogFails, CloseLog, CloseLogFails
<1>7. result'[c].kind = "violations" => Logs(c, Due(c))'
  <2> SUFFICES ASSUME result'[c].kind = "violations" PROVE Logs(c, Due(c))'
    OBVIOUS
  <2>1. Due(c)' = Owed(c)'
    BY <1>5 DEF Due
  <2>2. Owed(c)' = Owed(c)
    <3>1. \A words, level : Reaching(c, words, level)' = Reaching(c, words, level)
      BY <1>1, Zenon DEF Reaching
    <3>2. Noted(c)' = Noted(c)
      BY <1>1, Zenon DEF Noted, Metrics, Reaching
    <3> QED
      BY <1>1, <3>1, <3>2, Zenon DEF Owed
  <2>3. PICK due : due = Owed(c)
    OBVIOUS
  <2>4. Due(c) = due
    BY <1>6, <2>3 DEF Due
  <2>5. Logs(c, due)
    BY <1>1, <1>6, <2>4 DEF LogsItsPart, Running
  <2> QED
    BY <1>1, <2>1, <2>2, <2>3, <2>5 DEF Logs
<1>8. LogsItsPart(c)'
  BY <1>5, <1>7 DEF LogsItsPart, Running
<1> QED
  BY <1>2, <1>4, <1>8

\* The invariant of the logs is inductive, given the other.
LEMMA InitLogInv == ArchInit => LogInv
<1> SUFFICES ASSUME ArchInit PROVE LogInv
  OBVIOUS
<1>1. LogTyped
  <2>1. << >> \in Seq(Line) /\ << >> \in Seq(Word)
    OBVIOUS
  <2> QED
    BY <2>1 DEF ArchInit, Init, LogTyped
<1>2. ASSUME NEW c \in Check PROVE LogsItsPart(c)
  <2>1. Holds(logFile, c, << >>) /\ Holds(screen, c, << >>)
    BY NothingHeld DEF ArchInit, Init
  <2> QED
    BY <2>1 DEF ArchInit, Init, LogsItsPart, Running, NoResult
<1> QED
  BY <1>1, <1>2 DEF LogInv

\* It is kept by every step of the tests.
LEMMA NextLogInv == LogInv /\ IInv /\ [ArchNext]_archVars => LogInv'
<1> SUFFICES ASSUME LogInv, IInv, [ArchNext]_archVars PROVE LogInv'
  OBVIOUS
<1>1. ASSUME UNCHANGED vars PROVE LogInv'
  <2>1. LogTyped'
    BY <1>1 DEF LogInv, LogTyped, vars
  <2>2. ASSUME NEW d \in Check PROVE LogsItsPart(d)'
    <3>1. Aside(d)
      BY <1>1 DEF Aside, vars
    <3> QED
      BY <3>1, OthersLog DEF LogInv
  <2> QED
    BY <2>1, <2>2 DEF LogInv
<1>2. ASSUME NEW c \in Check, Advance(c) PROVE LogInv'
  <2>1. /\ LogsItsPart(c)' /\ logFile' \in Seq(Line) /\ screen' \in Seq(Line)
        /\ \A d \in Check \ {c} : Aside(d)
    BY <1>2, RecordsLog, OpenLogLogs, RuleLogs, ReturnLogs DEF Advance
  <2>2. LogTyped'
    BY <1>2, <2>1, TypesOfLog DEF LogInv
  <2>3. \A d \in Check \ {c} : LogsItsPart(d)'
    BY <2>1, OthersLog DEF LogInv
  <2> QED
    BY <2>1, <2>2, <2>3 DEF LogInv
<1>3. ASSUME NEW c \in Check, NEW bag \in Options, Begin(c, bag) PROVE LogInv'
  <2>1. /\ LogTyped /\ LogsItsPart(c) /\ Typed /\ pc[c] = "idle" /\ result[c] = NoResult
        /\ pc' = [pc EXCEPT ![c] = "open"] /\ pc \in [Check -> Running \cup {"idle", "returned"}]
        /\ options' = [options EXCEPT ![c] = bag] /\ options \in [Check -> Options \cup {NoBag}]
        /\ UNCHANGED <<logFile, screen, handle, logError, notes, outcome, logged, result, cut>>
    BY <1>3 DEF LogInv, LogTyped, IInv, Typed, Answer, Begin, Goto
  <2>2. LogTyped'
    BY <2>1 DEF LogTyped
  <2>3. \A d \in Check \ {c} : Aside(d)
    BY <2>1 DEF Aside
  <2>4. \A d \in Check \ {c} : LogsItsPart(d)'
    BY <2>3, OthersLog DEF LogInv
  <2>5. pc'[c] = "open" /\ ~handle'[c] /\ result'[c].kind # "violations"
    BY <2>1 DEF LogsItsPart, Running, NoResult
  <2>6. LogsItsPart(c)'
    BY <2>1, <2>5 DEF LogsItsPart, Running
  <2> QED
    BY <2>2, <2>4, <2>6 DEF LogInv
<1>4. CASE UNCHANGED archVars
  BY <1>1, <1>4 DEF archVars
<1>5. CASE ArchNext
  BY <1>1, <1>2, <1>3, <1>5 DEF ArchNext, AssertNoRules, ArchStep, Report, AssertPasses
<1> QED
  BY <1>4, <1>5

\* logger.go and logged_check.go: a check that comes back without an error has every
\* record it owes, whole and in order, in every destination it asked for, unless its
\* file was started fresh under it; and no check that is over holds its file open.
THEOREM NothingIsLostSilently == ArchSpec => []NoSilentLoss
<1>1. ArchSpec => []LogInv
  BY InitLogInv, NextLogInv, Invariance, PTL DEF ArchSpec
<1>2. ASSUME LogInv, IInv PROVE NoSilentLoss
  <2> SUFFICES ASSUME NEW c \in Check
               PROVE  /\ pc[c] \notin Running => ~handle[c]
                      /\ result[c].kind = "violations" =>
                           /\ options[c].file /\ c \notin cut => Holds(logFile, c, Owed(c))
                           /\ options[c].writer => Holds(screen, c, Owed(c))
    BY DEF NoSilentLoss
  <2>1. LogsItsPart(c) /\ Typed /\ Answer(c)
    BY <1>2 DEF LogInv, IInv
  <2>2. CASE result[c].kind = "violations"
    <3>1. pc[c] = "returned"
      BY <2>1, <2>2 DEF Answer, NoResult
    <3>2. Due(c) = Owed(c)
      BY <3>1 DEF Due
    <3> QED
      BY <2>1, <2>2, <3>1, <3>2 DEF LogsItsPart, Logs, Running
  <2> QED
    BY <2>1, <2>2 DEF LogsItsPart
<1> QED
  BY <1>1, <1>2, Invariance, PTL

=============================================================================
