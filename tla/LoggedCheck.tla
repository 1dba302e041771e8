------------------------------ MODULE LoggedCheck ------------------------------
(***************************************************************************)
(* CheckOptions.LoggedCheck of common/fluentapi/logged_check.go and the    *)
(* Logger of common/logging/logger.go under it, run by checks in parallel  *)
(* that share one log file and one injected writer.                        *)
(*                                                                         *)
(* Each check opens the file for itself (O_APPEND), so a record is one     *)
(* atomic append of one line; a write can be refused by either destination *)
(* and can put only part of its line into the file (a full disk).  What a  *)
(* check's rule does is left open: it writes some records of its own and   *)
(* comes to violations or to an error.                                     *)
(***************************************************************************)
EXTENDS Integers, Sequences, FiniteSets

CONSTANTS
  Check,          \* the checks of a suite
  Options,        \* the logging bags a check may be given
  MaxNotes,       \* bound on the records each rule writes of its own
  MaxViolations,  \* bound on the violations a rule reports
  MaxFailures     \* bound on the operations the environment refuses

\* level.go: a record is written when its level reaches the threshold.
Level == [debug |-> -1, info |-> 0, warn |-> 1, error |-> 2]
Threshold == -1 .. 3

ASSUME OptionsType ==
  Options \subseteq [level : Threshold, writer : BOOLEAN, file : BOOLEAN, overwrite : BOOLEAN]
ASSUME BoundsType == MaxNotes \in [Check -> Nat] /\ MaxViolations \in Nat /\ MaxFailures \in Nat

VARIABLES
  logFile,   \* the lines in the shared log file
  screen,    \* the lines the shared writer took
  pc,        \* the step each check is about to take
  options,   \* the bag it was given
  handle,    \* whether its Logger holds the file open
  logError,  \* Logger.err: the word of the first record that was not written
  notes,     \* the words its rule has logged so far
  outcome,   \* what its rule came to: a number of violations, or -1 for an error
  logged,    \* how many violation records LoggedCheck has written
  result,    \* what LoggedCheck returned
  failures,  \* operations the environment has refused so far
  cut        \* history: the checks whose file was truncated after they opened it

own == <<options, notes, outcome, logged>>
vars == <<logFile, screen, pc, options, handle, logError, notes, outcome, logged, result,
          failures, cut>>

Failed == -1
NoError == "none"
Outcome == Failed .. MaxViolations
Word == {"start", "progress", "metric", "violation", "end"}
Line == [by : Check, word : Word, whole : BOOLEAN]
Running == {"open", "start", "rule", "violations", "end", "close"}
NoBag == [level |-> Level.info, writer |-> FALSE, file |-> FALSE, overwrite |-> FALSE]

NoResult == [kind |-> "none"]
Violations(n) == [kind |-> "violations", count |-> n]
Error(cause) == [kind |-> "error", cause |-> cause]

Init ==
  /\ logFile = << >> /\ screen = << >>
  /\ pc = [c \in Check |-> "idle"]
  /\ options = [c \in Check |-> NoBag]
  /\ handle = [c \in Check |-> FALSE]
  /\ logError = [c \in Check |-> NoError]
  /\ notes = [c \in Check |-> << >>]
  /\ outcome = [c \in Check |-> 0]
  /\ logged = [c \in Check |-> 0]
  /\ result = [c \in Check |-> NoResult]
  /\ failures = 0
  /\ cut = {}

Goto(c, step) == pc' = [pc EXCEPT ![c] = step]
MayFail == failures < MaxFailures /\ failures' = failures + 1

-----------------------------------------------------------------------------
\* Logger.record.  io.MultiWriter writes to the injected writer first and stops
\* at the first destination that fails; the first failure is remembered.
Enabled(c, level) ==
  /\ options[c].writer \/ handle[c]
  /\ level >= options[c].level

Taken(lines, c, word, whole) == Append(lines, [by |-> c, word |-> word, whole |-> whole])
\* Mutant of Remember: a failure to write is dropped.
Forget(c, word) == c \in Check /\ word \in Word /\ UNCHANGED logError

Remember(c, word) == logError' = [logError EXCEPT ![c] = IF @ = NoError THEN word ELSE @]

WrittenEverywhere(c, word) ==
  /\ screen' = IF options[c].writer THEN Taken(screen, c, word, TRUE) ELSE screen
  /\ logFile' = IF handle[c] THEN Taken(logFile, c, word, TRUE) ELSE logFile
  /\ UNCHANGED <<logError, failures>>

RefusedByWriter(c, word) ==
  /\ options[c].writer /\ MayFail
  /\ Remember(c, word)
  /\ UNCHANGED <<screen, logFile>>

RefusedByFile(c, word) ==
  /\ handle[c] /\ MayFail
  /\ screen' = IF options[c].writer THEN Taken(screen, c, word, TRUE) ELSE screen
  /\ logFile' \in {logFile, Taken(logFile, c, word, FALSE)}
  /\ Remember(c, word)

Record(c, level, word) ==
  IF Enabled(c, level)
  THEN WrittenEverywhere(c, word) \/ RefusedByWriter(c, word) \/ RefusedByFile(c, word)
  ELSE UNCHANGED <<screen, logFile, logError, failures>>

-----------------------------------------------------------------------------
\* LoggedCheck, step by step.

Begin(c, bag) ==
  /\ pc[c] = "idle"
  /\ options' = [options EXCEPT ![c] = bag]
  /\ Goto(c, "open")
  /\ UNCHANGED <<logFile, screen, handle, logError, notes, outcome, logged, result, failures, cut>>

\* NewLogger: the file, if one was asked for, truncated when it is to be fresh.
OpenLog(c) ==
  /\ pc[c] = "open"
  /\ handle' = [handle EXCEPT ![c] = options[c].file]
  /\ IF options[c].file /\ options[c].overwrite
     THEN logFile' = << >> /\ cut' = Check \ {c}
     ELSE UNCHANGED logFile /\ cut' = cut \ {c}
  /\ Goto(c, "start")
  /\ UNCHANGED <<screen, own, logError, result, failures>>

OpenLogFails(c) ==
  /\ pc[c] = "open" /\ options[c].file
  /\ MayFail
  /\ result' = [result EXCEPT ![c] = Error("open")]
  /\ Goto(c, "returned")
  /\ UNCHANGED <<logFile, screen, own, handle, logError, cut>>

StartCheck(c) ==
  /\ pc[c] = "start"
  /\ Record(c, Level.info, "start")
  /\ Goto(c, "rule")
  /\ UNCHANGED <<own, handle, result, cut>>

\* The rule's own records: LogProgress, LogGraph and LogSelection at debug,
\* LogMetric at info.
Note(c, level, word) ==
  /\ pc[c] = "rule" /\ Len(notes[c]) < MaxNotes[c]
  /\ Record(c, level, word)
  /\ notes' = [notes EXCEPT ![c] = Append(@, word)]
  /\ UNCHANGED <<pc, options, outcome, logged, handle, result, cut>>

LogProgress(c) == Note(c, Level.debug, "progress")
LogMetric(c) == Note(c, Level.info, "metric")

RuleComesTo(c, came) ==
  /\ pc[c] = "rule"
  /\ outcome' = [outcome EXCEPT ![c] = came]
  /\ Goto(c, IF came > 0 THEN "violations" ELSE "end")
  /\ UNCHANGED <<logFile, screen, options, notes, logged, handle, logError, result, failures, cut>>

\* Mutant of LogViolation: only the first violation is written.
LogFirstViolation(c) ==
  /\ pc[c] = "violations"
  /\ Record(c, Level.warn, "violation")
  /\ logged' = [logged EXCEPT ![c] = @ + 1]
  /\ Goto(c, "end")
  /\ UNCHANGED <<options, notes, outcome, handle, result, cut>>

\* Mutant of LogViolation: the loop does not move on when nothing is written.
LogViolationStuck(c) ==
  /\ pc[c] = "violations"
  /\ Record(c, Level.warn, "violation")
  /\ logged' = IF Enabled(c, Level.warn) THEN [logged EXCEPT ![c] = @ + 1] ELSE logged
  /\ Goto(c, IF logged'[c] = outcome[c] THEN "end" ELSE "violations")
  /\ UNCHANGED <<options, notes, outcome, handle, result, cut>>

LogViolation(c) ==
  /\ pc[c] = "violations"
  /\ Record(c, Level.warn, "violation")
  /\ logged' = [logged EXCEPT ![c] = @ + 1]
  /\ Goto(c, IF logged[c] + 1 = outcome[c] THEN "end" ELSE "violations")
  /\ UNCHANGED <<options, notes, outcome, handle, result, cut>>

EndCheck(c) ==
  /\ pc[c] = "end"
  /\ Record(c, IF outcome[c] = Failed THEN Level.error ELSE Level.info, "end")
  /\ Goto(c, "close")
  /\ UNCHANGED <<own, handle, result, cut>>

\* Mutant of Verdict: the log's failure is reported even over the rule's own.
LogFailureFirst(c, failure) ==
  IF failure # NoError THEN Error(failure)
  ELSE IF outcome[c] = Failed THEN Error("rule")
  ELSE Violations(outcome[c])

\* The rule's own error, else the log's, else the violations.
Verdict(c, failure) ==
  IF outcome[c] = Failed THEN Error("rule")
  ELSE IF failure # NoError THEN Error(failure)
  ELSE Violations(outcome[c])

\* Close reports the first failure; a file that will not close is one as well.
CloseLog(c) ==
  /\ pc[c] = "close"
  /\ result' = [result EXCEPT ![c] = Verdict(c, logError[c])]
  /\ handle' = [handle EXCEPT ![c] = FALSE]
  /\ logError' = [logError EXCEPT ![c] = NoError]
  /\ Goto(c, "returned")
  /\ UNCHANGED <<logFile, screen, own, failures, cut>>

CloseLogFails(c) ==
  /\ pc[c] = "close" /\ handle[c]
  /\ MayFail
  /\ result' = [result EXCEPT ![c] =
                  Verdict(c, IF logError[c] = NoError THEN "close" ELSE logError[c])]
  /\ handle' = [handle EXCEPT ![c] = FALSE]
  /\ logError' = [logError EXCEPT ![c] = NoError]
  /\ Goto(c, "returned")
  /\ UNCHANGED <<logFile, screen, own, cut>>

Advance(c) ==
  \/ OpenLog(c) \/ OpenLogFails(c)
  \/ StartCheck(c) \/ LogProgress(c) \/ LogMetric(c)
  \/ \E came \in Outcome : RuleComesTo(c, came)
  \/ LogViolation(c) \/ EndCheck(c)
  \/ CloseLog(c) \/ CloseLogFails(c)

Next == \E c \in Check : Advance(c) \/ \E bag \in Options : Begin(c, bag)

Spec == Init /\ [][Next]_vars

-----------------------------------------------------------------------------
\* A destination holds a check's words: its lines there, among those of other
\* checks, are these words in this order, each whole.
Mine(lines, c) == {i \in DOMAIN lines : lines[i].by = c}
Rank(lines, c, i) == Cardinality({j \in Mine(lines, c) : j <= i})
Holds(lines, c, words) ==
  /\ Cardinality(Mine(lines, c)) = Len(words)
  /\ \A i \in Mine(lines, c) : lines[i].whole /\ lines[i].word = words[Rank(lines, c, i)]

Repeat(word, n) == [i \in 1 .. n |-> word]
Reaching(c, words, level) == IF level >= options[c].level THEN words ELSE << >>

\* What a rule logs of its own: progress at debug, metrics at info.
Metrics(c) == Cardinality({i \in DOMAIN notes[c] : notes[c][i] = "metric"})
Noted(c) == IF Level.debug >= options[c].level THEN notes[c]
            ELSE Reaching(c, Repeat("metric", Metrics(c)), Level.info)

\* The records a check's log should hold, in order, for what its rule came to.
Owed(c) ==
  Reaching(c, <<"start">>, Level.info)
  \o Noted(c)
  \o (IF outcome[c] = Failed THEN << >> ELSE Reaching(c, Repeat("violation", outcome[c]), Level.warn))
  \o Reaching(c, <<"end">>, IF outcome[c] = Failed THEN Level.error ELSE Level.info)

-----------------------------------------------------------------------------
\* "A truncated artifact that nobody was told about looks exactly like a run
\* that had nothing more to say": when a check comes back with no error, its
\* log holds every record it owes, whole and in order, in every destination it
\* asked for, unless another check has started the file fresh since, and no
\* check that is over, failed or not, still holds its file open.
NoSilentLoss ==
  \A c \in Check :
    /\ pc[c] \notin Running => ~handle[c]
    /\ result[c].kind = "violations" =>
         /\ options[c].file /\ c \notin cut => Holds(logFile, c, Owed(c))
         /\ options[c].writer => Holds(screen, c, Owed(c))

\* Violations and an error are never returned together, a rule that failed is
\* reported as itself whatever happened to its log, and a log is blamed only
\* when the rule succeeded.
RuleErrorWins ==
  \A c \in Check : pc[c] = "returned" =>
    /\ result[c].kind \in {"violations", "error"}
    /\ outcome[c] = Failed => result[c] = Error("rule")
    /\ result[c].kind = "violations" => result[c].count = outcome[c]

\* A line cut short in the file belongs to a check that has not returned yet,
\* or that returned an error.
TornLinesAreReported ==
  \A i \in DOMAIN logFile :
    ~logFile[i].whole => LET c == logFile[i].by
                         IN  logError[c] # NoError \/ result[c].kind = "error"

\* "... so that a log read by a person is readable and a log written by several
\* checks at once can still be read as pairs" (logger.go:147-149): in a file no
\* write to which failed, the end record of a check whose threshold lets both
\* through comes after its start record.
ReadsAsPairs ==
  failures = 0 =>
    \A i \in DOMAIN logFile :
      logFile[i].word = "end" /\ options[logFile[i].by].level <= Level.info =>
        \E j \in 1 .. i - 1 : logFile[j].by = logFile[i].by /\ logFile[j].word = "start"

=============================================================================
