CONSTANTS
  Check = {1, 2}
  Options <- Mixed
  MaxNotes <- OneNote
  MaxViolations = 2
  MaxFailures = 1
  Plans <- MCPlans
  LimitListed = 1
SPECIFICATION ArchSpec
INVARIANTS
  NoSilentLoss
  RuleErrorWins
  TornLinesAreReported
  EveryFailureReachesTheTest
PROPERTIES
  EveryRuleIsAsserted
CHECK_DEADLOCK FALSE
