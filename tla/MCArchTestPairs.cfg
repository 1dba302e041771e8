CONSTANTS
  Check = {1, 2}
  Options <- Fresh
  MaxNotes <- NoNotes
  MaxViolations = 0
  MaxFailures = 0
  Plans <- TwoTests
  LimitListed = 0
SPECIFICATION ArchSpec
INVARIANTS
  ReadsAsPairs
CHECK_DEADLOCK FALSE
