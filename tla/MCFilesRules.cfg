SPECIFICATION MCSpec
CONSTANTS
  File = {1, 2, 3}
  Module = {8, 9}
  Pattern <- MCPattern
  Exceptions <- MCExceptions
  Describes <- MCDescribes
  Content = {"good", "bad"}
  Predicate = {{"good"}}
  NoPredicate = NoPredicate
  NoPattern = ""
  Graph <- MCGraph
  DefaultMaxCircuits = 2
  MaxStages = 7
  MaxMistakes = 2
  MaxBranches = 1
  BranchCost = 2
INVARIANTS
  TypeOK
  FirstMistakeWins
  VerdictIsTheSentence
PROPERTY
  StagesAreValues
CHECK_DEADLOCK FALSE
