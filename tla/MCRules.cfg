SPECIFICATION MCSpec
CONSTANTS
  Name <- MCName
  NoName = ""
  Pattern <- MCPattern
  Exceptions <- MCExceptions
  Describes <- MCDescribes
  Project <- MCProject
  MaxCalls = 8
  MaxMistakes = 2
  Slicing <- MCSlicing
  Cut <- MCCut
  Slice <- MCSlice
  Text <- MCText
  SlicedProject <- MCSliced
  MaxSliceCalls = 5
  MaxEdits = 1
  MaxLines = 3
  MaxStrokes = 3
  MaxLength = 4
  Families = {"layers", "slices", "texts", "globs"}
INVARIANTS
  TypeOK
  FirstMistakeWins
  PolicyMeansItsSentence
  VerdictIsTheSentence
  EveryDependencyIsAccountedFor
  ExportIsReadBack
  ReadAsMeant
  GlobMeansItsSyntax
CHECK_DEADLOCK FALSE
