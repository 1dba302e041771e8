SPECIFICATION Spec
CONSTANTS
  Families = {"graph", "documents", "classes", "metrics"}
  MaxCalls = 3
  MaxLabel = 4
  MaxScope = 3
  Graphs <- MCGraphs
  Describes <- MCDescribes
  Calls <- MCCalls
  FolderDepth = {0, 1}
  Exceptions <- MCExceptions
  Classes <- MCClasses
  MetricsDescribes <- MCMetricsDescribes
  Scopes <- MCScopes
  Conditions <- MCConditions
  Projects <- MCProjects
  Namesakes = FALSE
INVARIANTS
  EveryBuilderMeansItsChain
  SnapshotIsTheQuery
  DocumentsAreReadBack
  PiecesHangTogether
  ScoresKeepTheirScale
  VerdictIsTheNumbers
  ComponentsKeepTheirScale
CHECK_DEADLOCK FALSE
