SPECIFICATION MCSpec
CONSTANTS
  Kind = {"plain", "blank", "dot"}
  Scope = {"layers"}
  ImportPath <- MCImportPath
  File <- MCFile
  Role <- MCRole
  Constrained <- MCConstrained
  ModulePath <- MCModulePath
  NestedModules <- MCNestedModules
  ToolchainIgnored = {"testdata"}
  FolderName = {"build"}
  Generated <- MCGenerated
  Project <- MCProject
  Options <- MCOptions
  Spelling <- MCSpelling
  ResolvedRoot <- MCResolvedRoot
  DefaultFolders <- MCDefaultFolders
  PassedOver = {4}
  FolderLists <- MCFolderLists
  TagLists <- MCTagLists
  KindSets <- MCKindSets
  ScopeLists <- MCScopeLists
  NilBag = NilBag
  NilList = NilList
INVARIANTS
  GraphIsTheUnion
  GraphIsClosed
  GraphIsWhatTheSourceSays
  KeysAreAnalyses
CHECK_DEADLOCK FALSE
