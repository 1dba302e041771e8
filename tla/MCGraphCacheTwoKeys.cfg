CONSTANTS
  Proc = {p1, p2}
  Request <- TwoKeys
  KeyOf <- MCKeyOf
  AnalysisOf <- MCAnalysisOf
  Key <- MCKey
  Analysis <- MCAnalysis
  Ref = {1, 2, 3, 4, 5}
  NoRef = NoRef
  MaxEdits = 1
  NilBag = NilBag
  NilList = NilList
SYMMETRY Checks
SPECIFICATION Spec
INVARIANTS
  TypeOK
  CopyIsolation
  AnswersItsOwnQuestion
  OnlyCrossedKeysAreStale
PROPERTIES
  ImplementsMemo
