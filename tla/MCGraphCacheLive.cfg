CONSTANTS
  Proc = {p1, p2}
  Request <- OneKey
  KeyOf <- MCKeyOf
  AnalysisOf <- MCAnalysisOf
  Key <- MCKey
  Analysis <- MCAnalysis
  Ref = {1, 2, 3, 4}
  NoRef = NoRef
  MaxEdits = 1
  NilBag = NilBag
  NilList = NilList
SPECIFICATION FairSpec
PROPERTIES
  EveryCheckReturns
