CONSTANTS
  Projections <- MCProjections
  Limits <- MCLimits
  DefaultMaxCircuits = 2
SPECIFICATION Spec
INVARIANTS
  ClosedIsStrong
  CyclesAreTheCyclicEdges
  DeadEndsAreDead
  EachCircuitOnce
PROPERTIES
  ImplementsCircuitList
  Terminates
CHECK_DEADLOCK FALSE
