CONSTANTS
  Vectors = {14}
  ZeroSets <- MCZeroSets
SPECIFICATION Spec
INVARIANTS MissingCallReturnsZero
CHECK_DEADLOCK FALSE
