CONSTANTS
  Vectors = {1, 3, 6, 8, 10, 11, 12, 13, 14}
  ZeroSets <- MCZeroSets
SPECIFICATION Spec
INVARIANTS DebuggerShowsRegisters StepIsTransparent ResumeIsBalanced 
CHECK_DEADLOCK FALSE
