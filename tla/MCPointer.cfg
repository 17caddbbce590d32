SPECIFICATION PointerSpec
CONSTANTS
  Width = 4
  Height = 4
  Size = 2
  Cell = 2
  Deltas <- MCDeltas
  Start = 3
INVARIANT OnePointerOverText
PROPERTY PointerFollows
