SPECIFICATION LaunchSpec
CONSTANTS
  Images <- MCImages
  RamCells = 12
  Programs <- MCPrograms
  ApiCount = 70
  NameLength <- MCNameLength
  AntiDebug = {25}
  ZoneWords = 8
  Leftovers <- MCLeftovers
CONSTRAINT Followed
CHECK_DEADLOCK FALSE
INVARIANTS FindsMain
