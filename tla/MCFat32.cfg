SPECIFICATION Spec
CONSTANTS
  Disks <- MCDisks
  SectorBytes = 8
  Slots = 2
  Wrap = 64
  RamChunks = 2
INVARIANTS BuffersReturned ReadsLandInBuffers ImageIsTheFile FirstFileIsOpened
PROPERTY CommandsReturn
