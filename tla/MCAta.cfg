SPECIFICATION FairSpec
CONSTANTS
  Requests <- MCRequests
  Attached = {1}
  DiskSectors = 6
  LbaLimit = 8
  BadSectors = {3}
  Polls = 4
INVARIANTS TypeOK FailsForAReason
PROPERTIES ImplementsReader ReadReturns
