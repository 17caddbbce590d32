CONSTANTS
  HeapStart = 3
  HeapSize = 18
  HeaderSize = 2
  SplitSlack = 1
  Requests = {0, 1, 3, 6, 99}
SPECIFICATION FairSpec
INVARIANTS TypeOK ListCoversArena OwnersMatchBlocks GrantsAreSnug WalkSkipsNothing
PROPERTIES ImplementsAllocator MallocReturns
