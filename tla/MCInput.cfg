SPECIFICATION FairSpec
CONSTANTS
  Keys = {"LCtrl", "RCtrl"}
  Modifier <- MCModifier
INVARIANTS FullBufferIsAnnounced EveryPathSendsEoi NothingStrays PacketsAligned NoStuckModifier
PROPERTIES BytesAreTaken PointerIsRedrawn
