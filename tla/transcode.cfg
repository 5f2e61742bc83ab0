CONSTANTS
  MaxFrames = 4
  PoolSize = 3
  MaxRefs = 1
  MaxDelay = 1

SPECIFICATION FairSpec

INVARIANTS
  Consistent
  FreeIsUnlocked
  AllFramesCoded

PROPERTIES
  EosDelivered

CHECK_DEADLOCK FALSE
