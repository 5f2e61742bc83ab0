CONSTANTS
  MaxFrames = 3
  MaxDelay = 1
  AsyncDepth = 1
  MaxRestarts = 1
  Faults = {"buffer", "encode", "sync", "flow"}

SPECIFICATION FairSpec

INVARIANTS
  Consistent
  LockedIsHeld
  OutputInOrder

PROPERTIES
  EosDelivered

CHECK_DEADLOCK FALSE
