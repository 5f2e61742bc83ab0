SPECIFICATION FairSpec
CONSTANTS
  MaxFrames = 2
  MaxSwitches = 1
  Rate = 2
  MaxDelay = 1
  PoolSize = 2
  SinkKeeps = 1
  AsyncDepth = 1
  VideoMemory = TRUE
  Faults = {"buffer", "copy", "run", "sync", "flow"}
  MaxFailures = 1
INVARIANTS
  Consistent
  LockedIsHeld
  OutputInOrder
PROPERTIES
  EosDelivered
CHECK_DEADLOCK FALSE
