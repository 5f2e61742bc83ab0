CONSTANTS
  MaxInputs = 3
  PerInput = 1
  PoolSize = 3
  MaxDelay = 1
  KeepsRefs = FALSE
  SinkKeeps = 1
  AsyncDepth = 1
  Faults = {"query", "init", "params", "decode", "sync", "flow"}
  MaxFailures = 1

SPECIFICATION FairSpec

INVARIANTS
  Consistent
  LockedIsKept
  EosIsLast

PROPERTIES
  ChainReturns
  EosDelivered
  DisposeReturns

CHECK_DEADLOCK FALSE
