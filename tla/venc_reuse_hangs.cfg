CONSTANTS
  MaxFrames = 2
  MaxDelay = 1
  AsyncDepth = 1
  MaxRestarts = 1
  Faults = {}

SPECIFICATION FairSpec

PROPERTIES
  ReusedChainReturns

CHECK_DEADLOCK FALSE
