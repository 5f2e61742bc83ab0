CONSTANTS
  Kinds = {"venc", "vdec", "vpp"}
  MaxLives = 2
  MaxStreams = 2
  MaxCaps = 2
  MaxTasks = 2
  Faults = {"session", "impl", "display", "allocator", "handle", "codec", "setAllocator",
            "start", "caps", "header", "outCaps", "plugin", "query", "init", "params", "pool"}
  MaxFailures = 1
  EosBeforeCaps = FALSE

SPECIFICATION FairSpec

INVARIANTS
  NullHoldsNothing
  UseIsSafe

PROPERTIES
  EosOrError

CHECK_DEADLOCK FALSE
