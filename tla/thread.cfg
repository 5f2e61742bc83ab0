CONSTANTS
  MaxPosts = 4
  MaxStarts = 3
  Waiters = {u1}
  RestartWhileRunning = FALSE

SPECIFICATION FairSpec

INVARIANTS
  Accounting
  FifoNoLoss
  QuiescentAfterStop

PROPERTIES
  PromiseSpec
  StopReturns
  AcceptedRuns
