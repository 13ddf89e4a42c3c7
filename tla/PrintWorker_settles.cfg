SPECIFICATION FairSpec
CONSTANTS
  a = a
  b = b
  None = None
  Jobs = {a, b}
  NChunks <- OneChunk
  NotBefore <- HoldsB
  ExpiresAt <- ExpiresA
  RetryInterval = 2
  HoldPoll = 1
  MaxRetryAge = 2
  Skews <- NoSkew
  MaxTime = 8
  AcceptBy = 1
  SyncBy = 0
  MaxEnds = 1
  MaxFaults = 0
  Evictable = {}
CHECK_DEADLOCK FALSE
INVARIANTS
  TimeoutOnlyAfterRetryAge
PROPERTIES
  EveryJobSettles
