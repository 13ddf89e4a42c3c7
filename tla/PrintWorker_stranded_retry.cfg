SPECIFICATION Spec
CONSTANTS
  a = a
  b = b
  None = None
  Jobs = {a, b}
  NChunks <- OneChunk
  NotBefore <- NoDeadlines
  ExpiresAt <- NoDeadlines
  RetryInterval = 2
  HoldPoll = 1
  MaxRetryAge = 1
  Skews <- NoSkew
  MaxTime = 4
  AcceptBy = 2
  SyncBy = 0
  MaxEnds = 0
  MaxFaults = 1
  Evictable = {}
CHECK_DEADLOCK FALSE
INVARIANTS
  RetryIsScheduled
