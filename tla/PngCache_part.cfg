SPECIFICATION Spec
CONSTANTS
  a = a
  b = b
  c = c
  None = None
  Jobs = {a, b}
  NChunks <- PairChunks
  MaxBytes = 2
  Ttl = 1
  MaxTime = 2
  MaxEnds = 1
  MaxFaults = 0
CHECK_DEADLOCK FALSE
INVARIANTS
  WholeOrNone
