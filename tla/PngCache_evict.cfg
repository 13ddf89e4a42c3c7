SPECIFICATION Spec
CONSTANTS
  a = a
  b = b
  c = c
  None = None
  Jobs = {a, b, c}
  NChunks <- MixedChunks
  MaxBytes = 2
  Ttl = 1
  MaxTime = 2
  MaxEnds = 2
  MaxFaults = 1
CHECK_DEADLOCK FALSE
INVARIANTS
  LruIsDisk
  CapAfterPut
  PartsAreTails
