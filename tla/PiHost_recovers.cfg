SPECIFICATION FairSpec
CONSTANTS
  Hardware = 3
  ProbeEvery = 4
  BounceEvery = 6
  DiskLimit = 7
  BounceAfter = 7
  Grace = 9
  NetLimit = 12
  Starts = {1, 4}
  MaxFaults = 2
  Steady = 6
INVARIANTS
  TypeOK
PROPERTIES
  NoNeedlessReset
  GuardIsCrashSafe
  Recovers
