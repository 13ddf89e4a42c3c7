SPECIFICATION Spec
CONSTANTS
  Hardware = 3
  ProbeEvery = 4
  BounceEvery = 6
  DiskLimit = 7
  BounceAfter = 7
  Grace = 9
  NetLimit = 12
  Starts = {1, 4}
  MaxFaults = 0
  Steady = 6
PROPERTIES
  NoNeedlessSysrq
