SPECIFICATION Spec
CONSTANTS
  a = a
  b = b
  None = None
  Jobs = {a, b}
  NChunks <- PlainChunks
  NotBefore <- HoldsB
  ExpiresAt <- ExpiresA
  RetryInterval = 2
  HoldPoll = 1
  MaxRetryAge = 1
  Skews <- Wrong
  MaxTime = 2
  AcceptBy = 1
  SyncBy = 1
  MaxEnds = 1
  MaxFaults = 1
  Evictable = {a}
CHECK_DEADLOCK FALSE
INVARIANTS
  TypeOK
  NeverPrintedTwice
  NoPaperStatuses
  PrintedToTheEnd
  NoOvertaking
  ExpiredIsPast
  HeldUntilNotBefore
  NoLostWakeup
PROPERTIES
  TerminatedStaysOffPaper
  KeepsJournal
