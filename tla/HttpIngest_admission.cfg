SPECIFICATION FairSpec
CONSTANTS
  rawA = rawA
  rawB = rawB
  docA = docA
  docB = docB
  copy = copy
  page = page
  k = k
  None = None
  Reqs = {rawA, rawB, docA, copy}
  Keys = {k}
  Kind <- KindOf
  Key <- KeyOf
  Payload <- PayloadOf
  Source <- SourceOf
  MaxDepth = 2
  MaxJobs = 1
  MaxEnds = 1
  MaxFaults = 1
  MaxEras = 1
  Evictable = {docA}
CHECK_DEADLOCK FALSE
INVARIANTS
  TypeOK
  RawAnswersAgree
  AnsweredIsKept
  PendingHasChunks
  PendingIsWoken
PROPERTIES
  AdmittedUnderCap
  EveryRequestEnds
