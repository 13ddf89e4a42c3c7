SPECIFICATION Spec
CONSTANTS
  rawA = rawA
  rawB = rawB
  docA = docA
  docB = docB
  copy = copy
  page = page
  k = k
  None = None
  Reqs = {docA, docB}
  Keys = {k}
  Kind <- KindOf
  Key <- KeyOf
  Payload <- PayloadOf
  Source <- SourceOf
  MaxDepth = 2
  MaxJobs = 2
  MaxEnds = 0
  MaxFaults = 0
  MaxEras = 0
  Evictable = {}
CHECK_DEADLOCK FALSE
INVARIANTS
  AnswersAgree
