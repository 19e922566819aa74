SPECIFICATION FairSpec
CONSTANTS
  OpenMayFail = TRUE
  ServerMayFail = TRUE
  DiskMayFail = TRUE
  NumBuffers = 2
  Limits = {0, 3}
  MaxBuffers = 3
  MaxRuns = 2
INVARIANTS
  RunStored AtMostOneUnstored EndedAcked
PROPERTIES
  ImplementsLog Answered
CHECK_DEADLOCK FALSE
