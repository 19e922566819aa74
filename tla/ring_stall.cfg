SPECIFICATION FairSpec
CONSTANTS
  t1 = t1  t2 = t2  t3 = t3
  Writers <- TwoThreads
  NumBuffers = 2
  Compressed = TRUE
  MergedStores = FALSE
  PatientWaits = FALSE
  OpenMayFail = TRUE
  MayBreak = {1}
  MaxFailures = 1
  RolloverLimit = 2
  MaxBuffers = 4
  MaxRuns = 1
INVARIANTS
  FdMutex
PROPERTIES
  EndCompletes
