SPECIFICATION FairSpec
CONSTANTS
  t1 = t1  t2 = t2  t3 = t3
  Writers <- TwoThreads
  NumBuffers = 3
  Compressed = TRUE
  MergedStores = TRUE
  PatientWaits = TRUE
  OpenMayFail = FALSE
  MayBreak = {}
  MaxFailures = 1
  RolloverLimit = 2
  MaxBuffers = 6
  MaxRuns = 2
INVARIANTS
  TypeOK FdStable NoFillWhileWriting CloseComplete ReportsMatch RolloverBound
PROPERTIES
  ImplementsLog
