SPECIFICATION Spec
CONSTANTS
  t1 = t1  t2 = t2  t3 = t3
  Writers <- ThreeThreads
  NumBuffers = 3
  Compressed = FALSE
  MergedStores = TRUE
  PatientWaits = TRUE
  OpenMayFail = FALSE
  MayBreak = {}
  MaxFailures = 0
  RolloverLimit = 0
  MaxBuffers = 4
  MaxRuns = 1
SYMMETRY Symmetry
INVARIANTS
  BeginRunFirst
