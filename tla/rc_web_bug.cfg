SPECIFICATION WebSpec
CONSTANTS
  l1 = l1  l2 = l2  l3 = l3  e1 = e1
  Loops <- ThreeLoops
  EndThreads <- OneEndThread
  Usages <- WebOnly
  BeginMayFail = TRUE
  MaxRuns = 2
  MaxEvents = 2
  MaxDevices = 1
INVARIANTS
  Bracketed
