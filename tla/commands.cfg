SPECIFICATION FairPageSpec
CONSTANTS
  l1 = l1  l2 = l2  l3 = l3  e1 = e1
  n1 = n1  n2 = n2
  Loops <- ThreeLoops
  EndThreads <- OneEndThread
  Usages <- AllUsages
  BeginMayFail = TRUE
  MaxRuns = 2
  MaxEvents = 1
  MaxDevices = 1
  Ports = {1, 2}
  Names <- TwoNames
INVARIANTS
  Bracketed OneFiller EndsRightRun SizesCurrent
PROPERTIES
  PageFollows RpcAnswers
