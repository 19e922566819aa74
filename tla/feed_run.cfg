SPECIFICATION FairSpec
CONSTANTS
  NumBuffers = 2
  MaxBuffers = 4
  MaxRuns = 2
  MaxQueue = 3
INVARIANTS
  TakeTurns SentIsLatest
PROPERTIES
  SwitchCompletes
