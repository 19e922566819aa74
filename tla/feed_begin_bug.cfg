SPECIFICATION Spec
CONSTANTS
  NumBuffers = 2
  MaxBuffers = 3
  MaxRuns = 2
  MaxQueue = 2
INVARIANTS
  EventStaysOpen
