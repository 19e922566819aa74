SPECIFICATION Spec
CONSTANTS
  NumBuffers = 3
  max_length <- ThreeBlocks
  FrameLength = 0
  Excess = 6
  Readlists <- LargeEvents
  Deliver <- Extremes
  SizeSettings <- TwoBlocksUp
INVARIANTS
  WithinMemory WithinSize BlocksInMemory EventFits
