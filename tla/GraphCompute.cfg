SPECIFICATION FairSpec
CONSTANTS
  Shapes <- AllShapes
  Batches = {1, 3}
  MaxChunkSize = 8
  MaxChunks = 3
  Endless = 50
  NThreads = 2
  ChunkFactor = 1
  PlannedNodes = 3
INVARIANTS LiveApart FreeListIsExact NodesInStep ChunksOnce ReadsAreFresh
PROPERTIES ComputeReturns
