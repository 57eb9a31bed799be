CONSTANTS
  heapStart = 32
  InitPages = 1
  PageSz = 32
  HdrSize = 7
  Align = 4
  Sizes = {0, 1, 7, 26}
  Frames = 4
  MaxLive = 3
SPECIFICATION Spec
INVARIANTS TypeOK SegmentsTile FreeSegmentsMerged LiveBlocksOwnSegments WasteBounded NoFragmentsLeft TwoExpansionsSuffice ZeroingSparesHeaders
PROPERTY ImplementsBlocks
CHECK_DEADLOCK FALSE
