CONSTANTS
  heapStart = 32
  InitPages = 1
  PageSz = 32
  HdrSize = 7
  Align = 4
  Sizes = {1}
  Frames = 1
  MaxLive = 1
SPECIFICATION Spec
INVARIANT NextSegmentExists
CHECK_DEADLOCK FALSE
