CONSTANTS
  MemMaps <- SparseMaps
  PageBytes = 2
  IntPages = 64
  OomFrames = 2
  MaxRun = 2
SPECIFICATION Spec
INVARIANT BitmapInUsableMemory
CHECK_DEADLOCK FALSE
