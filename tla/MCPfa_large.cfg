CONSTANTS
  MemMaps <- LargeMaps
  PageBytes = 2
  IntPages = 4
  OomFrames = 2
  MaxRun = 2
SPECIFICATION Spec
INVARIANT NonUsableLocked
CHECK_DEADLOCK FALSE
