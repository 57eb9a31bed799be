CONSTANTS
  MemMaps <- SupportedMaps
  PageBytes = 2
  IntPages = 16
  OomFrames = 2
  MaxRun = 2
SPECIFICATION Spec
INVARIANTS
  TypeOK
  HeldFramesAreMemory
  NothingFreeBelowHint
  CountersExact
  OutOfMemoryOnlyByCounter
PROPERTY ImplementsFrameOwnership
CHECK_DEADLOCK FALSE
