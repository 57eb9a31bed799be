CONSTANTS
  Fan = 8
  Frames = {}
  VPages = {}
  PPages = {}
  Machines <- Large
  Unit = 2
  hhdmOffset = 2048
  mem_kVirtOffset = 4088
  IdentityPages = 56
  HeapStart = 32
  BitmapPages = 1
  OomFrames = 4
  HeapPages = 4
  HeapLimit = 26
SPECIFICATION BootSpec
INVARIANT TablesReachable
CHECK_DEADLOCK FALSE
