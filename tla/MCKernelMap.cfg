CONSTANTS
  Fan = 8
  Frames = {}
  VPages = {}
  PPages = {}
  Machines <- All
  Unit = 2
  hhdmOffset = 2048
  mem_kVirtOffset = 4088
  IdentityPages = 64
  HeapStart = 48
  BitmapPages = 1
  OomFrames = 4
  HeapPages = 6
  HeapLimit = 16
SPECIFICATION BootSpec
INVARIANTS TablesReachable HeapFramesPrivate MemoryMapMapped AcpiTablesReadable
PROPERTY BootEnds
CHECK_DEADLOCK FALSE
