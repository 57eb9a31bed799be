CONSTANTS
  Subjects = {"list", "bitmap", "entry", "numbers", "paging", "logger", "clock", "interrupts"}
  Values = {1, 2, 3}
  Capacities = {1, 2, 4}
  MaxLength = 5
  Garbage = 99
  Size = 2
  Offsets = {0, 1, 3, 6, 7, 8, 12, 15, 17, 40}
  Behind = {0, 170}
  Shift = 3
  AddrBits = 4
  Width = 9
  Addresses = {0, 1, 8, 15, 16, 31, 256, 511}
  Bits = 6
  Bases = {0, 1, 2, 3, 8, 10, 16, 36, 37}
  Messages <- Texts
  ErrorCodes <- PageFaultCodes
  Targets = {"NONE", "TERMINAL", "SERIAL", "BOTH"}
  BuilderSizes = {1, 2}
  HeapAddresses = {1, 2, 3, 4}
  baseFrequency = 119
  Second = 1000
  Byte = 4
  MinDivisor = 3
  Naps = {1, 125, 300}
  Frequencies = {7, 8, 11, 39, 60}
  MaxTicks = 5
  Field = 64
  vector_0_handler = 20464
  Vectors = {0, 2, 13, 14, 17, 200}
  MaxDepth = 2
  Fan = 2
  Frames = {1, 2, 3, 4, 6, 7, 8, 9, 10, 11}
  VPages = {0, 1, 3, 6, 13, 16}
  PPages = {3, 20}
SPECIFICATION LibSpec
INVARIANTS
  ListIsSequence BitmapIsBitSet EntryKeepsFlagsAndAddress
  NumberReadsBack TypeOK TranslationIsLastMapping TablesAreMinimal BlocksReturned BuildsConcatenation
  FrequencyHonoured SleepAccurate
  GatesReachHandlers FrameIsCPUStatus InterruptedStateRestored PanicTextDecodes
CHECK_DEADLOCK FALSE
