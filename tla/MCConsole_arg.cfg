CONSTANTS
  Calls <- ColouredArgument
  PanicCalls <- PanicOutput
  HexWidth = 3
  RowPoints = 6
  width = 6
  height = 4
  GlyphWidth = 2
  GlyphHeight = 2
SPECIFICATION Spec
PROPERTY PrintReturns
