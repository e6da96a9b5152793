SPECIFICATION DecodeSpec
CONSTANTS
  Word = 16
  Byte = {0}
  OutSizes <- MCOutSizes
  Lens <- MCLens
  Distances <- MCDistances
INVARIANTS
  WindowReads
  OutputBounds
  WrittenPrefix
  OkMeansComplete
PROPERTIES
  RepsMoveToFront
CHECK_DEADLOCK FALSE
