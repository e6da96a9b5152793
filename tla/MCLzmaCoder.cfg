SPECIFICATION CoderSpec
CONSTANTS
  RcByte = 4
  Top = 64
  Total = 8
  Move = 4
  Contexts = {1, 2}
  InitBytes = 5
INVARIANTS
  OneByteNormalizes
  CodeInRange
  ProbIndexesInBounds
  DistancesTile
PROPERTIES
  CodeCrossings
CHECK_DEADLOCK FALSE
