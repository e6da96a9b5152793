SPECIFICATION Spec
CONSTANTS
  Word = 4096
  Byte = {0}
  OutSizes = {0, 2, 3}
  Lens = {0}
  Distances = {0, 1, 3}
  FileLens <- MCFileLens
  Chunk = 4
INVARIANTS
  NeverPastEnd
  StreamContiguous
  ProgressGrows
  StartedFromWholeFile
PROPERTIES
  LoadEnds
CHECK_DEADLOCK FALSE
