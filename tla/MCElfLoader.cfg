SPECIFICATION LoadSpec
CONSTANTS
  Word = 12
  HdrSize = 2
  PhdrSize = 1
  Phdrs <- MCPhdrs
  Garbage <- MCGarbage
  Images <- MCImages
  LoaderCells <- MCLoaderCells
INVARIANTS
  PhdrCursor
  LoadCorrect
  LastSegmentLoads
PROPERTIES
  BootableStarts
  LoadersEnd
CHECK_DEADLOCK FALSE
