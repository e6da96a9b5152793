SPECIFICATION LoadSpec
CONSTANTS
  Word = 12
  HdrSize = 2
  PhdrSize = 1
  Phdrs <- MCPhdrs
  Garbage <- MCGarbage
  Images <- MCImages
  LoaderCells <- MCLoaderCells
INVARIANT
  AllSegmentsLoaded
CHECK_DEADLOCK FALSE
