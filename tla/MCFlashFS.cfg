SPECIFICATION Spec
CONSTANTS
  Word = 16
  EntSize = 2
  NameLen = 2
  TypedLen = 2
  Names <- MCNames
  Disks <- MCDisks
  Amounts <- MCAmounts
  MaxListing = 3
INVARIANTS
  ListingComplete
  OpensFirstMatch
  ReadsOwnBytes
PROPERTIES
  ListedNamesOpen
  WalkEnds
CHECK_DEADLOCK FALSE
