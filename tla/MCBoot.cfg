SPECIFICATION Spec
CONSTANTS
  NUL = "nul"
  Space = " "
  Junk = "junk"
  Platforms <- MCPlatforms
  Chars <- MCChars
  n = 7
  Careful = TRUE
  Below = 1
  Lines <- MCLines
  KernelLen = 4
  Files <- MCFiles
  Class32 <- MCClass32
  ConsoleWord <- MCConsoleWord
  LzmaWord <- MCLzmaWord
INVARIANTS
  InBuffer
  BareNameExact
  NameAtMostOneStray
  ArgumentsKept
PROPERTY
  EditsLines
CHECK_DEADLOCK FALSE
