SPECIFICATION Spec
CONSTANTS
  NUL = "nul"
  Space = " "
  Junk = "junk"
  Platforms <- MCPlatforms
  Chars <- MCChars
  n = 7
  Careful = TRUE
  Below = 1
  Lines <- MCLines
  KernelLen = 4
  Files <- MCFiles
  Class32 <- MCClass32
  ConsoleWord <- MCConsoleWord
  LzmaWord <- MCLzmaWord
INVARIANT
  KernelNameExtracted
CHECK_DEADLOCK FALSE
