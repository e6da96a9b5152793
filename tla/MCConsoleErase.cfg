SPECIFICATION GetsSpec
CONSTANTS
  NUL = "nul"
  Space = " "
  Junk = "junk"
  Platforms <- AllPlatforms
  Chars <- MCChars
  n = 5
  Careful = FALSE
  Below = 2
INVARIANT
  InBuffer
