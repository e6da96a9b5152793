SPECIFICATION Spec
CONSTANTS
  Calls <- MCCalls
  Old <- MCOld
  Word = 256
  Short = 16
  PtrDigits = 2
  CrLf = TRUE
INVARIANTS
  InsideFormat
PROPERTIES
  NumbersReadBack
  StringsExact
CHECK_DEADLOCK FALSE
