SPECIFICATION Spec
CONSTANTS
  Files <- MCFiles
  Byte = 16
  Garbage = {0, 2}
  NoWord = 999
INVARIANTS
  ShowsTables
  ToolStaysDefined
CHECK_DEADLOCK FALSE
