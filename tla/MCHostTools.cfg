SPECIFICATION Spec
CONSTANTS
  Word = 128
  Argvs <- MCArgvs
  Inputs <- MCInputs
  PackedSizes <- MCPackedSizes
INVARIANTS
  ImageLaidOut
  HeaderDescribes
  CrcsValid
  ExitHonest
  StaysDefined
CHECK_DEADLOCK FALSE
