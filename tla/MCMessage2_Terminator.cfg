CONSTANTS
  HashSize = 4
  ParserSpace = 1
  SignedChar = TRUE
  Inputs <- RepeatInputs

SPECIFICATION Spec
CHECK_DEADLOCK FALSE

INVARIANT
  TerminatorInBounds
