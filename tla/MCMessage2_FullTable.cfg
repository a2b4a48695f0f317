CONSTANTS
  HashSize = 2
  ParserSpace = 1
  SignedChar = TRUE
  Inputs <- MCInputs

SPECIFICATION Spec
CHECK_DEADLOCK FALSE

INVARIANT
  CacheFaithful
