CONSTANTS
  HashSize = 4
  ParserSpace = 1
  SignedChar = TRUE
  Inputs <- MCInputs

SPECIFICATION Spec
CHECK_DEADLOCK FALSE

INVARIANTS
  CacheFaithful
