CONSTANTS
  Inputs <- MCInputs
  Malformed <- MCMalformed

SPECIFICATION Spec
CHECK_DEADLOCK FALSE

INVARIANTS
  TypeOK

PROPERTIES
  RecoveryAsAbstracted
  Terminates
