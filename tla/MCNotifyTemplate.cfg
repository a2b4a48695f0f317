CONSTANTS
  Templates <- MCTemplates
  Values <- MCValues
  Missing <- MissingValue
  GrowAmount = 4
  HostEnvelope = TRUE

SPECIFICATION Spec
CHECK_DEADLOCK FALSE

INVARIANTS
  OutputIsRendering
  WritesInBounds

PROPERTIES
  Terminates
