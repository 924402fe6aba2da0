SPECIFICATION Spec

CONSTANTS
  Step <- AStep
  Roots <- ARoots
  Fields <- AllFields
  MaxFields = 2

INVARIANTS
  PlacedVerbatim
CHECK_DEADLOCK FALSE
