SPECIFICATION Spec

CONSTANTS
  Step <- AStep
  Roots <- ARoots
  Fields <- AllFields
  MaxFields = 3

INVARIANTS
  PlacedValuesStay
  SkipsAreJustified
  NothingSilentlyDropped
  SelectorsReach
PROPERTIES
  SkippedLeavesNoTrace
  ImplementsAssembly
CHECK_DEADLOCK FALSE
