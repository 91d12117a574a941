SPECIFICATION Spec
CONSTANTS
  MaxSets = 2
  MaxExternal = 0
  FineClock = TRUE
INVARIANT SetValueUndisturbed
