SPECIFICATION Spec
CONSTANTS
  MaxBodies = 1
  MaxBlocks = 3
  MaxTries = 2
  Reorder = FALSE
INVARIANTS
  BufferPresent
CHECK_DEADLOCK FALSE
