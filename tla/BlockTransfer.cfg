SPECIFICATION Spec
CONSTANTS
  MaxBodies = 3
  MaxBlocks = 3
  MaxTries = 2
  Reorder = FALSE
INVARIANTS
  TypeOK
  GatheredAllBlocks
  ContinueMeansStored
  OkMeansHanded
  HandedOnce
CHECK_DEADLOCK FALSE
