SPECIFICATION FairSpec
CONSTANTS
  MaxSets = 2
  MaxExternal = 2
  FineClock = TRUE
INVARIANTS
  TypeOK
  
  AgreeOrPending
PROPERTY Converges
