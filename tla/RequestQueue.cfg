SPECIFICATION FairSpec
CONSTANTS
  MaxSize = 4
  MaxRequests = 9
INVARIANTS
  TypeOK
  RingInv
  NoSlotRace
  NeverThrows
  NothingLost
PROPERTIES
  FifoUntilOverrun
  EveryAcceptedTaken
CHECK_DEADLOCK FALSE
