SPECIFICATION FairSpec
CONSTANTS
  QueueSize = 4
  MaxRequests = 5
  GetStores = FALSE
INVARIANTS
  TypeOK
  DestroyedUnused
  LastPutWins
  LogNotOlderThanAnswer
PROPERTIES
  SignalEndsProcess
  AcceptedIsTreated
CHECK_DEADLOCK FALSE
