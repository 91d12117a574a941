SPECIFICATION FairSpec
CONSTANTS
  Clients = {c1, c2}
  QueueSize = 3
  MaxPuts = 4
  MaxGets = 3
  GetStores = FALSE
INVARIANT TypeOK
PROPERTIES
  ToldInOrder
  ToldUnlessMissed
  Settles
CHECK_DEADLOCK FALSE
