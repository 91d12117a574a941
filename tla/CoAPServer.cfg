SPECIFICATION FairSpec
CONSTANTS
  Paths = {p1, p2}
  MaxPatterns = 2
INVARIANTS
  TypeOK
  ServesWhole
  OneResourcePerPath
  UpdatesReadyOnly
  AnswersByConfiguration
PROPERTY EachIsUpdated
CHECK_DEADLOCK FALSE
