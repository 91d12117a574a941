SPECIFICATION FairSpec
CONSTANTS
  PipeSize = 2
  MaxData = 3
  MaxLines = 3
  MaxFormats = 2
INVARIANTS
  TypeOK
  OutputWhole
  NoCommandLeft
  StoredOnce
PROPERTY WaitBounded
CHECK_DEADLOCK FALSE
