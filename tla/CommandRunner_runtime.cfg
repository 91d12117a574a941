SPECIFICATION FairSpec
CONSTANTS
  PipeSize = 2
  MaxData = 3
  MaxLines = 2
  MaxFormats = 1
PROPERTY RuntimeBounded
CHECK_DEADLOCK FALSE
