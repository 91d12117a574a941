SPECIFICATION Spec
CONSTANTS
  MaxSize = 3
  MaxRequests = 6
INVARIANT ThreadSafe
CHECK_DEADLOCK FALSE
