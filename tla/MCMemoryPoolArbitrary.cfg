CONSTANTS
  Capacity = 3
  INVALID_INDEX = 4
SPECIFICATION Spec
INVARIANT FreeListSafe
CHECK_DEADLOCK FALSE
