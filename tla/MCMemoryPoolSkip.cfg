CONSTANTS
  Capacity = 3
  INVALID_INDEX = 4
SPECIFICATION Spec
INVARIANT SkipLeavesPoolConsistent
CHECK_DEADLOCK FALSE
