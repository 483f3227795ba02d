CONSTANTS
  Capacity = 3
  INVALID_INDEX = 4
SPECIFICATION TrustedSpec
INVARIANTS
  TypeOK
  FreeListExact
