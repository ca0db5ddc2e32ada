CONSTANTS
  Capacity = 1
  Window = 7
  MaxRequests = 8
SPECIFICATION Spec
INVARIANTS
  RelayIsSound
PROPERTIES
  IsChannel
  HalfCloseDrains
CHECK_DEADLOCK FALSE
