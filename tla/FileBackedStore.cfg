SPECIFICATION Spec
CONSTANTS
  Sessions = 2
  MaxLen = 3
  Capacity = 2
  MaxCrash = 2
INVARIANTS TypeOK FinishedIsDurable MapIsInPlace
CHECK_DEADLOCK FALSE
