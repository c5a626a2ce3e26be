SPECIFICATION Spec
CONSTANTS
  B = 2
  S = 2
  Line = 2
  MaxBits = 10
INVARIANT Select0InArray
CHECK_DEADLOCK FALSE
