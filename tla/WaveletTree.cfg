SPECIFICATION Spec
CONSTANTS
  B = 2
  S = 2
  Line = 2
  Widths = {1, 2, 3}
  MaxLen = 4
INVARIANTS TypeOK DecodesToSource LookupFindsPositions
CHECK_DEADLOCK FALSE
