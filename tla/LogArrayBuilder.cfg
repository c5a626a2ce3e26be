SPECIFICATION Spec
CONSTANTS
  W = 4
  LenLow = 2
  LenHigh = 3
  MaxCount = 3
INVARIANTS TypeOK RoundTrip LateValuesFit FinishedIsAccepted SlicesShowTheArray SearchFinds
CHECK_DEADLOCK FALSE
