SPECIFICATION Spec
CONSTANTS
  B = 2
  S = 2
  Line = 2
  MaxLeft = 5
  MaxRight = 2
INVARIANTS TypeOK BitsLag GetShowsRights PositionsShowPairs IteratorYieldsPairs
CHECK_DEADLOCK FALSE
