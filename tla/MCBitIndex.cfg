SPECIFICATION Spec
CONSTANTS
  B = 2
  S = 2
  Line = 2
  MaxBits = 10
INVARIANTS TypeOK BuildsTheIndex RankCounts SelectFinds RangeSelectFinds
CHECK_DEADLOCK FALSE
