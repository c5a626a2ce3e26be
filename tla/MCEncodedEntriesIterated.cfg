CONSTANTS
  BlockSize = 2
  SliceSize = 5
  ByteBits = 4
  WordBits = 7
  Base = 2
  FractionGroup = 1
  Width <- MCWidth
  Values <- MCValues
  NumberMax = 127
  Longest = 4
SPECIFICATION Spec
INVARIANT IteratedReadsBack
CHECK_DEADLOCK FALSE
