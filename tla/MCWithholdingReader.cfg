SPECIFICATION ReadSpec
CONSTANTS
  MaxFile = 14
  Byte <- MCByte
  Files <- MCFiles
  Held = 3
  MaxRequest = 5
INVARIANT HoldsTheTail
PROPERTY ReadsAllButTail
CHECK_DEADLOCK FALSE
