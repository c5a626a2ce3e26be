SPECIFICATION BundlesSpec
CONSTANTS
  File <- MCFile
  WriteOrder <- MCWriteOrder
  MapOrder <- MCMapOrder
  CopyOrder <- MCCopyOrder
  Version = {v1, v2}
  Reader = {r1}
  Chunks = 2
  None = None
  Torn = Torn
  NoFile = NoFile
INVARIANTS BundlesTypeOK FaithfulCopy
PROPERTIES SourceAtomic TargetAtomic
CHECK_DEADLOCK FALSE
