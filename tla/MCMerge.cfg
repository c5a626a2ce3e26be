CONSTANTS
  BlockSize = 3
  SliceSize = 1
  RecordSize <- MCRecordSize
  ValuesOf <- MCValuesOf
  Queries <- MCValuesOf
  MaxEntries = 4
  StringType = 1
  Sources <- MCSources
  Dictionaries = 3
  MaxTotal = 4
SPECIFICATION FairSpec
INVARIANTS MergeTypeOK ComparesAsBytes BufShowsBytes
PROPERTIES ImplementsMerge MergeReturns
CHECK_DEADLOCK FALSE
