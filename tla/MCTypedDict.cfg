CONSTANTS
  BlockSize = 3
  RecordSize <- MCRecordSize
  ValuesOf <- MCValuesOf
  Queries <- MCQueries
  MaxEntries = 6
SPECIFICATION Spec
INVARIANTS TypeOK EntriesKeepTheirIds LookupsFollowTheOrder IterationGivesEntries StreamGivesWholeBlocks
CHECK_DEADLOCK FALSE
