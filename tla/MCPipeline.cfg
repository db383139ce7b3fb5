SPECIFICATION FairSpec
CONSTANTS
  NumStreams = 2
  Size <- MCSize
  Start <- MCStart
  Incremental = {1}
  BatchSize = 2
  PageSize = 2
  Discovered = {0, 3}
  PerStream = 3
  DefaultBatchSize = 3
  maxPartitionsLimit = 2
  MaxAttempts = 2
  MaxBatches = 2
  ApiMayFail = TRUE
  Mapped = {1, 2}
  Coerced = {1, 2}
  SourceKey <- MCSourceKey
  MappedKey <- MCMappedKey
  CoercedKey <- MCCoercedKey
  Keyed = {1, 2}
  Malformed <- MCMalformed
  Uncoercible <- MCUncoercible
  LoadBatchSize = 2
  WriteAttempts = 2
  MaxChildRuns = 2
INVARIANTS TypeOK CheckpointCovered CleanSyncIsComplete KeyedLoadedOnce PartitionsTile
PROPERTIES FetchesEnd
