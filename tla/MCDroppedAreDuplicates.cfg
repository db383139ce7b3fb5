SPECIFICATION Spec
CONSTANTS
  NumStreams = 2
  Size <- MCSize
  Start <- MCStart
  Incremental = {1}
  BatchSize = 2
  PageSize = 2
  Discovered = {0, 3}
  PerStream = 3
  DefaultBatchSize = 3
  maxPartitionsLimit = 2
  MaxAttempts = 1
  MaxBatches = 2
  ApiMayFail = TRUE
  Mapped = {1, 2}
  Coerced = {2}
  SourceKey <- MCSourceKey
  MappedKey <- MCRenamedKey
  CoercedKey <- MCCoercedKey
  Keyed = {1, 2}
  Malformed <- MCMalformed
  Uncoercible <- MCUncoercible
  LoadBatchSize = 2
  WriteAttempts = 1
  MaxChildRuns = 1
INVARIANT DroppedAreDuplicates
