SPECIFICATION BackfillSpec
CONSTANTS
  MaxId = 3
  BatchSize = 1
  MaxRetries = 1
  OldInstance = TRUE
  MaxLsn = 3
  MaxErrors = 1
  MaxCrashes = 1
INVARIANTS NoRowMissed ExclusiveHandoverComplete
PROPERTY ReachesStream
CHECK_DEADLOCK FALSE
