SPECIFICATION FairSpec
CONSTANTS
  c1 = c1
  c2 = c2
  r1 = r1
  r2 = r2
  Configs = {c1, c2}
  Rows = {r1, r2}
  SourceOf <- MCSourceOf
  InitialConfigs = {c1}
  SubBatchSize = 0
  MaxTxnEvents = 1
  DlqInterval = 1
  ReplayBatch = 2
  MaxRetries = 2
  Ops = {"upsert", "delete"}
  FailingOps = {"upsert"}
  MaxChanges = 3
  MaxTxnLen = 2
  MaxCrashes = 1
  MaxFailures = 1
  MaxReconnects = 1
INVARIANTS EveryPositionSafe MirroredWhenIdle
 
CHECK_DEADLOCK FALSE
