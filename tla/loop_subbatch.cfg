SPECIFICATION FairSpec
CONSTANTS
  c1 = c1
  c2 = c2
  r1 = r1
  r2 = r2
  Configs = {c1, c2}
  Rows = {r1, r2}
  SourceOf <- MCPartOf
  InitialConfigs = {c1, c2}
  SubBatchSize = 2
  MaxTxnEvents = 2
  DlqInterval = 2
  ReplayBatch = 1
  MaxRetries = 1
  Ops = {"upsert"}
  FailingOps = {"upsert"}
  MaxChanges = 3
  MaxTxnLen = 2
  MaxCrashes = 1
  MaxFailures = 2
  MaxReconnects = 0
INVARIANTS NoLostChange SlotNeverPassesConfig
PROPERTIES CheckpointNeverRegresses EveryChangeSettles FollowsFeed
CHECK_DEADLOCK FALSE
