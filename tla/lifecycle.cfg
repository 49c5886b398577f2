SPECIFICATION Spec
CONSTANTS
  Configs = {1, 2}
  MaxCommands = 2
  MaxNewSlots = 2
  MaxPrefixes = 1
INVARIANTS TombstoneHolds ReplicaIdentityFirst StreamsIntoBackfilledNamespace SlotCoversBackfill
PROPERTY RemoveCommitsLast
CHECK_DEADLOCK FALSE
