CONSTANTS
  None = None
  Ids = {"7", "-7", "u", "w"}
  IdUdts = {"int8", "pos_int", "uuid", "text"}
  ValueUdts = {"int8", "text", "jsonb"}
  ColumnLists <- MCInOrder
  MaxRetries = 2
  MaxRows = 2
  MaxWrites = 2
  MaxFailures = 1
SPECIFICATION Spec
CHECK_DEADLOCK FALSE
INVARIANTS SoundConfigsApply MirrorsRows ShowsRows NewConfigsRecover
PROPERTY ReplayKeepsLiveRows
