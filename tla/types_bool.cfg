CONSTANTS
  None = None
  Ids = {"u"}
  IdUdts = {"uuid"}
  ValueUdts = {"bool"}
  ColumnLists <- MCInOrder
  MaxRetries = 2
  MaxRows = 2
  MaxWrites = 2
  MaxFailures = 1
SPECIFICATION Spec
CHECK_DEADLOCK FALSE
INVARIANT ShowsRows
