SPECIFICATION Spec
CONSTANTS
  users = users
  notes = notes
  k = k
  x = x
  int = int
  text = text
  NoColumn = NoColumn
  Relations = {users, notes}
  Columns = {k, x}
  Layouts <- MCLayouts
  Watched <- MCWatched
  SubBatchSizes = {0, 2}
  MaxTxnEvents = 3
  Wals <- MCWals
  MaxFailures = 1
INVARIANTS DecodedWithOwnColumns HandsOverTransactions
PROPERTIES EveryTransactionHandled ImplementsFeed
CHECK_DEADLOCK FALSE
