------------------------- MODULE ReplicationStream -------------------------
(***************************************************************************)
(* ReplicationStream::recv_batch at the level of pgoutput messages.  The   *)
(* walsender describes a relation's columns before the first row that uses *)
(* them and sends rows encoded with them; the stream keeps the columns in  *)
(* its RelationCache, buffers the rows of the open transaction, and        *)
(* returns whole transactions, sub-batches, oversized transactions and     *)
(* breaking schema changes to the loop, which decodes with the cache.      *)
(*                                                                         *)
(* The WAL is fixed from the start: what a message says never depends on   *)
(* when later transactions commit.  A row is abstracted to its relation    *)
(* and to the columns it was encoded with; an ALTER TABLE shows as two     *)
(* rows with different columns.                                            *)
(***************************************************************************)
EXTENDS Integers, Sequences, FiniteSets

CONSTANTS
  Relations, Columns,
  Layouts,          \* the column sets a relation may have: [Columns -> type]
  NoColumn,         \* the type of a column a layout lacks
  Watched,          \* watched_columns; {} where every column is watched
  SubBatchSizes,    \* values sub_batch_size may have; 0 is "not configured"
  MaxTxnEvents,     \* max_transaction_events
  Wals,             \* the WALs considered: sequences of transactions
  MaxFailures       \* bound on failed runs

ASSUME StreamAssumption ==
  /\ NoColumn \notin Columns /\ Watched \in [Relations -> SUBSET Columns]
  /\ SubBatchSizes \subseteq Nat /\ MaxTxnEvents \in Nat \ {0} /\ MaxFailures \in Nat
  /\ NoColumn \notin Layouts /\ \A l \in Layouts : DOMAIN l = Columns
  /\ Wals \subseteq Seq(Seq([rel : Relations, cols : Layouts]))

VARIABLES
  wal,            \* committed transactions, each a sequence of rows
  subBatchSize,   \* sub_batch_size of this project; 0 is "not configured"
  checkpoint,     \* transactions handled and checkpointed (durable)
  \* the walsender of the current connection
  up,             \* a connection is open
  at, row,        \* next: row `row` of transaction `at`; row 0 is its Begin
  described,      \* columns last sent for each relation, NoColumn if none
  \* the stream
  cache,          \* RelationCache: relation -> columns, NoColumn if unknown
  txn,            \* current_txn
  pending,        \* pending_lsn, 0 for None
  applied,        \* LSN last passed to update_applied_lsn
  result,         \* what recv_batch returned, NoResult while it runs
  handed,         \* history: rows of transaction `at` already handled
  failures

server == <<at, row, described>>
vars == <<wal, subBatchSize, checkpoint, up, server, cache, txn, pending, applied,
          result, handed, failures>>

NoTxn    == [open |-> FALSE, events |-> <<>>, too_large |-> FALSE]
NoResult == [kind |-> "none", events |-> <<>>, ack |-> 0]
Unknown  == [r \in Relations |-> NoColumn]

Init ==
  /\ wal \in Wals /\ subBatchSize \in SubBatchSizes /\ checkpoint = 0
  /\ up = FALSE /\ at = 1 /\ row = 0 /\ described = Unknown
  /\ cache = Unknown /\ txn = NoTxn /\ pending = 0 /\ applied = 0
  /\ result = NoResult /\ handed = <<>> /\ failures = 0

----------------------------------------------------------------------------
(* Connections.  A new one starts after the checkpoint with nothing cached. *)

Connect ==
  /\ ~up /\ up' = TRUE
  /\ at' = checkpoint + 1 /\ row' = 0 /\ described' = Unknown
  /\ cache' = Unknown /\ txn' = NoTxn /\ pending' = 0 /\ applied' = 0
  /\ UNCHANGED <<wal, subBatchSize, checkpoint, result, handed, failures>>

Disconnect == up' = FALSE /\ result' = NoResult /\ handed' = <<>>

\* recv or the handling of a result failed, or the process died.
Fail ==
  /\ up /\ failures < MaxFailures /\ failures' = failures + 1
  /\ Disconnect
  /\ UNCHANGED <<wal, subBatchSize, checkpoint, server, cache, txn, pending, applied>>

----------------------------------------------------------------------------
(* recv_batch: one action per message received.                            *)

Receiving == up /\ result.kind = "none" /\ at <= Len(wal)
Current   == wal[at][row]

RecvBegin ==
  /\ Receiving /\ row = 0
  /\ row' = 1 /\ txn' = [NoTxn EXCEPT !.open = TRUE]
  /\ UNCHANGED <<wal, subBatchSize, checkpoint, up, at, described, cache, pending,
                 applied, result, handed, failures>>

\* schema_changed, and schema_changed_for_columns on the watched columns.
ColumnsChanged(r, cols) == cache[r] # NoColumn /\ cache[r] # cols

Breaking(r, cols) ==
  /\ ColumnsChanged(r, cols)
  /\ Watched[r] = {} \/ \E c \in Watched[r] : cache[r][c] # NoColumn /\ cache[r][c] # cols[c]

HasBufferedRows(r) == \E i \in 1 .. Len(txn.events) : txn.events[i].rel = r

NeedsReconnectUnknown(r, cols) == cache[r] # cols   \* mutant: a first description is a change
NeedsReconnectWatched(r, cols) == Breaking(r, cols)   \* mutant: buffered rows forgotten
NeedsReconnect(r, cols) == Breaking(r, cols) \/ (ColumnsChanged(r, cols) /\ HasBufferedRows(r))

RecvRelation ==
  /\ Receiving /\ row \in 1 .. Len(wal[at]) /\ described[Current.rel] # Current.cols
  /\ described' = [described EXCEPT ![Current.rel] = Current.cols]
  /\ cache' = [cache EXCEPT ![Current.rel] = Current.cols]
  /\ result' = IF NeedsReconnect(Current.rel, Current.cols)
               THEN [NoResult EXCEPT !.kind = "SchemaChanged"] ELSE NoResult
  /\ UNCHANGED <<wal, subBatchSize, checkpoint, up, at, row, txn, pending, applied,
                 handed, failures>>

\* push_event.
LimitReached == Len(txn.events) >= MaxTxnEvents

PushEventKeeping(e) ==   \* mutant: the events of a sub-batch stay in the buffer
  IF subBatchSize > 0 /\ Len(txn.events) + 1 >= subBatchSize
  THEN /\ result' = [kind |-> "SubBatch", events |-> Append(txn.events, e), ack |-> 0]
       /\ txn' = [txn EXCEPT !.events = Append(@, e)]
  ELSE txn' = [txn EXCEPT !.events = Append(@, e)] /\ UNCHANGED result

PushEventLate(e) ==   \* mutant: the threshold is tested before the event is counted
  IF subBatchSize > 0 /\ Len(txn.events) >= subBatchSize
  THEN /\ result' = [kind |-> "SubBatch", events |-> Append(txn.events, e), ack |-> 0]
       /\ txn' = [txn EXCEPT !.events = <<>>]
  ELSE txn' = [txn EXCEPT !.events = Append(@, e)] /\ UNCHANGED result

PushEvent(e) ==
  CASE txn.too_large -> UNCHANGED <<txn, result>>
    [] ~txn.too_large /\ subBatchSize > 0 /\ Len(txn.events) + 1 >= subBatchSize ->
         /\ result' = [kind |-> "SubBatch", events |-> Append(txn.events, e), ack |-> 0]
         /\ txn' = [txn EXCEPT !.events = <<>>]
    [] ~txn.too_large /\ subBatchSize = 0 /\ LimitReached ->
         txn' = [txn EXCEPT !.too_large = TRUE, !.events = <<>>] /\ UNCHANGED result
    [] OTHER -> txn' = [txn EXCEPT !.events = Append(@, e)] /\ UNCHANGED result

RecvRow ==
  /\ Receiving /\ row \in 1 .. Len(wal[at]) /\ described[Current.rel] = Current.cols
  /\ row' = row + 1
  /\ PushEvent(Current)
  /\ UNCHANGED <<wal, subBatchSize, checkpoint, up, at, described, cache, pending,
                 applied, handed, failures>>

RecvCommit ==
  /\ Receiving /\ row = Len(wal[at]) + 1
  /\ txn' = NoTxn /\ pending' = at
  /\ result' = IF txn.too_large
               THEN [kind |-> "TransactionTooLarge", events |-> <<>>, ack |-> at]
               ELSE [kind |-> "Batch", events |-> txn.events, ack |-> at]
  /\ UNCHANGED <<wal, subBatchSize, checkpoint, up, server, cache, applied, handed,
                 failures>>

----------------------------------------------------------------------------
(* The loop handles what was returned.                                     *)

HandleSubBatch ==
  /\ result.kind = "SubBatch" /\ result' = NoResult
  /\ handed' = handed \o result.events
  /\ UNCHANGED <<wal, subBatchSize, checkpoint, up, server, cache, txn, pending,
                 applied, failures>>

\* The checkpoints are saved, then ack() passes pending_lsn to the client.
HandleTransaction ==
  /\ result.kind \in {"Batch", "TransactionTooLarge"} /\ result' = NoResult
  /\ checkpoint' = result.ack /\ applied' = pending /\ pending' = 0
  /\ at' = at + 1 /\ row' = 0 /\ handed' = <<>>
  /\ UNCHANGED <<wal, subBatchSize, up, described, cache, txn, failures>>

HandleSchemaChanged ==
  /\ result.kind = "SchemaChanged"
  /\ Disconnect
  /\ UNCHANGED <<wal, subBatchSize, checkpoint, server, cache, txn, pending, applied,
                 failures>>

----------------------------------------------------------------------------
Stream ==
  \/ Connect \/ RecvBegin \/ RecvRelation \/ RecvRow \/ RecvCommit
  \/ HandleSubBatch \/ HandleTransaction \/ HandleSchemaChanged

Next == Stream \/ Fail

\* recv and the handlers return, and the loop runs again after an error.
Spec == Init /\ [][Next]_vars /\ WF_vars(Stream)

----------------------------------------------------------------------------
(* Every row handed to the loop is decoded with the columns it was encoded  *)
(* with, although the cache is read only after the whole batch arrived and  *)
(* additive changes are accepted in the middle of a transaction.            *)
DecodedWithOwnColumns ==
  \A i \in 1 .. Len(result.events) : cache[result.events[i].rel] = result.events[i].cols

(* The sub-batches of a transaction and its final Batch together are its    *)
(* rows, once each and in order; a transaction interrupted by a schema      *)
(* change or a failure leaves nothing behind for the next one.              *)
HandsOverTransactions ==
  /\ result.kind = "Batch" => handed \o result.events = wal[at]
  /\ result.kind = "SubBatch" => handed \o result.events = SubSeq(wal[at], 1, row - 1)
  /\ result.kind = "TransactionTooLarge" => subBatchSize = 0 /\ Len(wal[at]) > MaxTxnEvents

\* No transaction alters a relation between two of its row changes.
NoAlterBetweenRows ==
  \A t \in 1 .. Len(wal) : \A i, j \in 1 .. Len(wal[t]) :
    wal[t][i].rel = wal[t][j].rel => wal[t][i].cols = wal[t][j].cols

(* Every committed transaction gets through: neither schema changes between *)
(* transactions, nor restarts, nor oversized transactions block the slot.   *)
(* An ALTER TABLE between two rows of one transaction does: every reconnect *)
(* receives that transaction again and gives it up again.                   *)
EveryTransactionHandled == NoAlterBetweenRows => <>(checkpoint = Len(wal))

\* The stream implements TransactionFeed, positions counting rows of the WAL.
Ends[t \in 0 .. Len(wal)] == IF t = 0 THEN 0 ELSE Ends[t - 1] + Len(wal[t])

Commits  == {Ends[t] : t \in 1 .. Len(wal)}
Position == IF up THEN Ends[at - 1] ELSE 0

Feed == INSTANCE TransactionFeed WITH
  SubBatchSizes <- SubBatchSizes \ {0},
  commits <- Commits, pos <- Position, part <- Len(handed)

(* recv_batch keeps the promise the loop relies on: transactions in commit  *)
(* order, in full sub-batches and a rest, and never a gap across a restart. *)
ImplementsFeed == Feed!Spec
=============================================================================
