----------------------------- MODULE RowDelivery -----------------------------
(* What becomes of a row's columns on the way to its document.  Rows reach  *)
(* the transform by position, three ways: decoded from the WAL in the       *)
(* layout the table had at the time, selected by a backfill, re-read by a   *)
(* dead letter replay.  The transformer re-orders them with column_reindex, *)
(* positions it computed when the run was set up, while the application     *)
(* writes and the table is altered.                                         *)
(*                                                                          *)
(* One config that lists its columns, one table.  A cell is [col, val]: the *)
(* column a value was written to, and the number of the write (the row's id *)
(* for the id, and for columns the config does not list).  The transform    *)
(* script is external: it names the values by their place in schema.ts and  *)
(* answers one action per event.                                            *)
EXTENDS Integers, Sequences, FiniteSets, SequencesExt

CONSTANTS
  Ids,            \* values of the id column
  Unparsable,     \* ids that from_text cannot read as the configured type
  Layout,         \* columns of the table at first, in attnum order
  ConfigColumns,  \* the config's columns, in order
  Added,          \* a column that may be added
  Toasted,        \* columns whose values may be stored out of line
  None,           \* no row, no tuple, no document, no metric, no relation
  Null,           \* what the transform gets for a value that is NULL or was not sent
  Unchanged,      \* what pgoutput sends for an out-of-line value nobody wrote
  MaxRows, MaxWrites, MaxTxnLen   \* bounds: rows at first, writes, writes of a transaction

ASSUME ConstantsAssumption ==
  /\ Unparsable \subseteq Ids
  /\ Range(ConfigColumns) \subseteq Range(Layout) /\ "id" \in Range(Layout)
  /\ Added \notin Range(Layout) /\ Toasted \subseteq Range(Layout) \ {"id"}
  /\ {Layout, ConfigColumns} \subseteq Seq(STRING) /\ Added \in STRING
  /\ MaxRows \in Nat /\ MaxWrites \in Nat /\ MaxTxnLen \in Nat

VARIABLES
  layout,    \* the table's columns
  rows,      \* rows[i]: the row with id i
  wal,       \* transactions past the checkpoint: sequences of [op, layout, old, new]
  writes,    \* writes so far
  pc,        \* "down", "backfill" or "stream"
  reindex,   \* column_reindex of the transformer
  cache,     \* the relation cache's columns, None if it has no entry
  covered,   \* the backfill has completed
  dlq,       \* dead letters: [id, op]
  docs,      \* docs[i]: the document with id i: [by, cells]
  \* history
  moved,     \* a column has been dropped from the table
  excused    \* ids whose document a known limit may have left wrong

source == <<layout, rows, writes, moved>>
table == <<source, wal>>
run   == <<pc, reindex, cache>>
vars  == <<table, run, covered, dlq, docs, excused>>

Columns == Range(Layout) \cup {Added}
Kept == Range(ConfigColumns) \ {"id"}   \* columns whose values are told apart
Ops == {"insert", "update", "delete"}
Cells  == [col : Columns, val : Nat \cup Ids]
Tuples == Seq(Cells \cup {Unchanged})
Docs   == [by : {"backfill", "stream", "replay"}, cells : [DOMAIN ConfigColumns -> Cells \cup {Null}]]

\* What is not there is told from what is.
ASSUME NoneAssumption == None \notin [Kept -> Nat] /\ None \notin Docs /\ None \notin Tuples

PositionOf(c, names) == CHOOSE p \in DOMAIN names : names[p] = c

Init ==
  /\ \E S \in SUBSET Ids :
       /\ Cardinality(S) <= MaxRows
       /\ rows = [i \in Ids |-> IF i \in S THEN [c \in Kept |-> 0] ELSE None]
  /\ layout = Layout /\ wal = <<>> /\ writes = 0
  /\ pc = "down" /\ reindex = <<>> /\ cache = None /\ covered = FALSE
  /\ dlq = {} /\ docs = [i \in Ids |-> None]
  /\ moved = FALSE /\ excused = {}

----------------------------------------------------------------------------
(* The application and its DBA.                                             *)

Cell(i, row, c) == [col |-> c, val |-> IF c \in Kept THEN row[c] ELSE i]

\* A tuple as pgoutput sends it: a value per column of the layout; an update marks
\* out-of-line values it did not touch as unchanged, whatever the replica identity.
Tuple(i, row, unchanged) ==
  [p \in DOMAIN layout |-> IF layout[p] \in unchanged THEN Unchanged ELSE Cell(i, row, layout[p])]

Change(op, old, new) == [op |-> op, layout |-> layout, old |-> old, new |-> new]

\* The outcomes of one statement on the table r: [rows, change], n its number.
Inserts(r, n) ==
  {[rows |-> [r EXCEPT ![i] = [c \in Kept |-> n]],
    change |-> Change("insert", None, Tuple(i, [c \in Kept |-> n], {}))]
     : i \in {j \in Ids : r[j] = None}}

\* An update writes one column; it may move the row to another id as well.
Written(row, c, n) == [d \in Kept |-> IF d = c THEN n ELSE row[d]]

Updates(r, n) ==
  {[rows |-> [r EXCEPT ![u[1]] = None, ![u[2]] = Written(r[u[1]], u[3], n)],
    change |-> Change("update", Tuple(u[1], r[u[1]], {}),
                      Tuple(u[2], Written(r[u[1]], u[3], n), u[4] \ {u[3]}))]
     : u \in {v \in Ids \X Ids \X (Range(layout) \ {"id"}) \X SUBSET Toasted :
                r[v[1]] # None /\ (v[2] = v[1] \/ r[v[2]] = None)}}

Deletes(r) ==
  {[rows |-> [r EXCEPT ![i] = None], change |-> Change("delete", Tuple(i, r[i], {}), None)]
     : i \in {j \in Ids : r[j] # None}}

Outcomes(r, n) == Inserts(r, n) \cup Updates(r, n) \cup Deletes(r)

Commit ==
  /\ \E one \in Outcomes(rows, writes + 1) :
       \/ /\ writes < MaxWrites
          /\ rows' = one.rows /\ wal' = Append(wal, <<one.change>>) /\ writes' = writes + 1
       \/ /\ MaxTxnLen > 1 /\ writes + 1 < MaxWrites
          /\ \E two \in Outcomes(one.rows, writes + 2) :
               rows' = two.rows /\ wal' = Append(wal, <<one.change, two.change>>)
          /\ writes' = writes + 2
  /\ UNCHANGED <<layout, moved, run, covered, dlq, docs, excused>>

AddColumn ==
  /\ Added \notin Range(layout)
  /\ layout' = Append(layout, Added)
  /\ UNCHANGED <<rows, wal, writes, moved, run, covered, dlq, docs, excused>>

DropColumn ==   \* at most one
  /\ ~moved
  /\ \E p \in DOMAIN layout : layout[p] # "id" /\ layout' = RemoveAt(layout, p)
  /\ moved' = TRUE
  /\ UNCHANGED <<rows, wal, writes, run, covered, dlq, docs, excused>>

----------------------------------------------------------------------------
(* The transform and the write.                                             *)

\* extract_columns: each configured column from its position, null when the tuple
\* is shorter or the value was not sent.
Extract(tuple) ==
  [k \in DOMAIN ConfigColumns |->
     IF reindex[k] \in DOMAIN tuple /\ tuple[reindex[k]] # Unchanged
       THEN tuple[reindex[k]] ELSE Null]

\* extract_id: the id column by name, in the new tuple or else the old one.
IdIn(tuple) == tuple[PositionOf("id", cache)].val

IdOfOld(change) ==   \* mutant: the old tuple first
  IF change.old # None THEN IdIn(change.old) ELSE IdIn(change.new)

IdOf(change) == IF change.new # None THEN IdIn(change.new) ELSE IdIn(change.old)

Parses(change) == "id" \in Range(cache) /\ IdOf(change) \notin Unparsable

\* route_batch skips, with a warning, what has no readable id.
Routed(txn) == {k \in DOMAIN txn : Parses(txn[k])}

\* What the script answers: an upsert with the values under their names, or a delete.
Action(change, by) ==
  [id |-> IdOf(change), op |-> change.op,
   doc |-> IF change.op = "delete" THEN None ELSE [by |-> by, cells |-> Extract(change.new)]]

Actions(txn) == [k \in Routed(txn) |-> Action(txn[k], "stream")]

\* One write: the last upsert of an id, unless the batch deletes it too.  Both
\* lists go out unordered, and which one turbopuffer lets win is not known.
Upserted(actions, i) == {k \in DOMAIN actions : actions[k].id = i /\ actions[k].op # "delete"}
Deleted(actions) == {actions[k].id : k \in {j \in DOMAIN actions : actions[j].op = "delete"}}

Both(actions) == {i \in Deleted(actions) : Upserted(actions, i) # {}}

Sent(actions, deletesWin) ==
  [i \in Ids |->
     IF i \in Deleted(actions) /\ (deletesWin \/ Upserted(actions, i) = {}) THEN None
     ELSE IF Upserted(actions, i) # {} THEN actions[Max(Upserted(actions, i))].doc
     ELSE docs[i]]

----------------------------------------------------------------------------
(* The run.                                                                 *)

Down == pc' = "down" /\ reindex' = <<>> /\ cache' = None

\* The transformer's column_reindex, from the table as it is; a listed column that
\* is gone fails the run, which retry_loop tries again.
SetUp ==
  /\ pc = "down" /\ Range(ConfigColumns) \subseteq Range(layout)
  /\ reindex' = [k \in DOMAIN ConfigColumns |-> PositionOf(ConfigColumns[k], layout)]
  /\ cache' = None /\ pc' = IF covered THEN "stream" ELSE "backfill"
  /\ UNCHANGED <<table, covered, dlq, docs, excused>>

\* A backfill selects the listed columns, the id if it is not one of them, and the
\* cursor; one row whose id cannot be read fails it.
Selected(i) ==
  LET names == ConfigColumns \o (IF "id" \in Range(ConfigColumns) THEN <<>> ELSE <<"id">>)
                             \o <<"id">>
  IN  [p \in DOMAIN names |-> Cell(i, rows[i], names[p])]

Present == {i \in Ids : rows[i] # None}

Backfill ==
  /\ pc = "backfill"
  /\ IF Present \cap Unparsable # {}
       THEN Down /\ UNCHANGED <<wal, covered, docs>>
       ELSE /\ docs' = [i \in Ids |-> IF i \in Present
                          THEN [by |-> "backfill", cells |-> Extract(Selected(i))] ELSE docs[i]]
            /\ wal' = <<>> /\ covered' = TRUE /\ pc' = "stream" /\ UNCHANGED <<reindex, cache>>
  /\ UNCHANGED <<source, dlq, excused>>

\* A Relation message precedes the first rows of a connection and the first after the
\* table changed.  It ends the connection when a listed column, or the id, is gone.
Upcoming == Head(wal)
Announced == Upcoming[1].layout
Watched == Range(ConfigColumns) \cup {"id"}

Relation ==
  /\ pc = "stream" /\ wal # <<>> /\ cache # Announced
  /\ cache' = IF cache # None /\ ~(Watched \cap Range(cache) \subseteq Range(Announced))
                THEN None ELSE Announced
  /\ UNCHANGED <<table, pc, reindex, covered, dlq, docs, excused>>

\* Ids whose document a transaction leaves behind: rows that changed their id.
LeftBehind(txn) ==
  {IdIn(txn[k].old) : k \in {j \in DOMAIN txn :
     txn[j].op = "update" /\ IdIn(txn[j].old) # IdIn(txn[j].new)}}

\* One dead letter for each event, under the id it was routed with.
NewEntries(actions) ==
  {[id |-> actions[k].id, op |-> actions[k].op] : k \in DOMAIN actions}

\* process_config_events: all of the transaction's events go out in one write, or all
\* to the dead letter queue.  A crash may come before the checkpoint is saved.
Deliver ==
  /\ pc = "stream" /\ wal # <<>> /\ cache = Announced
  /\ LET actions == Actions(Upcoming)
     IN  \/ /\ \E deletesWin \in BOOLEAN : docs' = Sent(actions, deletesWin)
            /\ excused' = (excused \ {actions[k].id : k \in DOMAIN actions})
                             \cup Both(actions) \cup LeftBehind(Upcoming)
            /\ UNCHANGED dlq
         \/ /\ Routed(Upcoming) # {}   \* the transform or send_batch (mixed metrics, the API) fails
            /\ dlq' = dlq \cup NewEntries(actions)
            /\ excused' = excused \cup LeftBehind(Upcoming)
            /\ UNCHANGED docs
  /\ \/ wal' = Tail(wal) /\ UNCHANGED run
     \/ wal' = wal /\ Down
  /\ UNCHANGED <<source, covered>>

Crash ==
  /\ pc # "down" /\ Down
  /\ UNCHANGED <<table, covered, dlq, docs, excused>>

\* Entries are replayed oldest first; as each may fail and stay, any may be next.  A
\* delete goes out as it is; for an upsert the row is read again, every column of the
\* table as it now is, and a row that is gone becomes a delete.
ReadListed(i) == Selected(i)   \* mutant: the listed columns, as a backfill reads them

ReadAgain(i) == [p \in DOMAIN layout |-> Cell(i, rows[i], layout[p])]

Replay(e) ==
  /\ docs' = [docs EXCEPT ![e.id] =
       IF e.op = "delete" \/ rows[e.id] = None THEN None
       ELSE [by |-> "replay", cells |-> Extract(ReadAgain(e.id))]]
  /\ excused' = IF e.op = "delete" /\ rows[e.id] # None
                  THEN excused \cup {e.id} ELSE excused

\* The last retry failed: mark_permanent.
GiveUp(e) == docs' = docs /\ excused' = excused \cup {e.id}

ReplayDlq ==
  /\ pc = "stream"
  /\ \E e \in dlq :
       /\ Replay(e) \/ GiveUp(e)
       /\ \/ dlq' = dlq \ {e} /\ UNCHANGED run
          \/ dlq' = dlq /\ Down   \* a crash before the entry is deleted
  /\ UNCHANGED <<table, covered>>

Next ==
  \/ Commit \/ AddColumn \/ DropColumn
  \/ SetUp \/ Backfill \/ Relation \/ Deliver \/ ReplayDlq \/ Crash

Spec == Init /\ [][Next]_vars

----------------------------------------------------------------------------
(* Properties.                                                              *)

\* A document's value for a listed column.
Misplaced(doc) ==
  {k \in DOMAIN ConfigColumns : doc.cells[k] # Null /\ doc.cells[k].col # ConfigColumns[k]}

\* While no column has been dropped, every document the stream or a replay wrote shows
\* under each listed column a value that was written to that column, or null: WAL
\* tuples and re-read rows are in the order column_reindex was computed for, whatever
\* columns were added since.
OwnColumns ==
  ~moved => \A i \in Ids : docs[i] # None /\ docs[i].by # "backfill" => Misplaced(docs[i]) = {}

\* Once everything committed is handled and no dead letter is left, every row with a
\* readable id has a document, every document has its row, and what the stream or a
\* replay wrote shows the row's newest values: batches written in any order with
\* replays of what failed, re-deliveries after a crash and rows that come and go leave
\* nothing stale.  Excused are ids left by an update that changed the id, ids one
\* write both deletes and upserts, deletes replayed over a row that came back, and
\* dead letters given up on.
SettledMirrors ==
  (pc = "stream" /\ wal = <<>> /\ dlq = {}) =>
    \A i \in Ids \ (excused \cup Unparsable) :
      /\ (docs[i] # None) <=> (rows[i] # None)
      /\ ~moved /\ docs[i] # None /\ docs[i].by # "backfill" =>
           \A k \in DOMAIN ConfigColumns :
             docs[i].cells[k] # Null => docs[i].cells[k] = Cell(i, rows[i], ConfigColumns[k])
=============================================================================
