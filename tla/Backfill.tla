------------------------------ MODULE Backfill ------------------------------
(***************************************************************************)
(* The backfill of one config and its hand-over to the stream.             *)
(* check_and_run_backfills takes a watermark, run_backfill walks the table *)
(* in id order by keyset pagination, writing each page to the namespace    *)
(* and then saving the cursor; the watermark is stored on completion.  The *)
(* stream then delivers what committed after it.  The application writes   *)
(* to the table all along, and in a rolling deploy the previous `puffgres  *)
(* run`, which does not know this config, still moves the shared slot.     *)
(*                                                                         *)
(* A row's value is the LSN of the change that wrote it, Absent if the row *)
(* is not there.                                                           *)
(***************************************************************************)
EXTENDS Integers, FiniteSets

CONSTANTS
  MaxId,         \* ids are 1 .. MaxId, in cursor order
  BatchSize,     \* batch_size
  MaxRetries,    \* max_retries of one operation
  OldInstance,   \* is a previous `puffgres run` still streaming?
  MaxLsn, MaxErrors, MaxCrashes   \* bounds of the instance

ASSUME BackfillAssumption ==
  /\ {MaxId, BatchSize} \subseteq Nat \ {0} /\ OldInstance \in BOOLEAN
  /\ {MaxRetries, MaxLsn, MaxErrors, MaxCrashes} \subseteq Nat

Ids    == 1 .. MaxId
Absent == 0
None   == 0     \* no cursor
NoLsn  == -1

VARIABLES
  \* Postgres
  lsn,          \* pg_current_wal_lsn
  table,        \* table[i]: row i
  changed,      \* changed[i]: LSN of the last change of row i
  confirmed,    \* confirmed_flush_lsn of the slot
  \* backfill_progress
  status, last_id, watermark_lsn,
  \* turbopuffer
  docs,         \* docs[i]: the document of row i
  \* the process
  pc,           \* where the backfill is
  watermark,    \* the watermark of this run
  cursor,       \* id of the last row written in this run
  rows,         \* the fetched page: id -> value
  has_more,
  retries,      \* retries of the current operation
  \* history and budgets
  first,        \* the first watermark taken, NoLsn before
  runs,         \* watermarks taken
  errors, crashes

pgVars   == <<lsn, table, changed>>
progress == <<status, last_id, watermark_lsn>>
run      == <<watermark, cursor, rows, has_more>>
history  == <<first, runs>>
backfillVars == <<pgVars, confirmed, progress, docs, pc, run, retries, history, errors, crashes>>

NoRows == [i \in {} |-> Absent]

BackfillInit ==
  /\ lsn = 1 /\ confirmed = 0
  /\ table \in [Ids -> {Absent, 1}] /\ changed = [i \in Ids |-> 1]
  /\ status = "none" /\ last_id = None /\ watermark_lsn = NoLsn
  /\ docs = [i \in Ids |-> Absent]
  /\ pc = "down" /\ watermark = NoLsn /\ cursor = None /\ rows = NoRows /\ has_more = FALSE
  /\ retries = 0 /\ first = NoLsn /\ runs = 0 /\ errors = 0 /\ crashes = 0

----------------------------------------------------------------------------
(* Around the backfill.                                                    *)

\* The application inserts, updates or deletes a row at any time.
Write(i) ==
  /\ lsn < MaxLsn /\ lsn' = lsn + 1
  /\ \E v \in {Absent, lsn + 1} :
       (v = Absent => table[i] # Absent) /\ table' = [table EXCEPT ![i] = v]
  /\ changed' = [changed EXCEPT ![i] = lsn + 1]
  /\ UNCHANGED <<confirmed, progress, docs, pc, run, retries, history, errors, crashes>>

\* The previous instance acknowledges transactions until its slot is taken.
OldInstanceAcks ==
  /\ OldInstance /\ pc # "stream"
  /\ \E l \in confirmed + 1 .. lsn : confirmed' = l
  /\ UNCHANGED <<pgVars, progress, docs, pc, run, retries, history, errors, crashes>>

Stop == pc' = "down" /\ rows' = NoRows /\ cursor' = None /\ watermark' = NoLsn
        /\ has_more' = FALSE /\ retries' = 0

\* A crash, or a shutdown noticed between two steps.
Crash ==
  /\ pc # "down" /\ crashes < MaxCrashes /\ crashes' = crashes + 1
  /\ Stop
  /\ UNCHANGED <<pgVars, confirmed, progress, docs, history, errors>>

----------------------------------------------------------------------------
(* check_and_run_backfills and run_backfill.                               *)

\* Not completed: take a watermark now and go on from the saved cursor.
Begin ==
  /\ pc = "down" /\ status # "Completed"
  /\ watermark' = lsn /\ cursor' = last_id
  /\ pc' = "fetch" /\ retries' = 0
  /\ runs' = runs + 1 /\ first' = IF first = NoLsn THEN lsn ELSE first
  /\ UNCHANGED <<pgVars, confirmed, progress, docs, rows, has_more, errors, crashes>>

\* fetch_batch: one row more than the page tells whether there is another page.
From(c) == {i \in Ids : i >= c /\ table[i] # Absent}   \* mutant: the cursor row again
After(c) == {i \in Ids : i > c /\ table[i] # Absent}

FirstOf(S, n) == {i \in S : Cardinality({j \in S : j <= i}) <= n}

MoreIfFull == Cardinality(After(cursor)) > BatchSize + 1   \* mutant: off by one
HasMore    == Cardinality(After(cursor)) > BatchSize

Fetch ==
  /\ pc = "fetch" /\ retries' = 0
  /\ rows' = [i \in FirstOf(After(cursor), BatchSize) |-> table[i]]
  /\ has_more' = HasMore
  /\ pc' = IF After(cursor) = {} THEN "complete" ELSE "transform"
  /\ UNCHANGED <<pgVars, confirmed, progress, docs, watermark, cursor, history, errors, crashes>>

LastId == CHOOSE i \in DOMAIN rows : \A j \in DOMAIN rows : j <= i

Transform ==
  /\ pc = "transform" /\ pc' = "write" /\ retries' = 0
  /\ UNCHANGED <<pgVars, confirmed, progress, docs, run, history, errors, crashes>>

Written == [i \in Ids |-> IF i \in DOMAIN rows THEN rows[i] ELSE docs[i]]

WritePage ==
  /\ pc = "write" /\ docs' = Written
  /\ pc' = "save" /\ retries' = 0
  /\ UNCHANGED <<pgVars, confirmed, progress, run, history, errors, crashes>>

\* save_backfill_cursor, then on to the next page.
SavePage ==
  /\ pc = "save" /\ retries' = 0
  /\ status' = "InProgress" /\ last_id' = LastId
  /\ cursor' = LastId /\ rows' = NoRows /\ has_more' = FALSE
  /\ pc' = IF has_more THEN "fetch" ELSE "complete"
  /\ UNCHANGED <<pgVars, confirmed, watermark_lsn, docs, watermark, history, errors, crashes>>

\* Transient errors are retried in place up to max_retries times, others end
\* the run; a write that reported an error may have happened.
OperationFails ==
  /\ pc \in {"fetch", "transform", "write", "save"}
  /\ errors < MaxErrors /\ errors' = errors + 1
  /\ \/ UNCHANGED docs
     \/ pc = "write" /\ docs' = Written
  /\ \/ retries < MaxRetries /\ retries' = retries + 1 /\ UNCHANGED <<pc, run>>
     \/ (retries = MaxRetries \/ pc # "save") /\ Stop
  /\ UNCHANGED <<pgVars, confirmed, progress, history, crashes>>

CompleteAtNow ==   \* mutant: the position after the copy instead of the one before it
  /\ pc = "complete"
  /\ status' = "Completed" /\ watermark_lsn' = lsn
  /\ pc' = "handover"
  /\ UNCHANGED <<pgVars, confirmed, last_id, docs, run, retries, history, errors, crashes>>

\* The new watermark is stored; None leaves the last_id column as it is.
Complete ==
  /\ pc = "complete"
  /\ status' = "Completed" /\ watermark_lsn' = watermark
  /\ pc' = "handover"
  /\ UNCHANGED <<pgVars, confirmed, last_id, docs, run, retries, history, errors, crashes>>

\* terminate_slot_and_wait, and the stream starts at the watermark.
HandOver ==
  /\ pc = "handover" /\ pc' = "stream"
  /\ UNCHANGED <<pgVars, confirmed, progress, docs, run, retries, history, errors, crashes>>

\* A later start finds the backfill completed.
Restart ==
  /\ pc = "down" /\ status = "Completed" /\ pc' = "handover"
  /\ UNCHANGED <<pgVars, confirmed, progress, docs, run, retries, history, errors, crashes>>

----------------------------------------------------------------------------
Process == \/ Begin \/ Fetch \/ Transform \/ WritePage \/ SavePage
           \/ Complete \/ HandOver \/ Restart

BackfillNext == Process \/ (\E i \in Ids : Write(i)) \/ OldInstanceAcks \/ OperationFails \/ Crash

\* Every operation returns and the retry loop starts the run again.
BackfillSpec == BackfillInit /\ [][BackfillNext]_backfillVars /\ WF_backfillVars(Process)

----------------------------------------------------------------------------
\* Not changed since the backfill was first begun.
Untouched(i) == first # NoLsn /\ changed[i] <= first

(* A completed backfill has copied every row, those it read before a crash  *)
(* and those after: pages leave no gap at their edges, and the last one is  *)
(* not cut off.                                                             *)
NoRowMissed == status = "Completed" => \A i \in Ids : Untouched(i) => docs[i] = table[i]

\* Row i is up to date, or the stream will still deliver its last change.
StreamFrom == IF confirmed > watermark_lsn THEN confirmed ELSE watermark_lsn
UpToDate(i) == docs[i] = table[i] \/ changed[i] > StreamFrom

(* Nothing falls between the backfill and the stream: a change made while   *)
(* the table was being copied is in the copy or after the watermark.        *)
HandoverComplete == pc = "stream" => \A i \in Ids : UpToDate(i)

(* The same for a backfill that was not interrupted and during which nobody *)
(* moved the slot past the watermark.                                       *)
ExclusiveHandoverComplete == runs = 1 /\ confirmed <= watermark_lsn => HandoverComplete

(* The backfill reaches the stream once errors and crashes stop, and never  *)
(* has to copy the table again.                                             *)
ReachesStream == <>[](pc = "stream")
=============================================================================
