--------------------------- MODULE StreamingLoop ---------------------------
(***************************************************************************)
(* The CDC loop of `puffgres run`: one replication slot feeds every        *)
(* applied config.  A committed transaction is handed to each config       *)
(* (process_events), then every config's checkpoint is saved, then the     *)
(* transaction is acknowledged to the slot.  Failed events go to a dead    *)
(* letter queue that the same loop replays every few batches.              *)
(*                                                                         *)
(* LSNs.  A change is identified by its place in the WAL, 1, 2, 3...; the  *)
(* end LSN of a transaction is the number of its last change; a row's      *)
(* value is the number of the upsert that wrote it, Absent if none.        *)
(*                                                                         *)
(* Postgres and turbopuffer are external: modelled as the code uses them.  *)
(***************************************************************************)
EXTENDS Integers, Sequences, FiniteSets

CONSTANTS
  Configs,         \* config names
  Rows,            \* primary keys of the replicated tables
  SourceOf,        \* SourceOf[c]: the rows of config c's source table
  InitialConfigs,  \* configs that have been streaming before the behaviour begins
  SubBatchSize,    \* sub_batch_size; 0 stands for "not configured"
  MaxTxnEvents,    \* max_transaction_events, used when SubBatchSize = 0
  DlqInterval,     \* dlq_replay_interval: batches between two DLQ replays
  ReplayBatch,     \* dlq_replay_batch_size
  MaxRetries,      \* dlq_max_retries
  \* bounds of the instance
  Ops,             \* operations the application performs
  FailingOps,      \* operations whose delivery may fail
  MaxChanges, MaxTxnLen, MaxCrashes, MaxFailures, MaxReconnects

ASSUME ConstantsAssumption ==
  /\ SourceOf \in [Configs -> SUBSET Rows]
  /\ InitialConfigs \subseteq Configs
  /\ SubBatchSize \in Nat /\ MaxTxnEvents \in Nat \ {0}
  /\ DlqInterval \in Nat \ {0} /\ ReplayBatch \in Nat \ {0} /\ MaxRetries \in Nat
  /\ Ops \subseteq {"upsert", "delete"} /\ FailingOps \subseteq Ops
  /\ {MaxChanges, MaxTxnLen, MaxCrashes, MaxFailures, MaxReconnects} \subseteq Nat

NoLsn  == -1   \* Option::None of an LSN
Absent == 0    \* no such row, no such document

VARIABLES
  \* Postgres
  wal,         \* the sequence of committed row changes
  commits,     \* end LSNs of the committed transactions
  confirmed,   \* the slot's confirmed_flush_lsn
  \* the state schema
  watermark,   \* watermark[c]: WAL position when c's backfill began, NoLsn before
  cp,          \* cp[c]: c's streaming checkpoint, NoLsn if there is no row
  dlq,         \* dead letter queue entries
  \* turbopuffer
  sink,        \* sink[c][r]: the document of row r in c's namespace
  \* the process
  pc,          \* where run_streaming_loop is
  memcp,       \* config_checkpoint_lsns, the in-memory copy of the checkpoints
  start,       \* start_lsn
  pos,         \* last transaction of this connection that is done with
  part,        \* changes of the next one already handed over in sub-batches
  batch,       \* the result of recv_batch being handled
  todo,        \* configs the current for loop has still to visit
  applied,     \* LSN last passed to update_applied_lsn
  since,       \* batch_count modulo dlq_replay_interval
  stalled,     \* stalled_passes of the startup drain
  \* history
  delivered,   \* delivered[c]: changes that reached c's namespace
  dropped,     \* dropped[c]: changes given up by a stated policy
  \* budgets of the instance
  crashes, failures, reconnects

pgVars     == <<wal, commits, confirmed>>
sinkVars   == <<sink, delivered>>
streamVars == <<start, pos, part, applied>>
budgets    == <<crashes, failures, reconnects>>
vars == <<pgVars, watermark, cp, dlq, sinkVars, pc, memcp, streamVars, batch,
          todo, since, stalled, dropped, budgets>>

Changes == 1 .. Len(wal)
Active  == {c \in Configs : watermark[c] # NoLsn}
Routed(c, S) == {n \in S \cap Changes : wal[n].row \in SourceOf[c]}

Newest(S) == {n \in S : \A m \in S : m <= n}

\* What the changes in S, all of one row, leave behind.
ValueAfter(S) ==
  IF \E n \in Newest(S) : wal[n].op = "upsert" THEN CHOOSE n \in Newest(S) : TRUE ELSE Absent

\* What the application sees in row r once the changes up to LSN l are applied.
RowAt(r, l) == ValueAfter({n \in Changes : n <= l /\ wal[n].row = r})

NoBatch == [kind |-> "none", lo |-> 1, hi |-> 0, ack |-> 0]
Connected == pc \in {"recv", "process", "save", "ack", "replay", "maintain"}

Init ==
  /\ wal = <<>> /\ commits = {} /\ confirmed = 0
  /\ watermark = [c \in Configs |-> IF c \in InitialConfigs THEN 0 ELSE NoLsn]
  /\ cp = [c \in Configs |-> IF c \in InitialConfigs THEN 0 ELSE NoLsn]
  /\ dlq = {}
  /\ sink = [c \in Configs |-> [r \in Rows |-> Absent]]
  /\ pc = "down" /\ memcp = [c \in Configs |-> NoLsn]
  /\ start = 0 /\ pos = 0 /\ part = 0 /\ applied = 0
  /\ batch = NoBatch /\ todo = {} /\ since = 0 /\ stalled = 0
  /\ delivered = [c \in Configs |-> {}] /\ dropped = [c \in Configs |-> {}]
  /\ crashes = 0 /\ failures = 0 /\ reconnects = 0

----------------------------------------------------------------------------
(* The application: transactions commit while anything else happens.  A     *)
(* transaction changes a row at most once: what turbopuffer makes of two    *)
(* operations on one id in one write is not known from the code.            *)

Commit ==
  \E k \in 1 .. MaxTxnLen :
    /\ Len(wal) + k <= MaxChanges
    /\ \E txn \in [1 .. k -> [row : Rows, op : Ops]] :
         /\ \A i, j \in 1 .. k : txn[i].row = txn[j].row => i = j
         /\ \A i \in 1 .. k : txn[i].op = "delete" => RowAt(txn[i].row, Len(wal)) # Absent
         /\ wal' = wal \o txn
    /\ commits' = commits \cup {Len(wal) + k}
    /\ UNCHANGED <<confirmed, watermark, cp, dlq, sinkVars, pc, memcp, streamVars,
                   batch, todo, since, stalled, dropped, budgets>>

\* The client's periodic status update moves the slot to the acknowledged LSN.
FlushSlot ==
  /\ Connected /\ applied > confirmed
  /\ confirmed' = applied
  /\ UNCHANGED <<wal, commits, watermark, cp, dlq, sinkVars, pc, memcp, streamVars,
                 batch, todo, since, stalled, dropped, budgets>>

----------------------------------------------------------------------------
(* Start-up.                                                               *)

\* A config applied since the last run is backfilled before streaming begins:
\* the watermark is taken first, each row is read at some later moment.
BackfillNewConfig(c) ==
  /\ pc = "down" /\ c \notin Active
  /\ \E w \in commits \cup {0} :
       /\ confirmed <= w /\ \A d \in Configs : cp[d] <= w
       /\ watermark' = [watermark EXCEPT ![c] = w]
       /\ \E at \in [Rows -> {l \in commits \cup {0} : w <= l}] :
            sink' = [sink EXCEPT ![c] = [r \in Rows |->
                       IF r \in SourceOf[c] THEN RowAt(r, at[r]) ELSE Absent]]
  /\ UNCHANGED <<pgVars, cp, dlq, delivered, pc, memcp, streamVars, batch, todo,
                 since, stalled, dropped, budgets>>

Resume(c) == IF cp[c] # NoLsn THEN cp[c] ELSE watermark[c]

\* Permanent entries past their age are discarded.
Expire ==
  \E old \in SUBSET {e \in dlq : e.permanent} :
    /\ dlq' = dlq \ old
    /\ dropped' = [c \in Configs |-> dropped[c] \cup {e.change : e \in {x \in old : x.cfg = c}}]

\* start_lsn of a fresh run: every watermark and every checkpoint counts.
LatestStart == LET all == {watermark[c] : c \in Active} \cup {cp[c] : c \in {d \in Active : cp[d] # NoLsn}}
               IN  {s \in all : \A x \in all : x <= s}   \* mutant: the latest, not the earliest
StartCandidates == {watermark[c] : c \in Active} \cup {cp[c] : c \in {d \in Active : cp[d] # NoLsn}}

Start ==
  /\ pc = "down" /\ Active # {}
  /\ \E s \in StartCandidates : (\A x \in StartCandidates : s <= x) /\ start' = s
  /\ memcp' = [c \in Configs |-> IF c \in Active THEN Resume(c) ELSE NoLsn]
  /\ Expire
  /\ pc' = "drain" /\ stalled' = 0 /\ since' = 0
  /\ UNCHANGED <<pgVars, watermark, cp, sinkVars, pos, part, applied, batch, todo,
                 budgets>>

\* The walsender resumes from the later of start_lsn and the slot's position.
ResumeLsn == IF start > confirmed THEN start ELSE confirmed

Connect ==
  /\ pc = "connect"
  /\ pos' = ResumeLsn
  /\ part' = 0 /\ applied' = 0 /\ pc' = "recv"
  /\ UNCHANGED <<pgVars, watermark, cp, dlq, sinkVars, memcp, start, batch, todo,
                 since, stalled, dropped, budgets>>

----------------------------------------------------------------------------
(* recv_batch: the next committed transaction, whole or in sub-batches.    *)

ShouldSkip(c, lsn) == memcp[c] # NoLsn /\ lsn <= memcp[c]

IsLaterCommit(e) == e \in commits /\ e > pos   \* mutant: not necessarily the next one
IsNextCommit(e) == e \in commits /\ e > pos /\ \A k \in commits : k > pos => e <= k

\* Configs process_events visits; sub-batches ignore the checkpoints.
SkipSubBatches(b) ==   \* mutant: a sub-batch, whose ack_lsn is 0, honours the checkpoints
  {c \in Active : Routed(c, b.lo .. b.hi) # {} /\ ~ShouldSkip(c, b.ack)}
ToProcess(b) ==
  {c \in Active : Routed(c, b.lo .. b.hi) # {} /\ (b.kind = "sub" \/ ~ShouldSkip(c, b.ack))}

\* Configs whose checkpoint is saved after the batch.
SaveAll(b) == Active   \* mutant: the skip window is ignored
ToSave(b) == {c \in Active : b.kind = "toolarge" \/ ~ShouldSkip(c, b.ack)}

AckFirst(b) == "ack"   \* mutant: acknowledged before the checkpoints are saved
AfterSave(b) == IF ToSave(b) = {} THEN "ack" ELSE "save"

\* Leave process_events with batch b: a sub-batch goes straight back to recv_batch.
EndProcess(b) ==
  IF b.kind = "sub"
  THEN /\ pc' = "recv" /\ part' = b.hi - pos /\ batch' = NoBatch /\ todo' = {}
  ELSE /\ pc' = AfterSave(b) /\ todo' = ToSave(b) /\ batch' = b /\ UNCHANGED part

BeginProcess(b) ==
  IF ToProcess(b) = {} THEN EndProcess(b)
  ELSE pc' = "process" /\ todo' = ToProcess(b) /\ batch' = b /\ UNCHANGED part

RecvSubBatch ==
  /\ pc = "recv" /\ SubBatchSize > 0
  /\ \E e \in commits :
       /\ IsNextCommit(e) /\ e - pos - part >= SubBatchSize
       /\ BeginProcess([kind |-> "sub", lo |-> pos + part + 1,
                        hi |-> pos + part + SubBatchSize, ack |-> 0])
  /\ UNCHANGED <<pgVars, watermark, cp, dlq, sinkVars, memcp, start, pos, applied,
                 since, stalled, dropped, budgets>>

\* What is left of the transaction at its Commit message fits a Batch.
NonEmptyRemainder(e) == e - pos - part \in 1 .. SubBatchSize - 1   \* mutant: nothing left, no Batch
RemainderFits(e) ==
  IF SubBatchSize > 0 THEN e - pos - part < SubBatchSize ELSE e - pos <= MaxTxnEvents

RecvBatch ==
  /\ pc = "recv"
  /\ \E e \in commits :
       /\ IsNextCommit(e) /\ RemainderFits(e)
       /\ BeginProcess([kind |-> "batch", lo |-> pos + part + 1, hi |-> e, ack |-> e])
  /\ UNCHANGED <<pgVars, watermark, cp, dlq, sinkVars, memcp, start, pos, applied,
                 since, stalled, dropped, budgets>>

\* The transaction is skipped; every config's checkpoint moves to its end.
RecvTransactionTooLarge ==
  /\ pc = "recv" /\ SubBatchSize = 0
  /\ \E e \in commits :
       /\ IsNextCommit(e) /\ e - pos > MaxTxnEvents
       /\ EndProcess([kind |-> "toolarge", lo |-> pos + 1, hi |-> e, ack |-> e])
       /\ dropped' = [c \in Configs |-> dropped[c] \cup Routed(c, pos + 1 .. e)]
  /\ UNCHANGED <<pgVars, watermark, cp, dlq, sinkVars, memcp, start, pos, applied,
                 since, stalled, budgets>>

\* start_lsn of a reconnect: only configs that have a checkpoint row count.
ReconnectCandidates == {cp[c] : c \in {d \in Active : cp[d] # NoLsn}}

\* A Relation message announced new columns: drop the stream, wait for the slot
\* to be released, start over from the checkpoints.  ReplicationStream says when.
RecvSchemaChanged ==
  /\ pc = "recv" /\ reconnects < MaxReconnects
  /\ \E e \in commits : e > pos
  /\ reconnects' = reconnects + 1
  /\ IF ReconnectCandidates = {} THEN start' = 0
     ELSE \E s \in ReconnectCandidates : (\A x \in ReconnectCandidates : s <= x) /\ start' = s
  /\ pc' = "connect" /\ pos' = 0 /\ part' = 0 /\ applied' = 0
  /\ UNCHANGED <<pgVars, watermark, cp, dlq, sinkVars, memcp, batch, todo, since,
                 stalled, dropped, crashes, failures>>

----------------------------------------------------------------------------
(* process_events: transform and send one config's events, or dead-letter. *)

\* send_events_to_dlq: one fresh entry per event.
LastEntry(c, S) ==   \* mutant: only the last event of the batch is kept
  {[cfg |-> c, change |-> n, retries |-> 0, permanent |-> FALSE] : n \in {m \in S : \A k \in S : k <= m}}
Entries(c, S) == {[cfg |-> c, change |-> n, retries |-> 0, permanent |-> FALSE] : n \in S}

Mine(c) == Routed(c, batch.lo .. batch.hi)

\* The namespace after one write of the changes in S.
Written(c, S) ==
  [sink EXCEPT ![c] = [r \in Rows |->
     LET here == {n \in S : wal[n].row = r}
     IN  IF here = {} THEN sink[c][r] ELSE ValueAfter(here)]]

Delivered(c) ==
  /\ sink' = Written(c, Mine(c))
  /\ delivered' = [delivered EXCEPT ![c] = @ \cup Mine(c)]

\* The for loop moves on from config c.
NextConfig(c) ==
  IF todo = {c} THEN EndProcess(batch)
  ELSE todo' = todo \ {c} /\ UNCHANGED <<pc, part, batch>>

SendOk(c) ==
  /\ pc = "process" /\ c \in todo
  /\ Delivered(c)
  /\ NextConfig(c)
  /\ UNCHANGED <<pgVars, watermark, cp, dlq, memcp, start, pos, applied, since,
                 stalled, dropped, budgets>>

CanFail(c) ==
  /\ failures < MaxFailures /\ failures' = failures + 1
  /\ \A n \in Mine(c) : wal[n].op \in FailingOps

\* The transform or the write failed; a write that timed out may have happened.
SendFails(c) ==
  /\ pc = "process" /\ c \in todo /\ CanFail(c)
  /\ UNCHANGED sinkVars \/ Delivered(c)
  /\ dlq' = dlq \cup Entries(c, Mine(c))
  /\ NextConfig(c)
  /\ UNCHANGED <<pgVars, watermark, cp, memcp, start, pos, applied, since, stalled,
                 dropped, crashes, reconnects>>

Stop ==
  /\ pc' = "down" /\ memcp' = [c \in Configs |-> NoLsn]
  /\ start' = 0 /\ pos' = 0 /\ part' = 0 /\ applied' = 0
  /\ batch' = NoBatch /\ todo' = {} /\ since' = 0 /\ stalled' = 0

\* Dead-lettering the events one by one failed half-way: the run ends in an error.
DeadLetterFails(c) ==
  /\ pc = "process" /\ c \in todo /\ CanFail(c)
  /\ UNCHANGED sinkVars \/ Delivered(c)
  /\ \E k \in Mine(c) : dlq' = dlq \cup Entries(c, {m \in Mine(c) : m < k})
  /\ Stop
  /\ UNCHANGED <<pgVars, watermark, cp, dropped, crashes, reconnects>>

----------------------------------------------------------------------------
(* Checkpoint, acknowledge, replay the dead letter queue, maintain.        *)

SaveCheckpoint(c) ==
  /\ pc = "save" /\ c \in todo
  /\ cp' = [cp EXCEPT ![c] = batch.ack]
  /\ memcp' = IF batch.kind = "toolarge" THEN memcp ELSE [memcp EXCEPT ![c] = batch.ack]
  /\ todo' = todo \ {c}
  /\ pc' = IF todo = {c} THEN "ack" ELSE "save"
  /\ UNCHANGED <<pgVars, watermark, dlq, sinkVars, streamVars, batch, since,
                 stalled, dropped, budgets>>

Ack ==
  /\ pc = "ack"
  /\ applied' = batch.ack /\ pos' = batch.ack /\ part' = 0
  /\ since' = (since + 1) % DlqInterval
  /\ pc' = IF since' = 0 THEN "replay"
           ELSE IF batch.kind = "batch" THEN "maintain" ELSE "recv"
  /\ batch' = [NoBatch EXCEPT !.kind = IF pc' = "recv" THEN "none" ELSE batch.kind]
  /\ UNCHANGED <<pgVars, watermark, cp, dlq, sinkVars, memcp, start, todo, stalled,
                 dropped, budgets>>

Retryable == {e \in dlq : ~e.permanent}

\* What a replayed entry leaves in the namespace: an upsert re-reads the row, a
\* delete does not.
ReplayValue(r, S) == IF \E n \in Newest(S) : wal[n].op = "delete" THEN Absent ELSE RowAt(r, Len(wal))

AfterFailure(e) ==
  IF e.retries + 1 >= MaxRetries THEN [e EXCEPT !.permanent = TRUE]
  ELSE [e EXCEPT !.retries = @ + 1]

\* The entries of F are replayed, those in ok with success; those in sent reached
\* the namespace but their entries stay.
ReplayEffect(F, ok, sent) ==
  /\ dlq' = (dlq \ F) \cup {AfterFailure(e) : e \in F \ ok}
  /\ sink' = [c \in Configs |-> [r \in Rows |->
       LET here == {e.change : e \in {x \in ok \cup sent : x.cfg = c /\ wal[x.change].row = r}}
       IN  IF here = {} THEN sink[c][r] ELSE ReplayValue(r, here)]]
  /\ delivered' = [c \in Configs |->
       delivered[c] \cup {e.change : e \in {x \in ok \cup sent : x.cfg = c}}]

\* One pass of replay_dlq over the entries F.
ReplayPass(F, ok) ==
  /\ Cardinality(F) = (IF Cardinality(Retryable) <= ReplayBatch
                       THEN Cardinality(Retryable) ELSE ReplayBatch)
  /\ ReplayEffect(F, ok, {})
  /\ \/ ok = F /\ UNCHANGED failures
     \/ ok # F /\ failures < MaxFailures /\ failures' = failures + 1


DrainDlq ==
  /\ pc = "drain"
  /\ \E F \in SUBSET Retryable : \E ok \in SUBSET F :
       /\ ReplayPass(F, ok)
       /\ stalled' = IF ok # {} THEN 0 ELSE stalled + 1
       /\ pc' = IF F = {} \/ stalled' >= 2 THEN "connect" ELSE "drain"
  /\ UNCHANGED <<pgVars, watermark, cp, memcp, streamVars, batch, todo, since,
                 dropped, crashes, reconnects>>

ReplayDlq ==
  /\ pc = "replay"
  /\ \E F \in SUBSET Retryable : \E ok \in SUBSET F : ReplayPass(F, ok)
  /\ pc' = IF batch.kind = "batch" THEN "maintain" ELSE "recv"
  /\ batch' = IF pc' = "recv" THEN NoBatch ELSE batch
  /\ UNCHANGED <<pgVars, watermark, cp, memcp, streamVars, todo, since, stalled,
                 dropped, crashes, reconnects>>

\* A pass that ends in an error, after some entries or before the first; at most
\* one entry was delivered and could not be removed.  The loop goes on.
ReplayAborts ==
  /\ pc \in {"drain", "replay"}
  /\ failures < MaxFailures /\ failures' = failures + 1
  /\ \E F \in SUBSET Retryable : \E ok \in SUBSET F : \E sent \in SUBSET (Retryable \ F) :
       /\ Cardinality(sent) <= 1 /\ Cardinality(F \cup sent) <= ReplayBatch
       /\ ReplayEffect(F, ok, sent)
  /\ pc' = IF pc = "drain" THEN "connect" ELSE IF batch.kind = "batch" THEN "maintain" ELSE "recv"
  /\ batch' = IF pc' = "recv" THEN NoBatch ELSE batch
  /\ UNCHANGED <<pgVars, watermark, cp, memcp, streamVars, todo, since, stalled,
                 dropped, crashes, reconnects>>

\* run_maintenance, when its interval has elapsed.
Maintain ==
  /\ pc = "maintain"
  /\ Expire
  /\ pc' = "recv" /\ batch' = NoBatch
  /\ UNCHANGED <<pgVars, watermark, cp, sinkVars, memcp, streamVars, todo, since,
                 stalled, budgets>>

\* A crash, a shutdown or an error from Postgres or the state schema.
Crash ==
  /\ pc # "down" /\ crashes < MaxCrashes /\ crashes' = crashes + 1
  /\ Stop
  /\ UNCHANGED <<pgVars, watermark, cp, dlq, sinkVars, dropped, failures, reconnects>>

----------------------------------------------------------------------------
Process ==
  \/ Start \/ Connect
  \/ RecvSubBatch \/ RecvBatch \/ RecvTransactionTooLarge
  \/ \E c \in Configs : SendOk(c) \/ SaveCheckpoint(c)
  \/ Ack \/ DrainDlq \/ ReplayDlq \/ Maintain

Environment ==
  \/ Commit \/ Crash \/ RecvSchemaChanged \/ ReplayAborts
  \/ \E c \in Configs : BackfillNewConfig(c) \/ SendFails(c) \/ DeadLetterFails(c)

Next == Process \/ Environment \/ FlushSlot

Spec == Init /\ [][Next]_vars

\* The process is one task that is restarted when it fails and whose awaits
\* return; the client reports its position on a timer.  Nothing makes the
\* application commit, a write fail or the process crash.
FairSpec == Spec /\ WF_vars(Process) /\ WF_vars(FlushSlot)

----------------------------------------------------------------------------
Lsn == 0 .. MaxChanges

TypeOK ==
  /\ wal \in Seq([row : Rows, op : Ops]) /\ Len(wal) <= MaxChanges
  /\ commits \subseteq Changes /\ confirmed \in Lsn
  /\ watermark \in [Configs -> Lsn \cup {NoLsn}] /\ cp \in [Configs -> Lsn \cup {NoLsn}]
  /\ dlq \subseteq [cfg : Configs, change : 1 .. MaxChanges, retries : Nat, permanent : BOOLEAN]
  /\ sink \in [Configs -> [Rows -> Lsn]]
  /\ pc \in {"down", "drain", "connect", "recv", "process", "save", "ack", "replay", "maintain"}
  /\ memcp \in [Configs -> Lsn \cup {NoLsn}]
  /\ {start, pos, part, applied} \subseteq Lsn
  /\ batch \in [kind : {"none", "sub", "batch", "toolarge"}, lo : Nat, hi : Nat, ack : Lsn]
  /\ todo \subseteq Configs /\ since \in Nat /\ stalled \in Nat
  /\ delivered \in [Configs -> SUBSET (1 .. MaxChanges)]
  /\ dropped \in [Configs -> SUBSET (1 .. MaxChanges)]
  /\ {crashes, failures, reconnects} \subseteq Nat

\* c's namespace got change n, or the dead letter queue still holds it, or a
\* stated policy gave it up.
Accounted(c, n) ==
  \/ n \in delivered[c] \cup dropped[c]
  \/ \E e \in dlq : e.cfg = c /\ e.change = n

\* Every change of c's table above its watermark and up to l is accounted for.
Settled(c, l) ==
  \A n \in Changes : watermark[c] < n /\ n <= l /\ wal[n].row \in SourceOf[c] => Accounted(c, n)

(* No change is lost: whatever the slot has released, and whatever a config *)
(* will skip or never ask for again after a restart, reached its namespace, *)
(* is in the dead letter queue, or was given up by a stated policy.         *)
NoLostChange == \A c \in Active : Settled(c, confirmed) /\ Settled(c, Resume(c))

\* An LSN up to which no config misses anything.
Safe(l) == l <= Len(wal) /\ \A c \in Active : Settled(c, l)

(* Why no change is lost: every LSN the slot, a checkpoint or a connection  *)
(* stands at is safe for all configs at once, those added last included;    *)
(* while a batch is handed out, it is settled for the configs already       *)
(* served; and a config's skip window covers only what it has settled.      *)
EveryPositionSafe ==
  /\ pc = "down" => start = 0 /\ pos = 0 /\ part = 0 /\ applied = 0 /\ memcp = [c \in Configs |-> NoLsn]
  /\ Safe(confirmed) /\ Safe(applied) /\ Safe(start) /\ Safe(pos + part)
  /\ \A c \in Configs : Safe(cp[c])
  /\ \A c \in Active : memcp[c] <= Len(wal) /\ Settled(c, memcp[c])
  /\ pc = "process" =>
       /\ batch.kind \in {"sub", "batch"} /\ batch.lo = pos + part + 1 /\ batch.hi <= Len(wal)
       /\ batch.kind = "batch" => batch.ack = batch.hi
       /\ \A c \in Active \ todo : Settled(c, batch.hi)
  /\ pc \in {"save", "ack"} => Safe(batch.ack)

\* The position up to which config c needs nothing more from the WAL.
Covered(c) == IF cp[c] > watermark[c] THEN cp[c] ELSE watermark[c]

(* The slot, shared by all configs, is never advanced past one that would   *)
(* still need the WAL: the acknowledgement follows every checkpoint.        *)
SlotNeverPassesConfig == \A c \in Active : confirmed <= Covered(c)

(* The position a config restarts from never moves back: a replay of old    *)
(* transactions does not rewrite the checkpoint of a config that is ahead.  *)
CheckpointNeverRegresses ==
  [][\A c \in Active : Resume(c) <= Resume(c)']_<<cp, watermark>>

Gone(c, r) == \E n \in dropped[c] : wal[n].row = r

Mirrored == \A c \in Active : \A r \in SourceOf[c] :
              Gone(c, r) \/ sink[c][r] = RowAt(r, Len(wal))

(* Whenever the loop has consumed the whole WAL and the dead letter queue   *)
(* is empty, every namespace equals its source table: no order of sends,    *)
(* skips, replays, backfills and crashes leaves a stale or missing document.*)
MirroredWhenIdle == pc = "recv" /\ pos = Len(wal) /\ dlq = {} => Mirrored


(* Every change a config streams is delivered, dead-lettered or given up in *)
(* the end: neither a crash half-way through a transaction's sub-batches    *)
(* nor an empty remainder at its Commit stops the stream.                   *)
EveryChangeSettles ==
  \A c \in Configs : \A n \in 1 .. MaxChanges :
    (n \in Routed(c, Changes) /\ watermark[c] < n /\ c \in Active) ~> Accounted(c, n)

Feed == INSTANCE TransactionFeed WITH
  SubBatchSizes <- {SubBatchSize} \ {0}, up <- Connected,
  pos <- IF Connected THEN pos ELSE 0, part <- IF Connected THEN part ELSE 0

(* The transactions the loop handles are those a connection promises, in    *)
(* commit order and without a gap, which ReplicationStream is shown to keep. *)
FollowsFeed == Feed!Spec
=============================================================================
