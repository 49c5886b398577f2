---------------------------- MODULE SlotHandover ----------------------------
(* Two `puffgres run` processes and one replication slot: a deploy starts   *)
(* the new process while the old one still streams, or a retry loop comes   *)
(* back after it was thrown out.  Each run sets the publication to its own  *)
(* tables, backfills what is new to it, terminates whoever holds the slot,  *)
(* waits for the release and connects.  A process that lost the slot still  *)
(* has the transactions its client had received.                            *)
(*                                                                          *)
(* One config per table, one row per table, one change per transaction: LSN *)
(* n is the n-th change.  What one process does with a batch is             *)
(* StreamingLoop's subject and a backfill Backfill's; here both are short.  *)
(* Postgres and the replication client are external.                        *)
EXTENDS Integers, Sequences, FiniteSets

CONSTANTS
  Instances,   \* the processes
  Nobody,      \* no active_pid
  Configs,
  ConfigsOf,   \* ConfigsOf[i]: the applied configs process i was started with
  \* bounds of the instance
  MaxChanges,  \* changes committed
  MaxBuffer,   \* transactions the client holds for a process
  Unsteady     \* processes that stop, are killed or lose their connection

ASSUME ConstantsAssumption ==
  /\ Nobody \notin Instances /\ ConfigsOf \in [Instances -> SUBSET Configs]
  /\ {MaxChanges, MaxBuffer} \subseteq Nat /\ Unsteady \subseteq Instances

Shared == {c \in Configs : \A i \in Instances : c \in ConfigsOf[i]}
NoLsn  == -1

VARIABLES
  wal,          \* committed changes: [of, published]
  publication,  \* tables in the publication
  confirmed,    \* the slot's confirmed_flush_lsn
  holder,       \* process whose backend has the slot (active_pid)
  dying,        \* that backend has been told to terminate
  watermark, cp,  \* per config, as stored
  doc,          \* doc[c]: the change c's document shows
  delivered,    \* history: delivered[c], the changes that reached c's namespace
  overlapped,   \* history: configs written by a process after another took over or went ahead
  \* per process
  pc,
  missing, stale,  \* what ensure_publication found
  mem,          \* config_checkpoint_lsns
  start,        \* start_lsn
  buffer,       \* transactions received and not yet handled
  pos,          \* last transaction sent to it
  hand,         \* the batch handled and not yet saved, 0 if none
  applied,      \* last acknowledgement
  cut           \* its connection was terminated

pgVars   == <<wal, publication, confirmed, holder, dying>>
docs     == <<doc, delivered, overlapped>>
stored   == <<watermark, cp>>
conn     == <<buffer, pos, hand, applied, cut>>
planned  == <<missing, stale>>
run      == <<conn, planned, mem, start>>
vars == <<pgVars, docs, stored, conn, planned, pc, mem, start>>

ChangesOf(c) == {n \in 1 .. Len(wal) : wal[n].of = c}
Newest(S) == IF S = {} THEN 0 ELSE CHOOSE n \in S : \A m \in S : m <= n

Goto(i, where) == pc' = [pc EXCEPT ![i] = where]

Init ==
  /\ wal = <<>> /\ publication = Shared /\ confirmed = 0
  /\ holder = Nobody /\ dying = FALSE
  /\ watermark = [c \in Configs |-> IF c \in Shared THEN 0 ELSE NoLsn]
  /\ cp = [c \in Configs |-> IF c \in Shared THEN 0 ELSE NoLsn]
  /\ doc = [c \in Configs |-> 0] /\ delivered = [c \in Configs |-> {}] /\ overlapped = {}
  /\ pc = [i \in Instances |-> "down"]
  /\ missing = [i \in Instances |-> {}] /\ stale = [i \in Instances |-> {}]
  /\ mem = [i \in Instances |-> [c \in Configs |-> NoLsn]]
  /\ start = [i \in Instances |-> 0]
  /\ buffer = [i \in Instances |-> <<>>] /\ pos = [i \in Instances |-> 0]
  /\ hand = [i \in Instances |-> 0] /\ applied = [i \in Instances |-> 0]
  /\ cut = [i \in Instances |-> FALSE]

\* A run that ends takes its memory with it; its backend is on its own.
Leave(i, where) ==
  /\ Goto(i, where)
  /\ missing' = [missing EXCEPT ![i] = {}] /\ stale' = [stale EXCEPT ![i] = {}]
  /\ mem' = [mem EXCEPT ![i] = [c \in Configs |-> NoLsn]]
  /\ start' = [start EXCEPT ![i] = 0]
  /\ buffer' = [buffer EXCEPT ![i] = <<>>] /\ pos' = [pos EXCEPT ![i] = 0]
  /\ hand' = [hand EXCEPT ![i] = 0] /\ applied' = [applied EXCEPT ![i] = 0]
  /\ cut' = [cut EXCEPT ![i] = FALSE]

\* retry_loop after a retryable error, once the backoff is over.
Retry(i) == Leave(i, "setup")

----------------------------------------------------------------------------
(* Postgres.  A change is decoded with the publication of its own time.     *)

Commit(c) ==
  /\ Len(wal) < MaxChanges
  /\ wal' = Append(wal, [of |-> c, published |-> c \in publication])
  /\ UNCHANGED <<publication, confirmed, holder, dying, docs, stored, conn, planned,
                 pc, mem, start>>

\* Process i is connected, and the slot is its connection's.
Attached(i) == holder = i /\ pc[i] \in {"recv", "save"}

Unsent(i) == {n \in 1 .. Len(wal) : n > pos[i] /\ wal[n].published}

Send(i) ==
  /\ Attached(i) /\ Len(buffer[i]) < MaxBuffer
  /\ \E n \in Unsent(i) :
       /\ \A m \in Unsent(i) : n <= m
       /\ buffer' = [buffer EXCEPT ![i] = Append(@, n)]
       /\ pos' = [pos EXCEPT ![i] = n]
  /\ UNCHANGED <<pgVars, docs, stored, hand, applied, cut, planned, pc, mem,
                 start>>

FlushSlot(i) ==
  /\ Attached(i) /\ applied[i] > confirmed
  /\ confirmed' = applied[i]
  /\ UNCHANGED <<wal, publication, holder, dying, docs, stored, conn, planned,
                 pc, mem, start>>

\* The backend ends: it was told to, or its process is gone.
BackendExits(i) ==
  /\ holder = i /\ (dying \/ ~Attached(i))
  /\ holder' = Nobody /\ dying' = FALSE
  /\ cut' = [cut EXCEPT ![i] = pc[i] \in {"recv", "save"}]
  /\ UNCHANGED <<wal, publication, confirmed, docs, stored, buffer, pos, hand, applied,
                 planned, pc, mem, start>>

----------------------------------------------------------------------------
(* The run of a process, up to streaming.                                   *)

Boot(i) ==
  /\ pc[i] = "down" /\ Goto(i, "setup")
  /\ UNCHANGED <<pgVars, docs, stored, run>>

\* ensure_publication reads the tables first and alters by what it read.
SwapPublication(i) ==   \* mutant: the two differences are taken the wrong way round
  /\ missing' = [missing EXCEPT ![i] = publication \ ConfigsOf[i]]
  /\ stale' = [stale EXCEPT ![i] = ConfigsOf[i] \cap publication]
ComparePublication(i) ==
  /\ missing' = [missing EXCEPT ![i] = ConfigsOf[i] \ publication]
  /\ stale' = [stale EXCEPT ![i] = publication \ ConfigsOf[i]]

ReadPublication(i) ==
  /\ pc[i] = "setup" /\ Goto(i, "add")
  /\ ComparePublication(i)
  /\ UNCHANGED <<pgVars, docs, stored, conn, mem, start>>

\* ALTER PUBLICATION fails when a table is a member already, or no longer.
AddTables(i) ==
  /\ pc[i] = "add"
  /\ IF missing[i] \cap publication = {}
       THEN /\ publication' = publication \cup missing[i] /\ Goto(i, "drop")
            /\ missing' = [missing EXCEPT ![i] = {}] /\ UNCHANGED <<conn, stale, mem, start>>
       ELSE UNCHANGED publication /\ Retry(i)
  /\ UNCHANGED <<wal, confirmed, holder, dying, docs, stored>>

DropTables(i) ==
  /\ pc[i] = "drop"
  /\ IF stale[i] \subseteq publication
       THEN /\ publication' = publication \ stale[i] /\ Goto(i, "backfill")
            /\ stale' = [stale EXCEPT ![i] = {}] /\ UNCHANGED <<conn, missing, mem, start>>
       ELSE UNCHANGED publication /\ Retry(i)
  /\ UNCHANGED <<wal, confirmed, holder, dying, docs, stored>>

New(i) == {c \in ConfigsOf[i] : watermark[c] = NoLsn}

\* check_and_run_backfills, in one step: the watermark and the rows it reads.
\* start_lsn is computed right after, while the other process may still save.
Candidates(i) == {watermark'[c] : c \in ConfigsOf[i]} \cup ({cp[c] : c \in ConfigsOf[i]} \ {NoLsn})

Backfill(i) ==
  /\ pc[i] = "backfill"
  /\ watermark' = [c \in Configs |-> IF c \in New(i) THEN Len(wal) ELSE watermark[c]]
  /\ doc' = [c \in Configs |-> IF c \in New(i) THEN Newest(ChangesOf(c)) ELSE doc[c]]
  /\ delivered' = [c \in Configs |->
                     delivered[c] \cup (IF c \in New(i) THEN ChangesOf(c) ELSE {})]
  /\ \E s \in Candidates(i) :
       (\A x \in Candidates(i) : s <= x) /\ start' = [start EXCEPT ![i] = s]
  /\ Goto(i, "terminate")
  /\ UNCHANGED <<pgVars, overlapped, cp, conn, planned, mem>>

\* terminate_slot_and_wait: terminate, then poll; a poll that still finds a
\* holder terminates it again, or is the last (ten, spread over a backoff) and gives
\* up with a retryable error.
Terminate(i) ==
  /\ pc[i] = "terminate" /\ Goto(i, "poll")
  /\ dying' = (holder # Nobody)
  /\ UNCHANGED <<wal, publication, confirmed, holder, docs, stored, conn, planned,
                 mem, start>>

Poll(i) ==
  /\ pc[i] = "poll"
  /\ \/ /\ holder = Nobody /\ Goto(i, "load") /\ UNCHANGED <<dying, run>>
     \/ /\ holder # Nobody /\ dying' = TRUE /\ UNCHANGED <<run, pc>>
     \/ /\ holder # Nobody /\ Retry(i) /\ UNCHANGED dying
  /\ UNCHANGED <<wal, publication, confirmed, holder, docs, stored>>

\* run_streaming_loop: the checkpoints are read, then the slot is claimed.
Resume(c) == IF cp[c] # NoLsn THEN cp[c] ELSE watermark[c]

LoadCheckpoints(i) ==
  /\ pc[i] = "load"
  /\ mem' = [mem EXCEPT ![i] = [c \in Configs |-> IF c \in ConfigsOf[i] THEN Resume(c) ELSE NoLsn]]
  /\ Goto(i, "connect")
  /\ UNCHANGED <<pgVars, docs, stored, conn, planned, start>>

ResumeAt(i) == IF start[i] > confirmed THEN start[i] ELSE confirmed

\* START_REPLICATION fails while another backend has the slot.
Connect(i) ==
  /\ pc[i] = "connect"
  /\ IF holder = Nobody
       THEN /\ holder' = i /\ Goto(i, "recv")
            /\ pos' = [pos EXCEPT ![i] = ResumeAt(i)]
            /\ UNCHANGED <<buffer, hand, applied, cut, planned, mem, start>>
       ELSE Retry(i) /\ UNCHANGED holder
  /\ UNCHANGED <<wal, publication, confirmed, dying, docs, stored>>

----------------------------------------------------------------------------
(* Streaming.                                                               *)

Behind(i, n) == {c \in ConfigsOf[i] : n > mem[i][c]}

\* Configs process i should leave to the other one: it has lost the slot, or the
\* other saved a checkpoint after this one read its own.
Overtaken(i) == {c \in ConfigsOf[i] : cut[i] \/ mem[i][c] < cp[c]}

\* recv_batch and process_events.
Deliver(i) ==
  /\ pc[i] = "recv" /\ buffer[i] # <<>> /\ Goto(i, "save")
  /\ hand' = [hand EXCEPT ![i] = Head(buffer[i])]
  /\ buffer' = [buffer EXCEPT ![i] = Tail(@)]
  /\ LET n == Head(buffer[i])  c == wal[n].of IN
       IF c \in Behind(i, n)
         THEN /\ doc' = [doc EXCEPT ![c] = n]
              /\ delivered' = [delivered EXCEPT ![c] = @ \cup {n}]
              /\ overlapped' = overlapped \cup ({c} \cap Overtaken(i))
         ELSE UNCHANGED docs
  /\ UNCHANGED <<pgVars, stored, pos, applied, cut, planned, mem, start>>

\* Every checkpoint the batch passes is saved, then the batch is acknowledged: a
\* crash in between is a crash before the acknowledgement is flushed.
SaveNext(i) ==   \* mutant: remembers the LSN after the one handled
  /\ cp' = [c \in Configs |-> IF c \in Behind(i, hand[i]) THEN hand[i] ELSE cp[c]]
  /\ mem' = [mem EXCEPT ![i] = [c \in Configs |-> cp'[c] + 1]]
SaveCheckpoints(i) ==
  /\ cp' = [c \in Configs |-> IF c \in Behind(i, hand[i]) THEN hand[i] ELSE cp[c]]
  /\ mem' = [mem EXCEPT ![i] = [c \in Configs |-> IF c \in Behind(i, hand[i]) THEN hand[i] ELSE @[c]]]

SaveAndAck(i) ==
  /\ pc[i] = "save" /\ Goto(i, "recv")
  /\ SaveCheckpoints(i)
  /\ applied' = [applied EXCEPT ![i] = hand[i]]
  /\ hand' = [hand EXCEPT ![i] = 0]
  /\ overlapped' = overlapped \cup (Behind(i, hand[i]) \cap Overtaken(i))
  /\ UNCHANGED <<pgVars, doc, delivered, watermark, buffer, pos, cut, planned, start>>

\* The end of a terminated connection is an error, or an end of stream that
\* the loop takes for a reason to leave.
ConnectionUnnoticed(i) ==   \* mutant: the loss shows only when another process has the slot
  /\ pc[i] = "recv" /\ cut[i] /\ buffer[i] = <<>> /\ holder # Nobody
  /\ Retry(i) \/ Leave(i, "down")
  /\ UNCHANGED <<pgVars, docs, stored>>
ConnectionGone(i) ==
  /\ pc[i] = "recv" /\ cut[i] /\ buffer[i] = <<>>
  /\ Retry(i) \/ Leave(i, "down")
  /\ UNCHANGED <<pgVars, docs, stored>>

----------------------------------------------------------------------------
(* Stopping and failing.                                                    *)

\* A process that is asked to stop leaves where the token is checked, and one that
\* is killed anywhere: either way its memory is gone and its backend still there.
Exit(i) ==
  /\ i \in Unsteady /\ pc[i] # "down" /\ Leave(i, "down")
  /\ UNCHANGED <<pgVars, docs, stored>>

\* Any statement of the set-up can fail; so can the connection that streams.
LoseConnection(i) ==
  /\ i \in Unsteady
  /\ \/ /\ pc[i] \notin {"down", "recv", "save"}
        /\ Retry(i) /\ UNCHANGED <<holder, dying>>
     \/ /\ Attached(i)
        /\ holder' = Nobody /\ dying' = FALSE /\ cut' = [cut EXCEPT ![i] = TRUE]
        /\ UNCHANGED <<pc, buffer, pos, hand, applied, planned, mem, start>>
  /\ UNCHANGED <<wal, publication, confirmed, docs, stored>>

SetUp(i) ==
  \/ ReadPublication(i) \/ AddTables(i) \/ DropTables(i) \/ Backfill(i)
  \/ Terminate(i) \/ Poll(i) \/ LoadCheckpoints(i) \/ Connect(i)
Streaming(i) == Deliver(i) \/ SaveAndAck(i) \/ ConnectionGone(i)
Postgres(i) == Send(i) \/ FlushSlot(i) \/ BackendExits(i)

Next ==
  \/ \E c \in Configs : Commit(c)
  \/ \E i \in Instances :
       \/ SetUp(i) \/ Streaming(i) \/ Postgres(i)
       \/ Boot(i) \/ Exit(i) \/ LoseConnection(i)

Spec == Init /\ [][Next]_vars

\* A steady process goes on; Postgres ends the backends it should.
Fairness ==
  /\ \A i \in Instances \ Unsteady : WF_vars(SetUp(i) \/ Streaming(i) \/ Send(i))
  /\ \A i \in Instances : WF_vars(BackendExits(i))
FairSpec == Spec /\ Fairness

----------------------------------------------------------------------------
(* Properties.                                                              *)

\* Whoever streams, is thrown out or comes back, the slot never moves past a
\* change of a config both processes apply that has not reached its namespace:
\* the two saved different checkpoints and acknowledged on different connections.
SharedLosesNothing ==
  \A c \in Shared : \A n \in ChangesOf(c) : n <= confirmed => n \in delivered[c]

\* A process that has caught up on the slot leaves every document at the last
\* change, whatever was delivered twice, unless a process wrote after the other
\* had taken the slot from it or had gone past the checkpoints it remembered.
Current(i) == Attached(i) /\ ~dying /\ pc[i] = "recv" /\ buffer[i] = <<>> /\ Unsent(i) = {}
Mirrored(c) == doc[c] = Newest(ChangesOf(c))
CaughtUpShowsNewest ==
  \A i \in Instances : Current(i) => \A c \in Shared \ overlapped : Mirrored(c)

\* Once a single steady process is left alive it gets the slot and the shared configs
\* catch up: the other's backend, its retries and the polls lost to it only delay it.
Alone(i) == pc[i] # "down" /\ \A j \in Instances \ {i} : pc[j] = "down"
LastProcessCatchesUp ==
  \A i \in Instances \ Unsteady : <>[]Alone(i) => <>[](\A c \in Shared \ overlapped : Mirrored(c))
=============================================================================
