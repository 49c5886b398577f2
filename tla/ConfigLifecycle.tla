-------------------------- MODULE ConfigLifecycle --------------------------
(***************************************************************************)
(* The life of a config: `new`, `apply`, `tombstone`, `remove`, `reset`,   *)
(* and a `run` that picks it up, re-keys, backfills and streams it.  Four  *)
(* stores change one after the other: the project directory, the state     *)
(* schema, the slot with the tables' replica identity, and the turbopuffer *)
(* namespaces.  A command or the run may stop between any two steps.       *)
(*                                                                         *)
(* One command and one run at a time.  Whether the files have been edited  *)
(* since `apply`, and what the preflight finds in Postgres, is left open:  *)
(* a command or a run that minds may stop where it looks.                  *)
(***************************************************************************)
EXTENDS Integers, FiniteSets

CONSTANTS
  Configs,      \* configs, numbered in name order, each with its own table and namespace
  MaxCommands,  \* bound: commands entered and changes of the prefix, together
  MaxNewSlots,  \* bound: replication slots created
  MaxPrefixes   \* bound: values TURBOPUFFER_NAMESPACE_PREFIX takes in turn

ASSUME ConfigsAssumption ==
  /\ Configs \subseteq Nat /\ IsFiniteSet(Configs) /\ {MaxCommands, MaxNewSlots, MaxPrefixes} \subseteq Nat

VARIABLES
  \* the project directory and the environment
  dir,         \* dir[c]: "absent", "full", or "partial": config.toml is gone
  marker,      \* configs with a tombstone.toml
  prefix,      \* TURBOPUFFER_NAMESPACE_PREFIX, 0 if empty or not set
  \* the state schema
  row,         \* row[c]: c's ConfigRecord, NoRow if none
  progress,    \* progress[c]: c's backfill progress; cursor: last_id, "old" if it
               \* was saved before a re-key
  checkpoint,  \* checkpoint[c]: prefix c's streaming checkpoint was saved under
  letters,     \* letters[c]: prefix c's dead letters were recorded under
  \* Postgres and turbopuffer
  slot,        \* the replication slot, numbered as created; 0 if none
  identity,    \* configs whose table has REPLICA IDENTITY FULL
  docs,        \* docs[c][p]: what the namespace of c under prefix p holds; "rest":
               \* the rows behind an old cursor
  \* the process of `puffgres run`
  run,         \* where it is and what it has loaded
  \* the command being executed
  cmd,         \* disturbed: a run or a `new` came between the steps of a remove; cut:
               \* directories that were "partial" when it was entered
  \* history
  barred,      \* configs that were tombstoned when the run's attempt began, less those
               \* of which only a marker said so that has been unlinked since
  loose,       \* configs a remove or reset began on, until they are applied with no run alive
  torn,        \* a reset stopped half-way or met a live run
  commands, slots, prefixes

fileVars  == <<dir, marker>>
stateVars == <<row, progress, checkpoint, letters>>
history   == <<barred, loose, torn>>
budgets   == <<commands, slots, prefixes>>
vars == <<fileVars, prefix, stateVars, slot, identity, docs, run, cmd, history, budgets>>

Unset    == -1                       \* Option::None of a prefix
Prefixes == 0 .. MaxPrefixes
NoRow      == [applied |-> FALSE, tomb |-> FALSE, prefix |-> Unset]
NoProgress == [status |-> "none", cursor |-> "none", slot |-> 0]

Down == [stage |-> "down", configs |-> {}, prefix |-> 0, slot |-> 0, todo |-> {}, step |-> "none"]
Idle == [op |-> "none", step |-> "none", configs |-> {}, into |-> [c \in Configs |-> 0],
         disturbed |-> FALSE, cut |-> {}]

Alive   == run.stage # "down"
Applied == {c \in Configs : row[c].applied}
OnDisk  == {c \in Configs : dir[c] = "full"}
Marked  == marker \cap OnDisk
\* load_all: one directory without a config.toml and nothing loads.
Loads   == \A c \in Configs : dir[c] # "partial"

\* No config has been applied yet, or `apply` is just done.
Init ==
  /\ dir = [c \in Configs |-> "full"] /\ marker \in SUBSET Configs
  /\ prefix = 0
  /\ \/ row = [c \in Configs |-> NoRow] /\ identity = {}
     \/ row = [c \in Configs |-> [NoRow EXCEPT !.applied = TRUE]] /\ identity = Configs
  /\ progress = [c \in Configs |-> NoProgress]
  /\ checkpoint = [c \in Configs |-> Unset] /\ letters = [c \in Configs |-> Unset]
  /\ slot = 0 /\ docs = [c \in Configs |-> [p \in Prefixes |-> "none"]]
  /\ run = Down /\ cmd = Idle
  /\ barred = {} /\ loose = {} /\ torn = FALSE
  /\ commands = 0 /\ slots = 0 /\ prefixes = 0

----------------------------------------------------------------------------
(* The stores.                                                             *)

Tombstoned(S) == [c \in Configs |-> IF c \in S THEN [row[c] EXCEPT !.tomb = TRUE] ELSE row[c]]

ReconcileNothing == row   \* mutant: only the state schema says what is tombstoned
\* reconcile_on_disk_tombstones: a marker of an applied config is recorded.
Reconciled == Tombstoned(Marked \cap Applied)

\* delete_config: every table that references the row follows.
DeleteRows(S) ==
  /\ row' = [c \in Configs |-> IF c \in S THEN NoRow ELSE row[c]]
  /\ progress' = [c \in Configs |-> IF c \in S THEN NoProgress ELSE progress[c]]
  /\ checkpoint' = [c \in Configs |-> IF c \in S THEN Unset ELSE checkpoint[c]]
  /\ letters' = [c \in Configs |-> IF c \in S THEN Unset ELSE letters[c]]
  /\ barred' = barred \ S /\ loose' = loose \cup S

\* full_namespace_for: the prefix in the row if it is not empty, else the
\* environment's.
NamespaceOf(c) == IF row[c].prefix > 0 THEN row[c].prefix ELSE prefix

----------------------------------------------------------------------------
(* The user: files and environment.                                        *)

Disturb == cmd' = [cmd EXCEPT !.disturbed = cmd.op = "remove"]

\* `new`: config.toml and transform.ts appear together, by a rename.
New(c) ==
  /\ Loads /\ dir[c] = "absent"
  /\ dir' = [dir EXCEPT ![c] = "full"]
  /\ barred' = barred \ {c} /\ Disturb
  /\ UNCHANGED <<marker, prefix, stateVars, slot, identity, docs, run, loose, torn,
                 budgets>>

\* The environment changes for the processes that start from now on.
ChangePrefix ==
  /\ commands + prefixes < MaxCommands
  /\ prefixes < MaxPrefixes /\ prefixes' = prefixes + 1
  /\ prefix' \in Prefixes \ {prefix}
  /\ UNCHANGED <<fileVars, stateVars, slot, identity, docs, run, cmd, history, commands, slots>>

----------------------------------------------------------------------------
(* Commands.                                                               *)

Enter(op, step, S) ==
  /\ cmd.op = "none" /\ commands + prefixes < MaxCommands /\ commands' = commands + 1
  /\ cmd' = [op |-> op, step |-> step, configs |-> S,
             into |-> [c \in Configs |-> IF op = "remove" THEN NamespaceOf(c) ELSE 0],
             disturbed |-> op = "remove" /\ Alive, cut |-> {c \in Configs : dir[c] = "partial"}]
  /\ UNCHANGED <<slots, prefixes>>

Goto(step) == cmd' = [cmd EXCEPT !.step = step]

\* A crash, or an error from one of the stores, between two steps.
CommandStops ==
  /\ cmd.op # "none" /\ cmd' = Idle
  /\ torn' = (torn \/ cmd.step \in {"schema", "files"})
  /\ UNCHANGED <<fileVars, prefix, stateVars, slot, identity, docs, run, barred,
                 loose, budgets>>

\* apply: record markers, load, take the configs that are new.  It ends there if
\* there is none, an applied one was edited, or the preflight fails.
ApplyBegin ==
  /\ Loads /\ OnDisk # {} /\ row' = Reconciled
  /\ \/ OnDisk \ Applied # {} /\ Enter("apply", "identity", OnDisk \ Applied)
     \/ row' # row /\ cmd.op = "none" /\ UNCHANGED <<cmd, budgets>>
  /\ UNCHANGED <<fileVars, prefix, progress, checkpoint, letters, slot, identity, docs, run,
                 history>>

\* insert_configs: one transaction, which a name already there aborts.
InsertConfigs ==
  IF cmd.configs \cap Applied # {} THEN UNCHANGED <<row, loose>>
  ELSE /\ row' = [c \in Configs |-> IF c \in cmd.configs THEN [NoRow EXCEPT !.applied = TRUE]
                                    ELSE row[c]]
       /\ loose' = IF Alive THEN loose ELSE loose \ cmd.configs

SetIdentity == identity' = identity \cup cmd.configs

\* Mutant: the configs are recorded before their tables are altered.
InsertThenIdentity ==
  /\ cmd.op = "apply"
  /\ \/ cmd.step = "identity" /\ InsertConfigs /\ Goto("insert") /\ UNCHANGED identity
     \/ cmd.step = "insert" /\ SetIdentity /\ cmd' = Idle /\ UNCHANGED <<row, loose>>
  /\ UNCHANGED <<fileVars, prefix, progress, checkpoint, letters, slot, docs, run, barred, torn, budgets>>

ApplyStep ==
  /\ cmd.op = "apply"
  /\ \/ cmd.step = "identity" /\ SetIdentity /\ Goto("insert") /\ UNCHANGED <<row, loose>>
     \/ cmd.step = "insert" /\ InsertConfigs /\ cmd' = Idle /\ UNCHANGED identity
  /\ UNCHANGED <<fileVars, prefix, progress, checkpoint, letters, slot, docs, run, barred, torn, budgets>>

\* tombstone: the marker first, then the row.
TombstoneBegin(c) ==
  /\ row[c].applied /\ ~row[c].tomb /\ Loads
  /\ Enter("tombstone", "row", {c})
  /\ marker' = marker \cup ({c} \cap OnDisk)
  /\ UNCHANGED <<dir, prefix, stateVars, slot, identity, docs, run, history>>

TombstoneRow ==
  /\ cmd.op = "tombstone"
  /\ row' = Tombstoned(cmd.configs \cap Applied) /\ cmd' = Idle
  /\ UNCHANGED <<fileVars, prefix, progress, checkpoint, letters, slot, identity, docs, run,
                 history, budgets>>

\* remove --name and --last take one config that has a row, --all every one.
RemoveBegin(S) ==
  /\ S # {} /\ S \subseteq Applied /\ (Cardinality(S) = 1 \/ S = Applied)
  /\ Enter("remove", "namespace", S)
  /\ UNCHANGED <<fileVars, prefix, stateVars, slot, identity, docs, run, barred, loose, torn>>

\* remove of a config whose row is gone but whose directory is not.
RemoveLeftover(c) ==
  /\ c \notin Applied /\ Loads /\ c \in OnDisk
  /\ Enter("remove", "leftover", {c})
  /\ UNCHANGED <<fileVars, prefix, stateVars, slot, identity, docs, run, barred, loose, torn>>

\* run_remove_saga for the configs in turn.
Saga(c, step) ==
  cmd.op = "remove" /\ cmd.step = step /\ c \in cmd.configs /\ \A d \in cmd.configs : c <= d

RemoveNamespace(c) ==
  /\ Saga(c, "namespace")
  /\ docs' = [docs EXCEPT ![c][cmd.into[c]] = "none"] /\ loose' = loose \cup {c}
  /\ Goto("dir")
  /\ UNCHANGED <<fileVars, prefix, stateVars, slot, identity, run, barred, torn, budgets>>

\* Mutant: the row goes first.
RowFirst(c) ==
  /\ Saga(c, "dir")
  /\ DeleteRows({c}) /\ cmd' = Idle
  /\ UNCHANGED <<dir, marker, prefix, slot, identity, docs, run, torn, budgets>>

\* Find the directory.  If load_all trips over one without a config.toml, c's own
\* counts as deleted, another one is an error.
FindDir(c) ==
  /\ Saga(c, "dir")
  /\ \/ Loads /\ Goto(IF c \in OnDisk THEN "rmdir" ELSE "row")
     \/ dir[c] = "partial" /\ Goto("row")
     \/ (\E d \in Configs \ {c} : dir[d] = "partial") /\ cmd' = Idle
  /\ UNCHANGED <<fileVars, prefix, stateVars, slot, identity, docs, run, history, budgets>>

\* remove_dir_all: the entries in any order, one at a time, then the directory.
Unlink(c) ==
  /\ \/ c \in marker /\ marker' = marker \ {c} /\ UNCHANGED dir
        /\ barred' = IF row[c].tomb THEN barred ELSE barred \ {c}
     \/ dir[c] = "full" /\ dir' = [dir EXCEPT ![c] = "partial"] /\ UNCHANGED <<marker, barred>>
     \/ dir[c] = "partial" /\ c \notin marker
        /\ dir' = [dir EXCEPT ![c] = "absent"] /\ UNCHANGED <<marker, barred>>
  /\ UNCHANGED <<prefix, stateVars, slot, identity, docs, run, loose, budgets>>

RemoveDir(c) ==
  /\ Saga(c, "rmdir") \/ Saga(c, "leftover")
  /\ Unlink(c) /\ UNCHANGED torn
  /\ \/ dir'[c] # "absent" /\ UNCHANGED cmd
     \/ dir'[c] = "absent" /\ cmd.step = "rmdir" /\ Goto("row")
     \/ dir'[c] = "absent" /\ cmd.step = "leftover" /\ cmd' = Idle

RemoveRow(c) ==
  /\ Saga(c, "row")
  /\ DeleteRows({c})
  /\ cmd' = IF cmd.configs = {c} THEN Idle
            ELSE [cmd EXCEPT !.step = "namespace", !.configs = @ \ {c}]
  /\ UNCHANGED <<dir, marker, prefix, slot, identity, docs, run, torn, budgets>>

\* An attempt of run_cdc_inner begins: by then these configs are tombstoned.
Attempt(p) ==
  /\ run' = [Down EXCEPT !.stage = "reconcile", !.prefix = p]
  /\ barred' = {c \in Applied : c \in Marked \/ row[c].tomb}

\* reset: end the session that holds the slot, drop the slot, ...
ResetTerminate ==
  /\ Enter("reset", "drop", {})
  /\ IF run.stage = "stream" THEN Attempt(run.prefix) ELSE UNCHANGED <<run, barred>>
  /\ UNCHANGED <<fileVars, prefix, stateVars, slot, identity, docs, loose, torn>>

ResetDropSlot ==
  /\ cmd.step = "drop" /\ torn' = (torn \/ Alive)
  /\ IF run.stage = "stream" THEN cmd' = Idle /\ UNCHANGED slot
     ELSE Goto("schema") /\ slot' = 0
  /\ UNCHANGED <<fileVars, prefix, stateVars, identity, docs, run, barred, loose, budgets>>

ResetKeepsSchema ==   \* mutant: the state survives the slot
  /\ cmd.step = "schema" /\ Goto("files") /\ torn' = (torn \/ Alive)
  /\ UNCHANGED <<fileVars, prefix, stateVars, slot, identity, docs, run, barred, loose, budgets>>

\* ... the state schema, and the project directory.
ResetSchema ==
  /\ cmd.step = "schema" /\ DeleteRows(Configs)
  /\ Goto("files") /\ torn' = (torn \/ Alive)
  /\ UNCHANGED <<dir, marker, prefix, slot, identity, docs, run, budgets>>

ResetFiles ==
  /\ cmd.step = "files" /\ torn' = (torn \/ Alive)
  /\ \/ (\E c \in Configs : Unlink(c)) /\ UNCHANGED cmd
     \/ dir = [c \in Configs |-> "absent"] /\ cmd' = Idle
        /\ UNCHANGED <<fileVars, prefix, stateVars, slot, identity, docs, run, barred, loose, budgets>>

----------------------------------------------------------------------------
(* The run.                                                                *)

RunStart ==
  /\ ~Alive /\ Loads
  /\ Attempt(prefix)
  /\ Disturb /\ torn' = (torn \/ cmd.op = "reset")
  /\ UNCHANGED <<fileVars, prefix, stateVars, slot, identity, docs, loose, budgets>>

\* retry_loop: a retryable error starts over, any other ends the process, and so
\* does a crash or a shutdown.
RunFails ==
  /\ Alive
  /\ \/ Attempt(run.prefix)
     \/ run' = Down /\ barred' = {}
  /\ UNCHANGED <<fileVars, prefix, stateVars, slot, identity, docs, cmd, loose, torn, budgets>>

Reconcile ==
  /\ run.stage = "reconcile" /\ Loads
  /\ row' = Reconciled /\ run' = [run EXCEPT !.stage = "load"]
  /\ UNCHANGED <<fileVars, prefix, progress, checkpoint, letters, slot, identity, docs, cmd,
                 history, budgets>>

\* Load the applied configs that are not tombstoned; forget the others' letters.
Load ==
  /\ run.stage = "load" /\ Loads
  /\ LET active == {c \in OnDisk \cap Applied : ~row[c].tomb}
     IN  /\ active # {}
         /\ run' = [run EXCEPT !.stage = "rekey", !.configs = active, !.todo = active,
                               !.step = "stored"]
  /\ letters' = [c \in Configs |-> IF row[c].tomb THEN Unset ELSE letters[c]]
  /\ UNCHANGED <<fileVars, prefix, row, progress, checkpoint, slot, identity, docs, cmd, history,
                 budgets>>

InTurn(c, stage, step) ==
  /\ run.stage = stage /\ run.step = step /\ c \in run.todo /\ \A d \in run.todo : c <= d
  /\ row[c].applied

Step(step) == run' = [run EXCEPT !.step = step]
\* The for loop of a stage moves on from c; after the last config, the next stage.
Past(c, first, next) ==
  run' = IF run.todo = {c} THEN [run EXCEPT !.stage = next, !.todo = {}, !.step = "none"]
         ELSE [run EXCEPT !.todo = @ \ {c}, !.step = first]

StorePrefix(c) == row' = [row EXCEPT ![c].prefix = run.prefix]

\* The stored prefix: a first run stores its own, another one resets the state.
ReadPrefix(c) ==
  /\ InTurn(c, "rekey", "stored")
  /\ \/ row[c].prefix = Unset /\ StorePrefix(c) /\ Past(c, "stored", "verify")
     \/ row[c].prefix = run.prefix /\ Past(c, "stored", "verify") /\ UNCHANGED row
     \/ row[c].prefix \notin {Unset, run.prefix} /\ Step("checkpoint") /\ UNCHANGED row
  /\ UNCHANGED <<fileVars, prefix, progress, checkpoint, letters, slot, identity, docs, cmd,
                 history, budgets>>

\* save_backfill_progress: last_id None leaves the column as it is.
ResetProgress(c) ==
  progress' = [progress EXCEPT ![c] =
                 [NoProgress EXCEPT !.cursor = IF progress[c].cursor = "none" THEN "none" ELSE "old"]]

\* Mutant: the new prefix is stored before the state is reset.
RekeyPrefixFirst(c) ==
  /\ \/ InTurn(c, "rekey", "checkpoint") /\ StorePrefix(c) /\ Step("letters")
        /\ UNCHANGED <<checkpoint, letters, progress>>
     \/ InTurn(c, "rekey", "letters") /\ letters' = [letters EXCEPT ![c] = Unset]
        /\ checkpoint' = [checkpoint EXCEPT ![c] = Unset]
        /\ Step("progress") /\ UNCHANGED <<progress, row>>
     \/ InTurn(c, "rekey", "progress") /\ ResetProgress(c)
        /\ Past(c, "stored", "verify") /\ UNCHANGED <<checkpoint, letters, row>>
  /\ UNCHANGED <<fileVars, prefix, slot, identity, docs, cmd, history, budgets>>

Rekey(c) ==
  /\ \/ InTurn(c, "rekey", "checkpoint") /\ checkpoint' = [checkpoint EXCEPT ![c] = Unset]
        /\ Step("letters") /\ UNCHANGED <<letters, progress, row>>
     \/ InTurn(c, "rekey", "letters") /\ letters' = [letters EXCEPT ![c] = Unset]
        /\ Step("progress") /\ UNCHANGED <<checkpoint, progress, row>>
     \/ InTurn(c, "rekey", "progress") /\ ResetProgress(c)
        /\ Step("prefix") /\ UNCHANGED <<checkpoint, letters, row>>
     \/ InTurn(c, "rekey", "prefix") /\ StorePrefix(c)
        /\ Past(c, "stored", "verify") /\ UNCHANGED <<checkpoint, letters, progress>>
  /\ UNCHANGED <<fileVars, prefix, slot, identity, docs, cmd, history, budgets>>

\* The files are there, are those that were applied, and pass the preflight.
Verify ==
  /\ run.stage = "verify" /\ run.configs \subseteq OnDisk
  /\ run' = [run EXCEPT !.stage = "slot"]
  /\ UNCHANGED <<fileVars, prefix, stateVars, slot, identity, docs, cmd, history, budgets>>

\* ensure_slot, then replica identity for the tables in the publication.
EnsureSlot ==
  /\ run.stage = "slot"
  /\ \/ slot # 0 /\ UNCHANGED <<slot, slots>>
     \/ slot = 0 /\ slots < MaxNewSlots /\ slots' = slots + 1 /\ slot' = slots + 1
  /\ run' = [run EXCEPT !.stage = "identity"]
  /\ UNCHANGED <<fileVars, prefix, stateVars, identity, docs, cmd, history, commands, prefixes>>

EnsureIdentity ==
  /\ run.stage = "identity" /\ identity' = identity \cup run.configs
  /\ run' = [run EXCEPT !.stage = "backfill", !.todo = run.configs, !.step = "check",
                        !.slot = slot]
  /\ UNCHANGED <<fileVars, prefix, stateVars, slot, docs, cmd, history, budgets>>

\* A config whose backfill is not completed has its rows written and its cursor
\* saved, page by page, then the completion recorded.  It starts behind the cursor
\* it finds: what a crash left is continued (module Backfill), and what a re-key
\* left keeps the rows up to it out of the new namespace.
Backfill(c) ==
  /\ InTurn(c, "backfill", "check")
  /\ \/ progress[c].status = "completed" /\ Past(c, "check", "stream")
        /\ UNCHANGED <<docs, progress>>
     \/ progress[c].status # "completed" /\ Step("record")
        /\ docs' = [docs EXCEPT ![c][run.prefix] =
                       IF progress[c].cursor = "old" THEN "rest" ELSE "all"]
        /\ progress' = [progress EXCEPT ![c].cursor = IF @ = "old" THEN "old" ELSE "own"]
  /\ UNCHANGED <<fileVars, prefix, row, checkpoint, letters, slot, identity, cmd, history,
                 budgets>>

BackfillCompleted(c) ==
  /\ InTurn(c, "backfill", "record")
  /\ progress' = [progress EXCEPT ![c].status = "completed", ![c].slot = run.slot]
  /\ Past(c, "check", "stream")
  /\ UNCHANGED <<fileVars, prefix, row, checkpoint, letters, slot, identity, docs, cmd, history,
                 budgets>>

\* A batch for c: documents, dead letters for those that fail, a checkpoint; the
\* last two need c's row.
Stream(c) ==
  /\ run.stage = "stream" /\ slot # 0 /\ c \in run.configs
  /\ docs' = [docs EXCEPT ![c][run.prefix] = IF @ = "none" THEN "some" ELSE @]
  /\ \/ c \in Applied /\ checkpoint' = [checkpoint EXCEPT ![c] = run.prefix]
        /\ letters' = [letters EXCEPT ![c] = run.prefix] /\ UNCHANGED run
     \/ c \notin Applied /\ run' = Down /\ UNCHANGED <<checkpoint, letters>>
  /\ UNCHANGED <<fileVars, prefix, row, progress, slot, identity, cmd, history, budgets>>

----------------------------------------------------------------------------
User == ChangePrefix \/ \E c \in Configs : New(c)

Command ==
  \/ CommandStops \/ ApplyBegin \/ ApplyStep \/ TombstoneRow
  \/ \E S \in SUBSET Configs : RemoveBegin(S)
  \/ ResetTerminate \/ ResetDropSlot \/ ResetSchema \/ ResetFiles
  \/ \E c \in Configs : \/ TombstoneBegin(c) \/ RemoveLeftover(c) \/ RemoveNamespace(c)
                        \/ FindDir(c) \/ RemoveDir(c) \/ RemoveRow(c)

Run ==
  \/ RunStart \/ RunFails \/ Reconcile \/ Load \/ Verify \/ EnsureSlot \/ EnsureIdentity
  \/ \E c \in Configs : \/ ReadPrefix(c) \/ Rekey(c) \/ Backfill(c) \/ BackfillCompleted(c)
                        \/ Stream(c)

Next == User \/ Command \/ Run

Spec == Init /\ [][Next]_vars

----------------------------------------------------------------------------
Stages == {"down", "reconcile", "load", "rekey", "verify", "slot", "identity", "backfill",
           "stream"}
RunSteps == {"none", "stored", "checkpoint", "letters", "progress", "prefix", "check", "record"}
Ops      == {"none", "apply", "tombstone", "remove", "reset"}
CmdSteps == {"none", "identity", "insert", "row", "namespace", "dir", "rmdir", "leftover", "drop",
             "schema", "files"}

StoredPrefix == Prefixes \cup {Unset}
RowType      == [applied : BOOLEAN, tomb : BOOLEAN, prefix : StoredPrefix]
ProgressType ==
  [status : {"none", "completed"}, cursor : {"none", "own", "old"}, slot : 0 .. MaxNewSlots]
RunType ==
  [stage : Stages, configs : SUBSET Configs, prefix : Prefixes, slot : 0 .. MaxNewSlots,
   todo : SUBSET Configs, step : RunSteps]
CmdType ==
  [op : Ops, step : CmdSteps, configs : SUBSET Configs, into : [Configs -> Prefixes],
   disturbed : BOOLEAN, cut : SUBSET Configs]

TypeOK ==
  /\ dir \in [Configs -> {"absent", "partial", "full"}]
  /\ marker \subseteq Configs /\ identity \subseteq Configs
  /\ barred \subseteq Configs /\ loose \subseteq Configs /\ torn \in BOOLEAN
  /\ prefix \in Prefixes /\ slot \in 0 .. MaxNewSlots
  /\ row \in [Configs -> RowType] /\ progress \in [Configs -> ProgressType]
  /\ checkpoint \in [Configs -> StoredPrefix] /\ letters \in [Configs -> StoredPrefix]
  /\ docs \in [Configs -> [Prefixes -> {"none", "some", "rest", "all"}]]
  /\ run \in RunType /\ cmd \in CmdType
  /\ commands \in 0 .. MaxCommands /\ slots \in 0 .. MaxNewSlots /\ prefixes \in 0 .. MaxPrefixes

(* A config tombstoned before an attempt of the run begins, be it by the     *)
(* marker alone because `tombstone` stopped half-way, is not in that run.   *)
(* Except if a `remove` unlinks that marker, on its way through the          *)
(* directory, before the attempt has recorded it: nothing else said so.      *)
TombstoneHolds == run.configs \cap barred = {}

(* The row is the last thing `remove` deletes: by then the directory is gone *)
(* with all its entries, and so is the namespace that row names, whatever    *)
(* stopped before.  Three exceptions: a directory that an earlier stop left  *)
(* without its config.toml is passed over and outlives the row; a run was    *)
(* alive or the name was created anew meanwhile; and an empty prefix in the  *)
(* row is read as the environment's.                                        *)
RemoveCommitsLast ==
  [][\A c \in Configs :
       cmd.op = "remove" /\ row[c].applied /\ ~row'[c].applied /\ ~cmd.disturbed
       => /\ dir[c] = "absent" \/ c \in cmd.cut
          /\ row[c].prefix > 0 \/ row[c].prefix = cmd.into[c] => docs[c][row[c].prefix] = "none"]_vars

(* Every applied config's table has REPLICA IDENTITY FULL, whatever step    *)
(* `apply` stopped at: its deletes carry the id column.                     *)
ReplicaIdentityFirst == Applied \subseteq identity

(* A run streams a config only into the namespace its row names, after a     *)
(* backfill of that namespace in full, from a checkpoint and dead letters of *)
(* that same namespace, even after a re-key that was cut short.  Not for a   *)
(* config that a remove has begun on; and a re-key over a saved cursor       *)
(* leaves the rows up to it out.                                             *)
StreamsIntoBackfilledNamespace ==
  run.stage = "stream" => \A c \in (run.configs \cap Applied) \ loose :
    /\ row[c].prefix = run.prefix
    /\ docs[c][run.prefix] = "all" \/ progress[c].cursor = "old"
    /\ {checkpoint[c], letters[c]} \subseteq {Unset, run.prefix}

(* The slot a run streams from is older than every backfill it relies on, so *)
(* no change falls between them: a reset that drops the slot leaves no       *)
(* completed backfill behind, unless it stopped half-way or met a live run.  *)
SlotCoversBackfill ==
  run.stage = "stream" /\ ~torn =>
    \A c \in run.configs : progress[c].status = "completed" => progress[c].slot = slot
=============================================================================
