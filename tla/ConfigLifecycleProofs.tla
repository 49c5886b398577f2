---------------------- MODULE ConfigLifecycleProofs ----------------------
(* Proofs about ConfigLifecycle, for any set of configs and any number of     *)
(* commands, slots and prefixes.                                              *)
EXTENDS ConfigLifecycle, TLAPS

----------------------------------------------------------------------------
(* Types.                                                                     *)

(* The bounds are naturals and so are the configs.                            *)
LEMMA BoundsAreNat ==
  MaxCommands \in Nat /\ MaxNewSlots \in Nat /\ MaxPrefixes \in Nat /\ Configs \subseteq Nat
  BY ConfigsAssumption

(* full_namespace_for yields a prefix the environment has had.                *)
LEMMA NamespaceTyped ==
  ASSUME TypeOK, NEW c \in Configs PROVE NamespaceOf(c) \in Prefixes
  BY BoundsAreNat DEF TypeOK, RowType, StoredPrefix, Prefixes, Unset, NamespaceOf

(* The values a store, the run and the command begin or start over with.      *)
LEMMA ConstantsTyped ==
  /\ Unset \in StoredPrefix /\ 0 \in Prefixes
  /\ NoRow \in RowType /\ NoProgress \in ProgressType
  /\ Down \in RunType /\ Idle \in CmdType
<1> USE BoundsAreNat
<1>1. Unset \in StoredPrefix /\ 0 \in Prefixes
  BY DEF StoredPrefix, Prefixes, Unset
<1>2. NoRow \in RowType
  BY <1>1 DEF NoRow, RowType
<1>3. NoProgress \in ProgressType
  BY <1>1 DEF NoProgress, ProgressType
<1>4. Down \in RunType
  BY <1>1 DEF Down, RunType, Stages, RunSteps
<1>5. Idle \in CmdType
  BY <1>1 DEF Idle, CmdType, Ops, CmdSteps
<1> QED
  BY <1>1, <1>2, <1>3, <1>4, <1>5

(* A row stays a row when it is applied, tombstoned or given a prefix.        *)
LEMMA RowUpdates ==
  ASSUME NEW r \in RowType
  PROVE  /\ [r EXCEPT !.tomb = TRUE] \in RowType
         /\ [r EXCEPT !.applied = TRUE] \in RowType
         /\ \A p \in Prefixes : [r EXCEPT !.prefix = p] \in RowType
  BY DEF RowType, StoredPrefix

(* A backfill's progress, with its cursor saved and when it is complete.      *)
LEMMA ProgressUpdates ==
  ASSUME NEW p \in ProgressType
  PROVE  /\ \A k \in {"none", "own", "old"} : [p EXCEPT !.cursor = k] \in ProgressType
         /\ \A n \in 0 .. MaxNewSlots :
              [p EXCEPT !.status = "completed", !.slot = n] \in ProgressType
  BY DEF ProgressType

(* A re-key leaves one config's backfill to be done again.                    *)
LEMMA ResetProgressMeans ==
  ASSUME progress \in [Configs -> ProgressType], NEW c \in Configs, ResetProgress(c)
  PROVE  /\ progress' \in [Configs -> ProgressType]
         /\ progress'[c].status = "none" /\ \A d \in Configs \ {c} : progress'[d] = progress[d]
<1> DEFINE k == IF progress[c].cursor = "none" THEN "none" ELSE "old"
           q == [NoProgress EXCEPT !.cursor = k]
<1>1. q = [status |-> "none", cursor |-> k, slot |-> 0]
  BY DEF NoProgress
<1>2. q \in ProgressType
  BY <1>1, ConstantsTyped DEF ProgressType, NoProgress
<1>3. progress' = [progress EXCEPT ![c] = q]
  BY DEF ResetProgress
<1> HIDE DEF q
<1>4. q.status = "none"
  BY <1>1
<1> QED
  BY <1>2, <1>3, <1>4

(* The cursor a backfill saves.                                               *)
LEMMA BackfillProgress ==
  ASSUME progress \in [Configs -> ProgressType], NEW c \in Configs,
         progress' = [progress EXCEPT ![c].cursor = IF @ = "old" THEN "old" ELSE "own"]
  PROVE  /\ progress' \in [Configs -> ProgressType]
         /\ \A d \in Configs \ {c} : progress'[d] = progress[d]
         /\ \A d \in Configs : /\ progress'[d].status = progress[d].status
                               /\ progress'[d].slot = progress[d].slot
                               /\ progress[d].cursor = "old" => progress'[d].cursor = "old"
<1> DEFINE k == IF progress[c].cursor = "old" THEN "old" ELSE "own"
           q == [progress[c] EXCEPT !.cursor = k]
<1>1. progress' = [progress EXCEPT ![c] = q]
  OBVIOUS
<1>2. progress[c] \in ProgressType
  OBVIOUS
<1>3. q \in ProgressType
  BY <1>2, ProgressUpdates
<1>4. q.status = progress[c].status /\ q.slot = progress[c].slot /\ q.cursor = k
  BY <1>2 DEF ProgressType
<1> HIDE DEF q
<1> QED
  BY <1>1, <1>3, <1>4

(* A run moved to another stage or step, or to an attempt of its own.         *)
LEMMA RunUpdates ==
  ASSUME NEW r \in RunType
  PROVE  /\ \A s \in Stages : [r EXCEPT !.stage = s] \in RunType
         /\ \A s \in RunSteps : [r EXCEPT !.step = s] \in RunType
         /\ \A p \in Prefixes : [Down EXCEPT !.stage = "reconcile", !.prefix = p] \in RunType
         /\ \A S \in SUBSET Configs :
              [r EXCEPT !.stage = "rekey", !.configs = S, !.todo = S, !.step = "stored"] \in
                 RunType
         /\ \A n \in 0 .. MaxNewSlots :
              [r EXCEPT !.stage = "backfill", !.todo = r.configs, !.step = "check", !.slot = n]
                \in RunType
<1>1. \A s \in Stages : [r EXCEPT !.stage = s] \in RunType
  BY DEF RunType
<1>2. \A s \in RunSteps : [r EXCEPT !.step = s] \in RunType
  BY DEF RunType
<1>3. \A p \in Prefixes : [Down EXCEPT !.stage = "reconcile", !.prefix = p] \in RunType
  BY ConstantsTyped DEF RunType, Stages
<1>4. ASSUME NEW S \in SUBSET Configs
      PROVE  [r EXCEPT !.stage = "rekey", !.configs = S, !.todo = S, !.step = "stored"] \in
         RunType
  BY <1>4 DEF RunType, Stages, RunSteps
<1>5. ASSUME NEW n \in 0 .. MaxNewSlots
      PROVE  [r EXCEPT !.stage = "backfill", !.todo = r.configs, !.step = "check", !.slot = n]
               \in RunType
  BY <1>5 DEF RunType, Stages, RunSteps
<1> QED
  BY <1>1, <1>2, <1>3, <1>4, <1>5

(* The run's prefix is one the environment has had.                           *)
LEMMA RunPrefix ==
  TypeOK => run.prefix \in Prefixes
  BY DEF TypeOK, RunType

(* The loop of a stage: the next step of a config, or the next config.        *)
LEMMA PastTyped ==
  ASSUME TypeOK, NEW c, NEW first \in RunSteps, NEW next \in Stages, Past(c, first, next)
  PROVE  run' \in RunType
<1>1. CASE run.todo = {c}
  BY <1>1 DEF TypeOK, Past, RunType, RunSteps
<1>2. CASE run.todo # {c}
  BY <1>2 DEF TypeOK, Past, RunType
<1> QED
  BY <1>1, <1>2

(* A run moved to another step of its loop.                                   *)
LEMMA StepTyped ==
  ASSUME TypeOK, NEW step \in RunSteps, Step(step)
  PROVE  run' \in RunType
  BY RunUpdates DEF TypeOK, Step

(* An attempt of the run begins with nothing loaded.                          *)
LEMMA AttemptTyped ==
  ASSUME TypeOK, NEW p \in Prefixes, Attempt(p)
  PROVE  run' \in RunType /\ barred' \subseteq Configs
  BY RunUpdates DEF TypeOK, Attempt, Applied

(* set_namespace_prefix stores the run's prefix.                              *)
LEMMA StorePrefixTyped ==
  ASSUME TypeOK, NEW c \in Configs, StorePrefix(c)
  PROVE  row' \in [Configs -> RowType]
<1>1. run.prefix \in Prefixes
  BY DEF TypeOK, RunType
<1>2. [row[c] EXCEPT !.prefix = run.prefix] \in RowType
  BY <1>1, RowUpdates DEF TypeOK
<1> QED
  BY <1>2 DEF TypeOK, StorePrefix

(* A command moved to another step, to fewer configs, or marked as disturbed. *)
LEMMA CmdUpdates ==
  ASSUME NEW k \in CmdType
  PROVE  /\ \A s \in CmdSteps : [k EXCEPT !.step = s] \in CmdType
         /\ \A b \in BOOLEAN : [k EXCEPT !.disturbed = b] \in CmdType
         /\ \A s \in CmdSteps, S \in SUBSET Configs :
              [k EXCEPT !.step = s, !.configs = k.configs \ S] \in CmdType
  BY DEF CmdType

(* A command just entered.                                                    *)
LEMMA EnterTyped ==
  ASSUME TypeOK, NEW op \in Ops, NEW step \in CmdSteps, NEW S \in SUBSET Configs,
         Enter(op, step, S)
  PROVE  cmd' \in CmdType
<1>1. [c \in Configs |-> IF op = "remove" THEN NamespaceOf(c) ELSE 0] \in [Configs -> Prefixes]
  BY NamespaceTyped, ConstantsTyped
<1>2. (op = "remove" /\ Alive) \in BOOLEAN /\ {c \in Configs : dir[c] = "partial"} \subseteq Configs
  OBVIOUS
<1> QED
  BY <1>1, <1>2 DEF Enter, CmdType

(* What remove_dir_all does to the project directory and to what the markers  *)
(* said: no directory loads that did not, and a config still barred has its   *)
(* marker or a tombstoned row.  Nothing else changes.                         *)
FilesShrink ==
  /\ UNCHANGED <<prefix, row, progress, checkpoint, letters, slot, identity, docs, run, loose,
                 commands, slots, prefixes>>
  /\ dir' \in [Configs -> {"absent", "partial", "full"}]
  /\ marker' \subseteq marker /\ barred' \subseteq barred
  /\ \A d \in Configs : dir'[d] = "full" => dir[d] = "full"
  /\ \A d \in barred' \cap marker : d \in marker' \/ row[d].tomb

(* One entry at a time, remove_dir_all takes a directory away.                *)
LEMMA UnlinkShrinks ==
  ASSUME TypeOK, NEW c \in Configs, Unlink(c)
  PROVE  FilesShrink /\ \A d \in Configs \ {c} : dir'[d] = dir[d]
<1>1. UNCHANGED <<prefix, row, progress, checkpoint, letters, slot, identity, docs, run, loose,
                  commands, slots, prefixes>>
  BY DEF Unlink, stateVars, budgets
<1>2. CASE /\ c \in marker /\ marker' = marker \ {c} /\ UNCHANGED dir
           /\ barred' = IF row[c].tomb THEN barred ELSE barred \ {c}
  BY <1>1, <1>2 DEF TypeOK, FilesShrink
<1>3. CASE dir' = [dir EXCEPT ![c] = "partial"] /\ UNCHANGED <<marker, barred>>
  BY <1>1, <1>3 DEF TypeOK, FilesShrink
<1>4. CASE dir' = [dir EXCEPT ![c] = "absent"] /\ UNCHANGED <<marker, barred>>
  BY <1>1, <1>4 DEF TypeOK, FilesShrink
<1> QED
  BY <1>2, <1>3, <1>4 DEF Unlink

(* A step of remove in a config's directory.                                  *)
LEMMA RemoveDirShrinks ==
  ASSUME TypeOK, NEW c \in Configs, RemoveDir(c)
  PROVE  FilesShrink /\ UNCHANGED torn /\ \A d \in Configs \ {c} : dir'[d] = dir[d]
  BY UnlinkShrinks DEF RemoveDir

(* A step of reset in the project directory.                                  *)
LEMMA ResetFilesShrinks ==
  ASSUME TypeOK, ResetFiles
  PROVE  FilesShrink /\ cmd.step = "files" /\ torn' = (torn \/ Alive) /\ cmd' \in {cmd, Idle}
<1>1. ASSUME NEW c \in Configs, Unlink(c) PROVE FilesShrink
  BY <1>1, UnlinkShrinks
<1>2. ASSUME UNCHANGED <<fileVars, prefix, stateVars, slot, identity, docs, run, barred, loose,
                        budgets>>
      PROVE  FilesShrink
  <2>1. UNCHANGED <<dir, marker, barred>>
    BY <1>2 DEF fileVars
  <2>2. UNCHANGED <<prefix, row, progress, checkpoint, letters, slot, identity, docs, run, loose,
                    commands, slots, prefixes>>
    BY <1>2 DEF stateVars, budgets
  <2> QED
    BY <2>1, <2>2 DEF TypeOK, FilesShrink
<1>3. cmd.step = "files" /\ torn' = (torn \/ Alive) /\ cmd' \in {cmd, Idle}
  BY DEF ResetFiles
<1> QED
  BY <1>1, <1>2, <1>3 DEF ResetFiles

(* Init satisfies the type invariant.                                         *)
LEMMA InitTypeOK == Init => TypeOK
<1> SUFFICES ASSUME Init PROVE TypeOK
  OBVIOUS
<1>1. row \in [Configs -> RowType]
  BY ConstantsTyped, RowUpdates DEF Init
<1>2. docs \in [Configs -> [Prefixes -> {"none", "some", "rest", "all"}]]
  BY DEF Init
<1>3. slot \in 0 .. MaxNewSlots /\ commands \in 0 .. MaxCommands
      /\ slots \in 0 .. MaxNewSlots /\ prefixes \in 0 .. MaxPrefixes
  BY BoundsAreNat DEF Init
<1>4. /\ progress \in [Configs -> ProgressType]
      /\ checkpoint \in [Configs -> StoredPrefix] /\ letters \in [Configs -> StoredPrefix]
      /\ run \in RunType /\ cmd \in CmdType /\ prefix \in Prefixes
  BY ConstantsTyped DEF Init
<1>5. /\ dir \in [Configs -> {"absent", "partial", "full"}]
      /\ marker \subseteq Configs /\ identity \subseteq Configs
      /\ barred \subseteq Configs /\ loose \subseteq Configs /\ torn \in BOOLEAN
  BY DEF Init
<1> QED
  BY <1>1, <1>2, <1>3, <1>4, <1>5 DEF TypeOK

(* Every step preserves the type invariant.                                   *)
LEMMA NextTypeOK == TypeOK /\ [Next]_vars => TypeOK'
<1> SUFFICES ASSUME TypeOK, [Next]_vars PROVE TypeOK'
  OBVIOUS
<1> USE BoundsAreNat
<1>1. ASSUME NEW c \in Configs, New(c) PROVE TypeOK'
  <2>1. cmd' \in CmdType
    BY <1>1, ConstantsTyped, CmdUpdates DEF TypeOK, New, Disturb, CmdSteps
  <2>2. dir' \in [Configs -> {"absent", "partial", "full"}] /\ barred' \subseteq Configs
    BY <1>1 DEF TypeOK, New
  <2>3. UNCHANGED <<marker, prefix, row, progress, checkpoint, letters, slot, identity, docs,
                    run, loose, torn, commands, slots, prefixes>>
    BY <1>1 DEF New, fileVars, stateVars, history, budgets
  <2> QED BY <2>1, <2>2, <2>3 DEF TypeOK
<1>2. ASSUME ChangePrefix PROVE TypeOK'
  <2>1. prefix' \in Prefixes /\ prefixes' \in 0 .. MaxPrefixes
    BY <1>2 DEF TypeOK, ChangePrefix, Prefixes
  <2>2. UNCHANGED <<dir, marker, row, progress, checkpoint, letters, slot, identity, docs, run,
                    cmd, barred, loose, torn, commands, slots>>
    BY <1>2 DEF ChangePrefix, fileVars, stateVars, history, budgets
  <2> QED BY <2>1, <2>2 DEF TypeOK
<1>3. ASSUME CommandStops PROVE TypeOK'
  <2>1. cmd' \in CmdType
    BY <1>3, ConstantsTyped, CmdUpdates DEF TypeOK, CommandStops, CmdSteps
  <2>2. torn' \in BOOLEAN
    BY <1>3 DEF TypeOK, CommandStops
  <2>3. UNCHANGED <<dir, marker, prefix, row, progress, checkpoint, letters, slot, identity,
                    docs, run, barred, loose, commands, slots, prefixes>>
    BY <1>3 DEF CommandStops, fileVars, stateVars, history, budgets
  <2> QED BY <2>1, <2>2, <2>3 DEF TypeOK
<1>4. ASSUME ApplyBegin PROVE TypeOK'
  <2>1. row' \in [Configs -> RowType]
    BY <1>4, ConstantsTyped, RowUpdates DEF TypeOK, ApplyBegin, Reconciled, Tombstoned
  <2>2. cmd' \in CmdType
    BY <1>4, EnterTyped DEF TypeOK, ApplyBegin, OnDisk, Ops, CmdSteps
  <2>3. /\ commands' \in 0 .. MaxCommands
        /\ slots' \in 0 .. MaxNewSlots
        /\ prefixes' \in 0 .. MaxPrefixes
    BY <1>4 DEF TypeOK, ApplyBegin, Enter, budgets
  <2>4. UNCHANGED <<dir, marker, prefix, progress, checkpoint, letters, slot, identity, docs,
                    run, barred, loose, torn>>
    BY <1>4 DEF ApplyBegin, fileVars, stateVars, history, budgets, Enter
  <2> QED BY <2>1, <2>2, <2>3, <2>4 DEF TypeOK
<1>5. ASSUME ApplyStep PROVE TypeOK'
  <2>1. row' \in [Configs -> RowType]
    BY <1>5, ConstantsTyped, RowUpdates DEF TypeOK, ApplyStep, InsertConfigs
  <2>2. cmd' \in CmdType
    BY <1>5, ConstantsTyped, CmdUpdates DEF TypeOK, ApplyStep, Goto, CmdSteps
  <2>3. identity' \subseteq Configs /\ loose' \subseteq Configs
    BY <1>5 DEF TypeOK, ApplyStep, SetIdentity, InsertConfigs, CmdType, RunType
  <2>4. UNCHANGED <<dir, marker, prefix, progress, checkpoint, letters, slot, docs, run, barred,
                    torn, commands, slots, prefixes>>
    BY <1>5 DEF ApplyStep, fileVars, stateVars, history, budgets
  <2> QED BY <2>1, <2>2, <2>3, <2>4 DEF TypeOK
<1>6. ASSUME TombstoneRow PROVE TypeOK'
  <2>1. row' \in [Configs -> RowType]
    BY <1>6, ConstantsTyped, RowUpdates DEF TypeOK, TombstoneRow, Tombstoned
  <2>2. cmd' \in CmdType
    BY <1>6, ConstantsTyped, CmdUpdates DEF TypeOK, TombstoneRow, CmdSteps
  <2>3. UNCHANGED <<dir, marker, prefix, progress, checkpoint, letters, slot, identity, docs,
                    run, barred, loose, torn, commands, slots, prefixes>>
    BY <1>6 DEF TombstoneRow, fileVars, stateVars, history, budgets
  <2> QED BY <2>1, <2>2, <2>3 DEF TypeOK
<1>7. ASSUME NEW S \in SUBSET Configs, RemoveBegin(S) PROVE TypeOK'
  <2>1. cmd' \in CmdType
    BY <1>7, EnterTyped DEF TypeOK, RemoveBegin, Ops, CmdSteps
  <2>2. /\ commands' \in 0 .. MaxCommands
        /\ slots' \in 0 .. MaxNewSlots
        /\ prefixes' \in 0 .. MaxPrefixes
    BY <1>7 DEF TypeOK, RemoveBegin, Enter, budgets
  <2>3. UNCHANGED <<dir, marker, prefix, row, progress, checkpoint, letters, slot, identity,
                    docs, run, barred, loose, torn>>
    BY <1>7 DEF RemoveBegin, fileVars, stateVars, history, budgets, Enter
  <2> QED BY <2>1, <2>2, <2>3 DEF TypeOK
<1>8. ASSUME ResetTerminate PROVE TypeOK'
  <2>1. run' \in RunType
    BY <1>8, ConstantsTyped, RunUpdates, AttemptTyped, RunPrefix DEF TypeOK, ResetTerminate,
       Stages, Prefixes, RunSteps
  <2>2. cmd' \in CmdType
    BY <1>8, EnterTyped, RunPrefix DEF TypeOK, ResetTerminate, Ops, CmdSteps
  <2>3. /\ barred' \subseteq Configs
        /\ commands' \in 0 .. MaxCommands
        /\ slots' \in 0 .. MaxNewSlots
        /\ prefixes' \in 0 .. MaxPrefixes
    BY <1>8 DEF TypeOK, ResetTerminate, Attempt, Applied, Enter, budgets
  <2>4. UNCHANGED <<dir, marker, prefix, row, progress, checkpoint, letters, slot, identity,
                    docs, loose, torn>>
    BY <1>8 DEF ResetTerminate, fileVars, stateVars, history, budgets, Enter
  <2> QED BY <2>1, <2>2, <2>3, <2>4 DEF TypeOK
<1>9. ASSUME ResetDropSlot PROVE TypeOK'
  <2>1. cmd' \in CmdType
    BY <1>9, ConstantsTyped, CmdUpdates DEF TypeOK, ResetDropSlot, Goto, CmdSteps
  <2>2. torn' \in BOOLEAN /\ slot' \in 0 .. MaxNewSlots
    BY <1>9 DEF TypeOK, ResetDropSlot
  <2>3. UNCHANGED <<dir, marker, prefix, row, progress, checkpoint, letters, identity, docs,
                    run, barred, loose, commands, slots, prefixes>>
    BY <1>9 DEF ResetDropSlot, fileVars, stateVars, history, budgets
  <2> QED BY <2>1, <2>2, <2>3 DEF TypeOK
<1>10. ASSUME ResetSchema PROVE TypeOK'
  <2>1. row' \in [Configs -> RowType]
    BY <1>10, ConstantsTyped, RowUpdates DEF TypeOK, ResetSchema, DeleteRows
  <2>2. progress' \in [Configs -> ProgressType]
    BY <1>10, ConstantsTyped, ProgressUpdates DEF TypeOK, ResetSchema, DeleteRows
  <2>3. checkpoint' \in [Configs -> StoredPrefix] /\ letters' \in [Configs -> StoredPrefix]
    BY <1>10, ConstantsTyped DEF TypeOK, ResetSchema, DeleteRows
  <2>4. cmd' \in CmdType
    BY <1>10, ConstantsTyped, CmdUpdates DEF TypeOK, ResetSchema, Goto, CmdSteps
  <2>5. barred' \subseteq Configs /\ loose' \subseteq Configs /\ torn' \in BOOLEAN
    BY <1>10 DEF TypeOK, ResetSchema, DeleteRows, CmdType
  <2>6. UNCHANGED <<dir, marker, prefix, slot, identity, docs, run, commands, slots, prefixes>>
    BY <1>10 DEF ResetSchema, fileVars, stateVars, history, budgets, DeleteRows
  <2> QED BY <2>1, <2>2, <2>3, <2>4, <2>5, <2>6 DEF TypeOK
<1>11. ASSUME ResetFiles PROVE TypeOK'
  <2>1. cmd' \in CmdType /\ torn' \in BOOLEAN
    BY <1>11, ResetFilesShrinks, ConstantsTyped DEF TypeOK
  <2>2. FilesShrink
    BY <1>11, ResetFilesShrinks
  <2> QED BY <2>1, <2>2 DEF TypeOK, FilesShrink
<1>12. ASSUME NEW c \in Configs, TombstoneBegin(c) PROVE TypeOK'
  <2>1. cmd' \in CmdType
    BY <1>12, EnterTyped DEF TypeOK, TombstoneBegin, Ops, CmdSteps
  <2>2. marker' \subseteq Configs
    BY <1>12 DEF TypeOK, TombstoneBegin
  <2>3. /\ commands' \in 0 .. MaxCommands
        /\ slots' \in 0 .. MaxNewSlots
        /\ prefixes' \in 0 .. MaxPrefixes
    BY <1>12 DEF TypeOK, TombstoneBegin, Enter, budgets
  <2>4. UNCHANGED <<dir, prefix, row, progress, checkpoint, letters, slot, identity, docs, run,
                    barred, loose, torn>>
    BY <1>12 DEF TombstoneBegin, fileVars, stateVars, history, budgets, Enter
  <2> QED BY <2>1, <2>2, <2>3, <2>4 DEF TypeOK
<1>13. ASSUME NEW c \in Configs, RemoveLeftover(c) PROVE TypeOK'
  <2>1. cmd' \in CmdType
    BY <1>13, EnterTyped DEF TypeOK, RemoveLeftover, Ops, CmdSteps
  <2>2. /\ commands' \in 0 .. MaxCommands
        /\ slots' \in 0 .. MaxNewSlots
        /\ prefixes' \in 0 .. MaxPrefixes
    BY <1>13 DEF TypeOK, RemoveLeftover, Enter, budgets
  <2>3. UNCHANGED <<dir, marker, prefix, row, progress, checkpoint, letters, slot, identity,
                    docs, run, barred, loose, torn>>
    BY <1>13 DEF RemoveLeftover, fileVars, stateVars, history, budgets, Enter
  <2> QED BY <2>1, <2>2, <2>3 DEF TypeOK
<1>14. ASSUME NEW c \in Configs, RemoveNamespace(c) PROVE TypeOK'
  <2>1. docs' \in [Configs -> [Prefixes -> {"none", "some", "rest", "all"}]]
    BY <1>14 DEF TypeOK, RemoveNamespace
  <2>2. cmd' \in CmdType
    BY <1>14, ConstantsTyped, CmdUpdates DEF TypeOK, RemoveNamespace, Goto, CmdSteps
  <2>3. loose' \subseteq Configs
    BY <1>14 DEF TypeOK, RemoveNamespace, CmdType
  <2>4. UNCHANGED <<dir, marker, prefix, row, progress, checkpoint, letters, slot, identity,
                    run, barred, torn, commands, slots, prefixes>>
    BY <1>14 DEF RemoveNamespace, fileVars, stateVars, history, budgets
  <2> QED BY <2>1, <2>2, <2>3, <2>4 DEF TypeOK
<1>15. ASSUME NEW c \in Configs, FindDir(c) PROVE TypeOK'
  <2>1. cmd' \in CmdType
    BY <1>15, ConstantsTyped, CmdUpdates DEF TypeOK, FindDir, Goto, CmdSteps
  <2>2. UNCHANGED <<dir, marker, prefix, row, progress, checkpoint, letters, slot, identity,
                    docs, run, barred, loose, torn, commands, slots, prefixes>>
    BY <1>15 DEF FindDir, fileVars, stateVars, history, budgets
  <2> QED BY <2>1, <2>2 DEF TypeOK
<1>16. ASSUME NEW c \in Configs, RemoveDir(c) PROVE TypeOK'
  <2>1. cmd' \in CmdType
    BY <1>16, ConstantsTyped, CmdUpdates DEF TypeOK, RemoveDir, Goto, CmdSteps
  <2>2. FilesShrink /\ UNCHANGED torn
    BY <1>16, RemoveDirShrinks
  <2> QED BY <2>1, <2>2 DEF TypeOK, FilesShrink
<1>17. ASSUME NEW c \in Configs, RemoveRow(c) PROVE TypeOK'
  <2>1. row' \in [Configs -> RowType]
    BY <1>17, ConstantsTyped, RowUpdates DEF TypeOK, RemoveRow, DeleteRows
  <2>2. progress' \in [Configs -> ProgressType]
    BY <1>17, ConstantsTyped, ProgressUpdates DEF TypeOK, RemoveRow, DeleteRows
  <2>3. checkpoint' \in [Configs -> StoredPrefix] /\ letters' \in [Configs -> StoredPrefix]
    BY <1>17, ConstantsTyped DEF TypeOK, RemoveRow, DeleteRows
  <2>4. cmd' \in CmdType
    <3>1. cmd \in CmdType /\ "namespace" \in CmdSteps /\ {c} \in SUBSET Configs
      BY DEF TypeOK, CmdSteps
    <3>2. [cmd EXCEPT !.step = "namespace", !.configs = cmd.configs \ {c}] \in CmdType
      BY <3>1, CmdUpdates
    <3> QED
      BY <1>17, <3>2, ConstantsTyped DEF RemoveRow
  <2>5. barred' \subseteq Configs /\ loose' \subseteq Configs
    BY <1>17 DEF TypeOK, RemoveRow, DeleteRows, CmdType
  <2>6. UNCHANGED <<dir, marker, prefix, slot, identity, docs, run, torn, commands, slots,
                    prefixes>>
    BY <1>17 DEF RemoveRow, fileVars, stateVars, history, budgets, DeleteRows
  <2> QED BY <2>1, <2>2, <2>3, <2>4, <2>5, <2>6 DEF TypeOK
<1>18. ASSUME RunStart PROVE TypeOK'
  <2>1. run' \in RunType
    BY <1>18, ConstantsTyped, RunUpdates, AttemptTyped DEF TypeOK, RunStart, Stages, Prefixes,
       RunSteps
  <2>2. cmd' \in CmdType
    BY <1>18, ConstantsTyped, CmdUpdates DEF TypeOK, RunStart, Disturb, CmdSteps
  <2>3. barred' \subseteq Configs /\ torn' \in BOOLEAN
    BY <1>18 DEF TypeOK, RunStart, Attempt, Applied
  <2>4. UNCHANGED <<dir, marker, prefix, row, progress, checkpoint, letters, slot, identity,
                    docs, loose, commands, slots, prefixes>>
    BY <1>18 DEF RunStart, fileVars, stateVars, history, budgets
  <2> QED BY <2>1, <2>2, <2>3, <2>4 DEF TypeOK
<1>19. ASSUME RunFails PROVE TypeOK'
  <2>1. run' \in RunType
    BY <1>19, ConstantsTyped, RunUpdates, AttemptTyped, RunPrefix DEF TypeOK, RunFails, Stages,
       Prefixes, RunSteps
  <2>2. barred' \subseteq Configs
    BY <1>19 DEF TypeOK, RunFails, Attempt, Applied
  <2>3. UNCHANGED <<dir, marker, prefix, row, progress, checkpoint, letters, slot, identity,
                    docs, cmd, loose, torn, commands, slots, prefixes>>
    BY <1>19 DEF RunFails, fileVars, stateVars, history, budgets
  <2> QED BY <2>1, <2>2, <2>3 DEF TypeOK
<1>20. ASSUME Reconcile PROVE TypeOK'
  <2>1. row' \in [Configs -> RowType]
    BY <1>20, ConstantsTyped, RowUpdates DEF TypeOK, Reconcile, Reconciled, Tombstoned
  <2>2. run' \in RunType
    BY <1>20, ConstantsTyped, RunUpdates DEF TypeOK, Reconcile, Stages, RunSteps
  <2>3. UNCHANGED <<dir, marker, prefix, progress, checkpoint, letters, slot, identity, docs,
                    cmd, barred, loose, torn, commands, slots, prefixes>>
    BY <1>20 DEF Reconcile, fileVars, stateVars, history, budgets
  <2> QED BY <2>1, <2>2, <2>3 DEF TypeOK
<1>21. ASSUME Load PROVE TypeOK'
  <2>1. checkpoint' \in [Configs -> StoredPrefix] /\ letters' \in [Configs -> StoredPrefix]
    BY <1>21, ConstantsTyped DEF TypeOK, Load, fileVars, stateVars, history, budgets
  <2>2. run' \in RunType
    BY <1>21, ConstantsTyped, RunUpdates DEF TypeOK, Load, OnDisk
  <2>3. UNCHANGED <<dir, marker, prefix, row, progress, slot, identity, docs, cmd, barred,
                    loose, torn, commands, slots, prefixes>>
    BY <1>21 DEF Load, fileVars, stateVars, history, budgets
  <2> QED BY <2>1, <2>2, <2>3 DEF TypeOK
<1>22. ASSUME Verify PROVE TypeOK'
  <2>1. run' \in RunType
    BY <1>22, ConstantsTyped, RunUpdates DEF TypeOK, Verify, Stages, RunSteps
  <2>2. UNCHANGED <<dir, marker, prefix, row, progress, checkpoint, letters, slot, identity,
                    docs, cmd, barred, loose, torn, commands, slots, prefixes>>
    BY <1>22 DEF Verify, fileVars, stateVars, history, budgets
  <2> QED BY <2>1, <2>2 DEF TypeOK
<1>23. ASSUME EnsureSlot PROVE TypeOK'
  <2>1. run' \in RunType
    BY <1>23, ConstantsTyped, RunUpdates DEF TypeOK, EnsureSlot, Stages, RunSteps
  <2>2. slot' \in 0 .. MaxNewSlots /\ slots' \in 0 .. MaxNewSlots
    BY <1>23 DEF TypeOK, EnsureSlot
  <2>3. UNCHANGED <<dir, marker, prefix, row, progress, checkpoint, letters, identity, docs,
                    cmd, barred, loose, torn, commands, prefixes>>
    BY <1>23 DEF EnsureSlot, fileVars, stateVars, history, budgets
  <2> QED BY <2>1, <2>2, <2>3 DEF TypeOK
<1>24. ASSUME EnsureIdentity PROVE TypeOK'
  <2>1. run' \in RunType
    BY <1>24, ConstantsTyped, RunUpdates DEF TypeOK, EnsureIdentity
  <2>2. identity' \subseteq Configs
    BY <1>24 DEF TypeOK, EnsureIdentity, CmdType, RunType
  <2>3. UNCHANGED <<dir, marker, prefix, row, progress, checkpoint, letters, slot, docs, cmd,
                    barred, loose, torn, commands, slots, prefixes>>
    BY <1>24 DEF EnsureIdentity, fileVars, stateVars, history, budgets
  <2> QED BY <2>1, <2>2, <2>3 DEF TypeOK
<1>25. ASSUME NEW c \in Configs, ReadPrefix(c) PROVE TypeOK'
  <2>1. row' \in [Configs -> RowType]
    BY <1>25, ConstantsTyped, RowUpdates, StorePrefixTyped DEF TypeOK, ReadPrefix
  <2>2. run' \in RunType
    BY <1>25, ConstantsTyped, RunUpdates, PastTyped, StepTyped DEF TypeOK, ReadPrefix, Stages,
       RunSteps
  <2>3. UNCHANGED <<dir, marker, prefix, progress, checkpoint, letters, slot, identity, docs,
                    cmd, barred, loose, torn, commands, slots, prefixes>>
    BY <1>25 DEF ReadPrefix, fileVars, stateVars, history, budgets
  <2> QED BY <2>1, <2>2, <2>3 DEF TypeOK
<1>26. ASSUME NEW c \in Configs, Rekey(c) PROVE TypeOK'
  <2>1. row' \in [Configs -> RowType]
    BY <1>26, ConstantsTyped, RowUpdates, StorePrefixTyped DEF TypeOK, Rekey
  <2>2. progress' \in [Configs -> ProgressType]
    BY <1>26, ResetProgressMeans DEF TypeOK, Rekey
  <2>3. checkpoint' \in [Configs -> StoredPrefix] /\ letters' \in [Configs -> StoredPrefix]
    BY <1>26, ConstantsTyped DEF TypeOK, Rekey
  <2>4. run' \in RunType
    BY <1>26, ConstantsTyped, RunUpdates, PastTyped, StepTyped DEF TypeOK, Rekey, Stages, RunSteps
  <2>5. UNCHANGED <<dir, marker, prefix, slot, identity, docs, cmd, barred, loose, torn,
                    commands, slots, prefixes>>
    BY <1>26 DEF Rekey, fileVars, stateVars, history, budgets
  <2> QED BY <2>1, <2>2, <2>3, <2>4, <2>5 DEF TypeOK
<1>27. ASSUME NEW c \in Configs, Backfill(c) PROVE TypeOK'
  <2>1. docs' \in [Configs -> [Prefixes -> {"none", "some", "rest", "all"}]]
    <3>1. docs' = docs \/ \E v \in {"rest", "all"} : docs' = [docs EXCEPT ![c][run.prefix] = v]
      BY <1>27 DEF Backfill
    <3> QED
      BY <3>1 DEF TypeOK
  <2>2. run' \in RunType
    BY <1>27, ConstantsTyped, RunUpdates, PastTyped, StepTyped DEF TypeOK, Backfill, Stages,
       RunSteps
  <2>3. progress' \in [Configs -> ProgressType]
    BY <1>27, BackfillProgress DEF TypeOK, Backfill
  <2>4. UNCHANGED <<dir, marker, prefix, row, checkpoint, letters, slot, identity, cmd,
                    barred, loose, torn, commands, slots, prefixes>>
    BY <1>27 DEF Backfill, fileVars, stateVars, history, budgets
  <2> QED BY <2>1, <2>2, <2>3, <2>4 DEF TypeOK
<1>28. ASSUME NEW c \in Configs, BackfillCompleted(c) PROVE TypeOK'
  <2>1. progress' \in [Configs -> ProgressType]
    <3>1. progress[c] \in ProgressType /\ run.slot \in 0 .. MaxNewSlots
      BY DEF TypeOK, RunType
    <3>2. [progress[c] EXCEPT !.status = "completed", !.slot = run.slot] \in ProgressType
      BY <3>1, ProgressUpdates
    <3> QED
      BY <1>28, <3>2 DEF TypeOK, BackfillCompleted
  <2>2. run' \in RunType
    BY <1>28, ConstantsTyped, RunUpdates, PastTyped DEF TypeOK, BackfillCompleted, Stages,
       RunSteps
  <2>3. UNCHANGED <<dir, marker, prefix, row, checkpoint, letters, slot, identity, docs, cmd,
                    barred, loose, torn, commands, slots, prefixes>>
    BY <1>28 DEF BackfillCompleted, fileVars, stateVars, history, budgets
  <2> QED BY <2>1, <2>2, <2>3 DEF TypeOK
<1>29. ASSUME NEW c \in Configs, Stream(c) PROVE TypeOK'
  <2>1. checkpoint' \in [Configs -> StoredPrefix] /\ letters' \in [Configs -> StoredPrefix]
    BY <1>29, ConstantsTyped DEF TypeOK, Stream, StoredPrefix, RunType
  <2>2. docs' \in [Configs -> [Prefixes -> {"none", "some", "rest", "all"}]]
    BY <1>29 DEF TypeOK, Stream
  <2>3. run' \in RunType
    BY <1>29, ConstantsTyped, RunUpdates DEF TypeOK, Stream, Stages, RunSteps
  <2>4. UNCHANGED <<dir, marker, prefix, row, progress, slot, identity, cmd, barred, loose,
                    torn, commands, slots, prefixes>>
    BY <1>29 DEF Stream, fileVars, stateVars, history, budgets
  <2> QED BY <2>1, <2>2, <2>3, <2>4 DEF TypeOK
<1>30. CASE UNCHANGED vars
  BY <1>30 DEF TypeOK, vars, fileVars, stateVars, history, budgets
<1> QED
  BY <1>1, <1>2, <1>3, <1>4, <1>5, <1>6, <1>7, <1>8, <1>9, <1>10, <1>11, <1>12, <1>13, <1>14,
     <1>15, <1>16, <1>17, <1>18, <1>19, <1>20, <1>21, <1>22, <1>23, <1>24, <1>25, <1>26, <1>27,
     <1>28, <1>29, <1>30 DEF Next, User, Command, Run

(* The type invariant of ConfigLifecycle holds in every state.                *)
THEOREM TypeCorrect == Spec => []TypeOK
  BY InitTypeOK, NextTypeOK, PTL DEF Spec

----------------------------------------------------------------------------
(* What the parts of an action leave alone.                                   *)

(* The values a store, the run and the command start over with.               *)
LEMMA ConstantsMean ==
  /\ Idle.op = "none" /\ Idle.step = "none" /\ Idle.configs = {}
  /\ ~NoRow.applied /\ ~NoRow.tomb /\ NoProgress.status = "none"
  /\ Down.stage = "down" /\ Down.configs = {} /\ Down.slot = 0 /\ Down.todo = {}
  BY DEF Idle, NoRow, NoProgress, Down

(* The next step of a command leaves the rest of the command alone.           *)
LEMMA GotoKeeps ==
  ASSUME TypeOK, NEW step, Goto(step)
  PROVE  /\ cmd'.step = step /\ cmd'.op = cmd.op /\ cmd'.configs = cmd.configs
         /\ cmd'.into = cmd.into /\ cmd'.disturbed = cmd.disturbed /\ cmd'.cut = cmd.cut
  BY DEF TypeOK, CmdType, Goto

(* `new` and a run that starts only disturb a remove.                         *)
LEMMA DisturbKeeps ==
  ASSUME TypeOK, Disturb
  PROVE  /\ cmd'.step = cmd.step /\ cmd'.op = cmd.op /\ cmd'.configs = cmd.configs
         /\ cmd'.disturbed = (cmd.op = "remove") /\ cmd'.cut = cmd.cut
  BY DEF TypeOK, CmdType, Disturb

(* A command entered: a remove knows the prefixes it will empty.              *)
LEMMA EnterMeans ==
  ASSUME NEW op, NEW step, NEW S, Enter(op, step, S)
  PROVE  /\ cmd.op = "none" /\ cmd'.op = op /\ cmd'.step = step /\ cmd'.configs = S
         /\ op = "remove" => /\ \A c \in Configs : cmd'.into[c] = NamespaceOf(c)
                             /\ cmd'.disturbed <=> Alive
                             /\ cmd'.cut = {c \in Configs : dir[c] = "partial"}
  BY DEF Enter

(* tombstone_config touches nothing but the tombstone.                        *)
LEMMA TombstonedKeeps ==
  ASSUME TypeOK, NEW S, NEW c \in Configs
  PROVE  /\ Tombstoned(S)[c].applied = row[c].applied
         /\ Tombstoned(S)[c].prefix = row[c].prefix
         /\ Tombstoned(S)[c].tomb = (c \in S \/ row[c].tomb)
  BY DEF TypeOK, RowType, Tombstoned

(* set_namespace_prefix touches neither applied nor the tombstone.            *)
LEMMA StorePrefixKeeps ==
  ASSUME TypeOK, NEW c \in Configs, NEW d \in Configs, StorePrefix(c)
  PROVE  row'[d].applied = row[d].applied /\ row'[d].tomb = row[d].tomb
<1>1. row[d] \in RowType
  BY DEF TypeOK
<1>2. [row[d] EXCEPT !.prefix = run.prefix].applied = row[d].applied
      /\ [row[d] EXCEPT !.prefix = run.prefix].tomb = row[d].tomb
  BY <1>1 DEF RowType
<1>3. row'[d] = row[d] \/ row'[d] = [row[d] EXCEPT !.prefix = run.prefix]
  BY DEF TypeOK, StorePrefix
<1> QED
  BY <1>2, <1>3

(* delete_config takes all that the state schema has of a config.             *)
LEMMA DeleteRowsMeans ==
  ASSUME NEW S, NEW c \in Configs, DeleteRows(S)
  PROVE  /\ row'[c] = (IF c \in S THEN NoRow ELSE row[c])
         /\ progress'[c] = (IF c \in S THEN NoProgress ELSE progress[c])
         /\ checkpoint'[c] = (IF c \in S THEN Unset ELSE checkpoint[c])
         /\ letters'[c] = (IF c \in S THEN Unset ELSE letters[c])
         /\ loose' = loose \cup S
  BY DEF DeleteRows

(* The next stage of a run leaves the rest of the run alone.                  *)
LEMMA StageKeeps ==
  ASSUME NEW r \in RunType, NEW s
  PROVE  LET q == [r EXCEPT !.stage = s]
         IN  /\ q.stage = s /\ q.configs = r.configs /\ q.slot = r.slot
             /\ q.todo = r.todo /\ q.prefix = r.prefix
  BY DEF RunType

(* The next step of a run leaves the rest of the run alone.                   *)
LEMMA StepKeeps ==
  ASSUME TypeOK, NEW step, Step(step)
  PROVE  /\ run'.stage = run.stage /\ run'.configs = run.configs /\ run'.slot = run.slot
         /\ run'.todo = run.todo /\ run'.prefix = run.prefix /\ run'.step = step
  BY DEF TypeOK, RunType, Step

(* The loop of a stage moves on within the stage or to the next one.          *)
LEMMA PastKeeps ==
  ASSUME TypeOK, NEW c, NEW first, NEW next, Past(c, first, next)
  PROVE  run'.stage \in {run.stage, next} /\ run'.configs = run.configs /\ run'.slot = run.slot
  BY DEF TypeOK, RunType, Past

(* An attempt starts from nothing, with the tombstones there are.             *)
LEMMA AttemptMeans ==
  ASSUME NEW p, Attempt(p)
  PROVE  /\ run'.stage = "reconcile" /\ run'.configs = {} /\ run'.slot = 0 /\ run'.todo = {}
         /\ barred' = {c \in Applied : c \in Marked \/ row[c].tomb}
  BY DEF Attempt, Down

----------------------------------------------------------------------------
(* Replica identity.                                                          *)

(* Only insert_configs adds to the applied configs, and only those of the     *)
(* apply at hand.                                                             *)
LEMMA AppliedGrows ==
  TypeOK /\ [Next]_vars =>
    \/ Applied' \subseteq Applied
    \/ ApplyStep /\ cmd.step = "insert" /\ Applied' = Applied \cup cmd.configs
<1> DEFINE Grows == \/ Applied' \subseteq Applied
                    \/ ApplyStep /\ cmd.step = "insert" /\ Applied' = Applied \cup cmd.configs
<1> SUFFICES ASSUME TypeOK, [Next]_vars PROVE Grows
  OBVIOUS
<1>1. ASSUME NEW c \in Configs, New(c) PROVE Applied' \subseteq Applied
  BY <1>1 DEF New, Applied, fileVars, stateVars, history, budgets
<1>2. ASSUME ChangePrefix PROVE Applied' \subseteq Applied
  BY <1>2 DEF ChangePrefix, Applied, fileVars, stateVars, history, budgets
<1>3. ASSUME CommandStops PROVE Applied' \subseteq Applied
  BY <1>3 DEF CommandStops, Applied, fileVars, stateVars, history, budgets
<1>4. ASSUME ApplyBegin PROVE Applied' \subseteq Applied
  BY <1>4, TombstonedKeeps DEF ApplyBegin, Applied, Reconciled, fileVars, stateVars, history,
     budgets
<1>5. ASSUME ApplyStep PROVE Grows
  BY <1>5 DEF ApplyStep, Applied, InsertConfigs, NoRow, TypeOK, CmdType, fileVars, stateVars,
     history, budgets
<1>6. ASSUME TombstoneRow PROVE Applied' \subseteq Applied
  BY <1>6, TombstonedKeeps DEF TombstoneRow, Applied, fileVars, stateVars, history, budgets
<1>7. ASSUME NEW S \in SUBSET Configs, RemoveBegin(S) PROVE Applied' \subseteq Applied
  BY <1>7 DEF RemoveBegin, Applied, fileVars, stateVars, history, budgets
<1>8. ASSUME ResetTerminate PROVE Applied' \subseteq Applied
  BY <1>8 DEF ResetTerminate, Applied, fileVars, stateVars, history, budgets
<1>9. ASSUME ResetDropSlot PROVE Applied' \subseteq Applied
  BY <1>9 DEF ResetDropSlot, Applied, fileVars, stateVars, history, budgets
<1>10. ASSUME ResetSchema PROVE Applied' \subseteq Applied
  BY <1>10, DeleteRowsMeans, ConstantsMean DEF ResetSchema, Applied, fileVars, stateVars,
     history, budgets
<1>11. ASSUME ResetFiles PROVE Applied' \subseteq Applied
  BY <1>11, ResetFilesShrinks DEF FilesShrink, Applied
<1>12. ASSUME NEW c \in Configs, TombstoneBegin(c) PROVE Applied' \subseteq Applied
  BY <1>12 DEF TombstoneBegin, Applied, fileVars, stateVars, history, budgets
<1>13. ASSUME NEW c \in Configs, RemoveLeftover(c) PROVE Applied' \subseteq Applied
  BY <1>13 DEF RemoveLeftover, Applied, fileVars, stateVars, history, budgets
<1>14. ASSUME NEW c \in Configs, RemoveNamespace(c) PROVE Applied' \subseteq Applied
  BY <1>14 DEF RemoveNamespace, Applied, fileVars, stateVars, history, budgets
<1>15. ASSUME NEW c \in Configs, FindDir(c) PROVE Applied' \subseteq Applied
  BY <1>15 DEF FindDir, Applied, fileVars, stateVars, history, budgets
<1>16. ASSUME NEW c \in Configs, RemoveDir(c) PROVE Applied' \subseteq Applied
  BY <1>16, RemoveDirShrinks DEF FilesShrink, Applied
<1>17. ASSUME NEW c \in Configs, RemoveRow(c) PROVE Applied' \subseteq Applied
  BY <1>17, DeleteRowsMeans, ConstantsMean DEF RemoveRow, Applied, fileVars, stateVars, history,
     budgets
<1>18. ASSUME RunStart PROVE Applied' \subseteq Applied
  BY <1>18 DEF RunStart, Applied, fileVars, stateVars, history, budgets
<1>19. ASSUME RunFails PROVE Applied' \subseteq Applied
  BY <1>19 DEF RunFails, Applied, fileVars, stateVars, history, budgets
<1>20. ASSUME Reconcile PROVE Applied' \subseteq Applied
  BY <1>20, TombstonedKeeps DEF Reconcile, Applied, Reconciled, fileVars, stateVars, history,
     budgets
<1>21. ASSUME Load PROVE Applied' \subseteq Applied
  BY <1>21 DEF Load, Applied, fileVars, stateVars, history, budgets
<1>22. ASSUME Verify PROVE Applied' \subseteq Applied
  BY <1>22 DEF Verify, Applied, fileVars, stateVars, history, budgets
<1>23. ASSUME EnsureSlot PROVE Applied' \subseteq Applied
  BY <1>23 DEF EnsureSlot, Applied, fileVars, stateVars, history, budgets
<1>24. ASSUME EnsureIdentity PROVE Applied' \subseteq Applied
  BY <1>24 DEF EnsureIdentity, Applied, fileVars, stateVars, history, budgets
<1>25. ASSUME NEW c \in Configs, ReadPrefix(c) PROVE Applied' \subseteq Applied
  BY <1>25, StorePrefixKeeps DEF ReadPrefix, Applied, fileVars, stateVars, history, budgets
<1>26. ASSUME NEW c \in Configs, Rekey(c) PROVE Applied' \subseteq Applied
  BY <1>26, StorePrefixKeeps DEF Rekey, Applied, fileVars, stateVars, history, budgets
<1>27. ASSUME NEW c \in Configs, Backfill(c) PROVE Applied' \subseteq Applied
  BY <1>27 DEF Backfill, Applied, fileVars, stateVars, history, budgets
<1>28. ASSUME NEW c \in Configs, BackfillCompleted(c) PROVE Applied' \subseteq Applied
  BY <1>28 DEF BackfillCompleted, Applied, fileVars, stateVars, history, budgets
<1>29. ASSUME NEW c \in Configs, Stream(c) PROVE Applied' \subseteq Applied
  BY <1>29 DEF Stream, Applied, fileVars, stateVars, history, budgets
<1>30. CASE UNCHANGED vars
  BY <1>30 DEF Applied, vars, fileVars, stateVars, history, budgets
<1> QED
  BY <1>1, <1>2, <1>3, <1>4, <1>5, <1>6, <1>7, <1>8, <1>9, <1>10, <1>11, <1>12, <1>13, <1>14,
     <1>15, <1>16, <1>17, <1>18, <1>19, <1>20, <1>21, <1>22, <1>23, <1>24, <1>25, <1>26, <1>27,
     <1>28, <1>29, <1>30 DEF Next, User, Command, Run

(* A command is at apply's insert only after it altered the tables.           *)
LEMMA InsertAfterIdentity ==
  TypeOK /\ [Next]_vars /\ cmd'.op = "apply" /\ cmd'.step = "insert" =>
    \/ cmd.op = "apply" /\ cmd.step = "insert" /\ cmd'.configs = cmd.configs
    \/ cmd'.configs \subseteq identity'
<1> DEFINE Before == cmd.op = "apply" /\ cmd.step = "insert" /\ cmd'.configs = cmd.configs
           Goal == cmd'.op = "apply" /\ cmd'.step = "insert"
                   => Before \/ cmd'.configs \subseteq identity'
<1> SUFFICES ASSUME TypeOK, [Next]_vars PROVE Goal
  OBVIOUS
<1>1. ASSUME NEW c \in Configs, New(c) PROVE Goal
  BY <1>1, DisturbKeeps DEF New, fileVars, stateVars, history, budgets
<1>2. ASSUME ChangePrefix PROVE Goal
  BY <1>2 DEF ChangePrefix, fileVars, stateVars, history, budgets
<1>3. ASSUME CommandStops PROVE Goal
  BY <1>3, ConstantsMean DEF CommandStops, fileVars, stateVars, history, budgets
<1>4. ASSUME ApplyBegin PROVE Goal
  BY <1>4, EnterMeans DEF ApplyBegin, fileVars, stateVars, history, budgets
<1>5. ASSUME ApplyStep PROVE Goal
  BY <1>5, GotoKeeps, ConstantsMean DEF ApplyStep, SetIdentity, fileVars, stateVars, history,
     budgets
<1>6. ASSUME TombstoneRow PROVE Goal
  BY <1>6, ConstantsMean DEF TombstoneRow, fileVars, stateVars, history, budgets
<1>7. ASSUME NEW S \in SUBSET Configs, RemoveBegin(S) PROVE Goal
  BY <1>7, EnterMeans DEF RemoveBegin, fileVars, stateVars, history, budgets
<1>8. ASSUME ResetTerminate PROVE Goal
  BY <1>8, EnterMeans DEF ResetTerminate, fileVars, stateVars, history, budgets
<1>9. ASSUME ResetDropSlot PROVE Goal
  BY <1>9, GotoKeeps, ConstantsMean DEF ResetDropSlot, fileVars, stateVars, history, budgets
<1>10. ASSUME ResetSchema PROVE Goal
  BY <1>10, GotoKeeps DEF ResetSchema, fileVars, stateVars, history, budgets
<1>11. ASSUME ResetFiles PROVE Goal
  BY <1>11, ResetFilesShrinks, ConstantsMean DEF FilesShrink
<1>12. ASSUME NEW c \in Configs, TombstoneBegin(c) PROVE Goal
  BY <1>12, EnterMeans DEF TombstoneBegin, fileVars, stateVars, history, budgets
<1>13. ASSUME NEW c \in Configs, RemoveLeftover(c) PROVE Goal
  BY <1>13, EnterMeans DEF RemoveLeftover, fileVars, stateVars, history, budgets
<1>14. ASSUME NEW c \in Configs, RemoveNamespace(c) PROVE Goal
  BY <1>14, GotoKeeps DEF RemoveNamespace, fileVars, stateVars, history, budgets
<1>15. ASSUME NEW c \in Configs, FindDir(c) PROVE Goal
  BY <1>15, GotoKeeps, ConstantsMean DEF FindDir, fileVars, stateVars, history, budgets
<1>16. ASSUME NEW c \in Configs, RemoveDir(c) PROVE Goal
  BY <1>16, GotoKeeps, ConstantsMean DEF RemoveDir, Saga
<1>17. ASSUME NEW c \in Configs, RemoveRow(c) PROVE Goal
  BY <1>17, ConstantsMean DEF RemoveRow, fileVars, stateVars, history, budgets
<1>18. ASSUME RunStart PROVE Goal
  BY <1>18, DisturbKeeps DEF RunStart, fileVars, stateVars, history, budgets
<1>19. ASSUME RunFails PROVE Goal
  BY <1>19 DEF RunFails, fileVars, stateVars, history, budgets
<1>20. ASSUME Reconcile PROVE Goal
  BY <1>20 DEF Reconcile, fileVars, stateVars, history, budgets
<1>21. ASSUME Load PROVE Goal
  BY <1>21 DEF Load, fileVars, stateVars, history, budgets
<1>22. ASSUME Verify PROVE Goal
  BY <1>22 DEF Verify, fileVars, stateVars, history, budgets
<1>23. ASSUME EnsureSlot PROVE Goal
  BY <1>23 DEF EnsureSlot, fileVars, stateVars, history, budgets
<1>24. ASSUME EnsureIdentity PROVE Goal
  BY <1>24 DEF EnsureIdentity, fileVars, stateVars, history, budgets
<1>25. ASSUME NEW c \in Configs, ReadPrefix(c) PROVE Goal
  BY <1>25 DEF ReadPrefix, fileVars, stateVars, history, budgets
<1>26. ASSUME NEW c \in Configs, Rekey(c) PROVE Goal
  BY <1>26 DEF Rekey, fileVars, stateVars, history, budgets
<1>27. ASSUME NEW c \in Configs, Backfill(c) PROVE Goal
  BY <1>27 DEF Backfill, fileVars, stateVars, history, budgets
<1>28. ASSUME NEW c \in Configs, BackfillCompleted(c) PROVE Goal
  BY <1>28 DEF BackfillCompleted, fileVars, stateVars, history, budgets
<1>29. ASSUME NEW c \in Configs, Stream(c) PROVE Goal
  BY <1>29 DEF Stream, fileVars, stateVars, history, budgets
<1>30. CASE UNCHANGED vars
  BY <1>30 DEF vars, fileVars, stateVars, history, budgets
<1> QED
  BY <1>1, <1>2, <1>3, <1>4, <1>5, <1>6, <1>7, <1>8, <1>9, <1>10, <1>11, <1>12, <1>13, <1>14,
     <1>15, <1>16, <1>17, <1>18, <1>19, <1>20, <1>21, <1>22, <1>23, <1>24, <1>25, <1>26, <1>27,
     <1>28, <1>29, <1>30 DEF Next, User, Command, Run

(* Nothing takes REPLICA IDENTITY FULL away.                                  *)
LEMMA IdentityGrows == [Next]_vars => identity \subseteq identity'
<1> SUFFICES ASSUME [Next]_vars PROVE identity \subseteq identity'
  OBVIOUS
<1>1. ASSUME NEW c \in Configs, New(c) PROVE identity \subseteq identity'
  BY <1>1 DEF New, fileVars, stateVars, history, budgets
<1>2. ASSUME ChangePrefix PROVE identity \subseteq identity'
  BY <1>2 DEF ChangePrefix, fileVars, stateVars, history, budgets
<1>3. ASSUME CommandStops PROVE identity \subseteq identity'
  BY <1>3 DEF CommandStops, fileVars, stateVars, history, budgets
<1>4. ASSUME ApplyBegin PROVE identity \subseteq identity'
  BY <1>4 DEF ApplyBegin, fileVars, stateVars, history, budgets
<1>5. ASSUME ApplyStep PROVE identity \subseteq identity'
  BY <1>5 DEF ApplyStep, SetIdentity, fileVars, stateVars, history, budgets
<1>6. ASSUME TombstoneRow PROVE identity \subseteq identity'
  BY <1>6 DEF TombstoneRow, fileVars, stateVars, history, budgets
<1>7. ASSUME NEW S \in SUBSET Configs, RemoveBegin(S) PROVE identity \subseteq identity'
  BY <1>7 DEF RemoveBegin, fileVars, stateVars, history, budgets
<1>8. ASSUME ResetTerminate PROVE identity \subseteq identity'
  BY <1>8 DEF ResetTerminate, fileVars, stateVars, history, budgets
<1>9. ASSUME ResetDropSlot PROVE identity \subseteq identity'
  BY <1>9 DEF ResetDropSlot, fileVars, stateVars, history, budgets
<1>10. ASSUME ResetSchema PROVE identity \subseteq identity'
  BY <1>10 DEF ResetSchema, fileVars, stateVars, history, budgets
<1>11. ASSUME ResetFiles PROVE identity \subseteq identity'
  BY <1>11 DEF ResetFiles, Unlink
<1>12. ASSUME NEW c \in Configs, TombstoneBegin(c) PROVE identity \subseteq identity'
  BY <1>12 DEF TombstoneBegin, fileVars, stateVars, history, budgets
<1>13. ASSUME NEW c \in Configs, RemoveLeftover(c) PROVE identity \subseteq identity'
  BY <1>13 DEF RemoveLeftover, fileVars, stateVars, history, budgets
<1>14. ASSUME NEW c \in Configs, RemoveNamespace(c) PROVE identity \subseteq identity'
  BY <1>14 DEF RemoveNamespace, fileVars, stateVars, history, budgets
<1>15. ASSUME NEW c \in Configs, FindDir(c) PROVE identity \subseteq identity'
  BY <1>15 DEF FindDir, fileVars, stateVars, history, budgets
<1>16. ASSUME NEW c \in Configs, RemoveDir(c) PROVE identity \subseteq identity'
  BY <1>16 DEF RemoveDir, Unlink
<1>17. ASSUME NEW c \in Configs, RemoveRow(c) PROVE identity \subseteq identity'
  BY <1>17 DEF RemoveRow, fileVars, stateVars, history, budgets
<1>18. ASSUME RunStart PROVE identity \subseteq identity'
  BY <1>18 DEF RunStart, fileVars, stateVars, history, budgets
<1>19. ASSUME RunFails PROVE identity \subseteq identity'
  BY <1>19 DEF RunFails, fileVars, stateVars, history, budgets
<1>20. ASSUME Reconcile PROVE identity \subseteq identity'
  BY <1>20 DEF Reconcile, fileVars, stateVars, history, budgets
<1>21. ASSUME Load PROVE identity \subseteq identity'
  BY <1>21 DEF Load, fileVars, stateVars, history, budgets
<1>22. ASSUME Verify PROVE identity \subseteq identity'
  BY <1>22 DEF Verify, fileVars, stateVars, history, budgets
<1>23. ASSUME EnsureSlot PROVE identity \subseteq identity'
  BY <1>23 DEF EnsureSlot, fileVars, stateVars, history, budgets
<1>24. ASSUME EnsureIdentity PROVE identity \subseteq identity'
  BY <1>24 DEF EnsureIdentity, fileVars, stateVars, history, budgets
<1>25. ASSUME NEW c \in Configs, ReadPrefix(c) PROVE identity \subseteq identity'
  BY <1>25 DEF ReadPrefix, fileVars, stateVars, history, budgets
<1>26. ASSUME NEW c \in Configs, Rekey(c) PROVE identity \subseteq identity'
  BY <1>26 DEF Rekey, fileVars, stateVars, history, budgets
<1>27. ASSUME NEW c \in Configs, Backfill(c) PROVE identity \subseteq identity'
  BY <1>27 DEF Backfill, fileVars, stateVars, history, budgets
<1>28. ASSUME NEW c \in Configs, BackfillCompleted(c) PROVE identity \subseteq identity'
  BY <1>28 DEF BackfillCompleted, fileVars, stateVars, history, budgets
<1>29. ASSUME NEW c \in Configs, Stream(c) PROVE identity \subseteq identity'
  BY <1>29 DEF Stream, fileVars, stateVars, history, budgets
<1>30. CASE UNCHANGED vars
  BY <1>30 DEF vars, fileVars, stateVars, history, budgets
<1> QED
  BY <1>1, <1>2, <1>3, <1>4, <1>5, <1>6, <1>7, <1>8, <1>9, <1>10, <1>11, <1>12, <1>13, <1>14,
     <1>15, <1>16, <1>17, <1>18, <1>19, <1>20, <1>21, <1>22, <1>23, <1>24, <1>25, <1>26, <1>27,
     <1>28, <1>29, <1>30 DEF Next, User, Command, Run

(* apply alters the tables before it records the configs, so the configs it   *)
(* is about to record have been altered too.                                  *)
IdentityInv ==
  /\ Applied \subseteq identity
  /\ cmd.op = "apply" /\ cmd.step = "insert" => cmd.configs \subseteq identity

(* Every step preserves IdentityInv.                                          *)
LEMMA IdentityStep == TypeOK /\ IdentityInv /\ [Next]_vars => IdentityInv'
<1> SUFFICES ASSUME TypeOK, IdentityInv, [Next]_vars PROVE IdentityInv'
  OBVIOUS
<1>1. Applied' \subseteq identity'
  BY AppliedGrows, IdentityGrows DEF IdentityInv, ApplyStep
<1>2. cmd'.op = "apply" /\ cmd'.step = "insert" => cmd'.configs \subseteq identity'
  BY InsertAfterIdentity, IdentityGrows DEF IdentityInv
<1> QED
  BY <1>1, <1>2 DEF IdentityInv

(* ReplicaIdentityFirst of ConfigLifecycle holds in every state.              *)
THEOREM IdentityFirst == Spec => []ReplicaIdentityFirst
<1>1. Init => IdentityInv
  BY ConstantsMean DEF Init, IdentityInv, Applied
<1>2. IdentityInv => ReplicaIdentityFirst
  BY DEF IdentityInv, ReplicaIdentityFirst
<1> QED
  BY <1>1, <1>2, IdentityStep, TypeCorrect, PTL DEF Spec

----------------------------------------------------------------------------
(* Tombstones.                                                                *)

(* What makes sure that Load leaves a config out that was tombstoned when the *)
(* attempt began: its row says so once Reconcile is past, or its files are    *)
(* gone.                                                                      *)
TombstoneInv ==
  /\ barred \subseteq Applied
  /\ run.stage \in {"down", "reconcile", "load"} => run.configs = {}
  /\ run.stage = "reconcile" => \A c \in barred : row[c].tomb \/ c \in Marked \/ c \notin OnDisk
  /\ run.stage = "load" => \A c \in barred : row[c].tomb \/ c \notin OnDisk
  /\ run.configs \cap barred = {}

(* Unlinking files brings no config that is barred back into the run.         *)
LEMMA FilesShrinkTombstoned == TypeOK /\ TombstoneInv /\ FilesShrink => TombstoneInv'
<1> SUFFICES ASSUME TypeOK, TombstoneInv, FilesShrink PROVE TombstoneInv'
  OBVIOUS
<1>1. OnDisk' \subseteq OnDisk /\ Applied' = Applied
  BY DEF FilesShrink, OnDisk, Applied
<1>2. \A c \in barred' : c \in Marked => row'[c].tomb \/ c \in Marked' \/ c \notin OnDisk'
  BY <1>1 DEF FilesShrink, Marked
<1>3. UNCHANGED <<row, run>> /\ barred' \subseteq barred
  BY DEF FilesShrink
<1> QED
  BY <1>1, <1>2, <1>3 DEF TombstoneInv

(* Every step preserves TombstoneInv.                                         *)
LEMMA TombstoneStep == TypeOK /\ TombstoneInv /\ [Next]_vars => TombstoneInv'
<1> SUFFICES ASSUME TypeOK, TombstoneInv, [Next]_vars PROVE TombstoneInv'
  OBVIOUS
<1>1. ASSUME NEW c \in Configs, New(c) PROVE TombstoneInv'
  BY <1>1 DEF New, TombstoneInv, TypeOK, Applied, Marked, OnDisk, fileVars, stateVars, history,
     budgets
<1>2. ASSUME ChangePrefix PROVE TombstoneInv'
  BY <1>2 DEF ChangePrefix, TombstoneInv, TypeOK, Applied, Marked, OnDisk, fileVars, stateVars,
     history, budgets
<1>3. ASSUME CommandStops PROVE TombstoneInv'
  BY <1>3 DEF CommandStops, TombstoneInv, TypeOK, Applied, Marked, OnDisk, fileVars, stateVars,
     history, budgets
<1>4. ASSUME ApplyBegin PROVE TombstoneInv'
  <2>1. \A c \in Configs : row'[c].applied = row[c].applied
    BY <1>4, TombstonedKeeps DEF ApplyBegin, Reconciled
  <2>2. \A c \in Configs : row[c].tomb => row'[c].tomb
    BY <1>4, TombstonedKeeps DEF ApplyBegin, Reconciled
  <2>3. Applied' = Applied
    BY <2>1 DEF Applied
  <2>4. UNCHANGED <<dir, marker, barred, run>>
    BY <1>4 DEF ApplyBegin, fileVars, history
  <2> QED
    BY <2>2, <2>3, <2>4 DEF TombstoneInv, TypeOK, OnDisk, Marked
<1>5. ASSUME ApplyStep PROVE TombstoneInv'
  BY <1>5 DEF ApplyStep, TombstoneInv, TypeOK, Applied, Marked, OnDisk, InsertConfigs, NoRow,
     CmdType, fileVars, stateVars, history, budgets
<1>6. ASSUME TombstoneRow PROVE TombstoneInv'
  <2>1. \A c \in Configs : row'[c].applied = row[c].applied
    BY <1>6, TombstonedKeeps DEF TombstoneRow
  <2>2. \A c \in Configs : row[c].tomb => row'[c].tomb
    BY <1>6, TombstonedKeeps DEF TombstoneRow
  <2>3. Applied' = Applied
    BY <2>1 DEF Applied
  <2>4. UNCHANGED <<dir, marker, barred, run>>
    BY <1>6 DEF TombstoneRow, fileVars, history
  <2> QED
    BY <2>2, <2>3, <2>4 DEF TombstoneInv, TypeOK, OnDisk, Marked
<1>7. ASSUME NEW S \in SUBSET Configs, RemoveBegin(S) PROVE TombstoneInv'
  BY <1>7 DEF RemoveBegin, TombstoneInv, TypeOK, Applied, Marked, OnDisk, fileVars, stateVars,
     history, budgets
<1>8. ASSUME ResetTerminate PROVE TombstoneInv'
  BY <1>8, AttemptMeans DEF ResetTerminate, TombstoneInv, TypeOK, Applied, Marked, OnDisk,
     fileVars, stateVars, history, budgets
<1>9. ASSUME ResetDropSlot PROVE TombstoneInv'
  BY <1>9 DEF ResetDropSlot, TombstoneInv, TypeOK, Applied, Marked, OnDisk, fileVars, stateVars,
     history, budgets
<1>10. ASSUME ResetSchema PROVE TombstoneInv'
  BY <1>10, DeleteRowsMeans, ConstantsMean DEF ResetSchema, TombstoneInv, TypeOK, Applied,
     Marked, OnDisk, DeleteRows, fileVars, stateVars, history, budgets
<1>11. ASSUME ResetFiles PROVE TombstoneInv'
  <2>1. FilesShrink
    BY <1>11, ResetFilesShrinks
  <2> QED
    BY <2>1, FilesShrinkTombstoned
<1>12. ASSUME NEW c \in Configs, TombstoneBegin(c) PROVE TombstoneInv'
  BY <1>12 DEF TombstoneBegin, TombstoneInv, TypeOK, Applied, Marked, OnDisk, fileVars,
     stateVars, history, budgets
<1>13. ASSUME NEW c \in Configs, RemoveLeftover(c) PROVE TombstoneInv'
  BY <1>13 DEF RemoveLeftover, TombstoneInv, TypeOK, Applied, Marked, OnDisk, fileVars,
     stateVars, history, budgets
<1>14. ASSUME NEW c \in Configs, RemoveNamespace(c) PROVE TombstoneInv'
  BY <1>14 DEF RemoveNamespace, TombstoneInv, TypeOK, Applied, Marked, OnDisk, fileVars,
     stateVars, history, budgets
<1>15. ASSUME NEW c \in Configs, FindDir(c) PROVE TombstoneInv'
  BY <1>15 DEF FindDir, TombstoneInv, TypeOK, Applied, Marked, OnDisk, fileVars, stateVars,
     history, budgets
<1>16. ASSUME NEW c \in Configs, RemoveDir(c) PROVE TombstoneInv'
  <2>1. FilesShrink
    BY <1>16, RemoveDirShrinks
  <2> QED
    BY <2>1, FilesShrinkTombstoned
<1>17. ASSUME NEW c \in Configs, RemoveRow(c) PROVE TombstoneInv'
  BY <1>17, DeleteRowsMeans, ConstantsMean DEF RemoveRow, TombstoneInv, TypeOK, Applied, Marked,
     OnDisk, DeleteRows, fileVars, stateVars, history, budgets
<1>18. ASSUME RunStart PROVE TombstoneInv'
  BY <1>18, AttemptMeans DEF RunStart, TombstoneInv, TypeOK, Applied, Marked, OnDisk, fileVars,
     stateVars, history, budgets
<1>19. ASSUME RunFails PROVE TombstoneInv'
  BY <1>19, AttemptMeans, ConstantsMean DEF RunFails, TombstoneInv, TypeOK, Applied, Marked,
     OnDisk, fileVars, stateVars, history, budgets
<1>20. ASSUME Reconcile PROVE TombstoneInv'
  <2>1. \A c \in Configs : /\ row'[c].applied = row[c].applied
                          /\ row'[c].tomb = (c \in Marked \cap Applied \/ row[c].tomb)
    BY <1>20, TombstonedKeeps DEF Reconcile, Reconciled
  <2>2. Applied' = Applied
    BY <2>1 DEF Applied
  <2>3. run'.stage = "load" /\ run'.configs = run.configs /\ UNCHANGED <<dir, barred>>
    BY <1>20, StageKeeps DEF Reconcile, TypeOK, fileVars, history
  <2>4. \A c \in barred : row'[c].tomb \/ c \notin OnDisk
    BY <1>20, <2>1 DEF TombstoneInv, TypeOK, Reconcile
  <2>5. run.configs = {} /\ barred \subseteq Applied
    BY <1>20 DEF TombstoneInv, Reconcile
  <2> QED
    BY <2>2, <2>3, <2>4, <2>5 DEF TombstoneInv, OnDisk
<1>21. ASSUME Load PROVE TombstoneInv'
  BY <1>21 DEF Load, TombstoneInv, TypeOK, Applied, Marked, OnDisk, RunType, fileVars,
     stateVars, history, budgets
<1>22. ASSUME Verify PROVE TombstoneInv'
  BY <1>22, StageKeeps DEF Verify, TombstoneInv, TypeOK, Applied, Marked, OnDisk, fileVars,
     stateVars, history, budgets
<1>23. ASSUME EnsureSlot PROVE TombstoneInv'
  BY <1>23, StageKeeps DEF EnsureSlot, TombstoneInv, TypeOK, Applied, Marked, OnDisk, fileVars,
     stateVars, history, budgets
<1>24. ASSUME EnsureIdentity PROVE TombstoneInv'
  BY <1>24 DEF EnsureIdentity, TombstoneInv, TypeOK, Applied, Marked, OnDisk, RunType, fileVars,
     stateVars, history, budgets
<1>25. ASSUME NEW c \in Configs, ReadPrefix(c) PROVE TombstoneInv'
  <2>1. run.stage = "rekey"
    BY <1>25 DEF ReadPrefix, InTurn
  <2>2. run'.stage \in {"rekey", "verify"} /\ run'.configs = run.configs
    BY <1>25, <2>1, PastKeeps, StepKeeps DEF ReadPrefix
  <2>3. \A d \in Configs : row'[d].applied = row[d].applied
    BY <1>25, StorePrefixKeeps DEF ReadPrefix
  <2>4. UNCHANGED barred
    BY <1>25 DEF ReadPrefix, history
  <2> QED
    BY <2>2, <2>3, <2>4 DEF TombstoneInv, Applied
<1>26. ASSUME NEW c \in Configs, Rekey(c) PROVE TombstoneInv'
  <2>1. run.stage = "rekey"
    BY <1>26 DEF Rekey, InTurn
  <2>2. run'.stage \in {"rekey", "verify"} /\ run'.configs = run.configs
    BY <1>26, <2>1, PastKeeps, StepKeeps DEF Rekey
  <2>3. \A d \in Configs : row'[d].applied = row[d].applied
    BY <1>26, StorePrefixKeeps DEF Rekey
  <2>4. UNCHANGED barred
    BY <1>26 DEF Rekey, history
  <2> QED
    BY <2>2, <2>3, <2>4 DEF TombstoneInv, Applied
<1>27. ASSUME NEW c \in Configs, Backfill(c) PROVE TombstoneInv'
  <2>1. run'.stage \in {"backfill", "stream"} /\ run'.configs = run.configs
    BY <1>27, PastKeeps, StepKeeps DEF Backfill, InTurn
  <2>2. UNCHANGED <<row, barred>>
    BY <1>27 DEF Backfill, stateVars, history
  <2> QED
    BY <2>1, <2>2 DEF TombstoneInv, Applied
<1>28. ASSUME NEW c \in Configs, BackfillCompleted(c) PROVE TombstoneInv'
  BY <1>28, PastKeeps DEF BackfillCompleted, TombstoneInv, TypeOK, Applied, Marked, OnDisk,
     InTurn, fileVars, stateVars, history, budgets
<1>29. ASSUME NEW c \in Configs, Stream(c) PROVE TombstoneInv'
  BY <1>29, ConstantsMean DEF Stream, TombstoneInv, TypeOK, Applied, Marked, OnDisk, fileVars,
     stateVars, history, budgets
<1>30. CASE UNCHANGED vars
  BY <1>30 DEF TombstoneInv, TypeOK, Applied, Marked, OnDisk, vars, fileVars, stateVars,
     history, budgets
<1> QED
  BY <1>1, <1>2, <1>3, <1>4, <1>5, <1>6, <1>7, <1>8, <1>9, <1>10, <1>11, <1>12, <1>13, <1>14,
     <1>15, <1>16, <1>17, <1>18, <1>19, <1>20, <1>21, <1>22, <1>23, <1>24, <1>25, <1>26, <1>27,
     <1>28, <1>29, <1>30 DEF Next, User, Command, Run

(* TombstoneHolds of ConfigLifecycle holds in every state.                    *)
THEOREM TombstonedStaysOut == Spec => []TombstoneHolds
<1>1. Init => TombstoneInv
  BY ConstantsMean DEF Init, TombstoneInv
<1>2. TombstoneInv => TombstoneHolds
  BY DEF TombstoneInv, TombstoneHolds
<1> QED
  BY <1>1, <1>2, TombstoneStep, TypeCorrect, PTL DEF Spec

----------------------------------------------------------------------------
(* The slot and the backfills.                                                *)

(* Unless a reset was cut short or met a run, no run is alive between the     *)
(* drop of the slot and that of the state, and outside that window the        *)
(* completed backfills belong to the slot there is.                           *)
SlotInv ==
  /\ cmd.step \in {"drop", "schema", "files"} => cmd.op = "reset"
  /\ ~torn =>
       /\ cmd.step \in {"schema", "files"} => ~Alive
       /\ \A c \in Configs : progress[c].status = "completed" =>
            progress[c].slot # 0 /\ (progress[c].slot = slot \/ cmd.step = "schema")
       /\ run.stage \in {"identity", "backfill", "stream"} => slot # 0
       /\ run.stage \in {"backfill", "stream"} => run.slot = slot

(* Every step preserves SlotInv.                                              *)
LEMMA SlotStep == TypeOK /\ SlotInv /\ [Next]_vars => SlotInv'
<1> SUFFICES ASSUME TypeOK, SlotInv, [Next]_vars PROVE SlotInv'
  OBVIOUS
<1>1. ASSUME NEW c \in Configs, New(c) PROVE SlotInv'
  BY <1>1, DisturbKeeps DEF New, SlotInv, Alive, fileVars, stateVars, history, budgets
<1>2. ASSUME ChangePrefix PROVE SlotInv'
  BY <1>2 DEF ChangePrefix, SlotInv, Alive, fileVars, stateVars, history, budgets
<1>3. ASSUME CommandStops PROVE SlotInv'
  BY <1>3, ConstantsMean DEF CommandStops, SlotInv, Alive, fileVars, stateVars, history, budgets
<1>4. ASSUME ApplyBegin PROVE SlotInv'
  BY <1>4, EnterMeans DEF ApplyBegin, SlotInv, Alive, fileVars, stateVars, history, budgets
<1>5. ASSUME ApplyStep PROVE SlotInv'
  BY <1>5, GotoKeeps, ConstantsMean DEF ApplyStep, SlotInv, Alive, fileVars, stateVars, history,
     budgets
<1>6. ASSUME TombstoneRow PROVE SlotInv'
  BY <1>6, ConstantsMean DEF TombstoneRow, SlotInv, Alive, fileVars, stateVars, history, budgets
<1>7. ASSUME NEW S \in SUBSET Configs, RemoveBegin(S) PROVE SlotInv'
  BY <1>7, EnterMeans DEF RemoveBegin, SlotInv, Alive, fileVars, stateVars, history, budgets
<1>8. ASSUME ResetTerminate PROVE SlotInv'
  BY <1>8, EnterMeans, AttemptMeans DEF ResetTerminate, SlotInv, Alive, fileVars, stateVars,
     history, budgets
<1>9. ASSUME ResetDropSlot PROVE SlotInv'
  <2>1. UNCHANGED <<run, progress>> /\ torn' = (torn \/ Alive)
    BY <1>9 DEF ResetDropSlot, stateVars
  <2>2. CASE Alive
    BY <1>9, <2>1, <2>2, GotoKeeps, ConstantsMean DEF ResetDropSlot, SlotInv
  <2>3. CASE ~Alive
    <3>1. cmd'.step = "schema" /\ cmd'.op = "reset" /\ slot' = 0
      BY <1>9, <2>3, GotoKeeps DEF ResetDropSlot, SlotInv, Alive
    <3> QED
      BY <2>1, <2>3, <3>1 DEF SlotInv, Alive
  <2> QED
    BY <2>2, <2>3
<1>10. ASSUME ResetSchema PROVE SlotInv'
  <2>1. UNCHANGED <<run, slot>> /\ torn' = (torn \/ Alive)
    BY <1>10 DEF ResetSchema
  <2>2. \A c \in Configs : progress'[c].status = "none"
    BY <1>10, DeleteRowsMeans, ConstantsMean DEF ResetSchema
  <2>3. cmd'.step = "files" /\ cmd'.op = "reset"
    BY <1>10, GotoKeeps DEF ResetSchema, SlotInv
  <2> QED
    BY <2>1, <2>2, <2>3 DEF SlotInv, Alive
<1>11. ASSUME ResetFiles PROVE SlotInv'
  BY <1>11, ResetFilesShrinks, ConstantsMean DEF FilesShrink, SlotInv, Alive
<1>12. ASSUME NEW c \in Configs, TombstoneBegin(c) PROVE SlotInv'
  BY <1>12, EnterMeans DEF TombstoneBegin, SlotInv, Alive, fileVars, stateVars, history, budgets
<1>13. ASSUME NEW c \in Configs, RemoveLeftover(c) PROVE SlotInv'
  BY <1>13, EnterMeans DEF RemoveLeftover, SlotInv, Alive, fileVars, stateVars, history, budgets
<1>14. ASSUME NEW c \in Configs, RemoveNamespace(c) PROVE SlotInv'
  BY <1>14, GotoKeeps DEF RemoveNamespace, SlotInv, Alive, Saga, fileVars, stateVars, history,
     budgets
<1>15. ASSUME NEW c \in Configs, FindDir(c) PROVE SlotInv'
  BY <1>15, GotoKeeps, ConstantsMean DEF FindDir, SlotInv, Alive, Saga, fileVars, stateVars,
     history, budgets
<1>16. ASSUME NEW c \in Configs, RemoveDir(c) PROVE SlotInv'
  BY <1>16, RemoveDirShrinks, GotoKeeps, ConstantsMean DEF FilesShrink, RemoveDir, SlotInv, Alive, Saga
<1>17. ASSUME NEW c \in Configs, RemoveRow(c) PROVE SlotInv'
  BY <1>17, ConstantsMean, DeleteRowsMeans DEF RemoveRow, SlotInv, Alive, DeleteRows, Saga,
     fileVars, stateVars, history, budgets
<1>18. ASSUME RunStart PROVE SlotInv'
  BY <1>18, DisturbKeeps, AttemptMeans DEF RunStart, SlotInv, Alive, fileVars, stateVars,
     history, budgets
<1>19. ASSUME RunFails PROVE SlotInv'
  BY <1>19, AttemptMeans, ConstantsMean DEF RunFails, SlotInv, Alive, fileVars, stateVars,
     history, budgets
<1>20. ASSUME Reconcile PROVE SlotInv'
  BY <1>20, StageKeeps DEF Reconcile, SlotInv, Alive, TypeOK, fileVars, stateVars, history,
     budgets
<1>21. ASSUME Load PROVE SlotInv'
  BY <1>21 DEF Load, SlotInv, Alive, RunType, TypeOK, fileVars, stateVars, history, budgets
<1>22. ASSUME Verify PROVE SlotInv'
  BY <1>22, StageKeeps DEF Verify, SlotInv, Alive, TypeOK, fileVars, stateVars, history, budgets
<1>23. ASSUME EnsureSlot PROVE SlotInv'
  BY <1>23, StageKeeps, BoundsAreNat DEF EnsureSlot, SlotInv, Alive, TypeOK, fileVars,
     stateVars, history, budgets
<1>24. ASSUME EnsureIdentity PROVE SlotInv'
  BY <1>24 DEF EnsureIdentity, SlotInv, Alive, RunType, TypeOK, fileVars, stateVars, history,
     budgets
<1>25. ASSUME NEW c \in Configs, ReadPrefix(c) PROVE SlotInv'
  BY <1>25, PastKeeps, StepKeeps DEF ReadPrefix, SlotInv, Alive, InTurn, fileVars, stateVars,
     history, budgets
<1>26. ASSUME NEW c \in Configs, Rekey(c) PROVE SlotInv'
  <2>1. \A d \in Configs : progress'[d] = progress[d] \/ progress'[d].status = "none"
    BY <1>26, ResetProgressMeans DEF Rekey, TypeOK
  <2> QED
    BY <1>26, <2>1, PastKeeps, StepKeeps DEF Rekey, SlotInv, Alive, InTurn, fileVars, history,
       budgets
<1>27. ASSUME NEW c \in Configs, Backfill(c) PROVE SlotInv'
  <2>1. \A d \in Configs : /\ progress'[d].status = progress[d].status
                           /\ progress'[d].slot = progress[d].slot
    BY <1>27, BackfillProgress DEF Backfill, TypeOK
  <2> QED
    BY <1>27, <2>1, PastKeeps, StepKeeps DEF Backfill, SlotInv, Alive, InTurn, fileVars, history,
       budgets
<1>28. ASSUME NEW c \in Configs, BackfillCompleted(c) PROVE SlotInv'
  BY <1>28, PastKeeps DEF BackfillCompleted, SlotInv, Alive, InTurn, TypeOK, fileVars,
     stateVars, history, budgets
<1>29. ASSUME NEW c \in Configs, Stream(c) PROVE SlotInv'
  BY <1>29, ConstantsMean DEF Stream, SlotInv, Alive, fileVars, stateVars, history, budgets
<1>30. CASE UNCHANGED vars
  BY <1>30 DEF SlotInv, Alive, vars, fileVars, stateVars, history, budgets
<1> QED
  BY <1>1, <1>2, <1>3, <1>4, <1>5, <1>6, <1>7, <1>8, <1>9, <1>10, <1>11, <1>12, <1>13, <1>14,
     <1>15, <1>16, <1>17, <1>18, <1>19, <1>20, <1>21, <1>22, <1>23, <1>24, <1>25, <1>26, <1>27,
     <1>28, <1>29, <1>30 DEF Next, User, Command, Run

(* SlotCoversBackfill of ConfigLifecycle holds in every state.                *)
THEOREM SlotPrecedesBackfills == Spec => []SlotCoversBackfill
<1>1. Init => SlotInv
  BY ConstantsMean DEF Init, SlotInv, Alive
<1>2. TypeOK /\ SlotInv => SlotCoversBackfill
  BY DEF TypeOK, RunType, SlotInv, SlotCoversBackfill, Alive
<1> QED
  BY <1>1, <1>2, SlotStep, TypeCorrect, PTL DEF Spec

----------------------------------------------------------------------------
(* Removing a config.                                                         *)

(* Only the directory that a remove is in, and those that were so when it was *)
(* entered, are without a config.toml.                                        *)
PartialInv ==
  cmd.op = "remove" =>
    \A c \in cmd.configs : dir[c] = "partial" =>
      \/ c \in cmd.cut
      \/ cmd.step \in {"rmdir", "leftover"} /\ \A d \in cmd.configs : c <= d

(* While nothing disturbs a remove, no run is alive, it knows the prefix of   *)
(* every row that has one, and what it is past with its first config is gone. *)
RemoveInv ==
  cmd.op = "remove" /\ ~cmd.disturbed =>
    /\ ~Alive
    /\ \A c \in cmd.configs : row[c].prefix > 0 => cmd.into[c] = row[c].prefix
    /\ \A c \in cmd.configs : (\A d \in cmd.configs : c <= d) =>
         /\ cmd.step \in {"dir", "rmdir", "row"} => docs[c][cmd.into[c]] = "none"
         /\ cmd.step = "row" => dir[c] = "absent" \/ c \in cmd.cut

(* The saga moves on to the other configs.                                    *)
LEMMA NextConfig ==
  ASSUME TypeOK, NEW S, cmd' = [cmd EXCEPT !.step = "namespace", !.configs = cmd.configs \ S]
  PROVE  /\ cmd'.step = "namespace" /\ cmd'.configs \subseteq cmd.configs
         /\ cmd'.configs \cap S = {} /\ cmd'.op = cmd.op
         /\ cmd'.into = cmd.into /\ cmd'.disturbed = cmd.disturbed /\ cmd'.cut = cmd.cut
  BY DEF TypeOK, CmdType

(* The saga works on one config at a time.                                    *)
LEMMA OneAtATime ==
  ASSUME TypeOK, NEW c \in Configs, NEW step, Saga(c, step)
  PROVE  /\ cmd.op = "remove" /\ cmd.step = step /\ c \in cmd.configs
         /\ \A e \in cmd.configs : (\A d \in cmd.configs : e <= d) => e = c
<1>1. cmd.configs \subseteq Nat
  BY BoundsAreNat DEF TypeOK, CmdType
<1> QED
  BY <1>1 DEF Saga

(* The run touches neither the directories nor the command, `new` and a run   *)
(* that starts only to disturb a remove.                                      *)
LEMMA RunKeepsFiles ==
  ASSUME Run PROVE UNCHANGED dir /\ (Disturb \/ UNCHANGED cmd)
<1>1. ASSUME NEW c \in Configs, ReadPrefix(c) \/ Rekey(c) PROVE UNCHANGED <<dir, cmd>>
  BY <1>1 DEF ReadPrefix, Rekey, fileVars
<1>2. ASSUME NEW c \in Configs, Backfill(c) \/ BackfillCompleted(c) \/ Stream(c)
      PROVE  UNCHANGED <<dir, cmd>>
  BY <1>2 DEF Backfill, BackfillCompleted, Stream, fileVars
<1>3. CASE RunStart
  BY <1>3 DEF RunStart, fileVars
<1>4. CASE RunFails \/ Reconcile \/ Load
  BY <1>4 DEF RunFails, Reconcile, Load, fileVars
<1>5. CASE Verify \/ EnsureSlot \/ EnsureIdentity
  BY <1>5 DEF Verify, EnsureSlot, EnsureIdentity, fileVars
<1> QED
  BY <1>1, <1>2, <1>3, <1>4, <1>5 DEF Run

(* Every step preserves PartialInv.                                           *)
LEMMA PartialStep == TypeOK /\ SlotInv /\ PartialInv /\ [Next]_vars => PartialInv'
<1> SUFFICES ASSUME TypeOK, SlotInv, PartialInv, [Next]_vars PROVE PartialInv'
  OBVIOUS
<1> DEFINE SameCommand ==
      cmd'.op = cmd.op /\ cmd'.step = cmd.step /\ cmd'.configs = cmd.configs /\ cmd'.cut = cmd.cut
<1>1. ASSUME NEW c \in Configs, New(c) PROVE PartialInv'
  <2>1. SameCommand /\ \A d \in Configs : dir'[d] = "partial" => dir[d] = "partial"
    BY <1>1, DisturbKeeps DEF New, TypeOK
  <2>2. cmd.configs \subseteq Configs
    BY DEF TypeOK, CmdType
  <2> QED
    BY <2>1, <2>2 DEF PartialInv
<1>2. CASE Run
  BY <1>2, RunKeepsFiles, DisturbKeeps DEF PartialInv
<1>3. CASE cmd' = Idle
  BY <1>3, ConstantsMean DEF PartialInv
<1>4. ASSUME NEW S \in SUBSET Configs, RemoveBegin(S) PROVE PartialInv'
  <2>1. cmd'.configs = S /\ cmd'.cut = {c \in Configs : dir[c] = "partial"} /\ UNCHANGED dir
    BY <1>4, EnterMeans DEF RemoveBegin, fileVars
  <2> QED
    BY <2>1 DEF PartialInv
<1>5. ASSUME NEW c \in Configs, RemoveLeftover(c) PROVE PartialInv'
  <2>1. cmd'.configs = {c} /\ cmd'.cut = {d \in Configs : dir[d] = "partial"} /\ UNCHANGED dir
    BY <1>5, EnterMeans DEF RemoveLeftover, fileVars
  <2> QED
    BY <2>1 DEF PartialInv
<1>6. ASSUME cmd'.op \in {"apply", "tombstone", "reset"} PROVE PartialInv'
  BY <1>6 DEF PartialInv
<1>7. ASSUME NEW c \in Configs, RemoveNamespace(c) \/ FindDir(c), cmd' # Idle PROVE PartialInv'
  <2>1. /\ cmd'.configs = cmd.configs /\ cmd'.cut = cmd.cut /\ cmd'.op = cmd.op /\ UNCHANGED dir
    BY <1>7, GotoKeeps DEF RemoveNamespace, FindDir, fileVars
  <2>2. cmd.step \in {"namespace", "dir"}
    BY <1>7 DEF RemoveNamespace, FindDir, Saga
  <2> QED
    BY <2>1, <2>2 DEF PartialInv
<1>8. ASSUME NEW c \in Configs, RemoveDir(c), cmd' # Idle PROVE PartialInv'
  <2>1. \A d \in Configs \ {c} : dir'[d] = dir[d]
    BY <1>8, RemoveDirShrinks
  <2>2. /\ cmd.op = "remove" /\ cmd.step \in {"rmdir", "leftover"} /\ cmd.configs \subseteq Configs
        /\ \A d \in cmd.configs : c <= d
        /\ \A e \in cmd.configs : (\A d \in cmd.configs : e <= d) => e = c
    BY <1>8, OneAtATime DEF RemoveDir, Saga, TypeOK, CmdType
  <2>3. CASE UNCHANGED cmd
    BY <2>1, <2>2, <2>3 DEF PartialInv
  <2>4. CASE dir'[c] = "absent" /\ Goto("row")
    <3>1. cmd'.configs = cmd.configs /\ cmd'.cut = cmd.cut /\ cmd'.op = cmd.op
      BY <2>4, GotoKeeps
    <3> QED
      BY <2>1, <2>2, <2>4, <3>1 DEF PartialInv
  <2> QED
    BY <1>8, <2>3, <2>4 DEF RemoveDir
<1>9. ASSUME NEW c \in Configs, RemoveRow(c), cmd' # Idle PROVE PartialInv'
  <2>1. cmd'.configs \subseteq cmd.configs /\ cmd'.cut = cmd.cut /\ cmd'.op = cmd.op /\ UNCHANGED dir
    BY <1>9, NextConfig DEF RemoveRow
  <2>2. cmd.step = "row"
    BY <1>9 DEF RemoveRow, Saga
  <2> QED
    BY <2>1, <2>2 DEF PartialInv
<1>10. CASE UNCHANGED <<dir, cmd>>
  BY <1>10 DEF PartialInv
<1>11. CASE ApplyBegin
  BY <1>10, <1>11, <1>6, EnterMeans DEF ApplyBegin, fileVars
<1>12. CASE ApplyStep
  BY <1>12, <1>3, <1>6, GotoKeeps DEF ApplyStep
<1>13. ASSUME NEW c \in Configs, TombstoneBegin(c) PROVE PartialInv'
  BY <1>13, <1>6, EnterMeans DEF TombstoneBegin
<1>14. CASE ResetTerminate
  BY <1>14, <1>6, EnterMeans DEF ResetTerminate
<1>15. CASE ResetDropSlot \/ ResetSchema
  BY <1>15, <1>3, <1>6, GotoKeeps DEF ResetDropSlot, ResetSchema, SlotInv
<1>16. CASE ResetFiles
  BY <1>16, <1>3, <1>6, ResetFilesShrinks DEF SlotInv
<1>17. CASE ChangePrefix \/ UNCHANGED vars
  BY <1>17, <1>10 DEF ChangePrefix, vars, fileVars
<1>18. CASE CommandStops \/ TombstoneRow
  BY <1>18, <1>3 DEF CommandStops, TombstoneRow
<1> QED
  BY <1>1, <1>2, <1>3, <1>4, <1>5, <1>7, <1>8, <1>9, <1>11, <1>12, <1>13, <1>14, <1>15, <1>16,
     <1>17, <1>18 DEF Next, User, Command

(* Every step preserves RemoveInv.                                            *)
LEMMA RemoveStep == TypeOK /\ SlotInv /\ PartialInv /\ RemoveInv /\ [Next]_vars => RemoveInv'
<1> SUFFICES ASSUME TypeOK, SlotInv, PartialInv, RemoveInv, [Next]_vars PROVE RemoveInv'
  OBVIOUS
<1>1. ASSUME NEW c \in Configs, New(c) PROVE RemoveInv'
  BY <1>1, DisturbKeeps DEF New, RemoveInv, Alive, fileVars, stateVars, history, budgets
<1>2. ASSUME ChangePrefix PROVE RemoveInv'
  BY <1>2 DEF ChangePrefix, RemoveInv, Alive, fileVars, stateVars, history, budgets
<1>3. ASSUME CommandStops PROVE RemoveInv'
  BY <1>3, ConstantsMean DEF CommandStops, RemoveInv, Alive, fileVars, stateVars, history,
     budgets
<1>4. ASSUME ApplyBegin PROVE RemoveInv'
  BY <1>4, EnterMeans DEF ApplyBegin, RemoveInv, Alive, fileVars, stateVars, history, budgets
<1>5. ASSUME ApplyStep PROVE RemoveInv'
  BY <1>5, GotoKeeps, ConstantsMean DEF ApplyStep, RemoveInv, Alive, fileVars, stateVars,
     history, budgets
<1>6. ASSUME TombstoneRow PROVE RemoveInv'
  BY <1>6, ConstantsMean DEF TombstoneRow, RemoveInv, Alive, fileVars, stateVars, history,
     budgets
<1>7. ASSUME NEW S \in SUBSET Configs, RemoveBegin(S) PROVE RemoveInv'
  BY <1>7, EnterMeans DEF RemoveBegin, RemoveInv, Alive, NamespaceOf, fileVars, stateVars,
     history, budgets
<1>8. ASSUME ResetTerminate PROVE RemoveInv'
  BY <1>8, EnterMeans DEF ResetTerminate, RemoveInv, Alive, fileVars, stateVars, history,
     budgets
<1>9. ASSUME ResetDropSlot PROVE RemoveInv'
  BY <1>9, GotoKeeps, ConstantsMean DEF ResetDropSlot, RemoveInv, Alive, SlotInv, fileVars,
     stateVars, history, budgets
<1>10. ASSUME ResetSchema PROVE RemoveInv'
  BY <1>10, GotoKeeps DEF ResetSchema, RemoveInv, Alive, SlotInv, fileVars, stateVars, history,
     budgets
<1>11. ASSUME ResetFiles PROVE RemoveInv'
  BY <1>11, ResetFilesShrinks, ConstantsMean DEF RemoveInv, SlotInv
<1>12. ASSUME NEW c \in Configs, TombstoneBegin(c) PROVE RemoveInv'
  BY <1>12, EnterMeans DEF TombstoneBegin, RemoveInv, Alive, fileVars, stateVars, history,
     budgets
<1>13. ASSUME NEW c \in Configs, RemoveLeftover(c) PROVE RemoveInv'
  BY <1>13, EnterMeans DEF RemoveLeftover, RemoveInv, Alive, NamespaceOf, fileVars, stateVars,
     history, budgets
<1>14. ASSUME NEW c \in Configs, RemoveNamespace(c) PROVE RemoveInv'
  <2>1. /\ cmd'.op = cmd.op /\ cmd'.step = "dir" /\ cmd'.configs = cmd.configs
        /\ cmd'.into = cmd.into /\ cmd'.disturbed = cmd.disturbed
    BY <1>14, GotoKeeps DEF RemoveNamespace
  <2>2. UNCHANGED <<run, row>>
    BY <1>14 DEF RemoveNamespace, stateVars
  <2>3. docs'[c][cmd.into[c]] = "none"
    BY <1>14 DEF RemoveNamespace, TypeOK, CmdType
  <2>4. \A e \in cmd.configs : (\A d \in cmd.configs : e <= d) => e = c
    BY <1>14, OneAtATime DEF RemoveNamespace
  <2> QED
    BY <2>1, <2>2, <2>3, <2>4 DEF RemoveInv, Alive
<1>15. ASSUME NEW c \in Configs, FindDir(c) PROVE RemoveInv'
  <2>1. CASE cmd' = Idle
    BY <2>1, ConstantsMean DEF RemoveInv
  <2>2. CASE cmd' # Idle
    <3>1. /\ cmd'.op = cmd.op /\ cmd'.configs = cmd.configs
          /\ cmd'.into = cmd.into /\ cmd'.disturbed = cmd.disturbed /\ cmd'.cut = cmd.cut
      BY <1>15, <2>2, GotoKeeps DEF FindDir
    <3>2. /\ cmd.step = "dir" /\ c \in cmd.configs /\ cmd.op = "remove"
          /\ \A e \in cmd.configs : (\A d \in cmd.configs : e <= d) => e = c
      BY <1>15, OneAtATime DEF FindDir
    <3>3. cmd'.step = "row" => dir[c] \in {"absent", "partial"}
      BY <1>15, <2>2, GotoKeeps DEF FindDir, OnDisk, TypeOK
    <3>5. dir[c] = "partial" => c \in cmd.cut
      BY <3>2 DEF PartialInv
    <3>4. UNCHANGED <<run, row, docs, dir>>
      BY <1>15 DEF FindDir, stateVars, fileVars
    <3> QED
      BY <3>1, <3>2, <3>3, <3>4, <3>5 DEF RemoveInv, Alive
  <2> QED
    BY <2>1, <2>2
<1>16. ASSUME NEW c \in Configs, RemoveDir(c) PROVE RemoveInv'
  <2>1. UNCHANGED <<run, row, docs>>
    BY <1>16, RemoveDirShrinks DEF FilesShrink
  <2>2. \A e \in cmd.configs : (\A d \in cmd.configs : e <= d) => e = c
    BY <1>16, OneAtATime DEF RemoveDir
  <2>3. cmd.step \in {"rmdir", "leftover"}
    BY <1>16, OneAtATime DEF RemoveDir
  <2>4. CASE UNCHANGED cmd
    BY <2>1, <2>3, <2>4 DEF RemoveInv, Alive
  <2>5. CASE cmd' = Idle
    BY <2>5, ConstantsMean DEF RemoveInv
  <2>6. CASE dir'[c] = "absent" /\ cmd.step = "rmdir" /\ Goto("row")
    <3>1. /\ cmd'.op = cmd.op /\ cmd'.configs = cmd.configs /\ cmd'.step = "row"
          /\ cmd'.into = cmd.into /\ cmd'.disturbed = cmd.disturbed
      BY <2>6, GotoKeeps
    <3> QED
      BY <2>1, <2>2, <2>6, <3>1 DEF RemoveInv, Alive
  <2> QED
    BY <1>16, <2>4, <2>5, <2>6 DEF RemoveDir
<1>17. ASSUME NEW c \in Configs, RemoveRow(c) PROVE RemoveInv'
  <2>1. CASE cmd' = Idle
    BY <2>1, ConstantsMean DEF RemoveInv
  <2>2. CASE cmd' # Idle
    <3>1. /\ cmd'.step = "namespace" /\ cmd'.configs \subseteq cmd.configs \ {c}
          /\ cmd'.op = cmd.op /\ cmd'.into = cmd.into /\ cmd'.disturbed = cmd.disturbed
      BY <1>17, <2>2, NextConfig DEF RemoveRow
    <3>2. UNCHANGED run /\ \A d \in Configs \ {c} : row'[d] = row[d]
      BY <1>17, DeleteRowsMeans DEF RemoveRow
    <3>3. cmd.configs \subseteq Configs
      BY DEF TypeOK, CmdType
    <3> QED
      BY <3>1, <3>2, <3>3 DEF RemoveInv, Alive
  <2> QED
    BY <2>1, <2>2
<1>18. ASSUME RunStart PROVE RemoveInv'
  BY <1>18, DisturbKeeps DEF RunStart, RemoveInv, Alive, fileVars, stateVars, history, budgets
<1>19. ASSUME RunFails PROVE RemoveInv'
  BY <1>19 DEF RunFails, RemoveInv, Alive, fileVars, stateVars, history, budgets
<1>20. ASSUME Reconcile PROVE RemoveInv'
  BY <1>20 DEF Reconcile, RemoveInv, Alive, fileVars, stateVars, history, budgets
<1>21. ASSUME Load PROVE RemoveInv'
  BY <1>21 DEF Load, RemoveInv, Alive, fileVars, stateVars, history, budgets
<1>22. ASSUME Verify PROVE RemoveInv'
  BY <1>22 DEF Verify, RemoveInv, Alive, fileVars, stateVars, history, budgets
<1>23. ASSUME EnsureSlot PROVE RemoveInv'
  BY <1>23 DEF EnsureSlot, RemoveInv, Alive, fileVars, stateVars, history, budgets
<1>24. ASSUME EnsureIdentity PROVE RemoveInv'
  BY <1>24 DEF EnsureIdentity, RemoveInv, Alive, fileVars, stateVars, history, budgets
<1>25. ASSUME NEW c \in Configs, ReadPrefix(c) PROVE RemoveInv'
  BY <1>25 DEF ReadPrefix, RemoveInv, Alive, InTurn, fileVars, stateVars, history, budgets
<1>26. ASSUME NEW c \in Configs, Rekey(c) PROVE RemoveInv'
  BY <1>26 DEF Rekey, RemoveInv, Alive, InTurn, fileVars, stateVars, history, budgets
<1>27. ASSUME NEW c \in Configs, Backfill(c) PROVE RemoveInv'
  BY <1>27 DEF Backfill, RemoveInv, Alive, InTurn, fileVars, stateVars, history, budgets
<1>28. ASSUME NEW c \in Configs, BackfillCompleted(c) PROVE RemoveInv'
  BY <1>28 DEF BackfillCompleted, RemoveInv, Alive, InTurn, fileVars, stateVars, history,
     budgets
<1>29. ASSUME NEW c \in Configs, Stream(c) PROVE RemoveInv'
  BY <1>29 DEF Stream, RemoveInv, Alive, fileVars, stateVars, history, budgets
<1>30. CASE UNCHANGED vars
  BY <1>30 DEF RemoveInv, Alive, vars, fileVars, stateVars, history, budgets
<1> QED
  BY <1>1, <1>2, <1>3, <1>4, <1>5, <1>6, <1>7, <1>8, <1>9, <1>10, <1>11, <1>12, <1>13, <1>14,
     <1>15, <1>16, <1>17, <1>18, <1>19, <1>20, <1>21, <1>22, <1>23, <1>24, <1>25, <1>26, <1>27,
     <1>28, <1>29, <1>30 DEF Next, User, Command, Run

(* RemoveCommitsLast, of one config and one step.                             *)
RowGoesLast(c) ==
  cmd.op = "remove" /\ row[c].applied /\ ~row'[c].applied /\ ~cmd.disturbed
  => /\ dir[c] = "absent" \/ c \in cmd.cut
     /\ row[c].prefix > 0 \/ row[c].prefix = cmd.into[c] => docs[c][row[c].prefix] = "none"

(* Every step that removes a row does so last.                                *)
LEMMA RowGoesLastStep ==
  ASSUME TypeOK, SlotInv, RemoveInv, [Next]_vars, NEW k \in Configs PROVE RowGoesLast(k)
<1>1. ASSUME NEW c \in Configs, New(c) PROVE RowGoesLast(k)
  BY <1>1 DEF New, RowGoesLast, fileVars, stateVars, history, budgets
<1>2. ASSUME ChangePrefix PROVE RowGoesLast(k)
  BY <1>2 DEF ChangePrefix, RowGoesLast, fileVars, stateVars, history, budgets
<1>3. ASSUME CommandStops PROVE RowGoesLast(k)
  BY <1>3 DEF CommandStops, RowGoesLast, fileVars, stateVars, history, budgets
<1>4. ASSUME ApplyBegin PROVE RowGoesLast(k)
  BY <1>4, TombstonedKeeps DEF ApplyBegin, RowGoesLast, Reconciled, fileVars, stateVars,
     history, budgets
<1>5. ASSUME ApplyStep PROVE RowGoesLast(k)
  BY <1>5 DEF ApplyStep, RowGoesLast, fileVars, stateVars, history, budgets
<1>6. ASSUME TombstoneRow PROVE RowGoesLast(k)
  BY <1>6 DEF TombstoneRow, RowGoesLast, fileVars, stateVars, history, budgets
<1>7. ASSUME NEW S \in SUBSET Configs, RemoveBegin(S) PROVE RowGoesLast(k)
  BY <1>7 DEF RemoveBegin, RowGoesLast, fileVars, stateVars, history, budgets
<1>8. ASSUME ResetTerminate PROVE RowGoesLast(k)
  BY <1>8 DEF ResetTerminate, RowGoesLast, fileVars, stateVars, history, budgets
<1>9. ASSUME ResetDropSlot PROVE RowGoesLast(k)
  BY <1>9 DEF ResetDropSlot, RowGoesLast, fileVars, stateVars, history, budgets
<1>10. ASSUME ResetSchema PROVE RowGoesLast(k)
  BY <1>10 DEF ResetSchema, RowGoesLast, SlotInv, fileVars, stateVars, history, budgets
<1>11. ASSUME ResetFiles PROVE RowGoesLast(k)
  BY <1>11, ResetFilesShrinks DEF FilesShrink, RowGoesLast
<1>12. ASSUME NEW c \in Configs, TombstoneBegin(c) PROVE RowGoesLast(k)
  BY <1>12 DEF TombstoneBegin, RowGoesLast, fileVars, stateVars, history, budgets
<1>13. ASSUME NEW c \in Configs, RemoveLeftover(c) PROVE RowGoesLast(k)
  BY <1>13 DEF RemoveLeftover, RowGoesLast, fileVars, stateVars, history, budgets
<1>14. ASSUME NEW c \in Configs, RemoveNamespace(c) PROVE RowGoesLast(k)
  BY <1>14 DEF RemoveNamespace, RowGoesLast, fileVars, stateVars, history, budgets
<1>15. ASSUME NEW c \in Configs, FindDir(c) PROVE RowGoesLast(k)
  BY <1>15 DEF FindDir, RowGoesLast, fileVars, stateVars, history, budgets
<1>16. ASSUME NEW c \in Configs, RemoveDir(c) PROVE RowGoesLast(k)
  BY <1>16, RemoveDirShrinks DEF FilesShrink, RowGoesLast
<1>17. ASSUME NEW c \in Configs, RemoveRow(c) PROVE RowGoesLast(k)
  <2> SUFFICES ASSUME row[k].applied, ~row'[k].applied, ~cmd.disturbed, cmd.op = "remove"
               PROVE  /\ dir[k] = "absent" \/ k \in cmd.cut
                      /\ row[k].prefix > 0 \/ row[k].prefix = cmd.into[k]
                         => docs[k][row[k].prefix] = "none"
    BY DEF RowGoesLast
  <2>1. k = c
    BY <1>17, DeleteRowsMeans DEF RemoveRow
  <2>2. cmd.step = "row" /\ c \in cmd.configs /\ \A d \in cmd.configs : c <= d
    BY <1>17 DEF RemoveRow, Saga
  <2>3. (dir[c] = "absent" \/ c \in cmd.cut) /\ docs[c][cmd.into[c]] = "none"
    BY <2>2 DEF RemoveInv
  <2>4. row[c].prefix > 0 => cmd.into[c] = row[c].prefix
    BY <2>2 DEF RemoveInv
  <2> QED
    BY <2>1, <2>3, <2>4
<1>18. ASSUME RunStart PROVE RowGoesLast(k)
  BY <1>18 DEF RunStart, RowGoesLast, fileVars, stateVars, history, budgets
<1>19. ASSUME RunFails PROVE RowGoesLast(k)
  BY <1>19 DEF RunFails, RowGoesLast, fileVars, stateVars, history, budgets
<1>20. ASSUME Reconcile PROVE RowGoesLast(k)
  BY <1>20, TombstonedKeeps DEF Reconcile, RowGoesLast, Reconciled, fileVars, stateVars,
     history, budgets
<1>21. ASSUME Load PROVE RowGoesLast(k)
  BY <1>21 DEF Load, RowGoesLast, fileVars, stateVars, history, budgets
<1>22. ASSUME Verify PROVE RowGoesLast(k)
  BY <1>22 DEF Verify, RowGoesLast, fileVars, stateVars, history, budgets
<1>23. ASSUME EnsureSlot PROVE RowGoesLast(k)
  BY <1>23 DEF EnsureSlot, RowGoesLast, fileVars, stateVars, history, budgets
<1>24. ASSUME EnsureIdentity PROVE RowGoesLast(k)
  BY <1>24 DEF EnsureIdentity, RowGoesLast, fileVars, stateVars, history, budgets
<1>25. ASSUME NEW c \in Configs, ReadPrefix(c) PROVE RowGoesLast(k)
  BY <1>25, StorePrefixKeeps DEF ReadPrefix, RowGoesLast, fileVars, stateVars, history, budgets
<1>26. ASSUME NEW c \in Configs, Rekey(c) PROVE RowGoesLast(k)
  BY <1>26, StorePrefixKeeps DEF Rekey, RowGoesLast, fileVars, stateVars, history, budgets
<1>27. ASSUME NEW c \in Configs, Backfill(c) PROVE RowGoesLast(k)
  BY <1>27 DEF Backfill, RowGoesLast, fileVars, stateVars, history, budgets
<1>28. ASSUME NEW c \in Configs, BackfillCompleted(c) PROVE RowGoesLast(k)
  BY <1>28 DEF BackfillCompleted, RowGoesLast, fileVars, stateVars, history, budgets
<1>29. ASSUME NEW c \in Configs, Stream(c) PROVE RowGoesLast(k)
  BY <1>29 DEF Stream, RowGoesLast, fileVars, stateVars, history, budgets
<1>30. CASE UNCHANGED vars
  BY <1>30 DEF RowGoesLast, vars, fileVars, stateVars, history, budgets
<1> QED
  BY <1>1, <1>2, <1>3, <1>4, <1>5, <1>6, <1>7, <1>8, <1>9, <1>10, <1>11, <1>12, <1>13, <1>14,
     <1>15, <1>16, <1>17, <1>18, <1>19, <1>20, <1>21, <1>22, <1>23, <1>24, <1>25, <1>26, <1>27,
     <1>28, <1>29, <1>30 DEF Next, User, Command, Run

(* RemoveCommitsLast of ConfigLifecycle holds of every step.                  *)
THEOREM RowIsRemovedLast == Spec => RemoveCommitsLast
<1>1. Init => SlotInv /\ PartialInv /\ RemoveInv
  BY ConstantsMean DEF Init, SlotInv, PartialInv, RemoveInv, Alive
<1>2. TypeOK /\ SlotInv /\ RemoveInv /\ [Next]_vars => \A c \in Configs : RowGoesLast(c)
  BY RowGoesLastStep
<1>3. Spec => [][\A c \in Configs : RowGoesLast(c)]_vars
  BY <1>1, <1>2, SlotStep, PartialStep, RemoveStep, TypeCorrect, PTL DEF Spec
<1> QED
  BY <1>3 DEF RemoveCommitsLast, RowGoesLast

----------------------------------------------------------------------------
(* Re-keying and backfilling.                                                 *)

(* Nothing is recorded of the config.                                         *)
Clean(c) ==
  progress[c].status = "none" /\ checkpoint[c] = Unset /\ letters[c] = Unset

(* A backfill has been through the namespace, behind an old cursor maybe.     *)
Copied(c, p) == docs[c][p] = "all" \/ progress[c].cursor = "old"

(* Whatever is recorded of the config is of the prefix in its row.            *)
Recorded(c) ==
  /\ checkpoint[c] \in {Unset, row[c].prefix} /\ letters[c] \in {Unset, row[c].prefix}
  /\ progress[c].status = "completed" =>
       row[c].prefix # Unset /\ Copied(c, row[c].prefix)

First(c) == c \in run.todo /\ \A d \in run.todo : c <= d

(* What the run has done for the config so far.                               *)
Prepared(c) ==
  /\ run.stage \in {"verify", "slot", "identity", "backfill", "stream"} =>
       row[c].prefix = run.prefix
  /\ run.stage = "rekey" /\ c \notin run.todo => row[c].prefix = run.prefix
  /\ run.stage = "rekey" /\ First(c) =>
       /\ run.step \in {"letters", "progress", "prefix"} => checkpoint[c] = Unset
       /\ run.step \in {"progress", "prefix"} => letters[c] = Unset
       /\ run.step = "prefix" => progress[c].status = "none"
  /\ run.stage = "stream" => Copied(c, run.prefix)
  /\ run.stage = "backfill" /\ c \notin run.todo => Copied(c, run.prefix)
  /\ run.stage = "backfill" /\ First(c) /\ run.step = "record" => Copied(c, run.prefix)

(* Configs a remove or a reset has begun on are left out; a run only has      *)
(* such configs besides applied ones.                                         *)
StreamInv ==
  /\ run.stage \in {"down", "reconcile", "load"} => run.configs = {}
  /\ run.todo \subseteq run.configs /\ run.configs \subseteq Applied \cup loose
  /\ \A c \in Configs \ Applied : Clean(c)
  /\ \A c \in Applied \ loose : Recorded(c)
  /\ \A c \in run.configs \ loose : Prepared(c)

(* The loop of a stage leaves one config behind.                              *)
LEMMA PastMoves ==
  ASSUME TypeOK, NEW c, NEW first, NEW next, Past(c, first, next)
  PROVE  /\ run'.todo = run.todo \ {c} /\ run'.prefix = run.prefix /\ run'.configs = run.configs
         /\ \/ run.todo = {c} /\ run'.stage = next /\ run'.step = "none"
            \/ run.todo # {c} /\ run'.stage = run.stage /\ run'.step = first
<1>1. CASE run.todo = {c}
  BY <1>1 DEF TypeOK, RunType, Past
<1>2. CASE run.todo # {c}
  BY <1>2 DEF TypeOK, RunType, Past
<1> QED
  BY <1>1, <1>2

(* Only one config is the first of those to do.                               *)
LEMMA InTurnMeans ==
  ASSUME TypeOK, NEW c \in Configs, NEW stage, NEW step, InTurn(c, stage, step)
  PROVE  /\ run.stage = stage /\ run.step = step /\ First(c) /\ c \in Applied
         /\ \A d \in Configs : First(d) => d = c
<1>1. run.todo \subseteq Nat
  BY BoundsAreNat DEF TypeOK, RunType
<1> QED
  BY <1>1 DEF InTurn, First, Applied

(* set_namespace_prefix gives one row the run's prefix.                       *)
LEMMA StorePrefixMeans ==
  ASSUME TypeOK, NEW c \in Configs, StorePrefix(c)
  PROVE  /\ row'[c].prefix = run.prefix
         /\ \A d \in Configs \ {c} : row'[d] = row[d]
         /\ Applied' = Applied
<1>1. row'[c] = [row[c] EXCEPT !.prefix = run.prefix] /\ row[c] \in RowType
  BY DEF TypeOK, StorePrefix
<1>2. row'[c].prefix = run.prefix
  BY <1>1 DEF RowType
<1>3. \A d \in Configs \ {c} : row'[d] = row[d]
  BY DEF TypeOK, StorePrefix
<1>4. \A d \in Configs : row'[d].applied = row[d].applied
  BY StorePrefixKeeps
<1> QED
  BY <1>2, <1>3, <1>4 DEF Applied

(* Every step preserves StreamInv.                                            *)
LEMMA StreamStep == TypeOK /\ StreamInv /\ [Next]_vars => StreamInv'
<1> SUFFICES ASSUME TypeOK, StreamInv, [Next]_vars PROVE StreamInv'
  OBVIOUS
<1>1. ASSUME NEW c \in Configs, New(c) PROVE StreamInv'
  BY <1>1 DEF New, StreamInv, TypeOK, Applied, Clean, Recorded, Copied, Prepared, First, fileVars,
     stateVars, history, budgets
<1>2. ASSUME ChangePrefix PROVE StreamInv'
  BY <1>2 DEF ChangePrefix, StreamInv, TypeOK, Applied, Clean, Recorded, Copied, Prepared, First,
     fileVars, stateVars, history, budgets
<1>3. ASSUME CommandStops PROVE StreamInv'
  BY <1>3 DEF CommandStops, StreamInv, TypeOK, Applied, Clean, Recorded, Copied, Prepared, First,
     fileVars, stateVars, history, budgets
<1>4. ASSUME ApplyBegin PROVE StreamInv'
  <2>1. \A c \in Configs : row'[c].applied = row[c].applied
    BY <1>4, TombstonedKeeps DEF ApplyBegin, Reconciled
  <2>2. \A c \in Configs : row'[c].prefix = row[c].prefix
    BY <1>4, TombstonedKeeps DEF ApplyBegin, Reconciled
  <2>3. Applied' = Applied
    BY <2>1 DEF Applied
  <2>4. UNCHANGED <<run, progress, checkpoint, letters, docs, loose>>
    BY <1>4 DEF ApplyBegin, history
  <2>5. \A c \in Configs \ Applied : Clean(c)'
    BY <2>4 DEF StreamInv, Clean
  <2>6. \A c \in Applied \ loose : Recorded(c)'
    BY <2>2, <2>4 DEF StreamInv, Recorded, Copied, Applied
  <2>7. ASSUME NEW c \in run.configs \ loose PROVE Prepared(c)'
    <3>1. Prepared(c) /\ row'[c].prefix = row[c].prefix
      BY <2>2, <2>7 DEF StreamInv, TypeOK, RunType
    <3> QED
      BY <2>4, <3>1 DEF Prepared, Copied, First
  <2> QED
    BY <2>3, <2>4, <2>5, <2>6, <2>7 DEF StreamInv
<1>5. ASSUME ApplyStep PROVE StreamInv'
  <2>1. UNCHANGED <<run, progress, checkpoint, letters, docs>>
    BY <1>5 DEF ApplyStep
  <2>2. CASE UNCHANGED <<row, loose>>
    BY <2>1, <2>2 DEF StreamInv, Applied, Clean, Recorded, Copied, Prepared, First
  <2>3. CASE cmd.configs \cap Applied = {} /\ InsertConfigs
    <3>1. cmd.configs \subseteq Configs
      BY DEF TypeOK, CmdType
    <3>2. \A c \in Configs :
            row'[c] = IF c \in cmd.configs THEN [NoRow EXCEPT !.applied = TRUE] ELSE row[c]
      BY <2>3 DEF InsertConfigs
    <3>3. \A c \in cmd.configs : row'[c].applied /\ row'[c].prefix = Unset
      BY <3>1, <3>2 DEF NoRow
    <3>4. Applied' = Applied \cup cmd.configs
      BY <3>1, <3>2, <3>3 DEF Applied
    <3>5. loose' = IF Alive THEN loose ELSE loose \ cmd.configs
      BY <2>3 DEF InsertConfigs
    <3>6. \A c \in Configs \ Applied' : Clean(c)'
      BY <2>1, <3>4 DEF StreamInv, Clean
    <3>7. ASSUME NEW c \in Applied' \ loose' PROVE Recorded(c)'
      <4>1. CASE c \in cmd.configs
        BY <2>1, <2>3, <3>1, <3>3, <4>1 DEF StreamInv, Clean, Recorded
      <4>2. CASE c \notin cmd.configs
        BY <2>1, <3>2, <3>4, <3>5, <3>7, <4>2 DEF StreamInv, Recorded, Copied, Applied
      <4> QED
        BY <4>1, <4>2
    <3>8. ASSUME NEW c \in run.configs \ loose' PROVE Prepared(c)'
      <4>1. Alive /\ c \notin loose /\ c \in Applied
        BY <3>5, <3>8 DEF StreamInv, Alive
      <4>2. row'[c] = row[c] /\ Prepared(c)
        BY <2>3, <3>2, <3>8, <4>1 DEF StreamInv, Applied
      <4> QED
        BY <2>1, <4>2 DEF Prepared, Copied, First
    <3>9. run.configs \subseteq Applied' \cup loose'
      BY <3>4, <3>5 DEF StreamInv
    <3> QED
      BY <2>1, <3>6, <3>7, <3>8, <3>9 DEF StreamInv
  <2> QED
    BY <1>5, <2>2, <2>3 DEF ApplyStep, InsertConfigs
<1>6. ASSUME TombstoneRow PROVE StreamInv'
  <2>1. \A c \in Configs : row'[c].applied = row[c].applied
    BY <1>6, TombstonedKeeps DEF TombstoneRow
  <2>2. \A c \in Configs : row'[c].prefix = row[c].prefix
    BY <1>6, TombstonedKeeps DEF TombstoneRow
  <2>3. Applied' = Applied
    BY <2>1 DEF Applied
  <2>4. UNCHANGED <<run, progress, checkpoint, letters, docs, loose>>
    BY <1>6 DEF TombstoneRow, history
  <2>5. \A c \in Configs \ Applied : Clean(c)'
    BY <2>4 DEF StreamInv, Clean
  <2>6. \A c \in Applied \ loose : Recorded(c)'
    BY <2>2, <2>4 DEF StreamInv, Recorded, Copied, Applied
  <2>7. ASSUME NEW c \in run.configs \ loose PROVE Prepared(c)'
    <3>1. Prepared(c) /\ row'[c].prefix = row[c].prefix
      BY <2>2, <2>7 DEF StreamInv, TypeOK, RunType
    <3> QED
      BY <2>4, <3>1 DEF Prepared, Copied, First
  <2> QED
    BY <2>3, <2>4, <2>5, <2>6, <2>7 DEF StreamInv
<1>7. ASSUME NEW S \in SUBSET Configs, RemoveBegin(S) PROVE StreamInv'
  BY <1>7 DEF RemoveBegin, StreamInv, TypeOK, Applied, Clean, Recorded, Copied, Prepared, First,
     fileVars, stateVars, history, budgets
<1>8. ASSUME ResetTerminate PROVE StreamInv'
  BY <1>8, AttemptMeans DEF ResetTerminate, StreamInv, TypeOK, Applied, Clean, Recorded, Copied,
     Prepared, First, fileVars, stateVars, history, budgets
<1>9. ASSUME ResetDropSlot PROVE StreamInv'
  BY <1>9 DEF ResetDropSlot, StreamInv, TypeOK, Applied, Clean, Recorded, Copied, Prepared, First,
     fileVars, stateVars, history, budgets
<1>10. ASSUME ResetSchema PROVE StreamInv'
  BY <1>10, DeleteRowsMeans, ConstantsMean DEF ResetSchema, StreamInv, TypeOK, Applied, Clean,
     Recorded, Prepared, First, DeleteRows, fileVars, stateVars, history, budgets
<1>11. ASSUME ResetFiles PROVE StreamInv'
  BY <1>11, ResetFilesShrinks DEF FilesShrink, StreamInv, TypeOK, Applied, Clean, Recorded, Copied,
     Prepared, First
<1>12. ASSUME NEW c \in Configs, TombstoneBegin(c) PROVE StreamInv'
  BY <1>12 DEF TombstoneBegin, StreamInv, TypeOK, Applied, Clean, Recorded, Copied, Prepared,
     First, fileVars, stateVars, history, budgets
<1>13. ASSUME NEW c \in Configs, RemoveLeftover(c) PROVE StreamInv'
  BY <1>13 DEF RemoveLeftover, StreamInv, TypeOK, Applied, Clean, Recorded, Copied, Prepared,
     First, fileVars, stateVars, history, budgets
<1>14. ASSUME NEW c \in Configs, RemoveNamespace(c) PROVE StreamInv'
  BY <1>14 DEF RemoveNamespace, StreamInv, TypeOK, Applied, Clean, Recorded, Copied, Prepared,
     First, fileVars, stateVars, history, budgets
<1>15. ASSUME NEW c \in Configs, FindDir(c) PROVE StreamInv'
  BY <1>15 DEF FindDir, StreamInv, TypeOK, Applied, Clean, Recorded, Copied, Prepared, First,
     fileVars, stateVars, history, budgets
<1>16. ASSUME NEW c \in Configs, RemoveDir(c) PROVE StreamInv'
  BY <1>16, RemoveDirShrinks DEF FilesShrink, StreamInv, TypeOK, Applied, Clean, Recorded, Copied,
     Prepared, First
<1>17. ASSUME NEW c \in Configs, RemoveRow(c) PROVE StreamInv'
  BY <1>17, DeleteRowsMeans, ConstantsMean DEF RemoveRow, StreamInv, TypeOK, Applied, Clean,
     Recorded, Copied, Prepared, First, DeleteRows, fileVars, stateVars, history, budgets
<1>18. ASSUME RunStart PROVE StreamInv'
  BY <1>18, AttemptMeans DEF RunStart, StreamInv, TypeOK, Applied, Clean, Recorded, Copied,
     Prepared, First, fileVars, stateVars, history, budgets
<1>19. ASSUME RunFails PROVE StreamInv'
  BY <1>19, AttemptMeans, ConstantsMean DEF RunFails, StreamInv, TypeOK, Applied, Clean,
     Recorded, Copied, Prepared, First, fileVars, stateVars, history, budgets
<1>20. ASSUME Reconcile PROVE StreamInv'
  BY <1>20, TombstonedKeeps, StageKeeps DEF Reconcile, StreamInv, TypeOK, Applied, Clean,
     Recorded, Copied, Prepared, First, Reconciled, fileVars, stateVars, history, budgets
<1>21. ASSUME Load PROVE StreamInv'
  BY <1>21 DEF Load, StreamInv, TypeOK, Applied, Clean, Recorded, Copied, Prepared, First,
     RunType, fileVars, stateVars, history, budgets
<1>22. ASSUME Verify PROVE StreamInv'
  BY <1>22, StageKeeps DEF Verify, StreamInv, TypeOK, Applied, Clean, Recorded, Copied,
     Prepared, First, fileVars, stateVars, history, budgets
<1>23. ASSUME EnsureSlot PROVE StreamInv'
  BY <1>23, StageKeeps DEF EnsureSlot, StreamInv, TypeOK, Applied, Clean, Recorded, Copied,
     Prepared, First, fileVars, stateVars, history, budgets
<1>24. ASSUME EnsureIdentity PROVE StreamInv'
  BY <1>24 DEF EnsureIdentity, StreamInv, TypeOK, Applied, Clean, Recorded, Copied, Prepared,
     First, RunType, fileVars, stateVars, history, budgets
<1>25. ASSUME NEW c \in Configs, ReadPrefix(c) PROVE StreamInv'
  <2>1. run.stage = "rekey" /\ First(c) /\ c \in Applied /\ \A d \in Configs : First(d) => d = c
    BY <1>25, InTurnMeans DEF ReadPrefix
  <2>2. UNCHANGED <<progress, checkpoint, letters, docs, loose>>
    BY <1>25 DEF ReadPrefix, history
  <2>3. run.configs \subseteq Configs /\ c \in run.todo
    BY <2>1 DEF TypeOK, RunType, First
  <2>4. CASE Step("checkpoint") /\ UNCHANGED row
    BY <2>1, <2>2, <2>3, <2>4, StepKeeps
       DEF StreamInv, Applied, Clean, Recorded, Copied, Prepared, First
  <2>5. CASE Past(c, "stored", "verify") /\ row[c].prefix \in {Unset, run.prefix}
             /\ (StorePrefix(c) \/ (row[c].prefix = run.prefix /\ UNCHANGED row))
    <3>1. /\ row'[c].prefix = run.prefix /\ Applied' = Applied
          /\ \A d \in Configs \ {c} : row'[d] = row[d]
      BY <2>5, StorePrefixMeans DEF Applied
    <3>2. \A d \in Applied \ loose : Recorded(d)'
      BY <2>1, <2>2, <2>5, <3>1 DEF StreamInv, Recorded, Copied, Applied
    <3>3. ASSUME NEW d \in run.configs \ loose PROVE Prepared(d)'
      <4>1. Prepared(d)
        BY <3>3 DEF StreamInv
      <4>2. run'.stage \in {"rekey", "verify"} /\ run'.step \in {"none", "stored"}
            /\ run'.prefix = run.prefix
        BY <2>1, <2>5, PastMoves
      <4>3. CASE d = c
        BY <3>1, <4>2, <4>3 DEF Prepared
      <4>4. CASE d # c /\ d \in run.todo
        <5>1. run'.stage = "rekey" /\ d \in run'.todo
          BY <2>1, <2>5, <4>4, PastMoves
        <5> QED
          BY <4>2, <5>1 DEF Prepared
      <4>5. CASE d # c /\ d \notin run.todo
        <5>1. row[d].prefix = run.prefix /\ row'[d] = row[d]
          BY <2>1, <2>3, <3>1, <3>3, <4>1, <4>5 DEF Prepared
        <5> QED
          BY <4>2, <5>1 DEF Prepared
      <4> QED
        BY <4>3, <4>4, <4>5
    <3>4. run'.configs = run.configs /\ run'.todo \subseteq run.todo
          /\ run'.stage \in {"rekey", "verify"}
      BY <2>1, <2>5, PastMoves
    <3> QED
      BY <2>2, <3>1, <3>2, <3>3, <3>4 DEF StreamInv, Clean
  <2>6. CASE row[c].prefix = Unset /\ StorePrefix(c) /\ Past(c, "stored", "verify")
    <3>1. row[c].prefix \in {Unset, run.prefix}
      BY <2>6
    <3> QED
      BY <2>5, <2>6, <3>1
  <2>7. CASE row[c].prefix = run.prefix /\ Past(c, "stored", "verify") /\ UNCHANGED row
    BY <2>5, <2>7
  <2> QED
    BY <1>25, <2>4, <2>6, <2>7 DEF ReadPrefix
<1>26. ASSUME NEW c \in Configs, Rekey(c) PROVE StreamInv'
  <2>1. run.stage = "rekey" /\ First(c) /\ c \in Applied /\ \A d \in Configs : First(d) => d = c
    BY <1>26, InTurnMeans DEF Rekey
  <2>2. UNCHANGED <<docs, loose>>
    BY <1>26 DEF Rekey, history
  <2>3. run.configs \subseteq Configs /\ c \in run.todo /\ c \in run.configs
    BY <2>1 DEF TypeOK, RunType, First, StreamInv
  <2>4. CASE InTurn(c, "rekey", "prefix") /\ StorePrefix(c) /\ Past(c, "stored", "verify")
             /\ UNCHANGED <<checkpoint, letters, progress>>
    <3>1. /\ row'[c].prefix = run.prefix /\ Applied' = Applied
          /\ \A d \in Configs \ {c} : row'[d] = row[d]
      BY <2>4, StorePrefixMeans DEF Applied
    <3>2. c \notin loose => Clean(c)
      <4>1. run.step = "prefix"
        BY <2>4, InTurnMeans
      <4> QED
        BY <2>1, <2>3, <4>1 DEF StreamInv, Prepared, Clean
    <3>3. \A d \in Applied \ loose : Recorded(d)'
      BY <2>2, <2>4, <3>1, <3>2 DEF StreamInv, Recorded, Copied, Clean, Applied
    <3>4. ASSUME NEW d \in run.configs \ loose PROVE Prepared(d)'
      <4>1. Prepared(d)
        BY <3>4 DEF StreamInv
      <4>2. run'.stage \in {"rekey", "verify"} /\ run'.step \in {"none", "stored"}
            /\ run'.prefix = run.prefix
        BY <2>1, <2>4, PastMoves
      <4>3. CASE d = c
        BY <3>1, <4>2, <4>3 DEF Prepared
      <4>4. CASE d # c /\ d \in run.todo
        <5>1. run'.stage = "rekey" /\ d \in run'.todo
          BY <2>1, <2>4, <4>4, PastMoves
        <5> QED
          BY <4>2, <5>1 DEF Prepared
      <4>5. CASE d # c /\ d \notin run.todo
        <5>1. row[d].prefix = run.prefix /\ row'[d] = row[d]
          BY <2>1, <2>3, <3>1, <3>4, <4>1, <4>5 DEF Prepared
        <5> QED
          BY <4>2, <5>1 DEF Prepared
      <4> QED
        BY <4>3, <4>4, <4>5
    <3>5. run'.configs = run.configs /\ run'.todo \subseteq run.todo
          /\ run'.stage \in {"rekey", "verify"}
      BY <2>1, <2>4, PastMoves
    <3> QED
      BY <2>2, <2>4, <3>1, <3>3, <3>4, <3>5 DEF StreamInv, Clean
  <2>5. ASSUME NEW step, Step(step), UNCHANGED row,
               \A d \in Configs \ {c} : UNCHANGED <<checkpoint[d], letters[d], progress[d]>>,
               checkpoint'[c] \in {Unset, checkpoint[c]}, letters'[c] \in {Unset, letters[c]},
               progress'[c] = progress[c] \/ progress'[c].status = "none",
               Prepared(c) => Prepared(c)'
        PROVE  StreamInv'
    <3>1. /\ run'.stage = "rekey" /\ run'.configs = run.configs /\ run'.todo = run.todo
          /\ run'.prefix = run.prefix
      BY <2>1, <2>5, StepKeeps
    <3>2. Applied' = Applied
      BY <2>5 DEF Applied
    <3>3. \A d \in Configs \ Applied : Clean(d)'
      BY <2>1, <2>5 DEF StreamInv, Clean
    <3>4. \A d \in Applied \ loose : Recorded(d)'
      BY <2>1, <2>2, <2>5 DEF StreamInv, Recorded, Copied, Applied
    <3>5. \A d \in run.configs \ loose : Prepared(d)'
      BY <2>1, <2>2, <2>3, <2>5, <3>1 DEF StreamInv, Prepared, First
    <3> QED
      BY <2>2, <3>1, <3>2, <3>3, <3>4, <3>5 DEF StreamInv
  <2>6. CASE InTurn(c, "rekey", "checkpoint") /\ checkpoint' = [checkpoint EXCEPT ![c] = Unset]
             /\ Step("letters") /\ UNCHANGED <<letters, progress, row>>
    <3>1. checkpoint'[c] = Unset /\ \A d \in Configs \ {c} : checkpoint'[d] = checkpoint[d]
      BY <2>6 DEF TypeOK
    <3>2. Prepared(c)'
      BY <2>1, <2>3, <2>6, <3>1, StepKeeps DEF Prepared
    <3> QED
      BY <2>5, <2>6, <3>1, <3>2
  <2>7. CASE InTurn(c, "rekey", "letters") /\ letters' = [letters EXCEPT ![c] = Unset]
             /\ Step("progress") /\ UNCHANGED <<checkpoint, progress, row>>
    <3>1. letters'[c] = Unset /\ \A d \in Configs \ {c} : letters'[d] = letters[d]
      BY <2>7 DEF TypeOK
    <3>2. Prepared(c) => Prepared(c)'
      BY <2>1, <2>3, <2>7, <3>1, StepKeeps, InTurnMeans DEF Prepared
    <3> QED
      BY <2>5, <2>7, <3>1, <3>2
  <2>8. CASE InTurn(c, "rekey", "progress") /\ ResetProgress(c)
             /\ Step("prefix") /\ UNCHANGED <<checkpoint, letters, row>>
    <3>1. progress'[c].status = "none" /\ \A d \in Configs \ {c} : progress'[d] = progress[d]
      BY <2>8, ResetProgressMeans DEF TypeOK
    <3>2. Prepared(c) => Prepared(c)'
      BY <2>1, <2>3, <2>8, <3>1, StepKeeps, InTurnMeans DEF Prepared
    <3> QED
      BY <2>5, <2>8, <3>1, <3>2
  <2> QED
    BY <1>26, <2>4, <2>6, <2>7, <2>8 DEF Rekey
<1>27. ASSUME NEW c \in Configs, Backfill(c) PROVE StreamInv'
  <2>1. /\ run.stage = "backfill" /\ First(c) /\ c \in Applied /\ run.step = "check"
        /\ \A d \in Configs : First(d) => d = c
    BY <1>27, InTurnMeans DEF Backfill
  <2>2. UNCHANGED <<row, checkpoint, letters, loose>> /\ Applied' = Applied
    BY <1>27 DEF Backfill, history, Applied
  <2>3. run.configs \subseteq Configs /\ c \in run.configs /\ run.prefix \in Prefixes
    BY <2>1 DEF TypeOK, RunType, First, StreamInv
  <2>4. CASE progress[c].status = "completed" /\ Past(c, "check", "stream")
             /\ UNCHANGED <<docs, progress>>
    <3>1. c \notin loose => row[c].prefix = run.prefix /\ Copied(c, run.prefix)
      BY <2>1, <2>3, <2>4 DEF StreamInv, Prepared, Recorded
    <3>2. /\ run'.stage \in {"backfill", "stream"} /\ run'.step \in {"check", "none"}
          /\ run'.todo = run.todo \ {c} /\ run'.prefix = run.prefix
          /\ run'.configs = run.configs /\ (run'.stage = "stream" => run.todo = {c})
      BY <2>1, <2>4, PastMoves
    <3>3. ASSUME NEW d \in run.configs \ loose PROVE Prepared(d)'
      <4>1. Prepared(d)
        BY <3>3 DEF StreamInv
      <4>2. row'[d].prefix = run.prefix
        BY <2>1, <2>2, <4>1 DEF Prepared
      <4>3. run'.stage = "stream" \/ d \notin run'.todo => Copied(d, run.prefix)'
        <5>1. d \notin run.todo => Copied(d, run.prefix)
          BY <2>1, <4>1 DEF Prepared
        <5>2. d = c => Copied(d, run.prefix)
          BY <3>1, <3>3
        <5>3. run'.stage = "stream" \/ d \notin run'.todo => d = c \/ d \notin run.todo
          BY <3>2
        <5> QED
          BY <2>4, <3>2, <5>1, <5>2, <5>3 DEF Copied
      <4> QED
        BY <3>2, <4>2, <4>3 DEF Prepared, Copied
    <3>4. \A d \in Applied \ loose : Recorded(d)'
      BY <2>2, <2>4 DEF StreamInv, Recorded, Copied
    <3> QED
      BY <2>2, <2>4, <3>2, <3>3, <3>4 DEF StreamInv, Clean
  <2>5. CASE /\ Step("record")
             /\ docs' = [docs EXCEPT ![c][run.prefix] =
                            IF progress[c].cursor = "old" THEN "rest" ELSE "all"]
             /\ progress' = [progress EXCEPT ![c].cursor = IF @ = "old" THEN "old" ELSE "own"]
    <3>0. \A d \in Configs : /\ progress'[d].status = progress[d].status
                             /\ progress[d].cursor = "old" => progress'[d].cursor = "old"
      BY <2>5, BackfillProgress DEF TypeOK
    <3>1. docs'[c][run.prefix] = "all" \/ progress'[c].cursor = "old"
      BY <2>3, <2>5, <3>0 DEF TypeOK
    <3>2. \A d \in Configs, p \in Prefixes : Copied(d, p) => Copied(d, p)'
      <4>1. ASSUME NEW d \in Configs, NEW p \in Prefixes, docs[d][p] = "all",
                   progress[d].cursor # "old"
            PROVE  docs'[d][p] = "all"
        BY <2>3, <2>5, <4>1 DEF TypeOK
      <4>2. ASSUME NEW d \in Configs, NEW p \in Prefixes, Copied(d, p) PROVE Copied(d, p)'
        <5>1. CASE progress[d].cursor = "old"
          BY <3>0, <5>1 DEF Copied
        <5>2. CASE progress[d].cursor # "old"
          BY <4>1, <4>2, <5>2 DEF Copied
        <5> QED
          BY <5>1, <5>2
      <4> QED
        BY <4>2
    <3>3. /\ run'.stage = run.stage /\ run'.todo = run.todo /\ run'.prefix = run.prefix
          /\ run'.configs = run.configs
      BY <2>5, StepKeeps
    <3>4. ASSUME NEW d \in run.configs \ loose PROVE Prepared(d)'
      <4>1. Prepared(d) /\ d \in Configs
        BY <2>3, <3>4 DEF StreamInv
      <4>2. row'[d].prefix = run.prefix
        BY <2>1, <2>2, <4>1 DEF Prepared
      <4>3. d = c \/ d \notin run.todo => Copied(d, run.prefix)'
        <5>1. d \notin run.todo => Copied(d, run.prefix)
          BY <2>1, <4>1 DEF Prepared
        <5> QED
          BY <2>3, <3>1, <3>2, <3>3, <4>1, <5>1 DEF Copied
      <4>4. First(d)' => d = c
        BY <2>1, <3>3, <4>1 DEF First
      <4> QED
        BY <2>1, <3>3, <4>2, <4>3, <4>4 DEF Prepared
    <3>5. \A d \in Applied : row[d].prefix # Unset => row[d].prefix \in Prefixes
      BY DEF TypeOK, RowType, StoredPrefix, Applied
    <3>6. \A d \in Applied \ loose : Recorded(d)'
      BY <2>2, <3>0, <3>2, <3>5 DEF StreamInv, Recorded, Applied
    <3> QED
      BY <2>1, <2>2, <3>0, <3>3, <3>4, <3>6 DEF StreamInv, Clean
  <2> QED
    BY <1>27, <2>4, <2>5 DEF Backfill
<1>28. ASSUME NEW c \in Configs, BackfillCompleted(c) PROVE StreamInv'
  <2>1. /\ run.stage = "backfill" /\ First(c) /\ c \in Applied /\ run.step = "record"
        /\ Past(c, "check", "stream")
    BY <1>28, InTurnMeans DEF BackfillCompleted
  <2>2. UNCHANGED <<row, checkpoint, letters, docs, loose>> /\ Applied' = Applied
    BY <1>28 DEF BackfillCompleted, history, Applied
  <2>3. run.configs \subseteq Configs /\ c \in run.configs /\ run.prefix \in Prefixes
    BY <2>1 DEF TypeOK, RunType, First, StreamInv
  <2>4. \A d \in Configs \ {c} : progress'[d] = progress[d]
    BY <1>28 DEF BackfillCompleted, TypeOK
  <2>4a. progress'[c].cursor = progress[c].cursor
    <3>1. progress[c] \in ProgressType
      BY DEF TypeOK
    <3> QED
      BY <1>28, <3>1 DEF BackfillCompleted, TypeOK, ProgressType
  <2>5. c \notin loose => row[c].prefix = run.prefix /\ Copied(c, run.prefix)
    BY <2>1, <2>3 DEF StreamInv, Prepared
  <2>6. run.prefix # Unset
    BY <2>3, BoundsAreNat DEF Prefixes, Unset
  <2>7. /\ run'.stage \in {"backfill", "stream"} /\ run'.step \in {"check", "none"}
        /\ run'.todo = run.todo \ {c} /\ run'.prefix = run.prefix
        /\ run'.configs = run.configs /\ (run'.stage = "stream" => run.todo = {c})
    BY <2>1, PastMoves
  <2>8. \A d \in run.configs \ loose : Prepared(d)'
    <3>1. \A d \in Configs : progress'[d].cursor = progress[d].cursor
      BY <2>4, <2>4a
    <3> TAKE d \in run.configs \ loose
    <3>2. d \in Configs /\ Prepared(d)
      BY <2>3 DEF StreamInv
    <3>3. Copied(d, run.prefix) => Copied(d, run.prefix)'
      BY <2>2, <2>7, <3>1, <3>2 DEF Copied
    <3>4. run'.stage = "stream" \/ d \notin run'.todo => Copied(d, run.prefix)
      BY <2>1, <2>5, <2>7, <3>2 DEF Prepared
    <3> QED
      BY <2>1, <2>2, <2>7, <3>2, <3>3, <3>4 DEF Prepared
  <2>9. \A d \in Applied \ loose : Recorded(d)'
    BY <2>2, <2>4, <2>5, <2>6, <2>4a DEF StreamInv, Recorded, Copied, Applied
  <2>10. \A d \in Configs \ Applied : Clean(d)'
    BY <2>1, <2>2, <2>4 DEF StreamInv, Clean
  <2> QED
    BY <2>2, <2>7, <2>8, <2>9, <2>10 DEF StreamInv
<1>29. ASSUME NEW c \in Configs, Stream(c) PROVE StreamInv'
  BY <1>29, ConstantsMean DEF Stream, StreamInv, TypeOK, Applied, Clean, Recorded, Copied,
     Prepared, First, fileVars, stateVars, history, budgets
<1>30. CASE UNCHANGED vars
  BY <1>30 DEF StreamInv, TypeOK, Applied, Clean, Recorded, Copied, Prepared, First, vars,
     fileVars, stateVars, history, budgets
<1> QED
  BY <1>1, <1>2, <1>3, <1>4, <1>5, <1>6, <1>7, <1>8, <1>9, <1>10, <1>11, <1>12, <1>13, <1>14,
     <1>15, <1>16, <1>17, <1>18, <1>19, <1>20, <1>21, <1>22, <1>23, <1>24, <1>25, <1>26, <1>27,
     <1>28, <1>29, <1>30 DEF Next, User, Command, Run

(* StreamsIntoBackfilledNamespace of ConfigLifecycle holds in every state.    *)
THEOREM BackfilledBeforeStreaming == Spec => []StreamsIntoBackfilledNamespace
<1>1. Init => StreamInv
  BY ConstantsMean DEF Init, StreamInv, Applied, Clean, Recorded, Unset, NoRow
<1>2. StreamInv => StreamsIntoBackfilledNamespace
  BY DEF StreamInv, Recorded, Copied, Prepared, StreamsIntoBackfilledNamespace
<1> QED
  BY <1>1, <1>2, StreamStep, TypeCorrect, PTL DEF Spec
=============================================================================
