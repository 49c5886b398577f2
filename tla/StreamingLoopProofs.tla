------------------------ MODULE StreamingLoopProofs ------------------------
(* Theorems about StreamingLoop, for every value of its constants.         *)
EXTENDS StreamingLoop, SequenceTheorems, TLAPS

\* A sub-batch being handled lies between what is done and the end of the WAL.
BatchBounds == pc = "process" => batch.hi \in pos .. Len(wal)

Typed == TypeOK /\ BatchBounds

EntryType == [cfg : Configs, change : 1 .. MaxChanges, retries : Nat, permanent : BOOLEAN]

----------------------------------------------------------------------------
(* Lemmas on the operators.                                                *)

\* What changes leave behind is one of them, or Absent.
LEMMA ValueAfterType ==
  ASSUME NEW S PROVE ValueAfter(S) \in S \cup {Absent}
  <1>1. Newest(S) \subseteq S BY DEF Newest
  <1> QED BY <1>1 DEF ValueAfter

\* Every entry that fails again stays the entry of the same change.
LEMMA AfterFailureType ==
  ASSUME NEW e \in EntryType
  PROVE  /\ AfterFailure(e) \in EntryType
         /\ AfterFailure(e).cfg = e.cfg /\ AfterFailure(e).change = e.change
  <1>1. CASE e.retries + 1 >= MaxRetries
    <2>1. AfterFailure(e) = [e EXCEPT !.permanent = TRUE] BY <1>1 DEF AfterFailure
    <2> QED BY <2>1 DEF EntryType
  <1>2. CASE ~(e.retries + 1 >= MaxRetries)
    <2>1. AfterFailure(e) = [e EXCEPT !.retries = @ + 1] BY <1>2 DEF AfterFailure
    <2>2. e.retries + 1 \in Nat BY DEF EntryType
    <2> QED BY <2>1, <2>2 DEF EntryType
  <1> QED BY <1>1, <1>2

\* The entries of a batch are well formed.
LEMMA EntriesType ==
  ASSUME NEW c \in Configs, NEW S \in SUBSET (1 .. MaxChanges)
  PROVE  Entries(c, S) \subseteq EntryType
  <1> SUFFICES ASSUME NEW n \in S
               PROVE [cfg |-> c, change |-> n, retries |-> 0, permanent |-> FALSE] \in EntryType
    BY DEF Entries
  <1> QED BY DEF EntryType

\* The events of a batch are changes of the WAL.
LEMMA RoutedType ==
  ASSUME TypeOK, NEW c, NEW S
  PROVE  Routed(c, S) \subseteq 1 .. MaxChanges /\ Routed(c, S) \subseteq Changes
  <1>1. Len(wal) \in Nat /\ Len(wal) <= MaxChanges /\ MaxChanges \in Nat
    BY ConstantsAssumption DEF TypeOK
  <1> QED BY <1>1 DEF Routed, Changes

LEMMA LsnType == MaxChanges \in Nat /\ 1 .. MaxChanges \subseteq Lsn /\ Absent \in Lsn
  BY ConstantsAssumption DEF Lsn, Absent

\* A write leaves LSNs in the namespace.
LEMMA WrittenType ==
  ASSUME TypeOK, NEW c \in Configs, NEW S \in SUBSET (1 .. MaxChanges)
  PROVE  Written(c, S) \in [Configs -> [Rows -> Lsn]]
  <1> DEFINE here(r) == {n \in S : wal[n].row = r}
             doc(r) == IF here(r) = {} THEN sink[c][r] ELSE ValueAfter(here(r))
  <1>1. sink \in [Configs -> [Rows -> Lsn]] BY DEF TypeOK
  <1>2. ASSUME NEW r \in Rows PROVE doc(r) \in Lsn
    <2>1. ValueAfter(here(r)) \in here(r) \cup {Absent} BY ValueAfterType
    <2>2. here(r) \subseteq Lsn BY LsnType
    <2> QED BY <1>1, <2>1, <2>2, LsnType
  <1>3. Written(c, S) = [sink EXCEPT ![c] = [r \in Rows |-> doc(r)]] BY DEF Written
  <1> HIDE DEF doc
  <1> QED BY <1>1, <1>2, <1>3

\* A value re-read by a replay is an LSN.
LEMMA ReplayValueType ==
  ASSUME TypeOK, NEW r, NEW S PROVE ReplayValue(r, S) \in Lsn
  <1>1. Len(wal) \in Nat /\ Len(wal) <= MaxChanges BY DEF TypeOK
  <1>2. Changes \subseteq Lsn BY <1>1, LsnType DEF Changes, Lsn
  <1>3. RowAt(r, Len(wal)) \in Changes \cup {Absent} BY ValueAfterType DEF RowAt
  <1> QED BY <1>2, <1>3, LsnType DEF ReplayValue

\* A replay keeps the queue, the namespaces and the history typed.
LEMMA ReplayEffectType ==
  ASSUME TypeOK, NEW F \in SUBSET dlq, NEW ok \in SUBSET F, NEW sent \in SUBSET dlq, ReplayEffect(F, ok, sent)
  PROVE  /\ dlq' \subseteq EntryType
         /\ sink' \in [Configs -> [Rows -> Lsn]]
         /\ delivered' \in [Configs -> SUBSET (1 .. MaxChanges)]
  <1>1. dlq \subseteq EntryType BY DEF TypeOK, EntryType
  <1>2. dlq' \subseteq EntryType
    <2>1. \A e \in F \ ok : AfterFailure(e) \in EntryType
      BY <1>1, AfterFailureType DEF EntryType
    <2> QED BY <1>1, <2>1 DEF ReplayEffect
  <1>3. sink' \in [Configs -> [Rows -> Lsn]]
    <2>1. sink \in [Configs -> [Rows -> Lsn]] BY DEF TypeOK
    <2>2. \A r, S : ReplayValue(r, S) \in Lsn BY ReplayValueType
    <2> QED BY <2>1, <2>2 DEF ReplayEffect
  <1>4. delivered' \in [Configs -> SUBSET (1 .. MaxChanges)]
    <2>1. delivered \in [Configs -> SUBSET (1 .. MaxChanges)] BY DEF TypeOK
    <2>2. \A e \in ok \cup sent : e.change \in 1 .. MaxChanges BY <1>1 DEF EntryType
    <2> QED BY <2>1, <2>2 DEF ReplayEffect
  <1> QED BY <1>2, <1>3, <1>4

LEMMA ReplayPassType ==
  ASSUME TypeOK, NEW F \in SUBSET dlq, NEW ok \in SUBSET F, ReplayPass(F, ok)
  PROVE  /\ dlq' \subseteq EntryType
         /\ sink' \in [Configs -> [Rows -> Lsn]]
         /\ delivered' \in [Configs -> SUBSET (1 .. MaxChanges)]
         /\ failures' \in Nat
  <1>1. ReplayEffect(F, ok, {}) BY DEF ReplayPass
  <1>2. failures' \in Nat BY DEF ReplayPass, TypeOK
  <1> QED BY <1>1, <1>2, ReplayEffectType

\* Discarding old entries keeps the queue and the history typed.
LEMMA ExpireType ==
  ASSUME TypeOK, Expire
  PROVE  dlq' \subseteq EntryType /\ dropped' \in [Configs -> SUBSET (1 .. MaxChanges)]
  <1>1. dlq \subseteq EntryType /\ dropped \in [Configs -> SUBSET (1 .. MaxChanges)]
    BY DEF TypeOK, EntryType
  <1>2. PICK old \in SUBSET {e \in dlq : e.permanent} :
          /\ dlq' = dlq \ old
          /\ dropped' = [c \in Configs |-> dropped[c] \cup {e.change : e \in {x \in old : x.cfg = c}}]
    BY DEF Expire
  <1>3. \A e \in old : e.change \in 1 .. MaxChanges BY <1>1 DEF EntryType
  <1> QED BY <1>1, <1>2, <1>3

----------------------------------------------------------------------------
(* Type correctness.                                                       *)

BatchType == [kind : {"none", "sub", "batch", "toolarge"}, lo : Nat, hi : Nat, ack : Lsn]

\* Leaving process_events with a batch that ends within the WAL.
LEMMA EndProcessType ==
  ASSUME TypeOK, NEW b \in BatchType, b.hi \in pos .. Len(wal), EndProcess(b)
  PROVE  /\ pc' \in {"recv", "save", "ack"} /\ todo' \subseteq Configs
         /\ part' \in Lsn /\ batch' \in BatchType
  <1>1. Len(wal) \in Nat /\ Len(wal) <= MaxChanges /\ pos \in Lsn /\ part \in Lsn
    BY DEF TypeOK
  <1>2. ToSave(b) \subseteq Configs BY DEF ToSave, Active
  <1>3. NoBatch \in BatchType BY LsnType DEF NoBatch, BatchType, Lsn
  <1>4. CASE b.kind = "sub"
    <2>1. b.hi - pos \in Lsn BY <1>1, LsnType DEF Lsn
    <2> QED BY <1>3, <1>4, <2>1 DEF EndProcess
  <1>5. CASE b.kind # "sub"
    BY <1>1, <1>2, <1>5 DEF EndProcess, AfterSave
  <1> QED BY <1>4, <1>5

\* The same for a batch that has just been received.
LEMMA BeginProcessType ==
  ASSUME TypeOK, NEW b \in BatchType, b.hi \in pos .. Len(wal), BeginProcess(b)
  PROVE  /\ pc' \in {"recv", "process", "save", "ack"} /\ todo' \subseteq Configs
         /\ part' \in Lsn /\ batch' \in BatchType
         /\ pc' = "process" => batch' = b
  <1>1. CASE ToProcess(b) = {} BY <1>1, EndProcessType DEF BeginProcess
  <1>2. CASE ToProcess(b) # {}
    <2>1. ToProcess(b) \subseteq Configs BY DEF ToProcess, Active
    <2>2. part \in Lsn BY DEF TypeOK
    <2> QED BY <1>2, <2>1, <2>2 DEF BeginProcess
  <1> QED BY <1>1, <1>2

\* Moving on to the next config.
LEMMA NextConfigType ==
  ASSUME Typed, pc = "process", NEW c \in todo, NextConfig(c)
  PROVE  /\ pc' \in {"recv", "process", "save", "ack"} /\ todo' \subseteq Configs
         /\ part' \in Lsn /\ batch' \in BatchType
         /\ pc' = "process" => batch' = batch
  <1>1. batch \in BatchType /\ todo \subseteq Configs /\ part \in Lsn
    BY DEF Typed, TypeOK, BatchType
  <1>2. CASE todo = {c}
    BY <1>1, <1>2, EndProcessType DEF NextConfig, Typed, BatchBounds
  <1>3. CASE todo # {c}
    BY <1>1, <1>3 DEF NextConfig
  <1> QED BY <1>2, <1>3

LEMMA TypeInit == Init => Typed
  <1> SUFFICES ASSUME Init PROVE Typed OBVIOUS
  <1>1. wal = <<>> /\ Len(wal) = 0 /\ wal \in Seq([row : Rows, op : Ops]) BY DEF Init
  <1>2. 0 \in Lsn BY LsnType DEF Lsn
  <1>3. NoBatch \in [kind : {"none", "sub", "batch", "toolarge"}, lo : Nat, hi : Nat, ack : Lsn]
    BY <1>2 DEF NoBatch
  <1> QED BY <1>1, <1>2, <1>3, ConstantsAssumption DEF Init, Typed, TypeOK, BatchBounds, Changes, Absent, NoLsn

\* LSNs of the WAL.
\* A function on 1 .. k is a sequence of length k.
LEMMA TupleIsSeq ==
  ASSUME NEW k \in Nat, NEW S, NEW t \in [1 .. k -> S]
  PROVE  t \in Seq(S) /\ Len(t) = k
  <1>1. t \in Seq(S) BY SeqDef
  <1>2. DOMAIN t = 1 .. k OBVIOUS
  <1>3. Len(t) \in Nat /\ DOMAIN t = 1 .. Len(t) BY <1>1, LenProperties
  <1> QED BY <1>1, <1>2, <1>3

LEMMA LsnBounds ==
  ASSUME TypeOK
  PROVE  /\ Len(wal) \in Nat /\ MaxChanges \in Nat /\ Len(wal) <= MaxChanges
         /\ Lsn \subseteq Nat /\ 0 \in Lsn /\ Len(wal) \in Lsn
         /\ Changes \subseteq Lsn /\ \A n \in Changes : n <= Len(wal)
         /\ commits \subseteq Lsn /\ \A e \in commits : e <= Len(wal)
  <1>1. Len(wal) \in Nat /\ MaxChanges \in Nat /\ Len(wal) <= MaxChanges BY LsnType DEF TypeOK
  <1>2. Changes \subseteq Lsn /\ \A n \in Changes : n <= Len(wal) BY <1>1 DEF Changes, Lsn
  <1>3. commits \subseteq Changes BY DEF TypeOK
  <1> QED BY <1>1, <1>2, <1>3 DEF Lsn

\* Everything but the variables named keeps its type.
LEMMA TypeStep == Typed /\ [Next]_vars => Typed'
  <1> SUFFICES ASSUME Typed, [Next]_vars PROVE Typed' OBVIOUS
  <1> USE DEF pgVars, sinkVars, streamVars, budgets
  <1>0. /\ TypeOK /\ BatchBounds /\ Len(wal) \in Nat /\ MaxChanges \in Nat /\ Len(wal) <= MaxChanges
        /\ pos \in Lsn /\ part \in Lsn /\ 0 \in Lsn /\ Lsn \subseteq Nat
        /\ commits \subseteq Lsn /\ (\A e \in commits : e <= Len(wal)) /\ Changes \subseteq Lsn
    BY LsnBounds DEF Typed, TypeOK
  <1>1. CASE Commit
    <2>1. PICK k \in 1 .. MaxTxnLen : \E txn \in [1 .. k -> [row : Rows, op : Ops]] :
            /\ Len(wal) + k <= MaxChanges /\ wal' = wal \o txn /\ commits' = commits \cup {Len(wal) + k}
      BY <1>1 DEF Commit
    <2>2. PICK txn \in [1 .. k -> [row : Rows, op : Ops]] : wal' = wal \o txn
      BY <2>1
    <2>3. k \in Nat /\ k > 0 /\ txn \in Seq([row : Rows, op : Ops]) /\ Len(txn) = k
      <3>1. MaxTxnLen \in Nat BY ConstantsAssumption
      <3>2. k \in Nat /\ k > 0 BY <3>1
      <3> QED BY <3>2, TupleIsSeq
    <2>4. wal \in Seq([row : Rows, op : Ops]) BY <1>0 DEF TypeOK
    <2>5. wal' \in Seq([row : Rows, op : Ops]) /\ Len(wal') = Len(wal) + k
      BY <2>2, <2>3, <2>4, ConcatProperties
    <2>6. commits' \subseteq 1 .. Len(wal')
      <3>1. \A e \in commits : e \in 1 .. Len(wal) BY <1>0 DEF TypeOK, Changes
      <3>2. \A e \in commits' : e \in 1 .. Len(wal) \/ e = Len(wal) + k BY <2>1, <3>1
      <3> QED BY <1>0, <2>3, <2>5, <3>2
    <2>7. Len(wal') \in Nat /\ Len(wal) <= Len(wal') /\ Len(wal') <= MaxChanges
      BY <1>0, <2>1, <2>3, <2>5
    <2>8. UNCHANGED <<confirmed, watermark, cp, dlq, sinkVars, pc, memcp, streamVars,
                      batch, todo, since, stalled, dropped, budgets>>
      BY <1>1 DEF Commit
    <2>9. BatchBounds' BY <1>0, <2>7, <2>8 DEF BatchBounds, Typed, TypeOK, Lsn
    <2> QED BY <1>0, <2>5, <2>6, <2>7, <2>8, <2>9 DEF Typed, TypeOK, Changes
  <1>2. CASE FlushSlot
    BY <1>0, <1>2 DEF FlushSlot, Typed, TypeOK, BatchBounds, Changes
  <1>3. ASSUME NEW c \in Configs, BackfillNewConfig(c) PROVE Typed'
    <2>1. commits \cup {0} \subseteq Lsn BY <1>0
    <2>2. watermark' \in [Configs -> Lsn \cup {NoLsn}]
      BY <1>0, <1>3, <2>1 DEF BackfillNewConfig, TypeOK
    <2>3. \A r, l : RowAt(r, l) \in Lsn
      <3>2. \A r, l : RowAt(r, l) \in Changes \cup {Absent} BY ValueAfterType DEF RowAt
      <3> QED BY <1>0, <3>2, LsnType
    <2>4. sink' \in [Configs -> [Rows -> Lsn]]
      BY <1>0, <1>3, <2>3, LsnType DEF BackfillNewConfig, TypeOK
    <2> QED BY <1>0, <1>3, <2>2, <2>4 DEF BackfillNewConfig, Typed, TypeOK, BatchBounds, Changes
  <1>4. CASE Start
    <2>1. StartCandidates \subseteq Lsn
      BY <1>0 DEF StartCandidates, Active, TypeOK
    <2>2. start' \in Lsn BY <1>4, <2>1 DEF Start
    <2>3. memcp' \in [Configs -> Lsn \cup {NoLsn}]
      BY <1>0, <1>4 DEF Start, Resume, TypeOK
    <2>4. dlq' \subseteq EntryType /\ dropped' \in [Configs -> SUBSET (1 .. MaxChanges)]
      BY <1>0, <1>4, ExpireType DEF Start
    <2> QED BY <1>0, <1>4, <2>2, <2>3, <2>4 DEF Start, Typed, TypeOK, BatchBounds, Changes, EntryType
  <1>5. CASE Connect
    BY <1>0, <1>5 DEF Connect, ResumeLsn, Typed, TypeOK, BatchBounds, Changes
  <1>6. CASE RecvSubBatch
    <2>1. PICK e \in commits : e - pos - part >= SubBatchSize /\
            BeginProcess([kind |-> "sub", lo |-> pos + part + 1, hi |-> pos + part + SubBatchSize, ack |-> 0])
      BY <1>6 DEF RecvSubBatch
    <2> DEFINE b == [kind |-> "sub", lo |-> pos + part + 1, hi |-> pos + part + SubBatchSize, ack |-> 0]
    <2>2. e \in Nat /\ e <= Len(wal) /\ SubBatchSize \in Nat BY <1>0, ConstantsAssumption
    <2>3. b \in BatchType /\ b.hi \in pos .. Len(wal) BY <1>0, <2>1, <2>2 DEF BatchType, Lsn
    <2>4. /\ pc' \in {"recv", "process", "save", "ack"} /\ todo' \subseteq Configs
          /\ part' \in Lsn /\ batch' \in BatchType /\ (pc' = "process" => batch' = b)
      BY <1>0, <2>1, <2>3, BeginProcessType
    <2> QED BY <1>0, <1>6, <2>3, <2>4 DEF RecvSubBatch, Typed, TypeOK, BatchBounds, Changes, BatchType
  <1>7. CASE RecvBatch
    <2>1. PICK e \in commits : IsNextCommit(e) /\ BeginProcess([kind |-> "batch", lo |-> pos + part + 1, hi |-> e, ack |-> e])
      BY <1>7 DEF RecvBatch
    <2> DEFINE b == [kind |-> "batch", lo |-> pos + part + 1, hi |-> e, ack |-> e]
    <2>2. e \in Nat /\ e <= Len(wal) /\ e > pos BY <1>0, <2>1 DEF IsNextCommit
    <2>3. b \in BatchType /\ b.hi \in pos .. Len(wal) BY <1>0, <2>2 DEF BatchType, Lsn
    <2>4. /\ pc' \in {"recv", "process", "save", "ack"} /\ todo' \subseteq Configs
          /\ part' \in Lsn /\ batch' \in BatchType /\ (pc' = "process" => batch' = b)
      BY <1>0, <2>1, <2>3, BeginProcessType
    <2> QED BY <1>0, <1>7, <2>3, <2>4 DEF RecvBatch, Typed, TypeOK, BatchBounds, Changes, BatchType
  <1>8. CASE RecvTransactionTooLarge
    <2>1. PICK e \in commits : /\ IsNextCommit(e) /\ EndProcess([kind |-> "toolarge", lo |-> pos + 1, hi |-> e, ack |-> e])
                               /\ dropped' = [c \in Configs |-> dropped[c] \cup Routed(c, pos + 1 .. e)]
      BY <1>8 DEF RecvTransactionTooLarge
    <2> DEFINE b == [kind |-> "toolarge", lo |-> pos + 1, hi |-> e, ack |-> e]
    <2>2. e \in Nat /\ e <= Len(wal) /\ e > pos BY <1>0, <2>1 DEF IsNextCommit
    <2>3. b \in BatchType /\ b.hi \in pos .. Len(wal) BY <1>0, <2>2 DEF BatchType, Lsn
    <2>4. /\ pc' \in {"recv", "save", "ack"} /\ todo' \subseteq Configs
          /\ part' \in Lsn /\ batch' \in BatchType
      BY <1>0, <2>1, <2>3, EndProcessType
    <2>5. dropped' \in [Configs -> SUBSET (1 .. MaxChanges)]
      <3>1. \A c, S : Routed(c, S) \subseteq 1 .. MaxChanges BY <1>0, RoutedType
      <3> QED BY <1>0, <2>1, <3>1 DEF TypeOK
    <2> QED BY <1>0, <1>8, <2>3, <2>4, <2>5 DEF RecvTransactionTooLarge, Typed, TypeOK, BatchBounds, Changes, BatchType
  <1>9. CASE RecvSchemaChanged
    <2>1. ReconnectCandidates \subseteq Lsn BY <1>0 DEF ReconnectCandidates, Active, TypeOK
    <2>2. start' \in Lsn BY <1>0, <1>9, <2>1 DEF RecvSchemaChanged
    <2>3. /\ reconnects' \in Nat /\ pc' = "connect" /\ pos' = 0 /\ part' = 0 /\ applied' = 0
          /\ UNCHANGED <<pgVars, watermark, cp, dlq, sinkVars, memcp, batch, todo, since,
                         stalled, dropped, crashes, failures>>
      BY <1>0, <1>9 DEF RecvSchemaChanged, TypeOK
    <2>5. TypeOK' BY <1>0, <2>2, <2>3 DEF TypeOK, Changes
    <2>4. BatchBounds' BY <1>9 DEF RecvSchemaChanged, BatchBounds
    <2> QED BY <2>4, <2>5 DEF Typed
  <1>10. ASSUME NEW c \in Configs, SendOk(c) PROVE Typed'
    <2>1. Mine(c) \in SUBSET (1 .. MaxChanges) BY <1>0, RoutedType DEF Mine
    <2>2. sink' \in [Configs -> [Rows -> Lsn]] BY <1>0, <1>10, <2>1, WrittenType DEF SendOk, Delivered
    <2>3. delivered' \in [Configs -> SUBSET (1 .. MaxChanges)] BY <1>0, <1>10, <2>1 DEF SendOk, Delivered, TypeOK
    <2>4. /\ pc' \in {"recv", "process", "save", "ack"} /\ todo' \subseteq Configs
          /\ part' \in Lsn /\ batch' \in BatchType /\ (pc' = "process" => batch' = batch)
      BY <1>10, NextConfigType DEF SendOk
    <2> QED BY <1>0, <1>10, <2>2, <2>3, <2>4 DEF SendOk, Typed, TypeOK, BatchBounds, Changes, BatchType
  <1>11. ASSUME NEW c \in Configs, SendFails(c) PROVE Typed'
    <2>1. Mine(c) \in SUBSET (1 .. MaxChanges) BY <1>0, RoutedType DEF Mine
    <2>2. sink' \in [Configs -> [Rows -> Lsn]]
      <3>1. sink' = sink \/ sink' = Written(c, Mine(c)) BY <1>11 DEF SendFails, Delivered
      <3>2. sink \in [Configs -> [Rows -> Lsn]] BY <1>0 DEF TypeOK
      <3> QED BY <1>0, <2>1, <3>1, <3>2, WrittenType
    <2>3. delivered' \in [Configs -> SUBSET (1 .. MaxChanges)] BY <1>0, <1>11, <2>1 DEF SendFails, Delivered, TypeOK
    <2>4. /\ pc' \in {"recv", "process", "save", "ack"} /\ todo' \subseteq Configs
          /\ part' \in Lsn /\ batch' \in BatchType /\ (pc' = "process" => batch' = batch)
      BY <1>11, NextConfigType DEF SendFails
    <2>5. dlq' \subseteq EntryType BY <1>0, <1>11, <2>1, EntriesType DEF SendFails, TypeOK, EntryType
    <2>6. failures' \in Nat BY <1>0, <1>11 DEF SendFails, CanFail, TypeOK
    <2> QED BY <1>0, <1>11, <2>2, <2>3, <2>4, <2>5, <2>6
        DEF SendFails, Typed, TypeOK, BatchBounds, Changes, BatchType, EntryType
  <1>12. NoBatch \in BatchType BY <1>0 DEF NoBatch, BatchType
  <1>13. Stop => /\ pc' = "down" /\ memcp' \in [Configs -> Lsn \cup {NoLsn}]
                 /\ {start', pos', part', applied'} \subseteq Lsn /\ batch' \in BatchType
                 /\ todo' \subseteq Configs /\ since' \in Nat /\ stalled' \in Nat
    BY <1>0, <1>12 DEF Stop
  <1>14. ASSUME NEW c \in Configs, DeadLetterFails(c) PROVE Typed'
    <2>1. Mine(c) \in SUBSET (1 .. MaxChanges) BY <1>0, RoutedType DEF Mine
    <2>2. \A k : {m \in Mine(c) : m < k} \in SUBSET (1 .. MaxChanges) BY <2>1
    <2>3. dlq' \subseteq EntryType BY <1>0, <1>14, <2>2, EntriesType DEF DeadLetterFails, TypeOK, EntryType
    <2>4. failures' \in Nat BY <1>0, <1>14 DEF DeadLetterFails, CanFail, TypeOK
    <2>5. sink' \in [Configs -> [Rows -> Lsn]]
      <3>1. sink' = sink \/ sink' = Written(c, Mine(c)) BY <1>14 DEF DeadLetterFails, Delivered
      <3>2. sink \in [Configs -> [Rows -> Lsn]] BY <1>0 DEF TypeOK
      <3> QED BY <1>0, <2>1, <3>1, <3>2, WrittenType
    <2>6. delivered' \in [Configs -> SUBSET (1 .. MaxChanges)]
      BY <1>0, <1>14, <2>1 DEF DeadLetterFails, Delivered, TypeOK
    <2> QED BY <1>0, <1>13, <1>14, <2>3, <2>4, <2>5, <2>6
        DEF DeadLetterFails, Typed, TypeOK, BatchBounds, Changes, BatchType, EntryType
  <1>15. ASSUME NEW c \in Configs, SaveCheckpoint(c) PROVE Typed'
    BY <1>0, <1>15 DEF SaveCheckpoint, Typed, TypeOK, BatchBounds, Changes
  <1>16. CASE Ack
    <2>1. since' \in Nat
      <3>1. since \in Nat /\ DlqInterval \in Nat \ {0} BY <1>0, ConstantsAssumption DEF TypeOK
      <3> QED BY <1>16, <3>1 DEF Ack
    <2>2. batch' \in BatchType
      <3>1. batch.kind \in {"none", "sub", "batch", "toolarge"} BY <1>0 DEF TypeOK
      <3> QED BY <1>12, <1>16, <3>1 DEF Ack, BatchType
    <2> QED BY <1>0, <1>16, <2>1, <2>2 DEF Ack, Typed, TypeOK, BatchBounds, Changes, BatchType
  <1>17. CASE DrainDlq
    <2>1. PICK F \in SUBSET Retryable : \E ok \in SUBSET F :
            /\ ReplayPass(F, ok)
            /\ stalled' = IF ok # {} THEN 0 ELSE stalled + 1
            /\ pc' = IF F = {} \/ stalled' >= 2 THEN "connect" ELSE "drain"
      BY <1>17 DEF DrainDlq
    <2>2. PICK ok \in SUBSET F : /\ ReplayPass(F, ok) /\ stalled' = (IF ok # {} THEN 0 ELSE stalled + 1)
                                 /\ pc' = IF F = {} \/ stalled' >= 2 THEN "connect" ELSE "drain"
      BY <2>1
    <2>3. F \in SUBSET dlq BY DEF Retryable
    <2>4. /\ dlq' \subseteq EntryType /\ sink' \in [Configs -> [Rows -> Lsn]]
          /\ delivered' \in [Configs -> SUBSET (1 .. MaxChanges)] /\ failures' \in Nat
      BY <1>0, <2>2, <2>3, ReplayPassType
    <2>5. stalled' \in Nat /\ pc' \in {"connect", "drain"} BY <1>0, <2>2 DEF TypeOK
    <2> QED BY <1>0, <1>17, <2>4, <2>5 DEF DrainDlq, Typed, TypeOK, BatchBounds, Changes, EntryType
  <1>18. CASE ReplayDlq
    <2>1. PICK F \in SUBSET Retryable : \E ok \in SUBSET F : ReplayPass(F, ok)
      BY <1>18 DEF ReplayDlq
    <2>2. PICK ok \in SUBSET F : ReplayPass(F, ok) BY <2>1
    <2>3. F \in SUBSET dlq BY DEF Retryable
    <2>4. /\ dlq' \subseteq EntryType /\ sink' \in [Configs -> [Rows -> Lsn]]
          /\ delivered' \in [Configs -> SUBSET (1 .. MaxChanges)] /\ failures' \in Nat
      BY <1>0, <2>2, <2>3, ReplayPassType
    <2>5. batch' \in BatchType BY <1>0, <1>12, <1>18 DEF ReplayDlq, TypeOK, BatchType
    <2> QED BY <1>0, <1>18, <2>4, <2>5
        DEF ReplayDlq, Typed, TypeOK, BatchBounds, Changes, EntryType, BatchType
  <1>19. CASE Maintain
    <2>1. dlq' \subseteq EntryType /\ dropped' \in [Configs -> SUBSET (1 .. MaxChanges)]
      BY <1>0, <1>19, ExpireType DEF Maintain
    <2> QED BY <1>0, <1>12, <1>19, <2>1
        DEF Maintain, Typed, TypeOK, BatchBounds, Changes, EntryType, BatchType
  <1>20. CASE Crash
    <2>1. crashes' \in Nat BY <1>0, <1>20 DEF Crash, TypeOK
    <2> QED BY <1>0, <1>13, <1>20, <2>1 DEF Crash, Typed, TypeOK, BatchBounds, Changes, BatchType
  <1>21. CASE UNCHANGED vars
    BY <1>0, <1>21 DEF vars, Typed, TypeOK, BatchBounds, Changes
  <1>22. CASE ReplayAborts
    <2>1. PICK F \in SUBSET Retryable : \E ok \in SUBSET F : \E sent \in SUBSET (Retryable \ F) : ReplayEffect(F, ok, sent)
      BY <1>22 DEF ReplayAborts
    <2>2. PICK ok \in SUBSET F, sent \in SUBSET (Retryable \ F) : ReplayEffect(F, ok, sent) BY <2>1
    <2>3. F \in SUBSET dlq /\ sent \in SUBSET dlq BY DEF Retryable
    <2>4. /\ dlq' \subseteq EntryType /\ sink' \in [Configs -> [Rows -> Lsn]]
          /\ delivered' \in [Configs -> SUBSET (1 .. MaxChanges)]
      BY <1>0, <2>2, <2>3, ReplayEffectType
    <2>5. batch' \in BatchType /\ failures' \in Nat
      BY <1>0, <1>12, <1>22 DEF ReplayAborts, TypeOK, BatchType
    <2> QED BY <1>0, <1>22, <2>4, <2>5
        DEF ReplayAborts, Typed, TypeOK, BatchBounds, Changes, EntryType, BatchType
  <1> QED BY <1>1, <1>2, <1>3, <1>4, <1>5, <1>6, <1>7, <1>8, <1>9, <1>10, <1>11, <1>14, <1>15,
             <1>16, <1>17, <1>18, <1>19, <1>20, <1>21, <1>22 DEF Next, Process, Environment

(* Type correctness: every LSN stays within the WAL's bound, every entry and *)
(* document is well formed, and the loop is at one of its stages.            *)
THEOREM TypeCorrect == Spec => []TypeOK
  <1>1. Init => Typed BY TypeInit
  <1>2. Typed /\ [Next]_vars => Typed' BY TypeStep
  <1>3. Typed => TypeOK BY DEF Typed
  <1> QED BY <1>1, <1>2, <1>3, PTL DEF Spec

----------------------------------------------------------------------------
(* No change is lost.                                                      *)

\* What is accounted for stays so: entries leave the queue only for the
\* namespace or for the list of changes given up.
LEMMA AccountedKept ==
  ASSUME Typed, [Next]_vars, NEW c \in Configs, NEW n, Accounted(c, n)
  PROVE  Accounted(c, n)'
  <1> USE DEF pgVars, sinkVars, streamVars, budgets
  <1>0. /\ delivered \in [Configs -> SUBSET (1 .. MaxChanges)] /\ dropped \in [Configs -> SUBSET (1 .. MaxChanges)]
        /\ dlq \subseteq EntryType
    BY DEF Typed, TypeOK, EntryType
  <1>1. CASE /\ delivered[c] \subseteq delivered'[c] /\ dropped[c] \subseteq dropped'[c] /\ dlq \subseteq dlq'
    BY <1>1 DEF Accounted
  <1>2. ASSUME Expire, UNCHANGED delivered PROVE Accounted(c, n)'
    <2>1. PICK old \in SUBSET {e \in dlq : e.permanent} :
            /\ dlq' = dlq \ old
            /\ dropped' = [d \in Configs |-> dropped[d] \cup {e.change : e \in {x \in old : x.cfg = d}}]
      BY <1>2 DEF Expire
    <2>2. CASE n \in delivered[c] \cup dropped[c] BY <1>2, <2>1, <2>2 DEF Accounted
    <2>3. CASE \E e \in dlq : e.cfg = c /\ e.change = n
      <3>1. PICK e \in dlq : e.cfg = c /\ e.change = n BY <2>3
      <3>2. CASE e \in old BY <2>1, <3>1, <3>2 DEF Accounted
      <3>3. CASE e \notin old BY <2>1, <3>1, <3>3 DEF Accounted
      <3> QED BY <3>2, <3>3
    <2> QED BY <2>2, <2>3 DEF Accounted
  <1>3. ASSUME NEW F \in SUBSET Retryable, NEW ok \in SUBSET F, NEW sent, ReplayEffect(F, ok, sent), UNCHANGED dropped
        PROVE  Accounted(c, n)'
    <2>1. /\ dlq' = (dlq \ F) \cup {AfterFailure(e) : e \in F \ ok}
          /\ delivered' = [d \in Configs |-> delivered[d] \cup {e.change : e \in {x \in ok \cup sent : x.cfg = d}}]
      BY <1>3 DEF ReplayEffect
    <2>2. CASE n \in delivered[c] \cup dropped[c] BY <1>3, <2>1, <2>2 DEF Accounted
    <2>3. CASE \E e \in dlq : e.cfg = c /\ e.change = n
      <3>1. PICK e \in dlq : e.cfg = c /\ e.change = n BY <2>3
      <3>2. CASE e \in ok BY <2>1, <3>1, <3>2 DEF Accounted
      <3>3. CASE e \in F \ ok
        <4>1. AfterFailure(e).cfg = c /\ AfterFailure(e).change = n BY <1>0, <3>1, AfterFailureType
        <4> QED BY <2>1, <3>3, <4>1 DEF Accounted
      <3>4. CASE e \notin F BY <2>1, <3>1, <3>4 DEF Accounted
      <3> QED BY <3>2, <3>3, <3>4
    <2> QED BY <2>2, <2>3 DEF Accounted
  <1>4. CASE Start BY <1>2, <1>4 DEF Start
  <1>5. CASE Maintain BY <1>2, <1>5 DEF Maintain
  <1>6. CASE DrainDlq BY <1>3, <1>6 DEF DrainDlq, ReplayPass
  <1>7. CASE ReplayDlq BY <1>3, <1>7 DEF ReplayDlq, ReplayPass
  <1>8. CASE RecvTransactionTooLarge
    <2>1. delivered[c] \subseteq delivered'[c] /\ dropped[c] \subseteq dropped'[c] /\ dlq \subseteq dlq'
      BY <1>0, <1>8 DEF RecvTransactionTooLarge
    <2> QED BY <1>1, <2>1
  <1>9. ASSUME NEW d \in Configs, SendOk(d) \/ SendFails(d) \/ DeadLetterFails(d)
        PROVE  Accounted(c, n)'
    <2>1. CASE SendOk(d) BY <1>0, <1>1, <2>1 DEF SendOk, Delivered
    <2>2. CASE SendFails(d) BY <1>0, <1>1, <2>2 DEF SendFails, Delivered
    <2>3. CASE DeadLetterFails(d) BY <1>0, <1>1, <2>3 DEF DeadLetterFails, Delivered
    <2> QED BY <1>9, <2>1, <2>2, <2>3
  <1>10. CASE UNCHANGED <<delivered, dropped, dlq>> BY <1>1, <1>10
  <1>11. ASSUME NEW d \in Configs, BackfillNewConfig(d) \/ SaveCheckpoint(d) PROVE Accounted(c, n)'
    BY <1>10, <1>11 DEF BackfillNewConfig, SaveCheckpoint
  <1>12. CASE Commit \/ FlushSlot \/ Connect \/ RecvSubBatch \/ RecvBatch \/ RecvSchemaChanged \/ Ack \/ Crash
    BY <1>10, <1>12 DEF Commit, FlushSlot, Connect, RecvSubBatch, RecvBatch, RecvSchemaChanged, Ack, Crash
  <1>13. CASE UNCHANGED vars BY <1>10, <1>13 DEF vars
  <1>14. CASE ReplayAborts BY <1>3, <1>14 DEF ReplayAborts
  <1> QED BY <1>4, <1>5, <1>6, <1>7, <1>8, <1>9, <1>11, <1>12, <1>13, <1>14 DEF Next, Process, Environment

\* The WAL only grows, and an active config keeps its watermark.
LEMMA WalGrows ==
  ASSUME Typed, [Next]_vars
  PROVE  /\ Len(wal') \in Nat /\ Len(wal) \in Nat /\ Len(wal) <= Len(wal')
         /\ \A n \in Changes : wal'[n] = wal[n]
         /\ \A c \in Active : c \in Active' /\ watermark'[c] = watermark[c]
  <1> USE DEF pgVars, sinkVars, streamVars, budgets
  <1>1. Typed' BY TypeStep
  <1>2. Len(wal) \in Nat /\ Len(wal') \in Nat
    BY <1>1, LsnBounds DEF Typed, TypeOK
  <1>3. CASE Commit
    <2>1. PICK k \in 1 .. MaxTxnLen : \E txn \in [1 .. k -> [row : Rows, op : Ops]] : wal' = wal \o txn
      BY <1>3 DEF Commit
    <2>2. PICK txn \in [1 .. k -> [row : Rows, op : Ops]] : wal' = wal \o txn
      BY <2>1
    <2>3. k \in Nat
      <3>1. MaxTxnLen \in Nat BY ConstantsAssumption
      <3> QED BY <3>1
    <2>4. txn \in Seq([row : Rows, op : Ops]) BY <2>3, TupleIsSeq
    <2>5. wal \in Seq([row : Rows, op : Ops]) BY DEF Typed, TypeOK
    <2>6. Len(txn) \in Nat BY <2>4, LenProperties
    <2>7. /\ Len(wal') = Len(wal) + Len(txn)
          /\ \A i \in 1 .. Len(wal) + Len(txn) :
               wal'[i] = IF i <= Len(wal) THEN wal[i] ELSE txn[i - Len(wal)]
      BY <2>2, <2>4, <2>5, ConcatProperties
    <2>8. \A n \in Changes : wal'[n] = wal[n] BY <1>2, <2>6, <2>7 DEF Changes
    <2>9. UNCHANGED watermark BY <1>3 DEF Commit
    <2> QED BY <1>2, <2>6, <2>7, <2>8, <2>9 DEF Active
  <1>4. CASE UNCHANGED <<wal, watermark>>
    BY <1>2, <1>4 DEF Active
  <1>5. ASSUME NEW c \in Configs, BackfillNewConfig(c) PROVE UNCHANGED wal /\ c \notin Active
                 /\ \E w : watermark' = [watermark EXCEPT ![c] = w]
    BY <1>5 DEF BackfillNewConfig
  <1>6. watermark \in [Configs -> Lsn \cup {NoLsn}] BY DEF Typed, TypeOK
  <1>7. ASSUME NEW c \in Configs, BackfillNewConfig(c)
        PROVE  \A d \in Active : d \in Active' /\ watermark'[d] = watermark[d]
    BY <1>5, <1>6, <1>7 DEF Active
  <1>8. ASSUME NEW d \in Configs, SendOk(d) \/ SendFails(d) \/ DeadLetterFails(d) \/ SaveCheckpoint(d)
        PROVE UNCHANGED <<wal, watermark>>
    BY <1>8 DEF SendOk, SendFails, DeadLetterFails, SaveCheckpoint
  <1>9. CASE \/ FlushSlot \/ Connect \/ RecvSubBatch \/ RecvBatch \/ RecvSchemaChanged \/ Ack \/ Crash
             \/ Start \/ RecvTransactionTooLarge \/ DrainDlq \/ ReplayDlq \/ ReplayAborts \/ Maintain
    BY <1>4, <1>9 DEF FlushSlot, Connect, RecvSubBatch, RecvBatch, RecvSchemaChanged, Ack, Crash, Start,
       RecvTransactionTooLarge, DrainDlq, ReplayDlq, ReplayAborts, Maintain
  <1>10. CASE UNCHANGED vars BY <1>4, <1>10 DEF vars
  <1> QED BY <1>2, <1>3, <1>4, <1>5, <1>7, <1>8, <1>9, <1>10 DEF Next, Process, Environment

\* What is settled for a config stays settled.
LEMMA SettledKept ==
  ASSUME Typed, [Next]_vars, NEW c \in Active, NEW l \in Int, l <= Len(wal), Settled(c, l)
  PROVE  Settled(c, l)'
  <1>1. /\ Len(wal) \in Nat /\ Len(wal') \in Nat /\ Len(wal) <= Len(wal')
        /\ \A n \in Changes : wal'[n] = wal[n]
        /\ watermark'[c] = watermark[c]
    BY WalGrows
  <1>2. c \in Configs BY DEF Active
  <1>3. \A n : Accounted(c, n) => Accounted(c, n)' BY <1>2, AccountedKept
  <1>4. \A n \in Changes' : n <= l => n \in Changes BY <1>1 DEF Changes
  <1> QED BY <1>1, <1>3, <1>4 DEF Settled

\* A safe LSN stays safe unless a config whose watermark lies below it is added.
LEMMA SafeKept ==
  ASSUME Typed, [Next]_vars, NEW l \in Int, Safe(l), \A c \in Active' \ Active : l <= watermark'[c]
  PROVE  Safe(l)'
  <1>1. Len(wal) \in Nat /\ Len(wal') \in Nat /\ Len(wal) <= Len(wal') BY WalGrows
  <1>2. l <= Len(wal) /\ \A c \in Active : Settled(c, l) BY DEF Safe
  <1>3. \A c \in Active : Settled(c, l)' BY <1>2, SettledKept
  <1>4. ASSUME NEW c \in Active' \ Active PROVE Settled(c, l)'
    <2>1. l <= watermark'[c] OBVIOUS
    <2>2. watermark'[c] \in Int
      <3>1. Typed' BY TypeStep
      <3> QED BY <3>1, LsnType DEF Typed, TypeOK, Active, Lsn, NoLsn
    <2>3. Changes' \subseteq Int BY <1>1 DEF Changes
    <2> QED BY <2>1, <2>2, <2>3 DEF Settled
  <1> QED BY <1>1, <1>2, <1>3, <1>4 DEF Safe

\* LSN zero and no LSN are safe.
LEMMA SafeZero ==
  ASSUME Typed, NEW l \in {0, NoLsn} PROVE Safe(l)
  <1>1. Len(wal) \in Nat BY LsnBounds DEF Typed
  <1> QED BY <1>1 DEF Safe, Settled, Changes, NoLsn

\* Positions are integers.
LEMMA PositionTypes ==
  ASSUME Typed
  PROVE  /\ confirmed \in Int /\ applied \in Int /\ start \in Int
         /\ pos \in Nat /\ part \in Nat /\ pos + part \in Int
         /\ \A c \in Configs : cp[c] \in Int /\ memcp[c] \in Int /\ watermark[c] \in Int
         /\ Len(wal) \in Nat
  <1>1. /\ confirmed \in Lsn /\ applied \in Lsn /\ start \in Lsn /\ pos \in Lsn /\ part \in Lsn
        /\ cp \in [Configs -> Lsn \cup {NoLsn}] /\ memcp \in [Configs -> Lsn \cup {NoLsn}]
        /\ watermark \in [Configs -> Lsn \cup {NoLsn}]
    BY DEF Typed, TypeOK
  <1>2. Lsn \subseteq Nat /\ \A l \in Lsn \cup {NoLsn} : l \in Int BY DEF Lsn, NoLsn
  <1>3. Len(wal) \in Nat BY LsnBounds DEF Typed
  <1>4. ASSUME NEW c \in Configs
        PROVE  cp[c] \in Int /\ memcp[c] \in Int /\ watermark[c] \in Int
    <2>1. /\ cp[c] \in Lsn \cup {NoLsn} /\ memcp[c] \in Lsn \cup {NoLsn}
          /\ watermark[c] \in Lsn \cup {NoLsn}
      BY <1>1
    <2> QED BY <1>2, <2>1
  <1> QED BY <1>1, <1>2, <1>3, <1>4

\* A step that moves none of the positions leaves them safe.
LEMMA PositionsKept ==
  ASSUME Typed, [Next]_vars, EveryPositionSafe,
         UNCHANGED <<watermark, cp, memcp, confirmed, applied, start>>
  PROVE  /\ Active' = Active
         /\ \A l \in Int : Safe(l) => Safe(l)'
         /\ Safe(confirmed)' /\ Safe(applied)' /\ Safe(start)'
         /\ \A c \in Configs : Safe(cp[c])'
         /\ \A c \in Active' : memcp'[c] <= Len(wal') /\ Settled(c, memcp[c])'
  <1>1. Active' = Active BY DEF Active
  <1>2. \A l \in Int : Safe(l) => Safe(l)' BY <1>1, SafeKept
  <1>3. \A c \in Active : \A l \in Int : l <= Len(wal) /\ Settled(c, l) => Settled(c, l)' BY SettledKept
  <1>4. Len(wal') \in Nat /\ Len(wal) \in Nat /\ Len(wal) <= Len(wal') BY WalGrows
  <1>5. Safe(confirmed)' /\ Safe(applied)' /\ Safe(start)'
    BY <1>2, PositionTypes DEF EveryPositionSafe, Safe, Settled
  <1>6. \A c \in Configs : Safe(cp[c])'
    BY <1>2, PositionTypes DEF EveryPositionSafe, Safe, Settled
  <1>7. \A c \in Active' : memcp'[c] <= Len(wal') /\ Settled(c, memcp[c])'
    <2> SUFFICES ASSUME NEW c \in Active
                 PROVE  memcp[c] <= Len(wal') /\ Settled(c, memcp[c])'
      BY <1>1
    <2>1. memcp[c] \in Int BY PositionTypes DEF Active
    <2>2. memcp[c] <= Len(wal) /\ Settled(c, memcp[c]) BY DEF EveryPositionSafe
    <2>3. memcp' = memcp OBVIOUS
    <2>4. memcp[c] <= Len(wal') BY <1>4, <2>1, <2>2
    <2>5. \A l \in Int : l = memcp[c] => Settled(c, l)' BY <1>3, <2>1, <2>2
    <2> QED BY <2>1, <2>3, <2>4, <2>5 DEF Settled
  <1> QED BY <1>1, <1>2, <1>5, <1>6, <1>7

\* process_events left with a batch that is settled for every config.
LEMMA EndProcessSafe ==
  ASSUME Typed, [Next]_vars, EveryPositionSafe,
         UNCHANGED <<watermark, wal, cp, memcp, confirmed, applied, start, pos>>,
         NEW b \in BatchType, b.hi \in pos .. Len(wal), b.kind # "sub" => b.ack = b.hi,
         EndProcess(b), \A c \in Active : Settled(c, b.hi)'
  PROVE  EveryPositionSafe'
  <1>1. pos \in Nat /\ part \in Nat /\ b.hi \in Int /\ b.hi <= Len(wal) /\ b.ack \in Int
    BY PositionTypes DEF BatchType, Lsn
  <1>2. Safe(b.hi)' BY <1>1, PositionsKept DEF Safe
  <1>3. CASE b.kind = "sub"
    <2>1. pc' = "recv" /\ pos' + part' = b.hi BY <1>1, <1>3 DEF EndProcess
    <2>2. Safe(pos + part)' BY <1>2, <2>1 DEF Safe, Settled
    <2> QED BY <2>1, <2>2, PositionsKept DEF EveryPositionSafe
  <1>4. CASE b.kind # "sub"
    <2>1. pc' \in {"save", "ack"} /\ batch' = b /\ UNCHANGED part BY <1>4 DEF EndProcess, AfterSave
    <2>2. Safe(pos + part)
      BY DEF EveryPositionSafe
    <2>3. Safe(pos + part)' BY <2>1, <2>2, PositionTypes, PositionsKept DEF Safe, Settled
    <2>4. Safe(batch.ack)' BY <1>2, <1>4, <2>1 DEF Safe, Settled
    <2> QED BY <2>1, <2>3, <2>4, PositionsKept DEF EveryPositionSafe
  <1> QED BY <1>3, <1>4

\* A batch just received: only the configs with events in it and not ahead of
\* it remain to be served.
LEMMA BeginProcessSafe ==
  ASSUME Typed, [Next]_vars, EveryPositionSafe,
         UNCHANGED <<watermark, wal, cp, memcp, confirmed, applied, start, pos>>,
         NEW b \in BatchType, b.hi \in pos .. Len(wal), b.kind \in {"sub", "batch"},
         b.lo = pos + part + 1, b.kind # "sub" => b.ack = b.hi, BeginProcess(b)
  PROVE  EveryPositionSafe'
  <1>1. pos \in Nat /\ part \in Nat /\ Len(wal) \in Nat /\ b.hi \in Int /\ b.hi <= Len(wal)
    BY PositionTypes DEF BatchType
  <1>2. ASSUME NEW c \in Active \ ToProcess(b) PROVE Settled(c, b.hi)
    <2>1. CASE Routed(c, b.lo .. b.hi) = {}
      <3>1. Settled(c, pos + part) BY DEF EveryPositionSafe, Safe
      <3>2. \A n \in Changes : n \in Int BY <1>1 DEF Changes
      <3>3. \A n \in Changes : n <= b.hi /\ wal[n].row \in SourceOf[c] => n <= pos + part
        BY <1>1, <2>1, <3>2 DEF Routed
      <3> QED BY <3>1, <3>3 DEF Settled
    <2>2. CASE b.kind # "sub" /\ ShouldSkip(c, b.ack)
      <3>1. Settled(c, memcp[c]) /\ b.hi <= memcp[c] BY <2>2 DEF EveryPositionSafe, ShouldSkip
      <3>2. \A n \in Changes : n \in Int BY <1>1 DEF Changes
      <3>3. memcp[c] \in Int BY PositionTypes DEF Active
      <3> QED BY <1>1, <3>1, <3>2, <3>3 DEF Settled
    <2> QED BY <2>1, <2>2 DEF ToProcess
  <1>3. \A c \in Active \ ToProcess(b) : Settled(c, b.hi)' BY <1>1, <1>2, SettledKept
  <1>4. CASE ToProcess(b) = {} BY <1>3, <1>4, EndProcessSafe DEF BeginProcess
  <1>5. CASE ToProcess(b) # {}
    <2>1. pc' = "process" /\ todo' = ToProcess(b) /\ batch' = b /\ UNCHANGED part
      BY <1>5 DEF BeginProcess
    <2>2. Safe(pos + part)' BY <2>1, PositionTypes, PositionsKept DEF EveryPositionSafe, Safe, Settled
    <2>3. \A c \in Active' \ todo' : Settled(c, batch.hi)'
      BY <1>3, <2>1, PositionsKept DEF Settled
    <2> QED BY <1>1, <2>1, <2>2, <2>3, PositionsKept DEF EveryPositionSafe
  <1> QED BY <1>4, <1>5

\* A config served: its events reached the namespace or the queue.
LEMMA NextConfigSafe ==
  ASSUME Typed, [Next]_vars, EveryPositionSafe, pc = "process",
         UNCHANGED <<watermark, wal, cp, memcp, confirmed, applied, start, pos>>,
         NEW c \in todo, NextConfig(c), \A n \in Mine(c) : Accounted(c, n)'
  PROVE  EveryPositionSafe'
  <1> PICK b : b = batch OBVIOUS
  <1>1. /\ pos \in Nat /\ part \in Nat /\ Len(wal) \in Nat /\ b \in BatchType /\ b.hi \in Int
        /\ b.hi \in pos .. Len(wal)
    BY PositionTypes DEF Typed, TypeOK, BatchBounds, BatchType
  <1>2. /\ b.kind \in {"sub", "batch"} /\ b.lo = pos + part + 1
        /\ b.kind = "batch" => b.ack = b.hi
        /\ \A d \in Active \ todo : Settled(d, b.hi)
    BY DEF EveryPositionSafe
  <1>3. \A d \in Active \ todo : Settled(d, b.hi)' BY <1>1, <1>2, SettledKept
  <1>4. c \in Active => Settled(c, b.hi)'
    <2>1. SUFFICES ASSUME c \in Active, NEW n \in Changes, watermark[c] < n, n <= b.hi,
                          wal[n].row \in SourceOf[c]
                   PROVE Accounted(c, n)'
      BY DEF Settled, Changes
    <2>2. n \in Int BY <1>1 DEF Changes
    <2>3. CASE n <= pos + part
      <3>1. Settled(c, pos + part) BY <2>1 DEF EveryPositionSafe, Safe
      <3>2. Accounted(c, n) BY <2>1, <2>3, <3>1 DEF Settled
      <3> QED BY <2>1, <3>2, AccountedKept DEF Active
    <2>4. CASE n > pos + part
      <3>1. n \in Mine(c) BY <1>1, <1>2, <2>1, <2>2, <2>4 DEF Mine, Routed
      <3> QED BY <3>1
    <2> QED BY <1>1, <2>2, <2>3, <2>4
  <1>5. CASE todo = {c}
    <2>1. \A d \in Active : Settled(d, b.hi)' BY <1>3, <1>4, <1>5
    <2>2. EndProcess(b) BY <1>5 DEF NextConfig, EndProcess
    <2> QED BY <1>1, <1>2, <2>1, <2>2, EndProcessSafe
  <1>6. CASE todo # {c}
    <2>1. todo' = todo \ {c} /\ UNCHANGED <<pc, part, batch>> BY <1>6 DEF NextConfig
    <2>2. Safe(pos + part)' BY <2>1, PositionTypes, PositionsKept DEF EveryPositionSafe, Safe, Settled
    <2>3. \A d \in Active' \ todo' : Settled(d, batch.hi)'
      BY <1>3, <1>4, <2>1, PositionsKept DEF Settled
    <2> QED BY <1>1, <1>2, <2>1, <2>2, <2>3, PositionsKept DEF EveryPositionSafe
  <1> QED BY <1>5, <1>6

\* While no config is added, what is safe or settled stays so.
LEMMA SafeStays ==
  ASSUME Typed, [Next]_vars, UNCHANGED watermark
  PROVE  /\ Active' = Active
         /\ \A l \in Int : Safe(l) => Safe(l)'
         /\ \A c \in Active : \A l \in Int : l <= Len(wal) /\ Settled(c, l) => Settled(c, l)'
         /\ Len(wal) \in Nat /\ Len(wal') \in Nat /\ Len(wal) <= Len(wal')
  <1>1. Active' = Active BY DEF Active
  <1>2. \A l \in Int : Safe(l) => Safe(l)' BY <1>1, SafeKept
  <1>3. \A c \in Active : \A l \in Int : l <= Len(wal) /\ Settled(c, l) => Settled(c, l)' BY SettledKept
  <1> QED BY <1>1, <1>2, <1>3, WalGrows

\* What a config skips stays settled.
LEMMA SkipsKept ==
  ASSUME Typed, [Next]_vars, EveryPositionSafe, UNCHANGED <<watermark, memcp>>, NEW c \in Active'
  PROVE  memcp'[c] <= Len(wal') /\ Settled(c, memcp[c])'
  <1>1. c \in Active /\ c \in Configs BY SafeStays DEF Active
  <1>2. memcp[c] \in Int /\ memcp[c] <= Len(wal) /\ Settled(c, memcp[c])
    BY <1>1, PositionTypes DEF EveryPositionSafe
  <1> PICK m : m = memcp[c] OBVIOUS
  <1>3. Settled(c, m)' /\ m <= Len(wal') BY <1>1, <1>2, SafeStays DEF Settled
  <1> QED BY <1>3 DEF Settled

\* Zero and no LSN are safe after the step, too.
LEMMA SafeZeroNext ==
  ASSUME Typed, [Next]_vars PROVE Safe(0)' /\ Safe(NoLsn)'
  <1>1. Len(wal') \in Nat BY WalGrows
  <1> QED BY <1>1 DEF Safe, Settled, Changes, NoLsn

\* A watermark is a position the WAL has reached.
WatermarkBounds == \A c \in Configs : watermark[c] <= Len(wal)

LEMMA WatermarkStep ==
  ASSUME Typed, WatermarkBounds, [Next]_vars PROVE WatermarkBounds'
  <1>1. Len(wal) \in Nat /\ Len(wal') \in Nat /\ Len(wal) <= Len(wal') BY WalGrows
  <1>2. watermark \in [Configs -> Lsn \cup {NoLsn}] /\ \A c \in Configs : watermark[c] \in Int
    BY PositionTypes DEF Typed, TypeOK
  <1>3. CASE UNCHANGED watermark BY <1>1, <1>2, <1>3 DEF WatermarkBounds
  <1>4. ASSUME NEW c \in Configs, BackfillNewConfig(c) PROVE WatermarkBounds'
    <2>1. PICK w \in commits \cup {0} : watermark' = [watermark EXCEPT ![c] = w]
      BY <1>4 DEF BackfillNewConfig
    <2>2. w \in Nat /\ w <= Len(wal) BY LsnBounds, <1>1 DEF Typed
    <2> QED BY <1>1, <1>2, <2>1, <2>2 DEF WatermarkBounds
  <1>5. UNCHANGED watermark \/ \E c \in Configs : BackfillNewConfig(c)
    BY DEF Next, Process, Environment, Commit, FlushSlot, Connect, RecvSubBatch, RecvBatch, RecvSchemaChanged,
      Ack, Crash, Start, RecvTransactionTooLarge, DrainDlq, ReplayDlq, ReplayAborts, Maintain, SendOk, SendFails,
      DeadLetterFails, SaveCheckpoint, vars
  <1> QED BY <1>3, <1>4, <1>5

\* A process that goes down keeps nothing in memory.
LEMMA StopSafe ==
  ASSUME Typed, [Next]_vars, EveryPositionSafe, Stop, UNCHANGED <<watermark, cp, confirmed>>
  PROVE  EveryPositionSafe'
  <1> USE DEF Stop
  <1>1. Typed' BY TypeStep
  <1>2. Safe(0)' /\ Safe(NoLsn)' BY SafeZeroNext
  <1>3. Safe(confirmed)' BY SafeStays, PositionTypes DEF EveryPositionSafe, Safe, Settled
  <1>4. \A c \in Configs : Safe(cp[c])' BY SafeStays, PositionTypes DEF EveryPositionSafe, Safe, Settled
  <1>5. Safe(applied)' /\ Safe(start)' BY <1>2 DEF Safe, Settled
  <1>6. Safe(pos + part)'
    <2>1. pos' + part' = 0 OBVIOUS
    <2> QED BY <1>2, <2>1 DEF Safe, Settled
  <1>7. \A c \in Active' : memcp'[c] = NoLsn BY DEF Active
  <1>8. \A c \in Active' : memcp'[c] <= Len(wal') /\ Settled(c, memcp[c])' BY <1>2, <1>7 DEF Safe, Settled
  <1> QED BY <1>3, <1>4, <1>5, <1>6, <1>8 DEF EveryPositionSafe

\* A config added between two runs starts above everything already released.
LEMMA BackfillSafe ==
  ASSUME Typed, [Next]_vars, EveryPositionSafe, NEW c \in Configs, BackfillNewConfig(c)
  PROVE  EveryPositionSafe'
  <1> USE DEF pgVars, streamVars
  <1>1. Typed' BY TypeStep
  <1>2. PICK w \in commits \cup {0} :
          /\ confirmed <= w /\ \A d \in Configs : cp[d] <= w
          /\ watermark' = [watermark EXCEPT ![c] = w]
    BY DEF BackfillNewConfig
  <1>3. watermark \in [Configs -> Lsn \cup {NoLsn}] BY DEF Typed, TypeOK
  <1>4. \A d \in Active' \ Active : d = c /\ watermark'[d] = w BY <1>2, <1>3 DEF Active
  <1>5. ASSUME NEW l \in Int, Safe(l), l <= w PROVE Safe(l)' BY <1>4, <1>5, SafeKept
  <1>6. UNCHANGED <<confirmed, cp, memcp, start, pos, part, applied, pc>> /\ pc = "down"
    BY DEF BackfillNewConfig
  <1>7. Safe(confirmed)' BY <1>2, <1>5, <1>6, PositionTypes DEF EveryPositionSafe, Safe, Settled
  <1>8. \A d \in Configs : Safe(cp[d])'
    BY <1>2, <1>5, <1>6, PositionTypes DEF EveryPositionSafe, Safe, Settled
  <1>9. Safe(0)' /\ Safe(NoLsn)' BY SafeZeroNext
  <1>10. start' = 0 /\ applied' = 0 /\ pos' = 0 /\ part' = 0 /\ memcp' = [d \in Configs |-> NoLsn]
    BY <1>6 DEF EveryPositionSafe
  <1>11. Safe(applied)' /\ Safe(start)' BY <1>9, <1>10 DEF Safe, Settled
  <1>12. Safe(pos + part)'
    <2>1. pos' + part' = 0 BY <1>10
    <2> QED BY <1>9, <2>1 DEF Safe, Settled
  <1>13. \A d \in Active' : memcp'[d] <= Len(wal') /\ Settled(d, memcp[d])'
    BY <1>9, <1>10 DEF Safe, Settled, Active
  <1> QED BY <1>6, <1>7, <1>8, <1>10, <1>11, <1>12, <1>13 DEF EveryPositionSafe

\* The start of a run: start_lsn is the least of all, and a config skips no
\* more than its checkpoint or, without one, its watermark.
LEMMA StartSafe ==
  ASSUME Typed, [Next]_vars, EveryPositionSafe, WatermarkBounds, Start
  PROVE  EveryPositionSafe'
  <1> USE DEF pgVars, sinkVars, streamVars, budgets
  <1>1. UNCHANGED <<watermark, cp, confirmed, applied, pos, part>> /\ pc' = "drain" BY DEF Start
  <1>2. PICK s \in StartCandidates : (\A x \in StartCandidates : s <= x) /\ start' = s BY DEF Start
  <1>3. s \in Int /\ s <= Len(wal)
    <2>1. CASE \E c \in Active : s = watermark[c]
      BY <2>1, PositionTypes DEF Active, WatermarkBounds
    <2>2. CASE \E c \in Active : s = cp[c]
      BY <2>2, PositionTypes DEF Active, EveryPositionSafe, Safe
    <2> QED BY <1>2, <2>1, <2>2 DEF StartCandidates
  <1>4. Len(wal) \in Nat /\ Changes \subseteq Int BY PositionTypes DEF Changes
  <1>5. \A c \in Active : Settled(c, s)
    <2>1. \A c \in Active : watermark[c] \in Int /\ s <= watermark[c]
      BY <1>2, PositionTypes DEF StartCandidates, Active
    <2> QED BY <1>3, <1>4, <2>1 DEF Settled
  <1>6. Safe(s)' BY <1>1, <1>3, <1>5, SafeStays DEF Safe
  <1>7. Safe(start)' BY <1>2, <1>6 DEF Safe, Settled
  <1>8. ASSUME NEW c \in Active PROVE Resume(c) \in Int /\ Resume(c) <= Len(wal) /\ Settled(c, Resume(c))
    <2>1. c \in Configs BY DEF Active
    <2>2. CASE cp[c] # NoLsn
      <3>1. Resume(c) = cp[c] BY <2>2 DEF Resume
      <3>2. Safe(cp[c]) BY <2>1 DEF EveryPositionSafe
      <3> QED BY <2>1, <3>1, <3>2, PositionTypes DEF Safe
    <2>3. CASE cp[c] = NoLsn
      <3>1. Resume(c) = watermark[c] BY <2>3 DEF Resume
      <3>2. watermark[c] \in Int /\ watermark[c] <= Len(wal) BY <2>1, PositionTypes DEF WatermarkBounds
      <3>3. \A n \in Changes : ~(watermark[c] < n /\ n <= watermark[c]) BY <1>4, <3>2
      <3>4. Settled(c, watermark[c]) BY <3>3 DEF Settled
      <3> QED BY <3>1, <3>2, <3>4
    <2> QED BY <2>2, <2>3
  <1>9. ASSUME NEW c \in Active' PROVE memcp'[c] <= Len(wal') /\ Settled(c, memcp[c])'
    <2>1. c \in Active /\ c \in Configs BY <1>1, SafeStays DEF Active
    <2> PICK l : l = Resume(c) OBVIOUS
    <2>2. memcp'[c] = l BY <2>1 DEF Start
    <2>3. l \in Int /\ l <= Len(wal) /\ Settled(c, l) BY <1>8, <2>1 DEF Settled
    <2>4. Settled(c, l)' /\ l <= Len(wal') BY <1>1, <2>1, <2>3, SafeStays
    <2> QED BY <2>2, <2>4 DEF Settled
  <1>10. Safe(confirmed)' /\ Safe(applied)' /\ Safe(pos + part)'
    BY <1>1, SafeStays, PositionTypes DEF EveryPositionSafe, Safe, Settled
  <1>11. \A c \in Configs : Safe(cp[c])'
    BY <1>1, SafeStays, PositionTypes DEF EveryPositionSafe, Safe, Settled
  <1> QED BY <1>1, <1>7, <1>9, <1>10, <1>11 DEF EveryPositionSafe

\* Saving a checkpoint: what the batch has settled.
LEMMA SaveSafe ==
  ASSUME Typed, [Next]_vars, EveryPositionSafe, NEW c \in Configs, SaveCheckpoint(c)
  PROVE  EveryPositionSafe'
  <1> USE DEF pgVars, sinkVars, streamVars, budgets
  <1>1. UNCHANGED <<watermark, confirmed, applied, start, pos, part, batch>> /\ pc = "save" /\ pc' \in {"save", "ack"}
    BY DEF SaveCheckpoint
  <1> PICK a : a = batch.ack OBVIOUS
  <1>2. a \in Int BY DEF Typed, TypeOK, Lsn
  <1>3. Safe(a) BY <1>1 DEF EveryPositionSafe
  <1>4. Safe(a)' BY <1>1, <1>2, <1>3, SafeStays
  <1>5. cp \in [Configs -> Lsn \cup {NoLsn}] /\ memcp \in [Configs -> Lsn \cup {NoLsn}] BY DEF Typed, TypeOK
  <1>6. /\ cp' = [cp EXCEPT ![c] = a]
        /\ memcp' = memcp \/ memcp' = [memcp EXCEPT ![c] = a]
    BY DEF SaveCheckpoint
  <1>7. Safe(confirmed)' /\ Safe(applied)' /\ Safe(start)' /\ Safe(pos + part)'
    BY <1>1, SafeStays, PositionTypes DEF EveryPositionSafe, Safe, Settled
  <1>8. ASSUME NEW d \in Configs PROVE Safe(cp[d])'
    <2>1. cp[d] \in Int /\ Safe(cp[d]) BY PositionTypes DEF EveryPositionSafe
    <2> PICK l : l = cp[d] OBVIOUS
    <2>2. Safe(l)' BY <1>1, <2>1, SafeStays DEF Safe, Settled
    <2>3. cp'[d] \in {a, l} BY <1>5, <1>6
    <2> QED BY <1>4, <2>2, <2>3 DEF Safe, Settled
  <1>9. ASSUME NEW d \in Active' PROVE memcp'[d] <= Len(wal') /\ Settled(d, memcp[d])'
    <2>1. d \in Active /\ d \in Configs BY <1>1, SafeStays DEF Active
    <2> PICK l : l = memcp[d] OBVIOUS
    <2>2. l \in Int /\ l <= Len(wal) /\ Settled(d, l) BY <2>1, PositionTypes DEF EveryPositionSafe, Settled
    <2>3. Settled(d, l)' /\ l <= Len(wal') BY <1>1, <2>1, <2>2, SafeStays
    <2>4. memcp'[d] \in {a, l} BY <1>5, <1>6, <2>1
    <2>5. Settled(d, a)' /\ a <= Len(wal') BY <1>4, <2>1, <1>1, SafeStays DEF Safe
    <2> QED BY <2>3, <2>4, <2>5 DEF Settled
  <1>10. Safe(batch.ack)' BY <1>1, <1>4 DEF Safe, Settled
  <1> QED BY <1>1, <1>7, <1>8, <1>9, <1>10 DEF EveryPositionSafe

LEMMA SafeInit == Init => EveryPositionSafe
  <1> SUFFICES ASSUME Init PROVE EveryPositionSafe OBVIOUS
  <1>1. Typed BY TypeInit
  <1>2. Safe(0) /\ Safe(NoLsn) BY <1>1, SafeZero
  <1>3. \A c \in Configs : cp[c] \in {0, NoLsn} /\ memcp[c] = NoLsn BY DEF Init
  <1>4. \A c \in Active : memcp[c] <= Len(wal) /\ Settled(c, memcp[c])
    BY <1>2, <1>3 DEF Active, Safe
  <1>5. pos + part = 0 BY DEF Init
  <1>6. \A c \in Configs : Safe(cp[c])
    BY <1>2, <1>3
  <1> QED BY <1>2, <1>4, <1>5, <1>6 DEF Init, EveryPositionSafe, Safe, Settled

LEMMA SafeStep == Typed /\ WatermarkBounds /\ EveryPositionSafe /\ [Next]_vars => EveryPositionSafe'
  <1> SUFFICES ASSUME Typed, WatermarkBounds, EveryPositionSafe, [Next]_vars PROVE EveryPositionSafe' OBVIOUS
  <1> USE DEF pgVars, sinkVars, streamVars, budgets
  <1>0. Typed' BY TypeStep
  <1>1. CASE /\ UNCHANGED <<watermark, cp, memcp, confirmed, applied, start, pos, part, batch, todo>>
             /\ pc' = pc \/ pc' \notin {"down", "process", "save", "ack"}
    <2>1. Safe(pos + part)' BY <1>1, PositionTypes, PositionsKept DEF EveryPositionSafe, Safe, Settled
    <2> PICK b : b = batch OBVIOUS
    <2>2. pc = "process" => b.hi \in Int /\ b.hi <= Len(wal) BY DEF EveryPositionSafe, Typed, TypeOK
    <2>3. pc' = "process" => \A c \in Active' \ todo' : Settled(c, b.hi)'
      BY <1>1, <2>2, PositionsKept, SettledKept DEF EveryPositionSafe
    <2>4. pc' = "process" => \A c \in Active' \ todo' : Settled(c, batch.hi)'
      BY <1>1, <2>3 DEF Settled
    <2>5. pc' \in {"save", "ack"} => Safe(batch.ack)'
      <3>1. b.ack \in Int BY DEF Typed, TypeOK, Lsn
      <3>2. pc' \in {"save", "ack"} => Safe(b.ack)'
        BY <1>1, <3>1, PositionsKept DEF EveryPositionSafe
      <3> QED BY <1>1, <3>2 DEF Safe, Settled
    <2>6. Len(wal) \in Nat /\ Len(wal') \in Nat /\ Len(wal) <= Len(wal') BY WalGrows
    <2>7. pc' = "process" => batch'.hi <= Len(wal') BY <1>1, <2>2, <2>6 DEF EveryPositionSafe
    <2> QED BY <1>1, <2>1, <2>4, <2>5, <2>7, PositionsKept DEF EveryPositionSafe
  <1>2. CASE Commit BY <1>1, <1>2 DEF Commit
  <1>3. CASE DrainDlq BY <1>1, <1>3, <1>0 DEF DrainDlq
  <1>4. ASSUME NEW c \in Configs, SendOk(c) PROVE EveryPositionSafe'
    <2>1. Mine(c) \subseteq 1 .. MaxChanges BY RoutedType DEF Mine, Typed
    <2>2. \A n \in Mine(c) : Accounted(c, n)' BY <1>4 DEF SendOk, Delivered, Accounted, Typed, TypeOK
    <2> QED BY <1>4, <2>2, NextConfigSafe DEF SendOk
  <1>5. ASSUME NEW c \in Configs, SendFails(c) PROVE EveryPositionSafe'
    <2>1. dlq' = dlq \cup Entries(c, Mine(c)) BY <1>5 DEF SendFails
    <2>2. ASSUME NEW n \in Mine(c) PROVE Accounted(c, n)'
      <3>1. PICK e : e = [cfg |-> c, change |-> n, retries |-> 0, permanent |-> FALSE] OBVIOUS
      <3>2. e \in dlq' BY <2>1, <3>1 DEF Entries
      <3>3. e.cfg = c /\ e.change = n BY <3>1
      <3> QED BY <3>2, <3>3 DEF Accounted
    <2> QED BY <1>5, <2>2, NextConfigSafe DEF SendFails
  <1>6. CASE RecvSubBatch
    <2>1. PICK e \in commits : /\ e - pos - part >= SubBatchSize
            /\ BeginProcess([kind |-> "sub", lo |-> pos + part + 1, hi |-> pos + part + SubBatchSize, ack |-> 0])
      BY <1>6 DEF RecvSubBatch
    <2> PICK b : b = [kind |-> "sub", lo |-> pos + part + 1, hi |-> pos + part + SubBatchSize, ack |-> 0] OBVIOUS
    <2>2. e \in Nat /\ e <= Len(wal) /\ SubBatchSize \in Nat /\ Len(wal) \in Nat /\ pos \in Nat /\ part \in Nat /\ 0 \in Lsn
      BY LsnBounds, PositionTypes, ConstantsAssumption DEF Typed
    <2>3. b \in BatchType /\ b.hi \in pos .. Len(wal) BY <2>1, <2>2 DEF BatchType
    <2>4. BeginProcess(b) BY <2>1 DEF BeginProcess, EndProcess
    <2> QED BY <1>6, <2>3, <2>4, BeginProcessSafe DEF RecvSubBatch
  <1>7. CASE RecvBatch
    <2>1. PICK e \in commits : /\ IsNextCommit(e)
            /\ BeginProcess([kind |-> "batch", lo |-> pos + part + 1, hi |-> e, ack |-> e])
      BY <1>7 DEF RecvBatch
    <2> PICK b : b = [kind |-> "batch", lo |-> pos + part + 1, hi |-> e, ack |-> e] OBVIOUS
    <2>2. e \in Nat /\ e \in Lsn /\ e <= Len(wal) /\ e > pos /\ pos \in Nat /\ part \in Nat /\ Len(wal) \in Nat
      BY <2>1, LsnBounds, PositionTypes DEF Typed, IsNextCommit
    <2>3. b \in BatchType /\ b.hi \in pos .. Len(wal) BY <2>2 DEF BatchType
    <2>4. BeginProcess(b) BY <2>1 DEF BeginProcess, EndProcess
    <2> QED BY <1>7, <2>3, <2>4, BeginProcessSafe DEF RecvBatch
  <1>8. CASE RecvTransactionTooLarge
    <2>1. PICK e \in commits :
            /\ IsNextCommit(e)
            /\ EndProcess([kind |-> "toolarge", lo |-> pos + 1, hi |-> e, ack |-> e])
            /\ dropped' = [c \in Configs |-> dropped[c] \cup Routed(c, pos + 1 .. e)]
      BY <1>8 DEF RecvTransactionTooLarge
    <2> PICK b : b = [kind |-> "toolarge", lo |-> pos + 1, hi |-> e, ack |-> e] OBVIOUS
    <2>2. e \in Nat /\ e \in Lsn /\ e <= Len(wal) /\ e > pos /\ pos \in Nat /\ part \in Nat /\ Len(wal) \in Nat
      BY <2>1, LsnBounds, PositionTypes DEF Typed, IsNextCommit
    <2>3. b \in BatchType /\ b.hi \in pos .. Len(wal) BY <2>2 DEF BatchType
    <2>4. EndProcess(b) BY <2>1 DEF EndProcess
    <2>5. ASSUME NEW c \in Active PROVE Settled(c, e)'
      <3>1. SUFFICES ASSUME NEW n \in Changes, watermark[c] < n, n <= e, wal[n].row \in SourceOf[c]
                     PROVE Accounted(c, n)'
        BY <1>8 DEF Settled, Changes, RecvTransactionTooLarge
      <3>2. n \in Int BY <2>2 DEF Changes
      <3>3. CASE n <= pos
        <4>1. Settled(c, pos + part) BY DEF EveryPositionSafe, Safe
        <4>2. Accounted(c, n) BY <2>2, <3>1, <3>2, <3>3, <4>1 DEF Settled
        <4> QED BY <4>2, AccountedKept DEF Active
      <3>4. CASE n > pos
        <4>1. n \in Routed(c, pos + 1 .. e) BY <2>2, <3>1, <3>2, <3>4 DEF Routed
        <4> QED BY <2>1, <4>1 DEF Accounted, Active
      <3> QED BY <2>2, <3>2, <3>3, <3>4
    <2> QED BY <1>8, <2>3, <2>4, <2>5, EndProcessSafe DEF RecvTransactionTooLarge
  <1>9. CASE FlushSlot
    <2>1. /\ UNCHANGED <<watermark, cp, memcp, applied, start, pos, part, batch, todo, pc>>
          /\ confirmed' = applied
      BY <1>9 DEF FlushSlot
    <2>2. Safe(confirmed)' /\ Safe(applied)' /\ Safe(start)' /\ Safe(pos + part)'
      BY <2>1, SafeStays, PositionTypes DEF EveryPositionSafe, Safe, Settled
    <2>3. \A c \in Configs : Safe(cp[c])' BY <2>1, SafeStays, PositionTypes DEF EveryPositionSafe, Safe, Settled
    <2>4. \A c \in Active' : memcp'[c] <= Len(wal') /\ Settled(c, memcp[c])' BY <2>1, SkipsKept
    <2> PICK b : b = batch OBVIOUS
    <2>5. pc = "process" => b.hi \in Int /\ b.hi <= Len(wal) /\ \A c \in Active \ todo : Settled(c, b.hi)
      BY DEF EveryPositionSafe, Typed, TypeOK
    <2>6. pc = "process" => \A c \in Active' \ todo' : Settled(c, b.hi)' BY <2>1, <2>5, SafeStays
    <2>7. pc = "process" => batch'.hi <= Len(wal') /\ \A c \in Active' \ todo' : Settled(c, batch.hi)'
      BY <2>1, <2>5, <2>6, SafeStays DEF Settled
    <2>8. b.ack \in Int BY DEF Typed, TypeOK, Lsn
    <2>9. pc \in {"save", "ack"} => Safe(b.ack)' BY <2>1, <2>8, SafeStays DEF EveryPositionSafe, Safe, Settled
    <2>10. pc \in {"save", "ack"} => Safe(batch.ack)' BY <2>1, <2>9 DEF Safe, Settled
    <2> QED BY <2>1, <2>2, <2>3, <2>4, <2>7, <2>10 DEF EveryPositionSafe
  <1>10. CASE Connect
    <2>1. /\ UNCHANGED <<watermark, cp, memcp, confirmed, start>> /\ pc' = "recv"
          /\ pos' = ResumeLsn /\ part' = 0 /\ applied' = 0
      BY <1>10 DEF Connect
    <2> PICK l : l = ResumeLsn OBVIOUS
    <2>2. l \in Int /\ Safe(l)
      <3>1. l \in {start, confirmed} BY DEF ResumeLsn
      <3> QED BY <3>1, PositionTypes DEF EveryPositionSafe
    <2>3. Safe(l)' /\ Safe(0)' BY <2>1, <2>2, SafeStays, SafeZeroNext
    <2>4. pos' + part' = l BY <2>1, <2>2
    <2>5. Safe(pos + part)' /\ Safe(applied)' BY <2>1, <2>3, <2>4 DEF Safe, Settled
    <2>6. Safe(confirmed)' /\ Safe(start)'
      BY <2>1, SafeStays, PositionTypes DEF EveryPositionSafe, Safe, Settled
    <2>7. \A c \in Configs : Safe(cp[c])' BY <2>1, SafeStays, PositionTypes DEF EveryPositionSafe, Safe, Settled
    <2>8. \A c \in Active' : memcp'[c] <= Len(wal') /\ Settled(c, memcp[c])' BY <2>1, SkipsKept
    <2> QED BY <2>1, <2>5, <2>6, <2>7, <2>8 DEF EveryPositionSafe
  <1>11. CASE RecvSchemaChanged
    <2>1. /\ UNCHANGED <<watermark, cp, memcp, confirmed>> /\ pc' = "connect"
          /\ pos' = 0 /\ part' = 0 /\ applied' = 0
      BY <1>11 DEF RecvSchemaChanged
    <2>2. start' = 0 \/ \E c \in Configs : start' = cp[c]
      BY <1>11 DEF RecvSchemaChanged, ReconnectCandidates, Active
    <2>3. Safe(0)' /\ \A c \in Configs : Safe(cp[c])'
      BY <2>1, SafeStays, SafeZeroNext, PositionTypes DEF EveryPositionSafe, Safe, Settled
    <2>4. Safe(start)' /\ Safe(applied)' BY <2>1, <2>2, <2>3 DEF Safe, Settled
    <2>5. pos' + part' = 0 BY <2>1
    <2>6. Safe(pos + part)' BY <2>3, <2>5 DEF Safe, Settled
    <2>7. Safe(confirmed)' BY <2>1, SafeStays, PositionTypes DEF EveryPositionSafe, Safe, Settled
    <2>8. \A c \in Active' : memcp'[c] <= Len(wal') /\ Settled(c, memcp[c])' BY <2>1, SkipsKept
    <2> QED BY <2>1, <2>3, <2>4, <2>6, <2>7, <2>8 DEF EveryPositionSafe
  <1>12. CASE Ack
    <2>1. /\ UNCHANGED <<watermark, cp, memcp, confirmed, start>> /\ pc = "ack"
          /\ pc' \in {"recv", "replay", "maintain"}
          /\ applied' = batch.ack /\ pos' = batch.ack /\ part' = 0
      BY <1>12 DEF Ack
    <2> PICK l : l = batch.ack OBVIOUS
    <2>2. l \in Int /\ Safe(l) BY <2>1 DEF Typed, TypeOK, Lsn, EveryPositionSafe
    <2>3. Safe(l)' BY <2>1, <2>2, SafeStays
    <2>4. pos' + part' = l BY <2>1, <2>2
    <2>5. Safe(pos + part)' /\ Safe(applied)' BY <2>1, <2>3, <2>4 DEF Safe, Settled
    <2>6. Safe(confirmed)' /\ Safe(start)'
      BY <2>1, SafeStays, PositionTypes DEF EveryPositionSafe, Safe, Settled
    <2>7. \A c \in Configs : Safe(cp[c])' BY <2>1, SafeStays, PositionTypes DEF EveryPositionSafe, Safe, Settled
    <2>8. \A c \in Active' : memcp'[c] <= Len(wal') /\ Settled(c, memcp[c])' BY <2>1, SkipsKept
    <2> QED BY <2>1, <2>5, <2>6, <2>7, <2>8 DEF EveryPositionSafe
  <1>13. ASSUME ReplayDlq \/ Maintain \/ (ReplayAborts /\ pc = "replay") PROVE EveryPositionSafe'
    <2>1. UNCHANGED <<watermark, cp, memcp, confirmed, applied, start, pos, part>> /\ pc' \in {"maintain", "recv"}
      BY <1>13 DEF ReplayDlq, Maintain, ReplayAborts
    <2>2. Safe(pos + part)' BY <2>1, PositionTypes, PositionsKept DEF EveryPositionSafe, Safe, Settled
    <2> QED BY <2>1, <2>2, PositionsKept DEF EveryPositionSafe
  <1>14. CASE Crash BY <1>14, StopSafe DEF Crash
  <1>15. ASSUME NEW c \in Configs, DeadLetterFails(c) PROVE EveryPositionSafe'
    BY <1>15, StopSafe DEF DeadLetterFails
  <1>16. CASE UNCHANGED vars BY <1>1, <1>16 DEF vars
  <1>17. ASSUME ReplayAborts, pc = "drain" PROVE EveryPositionSafe' BY <1>1, <1>17 DEF ReplayAborts
  <1> QED
    BY <1>2, <1>3, <1>4, <1>5, <1>6, <1>7, <1>8, <1>9, <1>10, <1>11, <1>12, <1>13, <1>14, <1>15, <1>16, <1>17,
       StartSafe, BackfillSafe, SaveSafe
    DEF Next, Process, Environment, ReplayAborts

\* The invariant: types, watermarks inside the WAL, and every position safe.
IInv == Typed /\ WatermarkBounds /\ EveryPositionSafe

LEMMA InvariantHolds == Spec => []IInv
  <1>1. Init => IInv
    <2>1. Init => WatermarkBounds BY DEF Init, WatermarkBounds, NoLsn
    <2> QED BY <2>1, TypeInit, SafeInit DEF IInv
  <1>2. IInv /\ [Next]_vars => IInv' BY TypeStep, WatermarkStep, SafeStep DEF IInv
  <1> QED BY <1>1, <1>2, PTL DEF Spec

\* Every LSN the slot, a checkpoint or a connection stands at is one below
\* which no config misses a change, whatever fails and in whatever order.
THEOREM EveryPositionIsSafe == Spec => []EveryPositionSafe
  <1>1. IInv => EveryPositionSafe BY DEF IInv
  <1> QED BY <1>1, InvariantHolds, PTL

\* No change of an applied config is lost: what the slot released and what the
\* config will not ask for again is delivered, dead-lettered or given up.
THEOREM NothingLost == Spec => []NoLostChange
  <1>1. IInv => NoLostChange
    <2> SUFFICES ASSUME IInv, NEW c \in Active PROVE Settled(c, confirmed) /\ Settled(c, Resume(c))
      BY DEF NoLostChange
    <2>1. Typed /\ EveryPositionSafe /\ c \in Configs BY DEF IInv, Active
    <2>2. Settled(c, confirmed) BY <2>1 DEF EveryPositionSafe, Safe
    <2>3. CASE cp[c] # NoLsn
      <3>1. Resume(c) = cp[c] BY <2>3 DEF Resume
      <3>2. Settled(c, cp[c]) BY <2>1 DEF EveryPositionSafe, Safe
      <3> QED BY <2>2, <3>1, <3>2
    <2>4. CASE cp[c] = NoLsn
      <3>1. Resume(c) = watermark[c] BY <2>4 DEF Resume
      <3>2. watermark[c] \in Int /\ Len(wal) \in Nat BY <2>1, PositionTypes
      <3>3. Settled(c, watermark[c]) BY <3>2 DEF Settled, Changes
      <3> QED BY <2>2, <3>1, <3>3
    <2> QED BY <2>3, <2>4
  <1> QED BY <1>1, InvariantHolds, PTL

----------------------------------------------------------------------------
(* Checkpoints and the slot, without oversized transactions.  What a batch  *)
(* may still move is written down before it is moved: the copy in memory is *)
(* the position a config restarts from, so a checkpoint is only saved over  *)
(* an earlier one, and what is acknowledged is covered by every config.     *)

Copies == pc # "down" => \A c \in Active : memcp[c] = Resume(c)

Behind == \A c \in Active : confirmed <= Covered(c) /\ applied <= Covered(c)

Saving ==
  /\ pc = "save" => /\ \A c \in todo : batch.ack > memcp[c]
                    /\ \A c \in Active \ todo : batch.ack <= Covered(c)
  /\ pc = "ack" => \A c \in Active : batch.ack <= Covered(c)

Steady ==
  /\ batch.kind # "toolarge" /\ (pc = "down" => applied = 0)
  /\ Copies /\ Behind /\ Saving

\* The position a config restarts from, and what it does not need any more.
LEMMA CoverFacts ==
  ASSUME Typed
  PROVE  /\ \A c \in Configs : /\ Resume(c) \in Int /\ Covered(c) \in Int /\ cp[c] \in Int
                               /\ cp[c] <= Resume(c) /\ Resume(c) <= Covered(c)
                               /\ cp[c] <= Covered(c) /\ watermark[c] <= Covered(c)
         /\ \A c \in Active : c \in Configs /\ watermark[c] \in Nat /\ Resume(c) >= 0 /\ Covered(c) >= 0
  <1>1. ASSUME NEW c \in Configs
        PROVE  cp[c] \in Lsn \cup {NoLsn} /\ watermark[c] \in Lsn \cup {NoLsn}
    BY DEF Typed, TypeOK
  <1>2. Lsn \subseteq Nat /\ NoLsn = -1 BY DEF Lsn, NoLsn
  <1>3. ASSUME NEW c \in Configs
        PROVE  /\ Resume(c) \in Int /\ Covered(c) \in Int /\ cp[c] \in Int
               /\ cp[c] <= Resume(c) /\ Resume(c) <= Covered(c)
               /\ cp[c] <= Covered(c) /\ watermark[c] <= Covered(c)
               /\ c \in Active => watermark[c] \in Nat /\ Resume(c) >= 0 /\ Covered(c) >= 0
    <2> PICK x, w : x = cp[c] /\ w = watermark[c] OBVIOUS
    <2>1. x \in Int /\ w \in Int /\ x >= -1 /\ w >= -1
      <3>1. x \in Lsn \cup {NoLsn} /\ w \in Lsn \cup {NoLsn} BY <1>1
      <3>2. x \in Nat \cup {-1} /\ w \in Nat \cup {-1} BY <1>2, <3>1
      <3> QED BY <3>2
    <2>2. Resume(c) = IF x # -1 THEN x ELSE w BY <1>2 DEF Resume
    <2>3. Covered(c) = IF x > w THEN x ELSE w BY DEF Covered
    <2>4. c \in Active => w # -1 BY <1>2 DEF Active
    <2> QED BY <2>1, <2>2, <2>3, <2>4
  <1> QED BY <1>3 DEF Active

\* A step that moves no position leaves them in order, if it brings no batch
\* to the checkpoints.
LEMMA SteadyKept ==
  ASSUME Typed, Steady, UNCHANGED <<watermark, cp, memcp, confirmed>>, applied' \in {0, applied},
         pc # "down", pc' \notin {"down", "save", "ack"}, batch'.kind \in {"none", "sub", "batch", batch.kind}
  PROVE  Steady'
  <1>1. Active' = Active /\ \A c \in Active : Resume(c)' = Resume(c) /\ Covered(c)' = Covered(c)
    BY DEF Active, Resume, Covered
  <1>2. Copies' BY <1>1 DEF Steady, Copies
  <1>3. Behind'
    <2> SUFFICES ASSUME NEW c \in Active PROVE confirmed <= Covered(c) /\ applied' <= Covered(c)
      BY <1>1 DEF Behind
    <2> QED BY CoverFacts DEF Steady, Behind
  <1> QED BY <1>2, <1>3 DEF Steady, Saving

\* process_events left: the configs that skip the transaction are ahead of it.
LEMMA EndProcessSteady ==
  ASSUME Typed, Steady, UNCHANGED <<watermark, cp, memcp, confirmed, applied>>, pc # "down",
         NEW b \in BatchType, b.kind \in {"sub", "batch"}, EndProcess(b)
  PROVE  Steady'
  <1>1. CASE b.kind = "sub"
    <2>1. pc' = "recv" /\ batch'.kind = "none" BY <1>1 DEF EndProcess, NoBatch
    <2> QED BY <2>1, SteadyKept
  <1>2. CASE b.kind = "batch"
    <2>1. pc' = AfterSave(b) /\ todo' = ToSave(b) /\ batch' = b BY <1>2 DEF EndProcess
    <2>2. Active' = Active /\ \A c \in Active : Resume(c)' = Resume(c) /\ Covered(c)' = Covered(c)
      BY DEF Active, Resume, Covered
    <2>3. ASSUME NEW c \in Active
          PROVE  /\ memcp[c] = Resume(c) /\ Resume(c) \in Int /\ Resume(c) >= 0
                 /\ Resume(c) <= Covered(c) /\ Covered(c) \in Int
      BY CoverFacts DEF Steady, Copies
    <2>4. b.ack \in Nat BY DEF BatchType, Lsn
    <2>5. \A c \in ToSave(b) : c \in Active /\ b.ack > memcp[c]
      BY <1>2, <2>3, <2>4 DEF ToSave, ShouldSkip, NoLsn
    <2>6. \A c \in Active \ ToSave(b) : b.ack <= Covered(c)
      BY <1>2, <2>3, <2>4 DEF ToSave, ShouldSkip, NoLsn
    <2>7. pc' = IF ToSave(b) = {} THEN "ack" ELSE "save" BY <2>1 DEF AfterSave
    <2>8. Saving'
      BY <2>1, <2>2, <2>5, <2>6, <2>7 DEF Saving
    <2>9. Copies' /\ Behind' BY <2>2 DEF Steady, Copies, Behind
    <2> QED BY <1>2, <2>1, <2>7, <2>8, <2>9 DEF Steady
  <1> QED BY <1>1, <1>2

LEMMA BeginProcessSteady ==
  ASSUME Typed, Steady, UNCHANGED <<watermark, cp, memcp, confirmed, applied>>, pc # "down",
         NEW b \in BatchType, b.kind \in {"sub", "batch"}, BeginProcess(b)
  PROVE  Steady'
  <1>1. CASE ToProcess(b) = {} BY <1>1, EndProcessSteady DEF BeginProcess
  <1>2. CASE ToProcess(b) # {} BY <1>2, SteadyKept DEF BeginProcess
  <1> QED BY <1>1, <1>2

LEMMA StopSteady ==
  ASSUME Typed, Steady, UNCHANGED <<watermark, cp, confirmed>>, Stop PROVE Steady'
  <1>1. Active' = Active /\ \A c \in Active : Resume(c)' = Resume(c) /\ Covered(c)' = Covered(c)
    BY DEF Active, Resume, Covered
  <1>2. pc' = "down" /\ applied' = 0 /\ batch'.kind = "none" BY DEF Stop, NoBatch
  <1>3. Behind' BY <1>1, <1>2, CoverFacts DEF Steady, Behind
  <1> QED BY <1>2, <1>3 DEF Steady, Copies, Saving

LEMMA BackfillSteady ==
  ASSUME Typed, Steady, NEW c \in Configs, BackfillNewConfig(c) PROVE Steady'
  <1> USE DEF pgVars, streamVars
  <1>1. PICK w \in commits \cup {0} : confirmed <= w /\ watermark' = [watermark EXCEPT ![c] = w]
    BY DEF BackfillNewConfig
  <1>2. w \in Nat BY LsnBounds DEF Typed
  <1>3. /\ pc = "down" /\ applied = 0 /\ c \notin Active
        /\ UNCHANGED <<cp, memcp, confirmed, applied, batch, todo, pc>>
    BY DEF BackfillNewConfig, Steady
  <1>4. watermark \in [Configs -> Lsn \cup {NoLsn}] BY DEF Typed, TypeOK
  <1>5. ASSUME NEW d \in Active' PROVE confirmed <= Covered(d)' /\ applied <= Covered(d)'
    <2>1. d \in Configs BY DEF Active
    <2>2. CASE d = c
      <3>1. watermark'[d] = w BY <1>1, <1>4, <2>1, <2>2
      <3>2. Covered(d)' = IF cp[d] > w THEN cp[d] ELSE w BY <1>3, <3>1 DEF Covered
      <3> QED BY <1>1, <1>2, <1>3, <2>1, <3>2, PositionTypes
    <2>3. CASE d # c
      <3>1. watermark'[d] = watermark[d] BY <1>1, <1>4, <2>1, <2>3
      <3>2. d \in Active /\ Covered(d)' = Covered(d) BY <1>3, <2>1, <3>1 DEF Active, Covered
      <3> QED BY <1>3, <3>2, CoverFacts DEF Steady, Behind
    <2> QED BY <2>2, <2>3
  <1>6. Behind' BY <1>3, <1>5 DEF Behind
  <1> QED BY <1>3, <1>6 DEF Steady, Copies, Saving

\* A checkpoint is saved over an earlier one.
LEMMA SaveSteady ==
  ASSUME Typed, Steady, NEW c \in Configs, SaveCheckpoint(c)
  PROVE  Steady' /\ \A d \in Active : Resume(d) <= Resume(d)'
  <1> USE DEF pgVars, streamVars
  <1> DEFINE a == batch.ack
  <1>1. /\ pc = "save" /\ c \in todo /\ cp' = [cp EXCEPT ![c] = a] /\ todo' = todo \ {c}
        /\ memcp' = [memcp EXCEPT ![c] = a] /\ pc' = (IF todo = {c} THEN "ack" ELSE "save")
        /\ UNCHANGED <<watermark, confirmed, applied, batch>>
    BY DEF SaveCheckpoint, Steady
  <1>2. a \in Nat BY DEF Typed, TypeOK, Lsn
  <1>3. /\ cp \in [Configs -> Lsn \cup {NoLsn}] /\ memcp \in [Configs -> Lsn \cup {NoLsn}]
    BY DEF Typed, TypeOK
  <1>4. Active' = Active BY <1>1 DEF Active
  <1>5. \A d \in Configs : d # c => /\ Resume(d)' = Resume(d) /\ Covered(d)' = Covered(d)
                                    /\ memcp'[d] = memcp[d]
    BY <1>1, <1>3 DEF Resume, Covered
  <1>6. cp'[c] = a /\ memcp'[c] = a BY <1>1, <1>3
  <1> HIDE DEF a
  <1>7. Resume(c)' = a /\ Covered(c)' = IF a > watermark[c] THEN a ELSE watermark[c]
    BY <1>1, <1>2, <1>6 DEF Resume, Covered, NoLsn
  <1>8. c \in Active => Resume(c) < a
    <2> SUFFICES ASSUME c \in Active PROVE Resume(c) < a OBVIOUS
    <2>1. memcp[c] = Resume(c) BY <1>1 DEF Steady, Copies
    <2>2. a > memcp[c] BY <1>1 DEF Steady, Saving, a
    <2> QED BY <1>2, <2>1, <2>2, CoverFacts
  <1>9. c \in Active => Covered(c) <= Covered(c)' /\ a <= Covered(c)' /\ Covered(c)' \in Int
    <2> SUFFICES ASSUME c \in Active
                 PROVE  Covered(c) <= Covered(c)' /\ a <= Covered(c)' /\ Covered(c)' \in Int
      OBVIOUS
    <2>1. watermark[c] \in Nat /\ cp[c] <= Resume(c) /\ Resume(c) \in Int /\ cp[c] \in Int BY CoverFacts
    <2>2. Covered(c) = IF cp[c] > watermark[c] THEN cp[c] ELSE watermark[c] BY DEF Covered
    <2> QED BY <1>2, <1>7, <1>8, <2>1, <2>2
  <1>10. Copies' BY <1>1, <1>4, <1>5, <1>6, <1>7, CoverFacts DEF Steady, Copies
  <1>11. Behind'
    <2> SUFFICES ASSUME NEW d \in Active PROVE confirmed <= Covered(d)' /\ applied <= Covered(d)'
      BY <1>1, <1>4 DEF Behind
    <2>1. /\ confirmed <= Covered(d) /\ applied <= Covered(d) /\ Covered(d) \in Int /\ d \in Configs
      BY CoverFacts DEF Steady, Behind
    <2>2. confirmed \in Int /\ applied \in Int BY PositionTypes
    <2> QED BY <1>5, <1>9, <2>1, <2>2
  <1>12. Saving'
    <2>1. \A d \in todo \ {c} : a > memcp'[d]
      <3>1. todo \subseteq Configs BY DEF Typed, TypeOK
      <3> QED BY <1>1, <1>5, <3>1 DEF Steady, Saving, a
    <2>2. \A d \in Active \ (todo \ {c}) : a <= Covered(d)'
      BY <1>1, <1>5, <1>9, CoverFacts DEF Steady, Saving, a
    <2>3. batch'.ack = a BY <1>1 DEF a
    <2> QED BY <1>1, <1>4, <2>1, <2>2, <2>3 DEF Saving
  <1>13. Steady' BY <1>1, <1>10, <1>11, <1>12 DEF Steady
  <1>14. \A d \in Active : Resume(d) <= Resume(d)' BY <1>2, <1>5, <1>7, <1>8, CoverFacts
  <1> QED BY <1>13, <1>14

LEMMA SteadyStep ==
  ASSUME SubBatchSize > 0, IInv, Steady, [Next]_vars PROVE Steady'
  <1> USE DEF pgVars, streamVars
  <1>0. Typed BY DEF IInv
  <1>1. CASE Commit \/ UNCHANGED vars
    <2>1. UNCHANGED <<watermark, cp, memcp, confirmed, applied, batch, todo, pc>>
      BY <1>1 DEF Commit, vars
    <2> QED BY <2>1 DEF Steady, Copies, Behind, Saving, Active, Resume, Covered
  <1>2. CASE FlushSlot
    <2>1. UNCHANGED <<watermark, cp, memcp, applied, batch, todo, pc>> /\ confirmed' = applied
      BY <1>2 DEF FlushSlot
    <2> QED BY <2>1 DEF Steady, Copies, Behind, Saving, Active, Resume, Covered
  <1>3. CASE Start
    <2>1. /\ UNCHANGED <<watermark, cp, applied, confirmed, batch>> /\ pc' = "drain"
          /\ memcp' = [c \in Configs |-> IF c \in Active THEN Resume(c) ELSE NoLsn]
      BY <1>3 DEF Start
    <2>2. Active' = Active /\ \A c \in Active : Resume(c)' = Resume(c) /\ Covered(c)' = Covered(c)
      BY <2>1 DEF Active, Resume, Covered
    <2>3. Copies' BY <2>1, <2>2 DEF Copies, Active
    <2> QED BY <2>1, <2>2, <2>3 DEF Steady, Behind, Saving
  <1>4. CASE Connect \/ RecvSchemaChanged
    <2>1. /\ UNCHANGED <<watermark, cp, memcp, confirmed, batch>> /\ applied' = 0
          /\ pc # "down" /\ pc' \in {"connect", "recv"}
      BY <1>4 DEF Connect, RecvSchemaChanged
    <2> QED BY <2>1, <1>0, SteadyKept
  <1>5. CASE RecvSubBatch
    <2>1. PICK e \in commits : e - pos - part >= SubBatchSize /\
            BeginProcess([kind |-> "sub", lo |-> pos + part + 1, hi |-> pos + part + SubBatchSize, ack |-> 0])
      BY <1>5 DEF RecvSubBatch
    <2> DEFINE b == [kind |-> "sub", lo |-> pos + part + 1, hi |-> pos + part + SubBatchSize, ack |-> 0]
    <2>2. b \in BatchType
      <3>1. pos \in Nat /\ part \in Nat /\ SubBatchSize \in Nat /\ 0 \in Lsn
        BY <1>0, LsnBounds, PositionTypes, ConstantsAssumption DEF Typed
      <3> QED BY <3>1 DEF BatchType
    <2>3. UNCHANGED <<watermark, cp, memcp, confirmed, applied>> /\ pc = "recv" BY <1>5 DEF RecvSubBatch
    <2> QED BY <2>1, <2>2, <2>3, <1>0, BeginProcessSteady
  <1>6. CASE RecvBatch
    <2>1. PICK e \in commits : BeginProcess([kind |-> "batch", lo |-> pos + part + 1, hi |-> e, ack |-> e])
      BY <1>6 DEF RecvBatch
    <2> DEFINE b == [kind |-> "batch", lo |-> pos + part + 1, hi |-> e, ack |-> e]
    <2>2. b \in BatchType
      <3>1. e \in Lsn /\ e \in Nat BY <1>0, LsnBounds DEF Typed
      <3> QED BY <1>0, <3>1, PositionTypes DEF BatchType
    <2>3. UNCHANGED <<watermark, cp, memcp, confirmed, applied>> /\ pc = "recv" BY <1>6 DEF RecvBatch
    <2> QED BY <2>1, <2>2, <2>3, <1>0, BeginProcessSteady
  <1>7. CASE RecvTransactionTooLarge BY <1>7 DEF RecvTransactionTooLarge
  <1>8. ASSUME NEW c \in Configs, SendOk(c) \/ SendFails(c) PROVE Steady'
    <2>1. /\ UNCHANGED <<watermark, cp, memcp, confirmed, applied>> /\ pc = "process" /\ NextConfig(c)
      BY <1>8 DEF SendOk, SendFails
    <2>2. batch \in BatchType BY <1>0 DEF Typed, TypeOK, BatchType
    <2>3. CASE todo = {c}
      <3>1. EndProcess(batch) BY <2>1, <2>3 DEF NextConfig
      <3>2. batch.kind \in {"sub", "batch"} BY <2>1 DEF IInv, EveryPositionSafe
      <3> QED BY <2>1, <2>2, <3>1, <3>2, <1>0, EndProcessSteady
    <2>4. CASE todo # {c}
      <3>1. UNCHANGED <<pc, batch>> BY <2>1, <2>4 DEF NextConfig
      <3> QED BY <2>1, <3>1, <1>0, SteadyKept
    <2> QED BY <2>3, <2>4
  <1>9. CASE Crash BY <1>9, <1>0, StopSteady DEF Crash
  <1>10. ASSUME NEW c \in Configs, DeadLetterFails(c) PROVE Steady'
    BY <1>10, <1>0, StopSteady DEF DeadLetterFails
  <1>11. CASE Ack
    <2>1. /\ UNCHANGED <<watermark, cp, memcp, confirmed>> /\ pc = "ack" /\ applied' = batch.ack
          /\ pc' \in {"recv", "replay", "maintain"} /\ batch'.kind \in {"none", batch.kind}
      BY <1>11 DEF Ack, NoBatch
    <2>2. Active' = Active /\ \A c \in Active : Resume(c)' = Resume(c) /\ Covered(c)' = Covered(c)
      BY <2>1 DEF Active, Resume, Covered
    <2> QED BY <2>1, <2>2 DEF Steady, Copies, Behind, Saving
  <1>12. CASE DrainDlq \/ ReplayDlq \/ ReplayAborts \/ Maintain
    <2>1. /\ UNCHANGED <<watermark, cp, memcp, confirmed, applied>> /\ pc # "down"
          /\ pc' \in {"connect", "drain", "recv", "maintain"} /\ batch' \in {NoBatch, batch}
      BY <1>12 DEF DrainDlq, ReplayDlq, ReplayAborts, Maintain
    <2> QED BY <2>1, <1>0, SteadyKept DEF NoBatch
  <1> QED
    BY <1>1, <1>2, <1>3, <1>4, <1>5, <1>6, <1>7, <1>8, <1>9, <1>10, <1>11, <1>12, <1>0, BackfillSteady, SaveSteady
    DEF Next, Process, Environment

\* The position a config restarts from moves only when a checkpoint is saved.
LEMMA ResumeStep ==
  ASSUME IInv, Steady, [Next]_vars PROVE \A c \in Active : Resume(c) <= Resume(c)'
  <1> USE DEF pgVars, streamVars
  <1>0. Typed BY DEF IInv
  <1>1. CASE UNCHANGED <<cp, watermark>>
    BY <1>0, <1>1, CoverFacts DEF Resume
  <1>2. ASSUME NEW d \in Configs, BackfillNewConfig(d) PROVE \A c \in Active : Resume(c) <= Resume(c)'
    <2>1. UNCHANGED cp BY <1>2 DEF BackfillNewConfig
    <2>2. \A c \in Active : watermark'[c] = watermark[c] BY <1>0, WalGrows
    <2> QED BY <1>0, <2>1, <2>2, CoverFacts DEF Resume
  <1>3. ASSUME NEW d \in Configs, SaveCheckpoint(d) PROVE \A c \in Active : Resume(c) <= Resume(c)'
    BY <1>0, <1>3, SaveSteady
  <1>4. \/ UNCHANGED <<cp, watermark>>
        \/ \E d \in Configs : BackfillNewConfig(d) \/ SaveCheckpoint(d)
    BY DEF Next, Process, Environment, Commit, FlushSlot, Connect, RecvSubBatch, RecvBatch, RecvSchemaChanged,
      Ack, Crash, Start, RecvTransactionTooLarge, DrainDlq, ReplayDlq, ReplayAborts, Maintain, SendOk, SendFails,
      DeadLetterFails, vars
  <1> QED BY <1>1, <1>2, <1>3, <1>4

LEMMA SteadyInvariant == ASSUME SubBatchSize > 0 PROVE Spec => []Steady
  <1>1. Init => Steady
    <2> SUFFICES ASSUME Init PROVE Steady OBVIOUS
    <2>1. Typed BY TypeInit
    <2>2. confirmed = 0 /\ applied = 0 /\ batch.kind = "none" /\ pc = "down" BY DEF Init, NoBatch
    <2> QED BY <2>1, <2>2, CoverFacts DEF Steady, Copies, Behind, Saving
  <1>2. IInv /\ Steady /\ [Next]_vars => Steady' BY SteadyStep
  <1> QED BY <1>1, <1>2, InvariantHolds, PTL DEF Spec

\* Where transactions arrive in sub-batches, and none is too large, the slot
\* never passes what a config would still ask for.
THEOREM SlotWaitsForEveryConfig == ASSUME SubBatchSize > 0 PROVE Spec => []SlotNeverPassesConfig
  <1>1. Steady => SlotNeverPassesConfig BY DEF Steady, Behind, SlotNeverPassesConfig
  <1> QED BY <1>1, SteadyInvariant, PTL

\* And no replay moves the position back that a config restarts from.
THEOREM CheckpointsAdvance == ASSUME SubBatchSize > 0 PROVE Spec => CheckpointNeverRegresses
  <1>1. IInv /\ Steady /\ [Next]_vars => [\A c \in Active : Resume(c) <= Resume(c)']_<<cp, watermark>>
    BY ResumeStep
  <1> QED BY <1>1, SteadyInvariant, InvariantHolds, PTL DEF Spec, CheckpointNeverRegresses

----------------------------------------------------------------------------
(* Refinement of TransactionFeed.  Every position is the end of a committed *)
(* transaction or zero, and the batch in hand is the next transaction or a  *)
(* full sub-batch of it.                                                    *)

Marks == commits \cup {0}

SubInHand(b) ==
  /\ SubBatchSize > 0 /\ b.hi = pos + part + SubBatchSize
  /\ \E e \in commits : IsNextCommit(e) /\ b.hi <= e

InHand(b) == IF b.kind = "sub" THEN SubInHand(b) ELSE IsNextCommit(b.ack)

Anchored ==
  /\ confirmed \in Marks /\ applied \in Marks /\ start \in Marks /\ pos \in Marks
  /\ \A c \in Configs : cp[c] \in Marks \cup {NoLsn} /\ watermark[c] \in Marks \cup {NoLsn}
  /\ pc \in {"process", "save", "ack"} => InHand(batch)
  /\ pc \in {"save", "ack"} => batch.kind # "sub"

feedVars == <<Connected, commits, IF Connected THEN pos ELSE 0, IF Connected THEN part ELSE 0>>

\* The connection is where it was.
LEMMA FeedStutters ==
  ASSUME UNCHANGED <<commits, pos, part>>, Connected' = Connected PROVE UNCHANGED feedVars
  BY DEF feedVars

\* Not connected before and after, nothing shows.
LEMMA FeedUnseen ==
  ASSUME UNCHANGED commits, ~Connected, ~Connected' PROVE UNCHANGED feedVars
  BY DEF feedVars, Connected

LEMMA FeedDisconnects ==
  ASSUME UNCHANGED commits, Connected, ~Connected' PROVE Feed!Disconnect
  BY DEF Feed!Disconnect

\* process_events left: a sub-batch is done with, or the whole transaction is.
LEMMA EndProcessFeeds ==
  ASSUME Typed, Anchored, Connected,
         UNCHANGED <<commits, confirmed, applied, start, pos, cp, watermark>>,
         NEW b \in BatchType, InHand(b), EndProcess(b)
  PROVE  Anchored' /\ (Feed!SubBatch \/ UNCHANGED feedVars)
  <1>1. pos \in Nat /\ part \in Nat /\ b.hi \in Nat /\ SubBatchSize \in Nat
    BY PositionTypes, ConstantsAssumption DEF BatchType
  <1>2. Marks' = Marks BY DEF Marks
  <1>3. CASE b.kind = "sub"
    <2>1. pc' = "recv" /\ part' = b.hi - pos /\ Connected' BY <1>3 DEF EndProcess, Connected
    <2>2. PICK e \in commits : IsNextCommit(e) /\ b.hi <= e BY <1>3 DEF InHand, SubInHand
    <2>3. /\ SubBatchSize \in {SubBatchSize} \ {0} /\ b.hi = pos + part + SubBatchSize
          /\ part' = part + SubBatchSize
      BY <1>1, <1>3, <2>1 DEF InHand, SubInHand
    <2>4. Feed!IsNext(e) BY <2>2 DEF Feed!IsNext, IsNextCommit
    <2>5. Feed!SubBatch BY <2>1, <2>2, <2>3, <2>4 DEF Feed!SubBatch
    <2>6. Anchored' BY <1>2, <2>1 DEF Anchored
    <2> QED BY <2>5, <2>6
  <1>4. CASE b.kind # "sub"
    <2>1. pc' \in {"save", "ack"} /\ Connected' /\ batch' = b /\ UNCHANGED part
      BY <1>4 DEF EndProcess, AfterSave, Connected
    <2>2. InHand(b)' BY <1>4 DEF InHand, IsNextCommit
    <2>3. Anchored' BY <1>2, <1>4, <2>1, <2>2 DEF Anchored, InHand, IsNextCommit
    <2> QED BY <2>1, <2>3, FeedStutters
  <1> QED BY <1>3, <1>4

LEMMA BeginProcessFeeds ==
  ASSUME Typed, Anchored, pc = "recv",
         UNCHANGED <<commits, confirmed, applied, start, pos, cp, watermark>>,
         NEW b \in BatchType, InHand(b), BeginProcess(b)
  PROVE  Anchored' /\ (Feed!SubBatch \/ UNCHANGED feedVars)
  <1>0. Connected BY DEF Connected
  <1>1. CASE ToProcess(b) = {} BY <1>0, <1>1, EndProcessFeeds DEF BeginProcess
  <1>2. CASE ToProcess(b) # {}
    <2>1. pc' = "process" /\ batch' = b /\ UNCHANGED part /\ Connected'
      BY <1>2 DEF BeginProcess, Connected
    <2>2. Marks' = Marks BY DEF Marks
    <2>3. Anchored' BY <2>1, <2>2 DEF Anchored, InHand, SubInHand, IsNextCommit
    <2> QED BY <1>0, <2>1, <2>3, FeedStutters
  <1> QED BY <1>1, <1>2

\* A step that leaves the positions where they are.
LEMMA AnchoredKept ==
  ASSUME Anchored, UNCHANGED <<commits, pos, part, start, applied, cp, watermark>>, confirmed' \in {confirmed, applied},
         pc' \notin {"process", "save", "ack"} \/ UNCHANGED <<pc, batch>>
  PROVE  Anchored'
  <1>1. Marks' = Marks BY DEF Marks
  <1> QED BY <1>1 DEF Anchored, InHand, SubInHand, IsNextCommit

\* Transactions commit at the end of the WAL, beyond the one in hand.
LEMMA CommitFeeds == ASSUME Typed, Anchored, Commit PROVE Anchored' /\ Feed!Grow
  <1> USE DEF streamVars, pgVars
  <1>1. PICK k \in 1 .. MaxTxnLen : commits' = commits \cup {Len(wal) + k} BY DEF Commit
  <1>2. /\ UNCHANGED <<confirmed, applied, start, pos, part, cp, watermark, pc, batch>>
    BY DEF Commit
  <1>3. k \in Nat /\ k > 0 /\ Len(wal) \in Nat /\ \A e \in commits : e \in Nat /\ e <= Len(wal)
    BY ConstantsAssumption, LsnBounds DEF Typed
  <1> DEFINE l == Len(wal) + k
  <1>4. l \in Nat /\ \A e \in commits : e < l BY <1>3
  <1> HIDE DEF l
  <1>5. \A e \in commits' \ commits : \A j \in commits : e > j BY <1>1, <1>3, <1>4 DEF l
  <1>6. ASSUME NEW e, IsNextCommit(e) PROVE IsNextCommit(e)'
    <2>1. e \in commits /\ e < l BY <1>4, <1>6 DEF IsNextCommit
    <2>2. commits' = commits \cup {l} BY <1>1 DEF l
    <2>3. e <= l BY <1>3, <1>4, <2>1
    <2>4. \A j \in commits' : j > pos => e <= j BY <1>6, <2>2, <2>3 DEF IsNextCommit
    <2> QED BY <1>2, <1>6, <2>2, <2>4 DEF IsNextCommit
  <1>7. Marks \subseteq Marks' BY <1>1 DEF Marks
  <1>8. InHand(batch) => InHand(batch)' BY <1>1, <1>2, <1>6 DEF InHand, SubInHand
  <1>9. Anchored' BY <1>2, <1>7, <1>8 DEF Anchored
  <1>10. Connected' = Connected BY <1>2 DEF Connected
  <1> QED BY <1>1, <1>2, <1>5, <1>9, <1>10 DEF Feed!Grow

LEMMA FollowsStep ==
  ASSUME IInv, Anchored, [Next]_vars
  PROVE  Anchored' /\ (Feed!Next \/ UNCHANGED feedVars)
  <1> USE DEF pgVars, streamVars
  <1>0. Typed BY DEF IInv
  <1>1. CASE Commit BY <1>0, <1>1, CommitFeeds DEF Feed!Next
  <1>2. CASE FlushSlot \/ UNCHANGED vars
    <2>1. /\ UNCHANGED <<commits, pos, part, start, applied, cp, watermark, pc, batch>>
          /\ confirmed' \in {confirmed, applied}
      BY <1>2 DEF FlushSlot, vars
    <2> QED BY <2>1, AnchoredKept, FeedStutters DEF Connected
  <1>3. ASSUME NEW c \in Configs, BackfillNewConfig(c) PROVE Anchored' /\ UNCHANGED feedVars
    <2>1. PICK w \in Marks : watermark' = [watermark EXCEPT ![c] = w] BY <1>3 DEF BackfillNewConfig, Marks
    <2>2. pc = "down" /\ UNCHANGED <<commits, confirmed, pos, part, start, applied, cp, pc, batch>>
      BY <1>3 DEF BackfillNewConfig
    <2>3. Marks' = Marks BY <2>2 DEF Marks
    <2>4. watermark \in [Configs -> Lsn \cup {NoLsn}] BY <1>0 DEF Typed, TypeOK
    <2>5. \A d \in Configs : watermark'[d] \in Marks \cup {NoLsn} BY <2>1, <2>4 DEF Anchored
    <2>6. Anchored' BY <2>2, <2>3, <2>5 DEF Anchored
    <2> QED BY <2>2, <2>6, FeedStutters DEF Connected
  <1>4. CASE Start
    <2>1. start' \in StartCandidates BY <1>4 DEF Start
    <2>2. StartCandidates \subseteq Marks BY DEF StartCandidates, Active, Anchored
    <2>3. /\ pc = "down" /\ pc' = "drain"
          /\ UNCHANGED <<commits, confirmed, pos, part, applied, cp, watermark>>
      BY <1>4 DEF Start
    <2>4. Marks' = Marks BY <2>3 DEF Marks
    <2>5. Anchored' BY <2>1, <2>2, <2>3, <2>4 DEF Anchored
    <2> QED BY <2>3, <2>5, FeedStutters DEF Connected
  <1>5. CASE Connect
    <2>1. /\ pc = "connect" /\ pc' = "recv" /\ pos' = ResumeLsn /\ part' = 0 /\ applied' = 0
          /\ UNCHANGED <<commits, confirmed, start, cp, watermark>>
      BY <1>5 DEF Connect
    <2>2. ResumeLsn \in Marks BY DEF ResumeLsn, Anchored
    <2>3. Marks' = Marks BY <2>1 DEF Marks
    <2>4. Anchored' BY <2>1, <2>2, <2>3 DEF Anchored, Marks
    <2>5. ~Connected /\ Connected' BY <2>1 DEF Connected
    <2>6. Feed!Connect BY <2>1, <2>2, <2>5 DEF Feed!Connect, Marks
    <2> QED BY <2>4, <2>6 DEF Feed!Next
  <1>6. CASE RecvSubBatch
    <2>1. PICK e \in commits : IsNextCommit(e) /\ e - pos - part >= SubBatchSize /\
            BeginProcess([kind |-> "sub", lo |-> pos + part + 1, hi |-> pos + part + SubBatchSize, ack |-> 0])
      BY <1>6 DEF RecvSubBatch
    <2> DEFINE b == [kind |-> "sub", lo |-> pos + part + 1, hi |-> pos + part + SubBatchSize, ack |-> 0]
    <2>2. pos \in Nat /\ part \in Nat /\ SubBatchSize \in Nat /\ 0 \in Lsn /\ e \in Nat
      BY <1>0, LsnBounds, PositionTypes, ConstantsAssumption DEF Typed
    <2>3. b \in BatchType BY <2>2 DEF BatchType
    <2>4. InHand(b)
      <3>1. b.hi <= e BY <2>1, <2>2
      <3>2. SubBatchSize > 0 BY <1>6 DEF RecvSubBatch
      <3> QED BY <2>1, <3>1, <3>2 DEF InHand, SubInHand
    <2>5. pc = "recv" /\ UNCHANGED <<commits, confirmed, applied, start, pos, cp, watermark>>
      BY <1>6 DEF RecvSubBatch
    <2> HIDE DEF b
    <2> QED BY <1>0, <2>1, <2>3, <2>4, <2>5, BeginProcessFeeds DEF b, Feed!Next
  <1>7. CASE RecvBatch
    <2>1. PICK e \in commits : /\ IsNextCommit(e)
                               /\ BeginProcess([kind |-> "batch", lo |-> pos + part + 1, hi |-> e, ack |-> e])
      BY <1>7 DEF RecvBatch
    <2> DEFINE b == [kind |-> "batch", lo |-> pos + part + 1, hi |-> e, ack |-> e]
    <2>2. b \in BatchType
      <3>1. e \in Lsn /\ e \in Nat BY <1>0, LsnBounds DEF Typed
      <3> QED BY <1>0, <3>1, PositionTypes DEF BatchType
    <2>3. InHand(b) BY <2>1 DEF InHand
    <2>4. pc = "recv" /\ UNCHANGED <<commits, confirmed, applied, start, pos, cp, watermark>>
      BY <1>7 DEF RecvBatch
    <2> HIDE DEF b
    <2> QED BY <1>0, <2>1, <2>2, <2>3, <2>4, BeginProcessFeeds DEF b, Feed!Next
  <1>8. CASE RecvTransactionTooLarge
    <2>1. PICK e \in commits : /\ IsNextCommit(e)
                               /\ EndProcess([kind |-> "toolarge", lo |-> pos + 1, hi |-> e, ack |-> e])
      BY <1>8 DEF RecvTransactionTooLarge
    <2> DEFINE b == [kind |-> "toolarge", lo |-> pos + 1, hi |-> e, ack |-> e]
    <2>2. b \in BatchType
      <3>1. e \in Lsn /\ e \in Nat BY <1>0, LsnBounds DEF Typed
      <3> QED BY <1>0, <3>1, PositionTypes DEF BatchType
    <2>3. InHand(b) BY <2>1 DEF InHand
    <2>4. Connected /\ UNCHANGED <<commits, confirmed, applied, start, pos, cp, watermark>>
      BY <1>8 DEF RecvTransactionTooLarge, Connected
    <2> HIDE DEF b
    <2> QED BY <1>0, <2>1, <2>2, <2>3, <2>4, EndProcessFeeds DEF b, Feed!Next
  <1>9. CASE RecvSchemaChanged
    <2>1. /\ pc = "recv" /\ pc' = "connect" /\ pos' = 0 /\ part' = 0 /\ applied' = 0
          /\ UNCHANGED <<commits, confirmed, cp, watermark>>
      BY <1>9 DEF RecvSchemaChanged
    <2>2. start' \in ReconnectCandidates \cup {0} BY <1>9 DEF RecvSchemaChanged
    <2>3. ReconnectCandidates \subseteq Marks BY DEF ReconnectCandidates, Active, Anchored
    <2>4. Marks' = Marks /\ 0 \in Marks BY <2>1 DEF Marks
    <2>5. Anchored' BY <2>1, <2>2, <2>3, <2>4 DEF Anchored
    <2>6. Connected /\ ~Connected' BY <2>1 DEF Connected
    <2> QED BY <2>1, <2>5, <2>6, FeedDisconnects DEF Feed!Next
  <1>10. ASSUME NEW c \in Configs, SendOk(c) \/ SendFails(c) PROVE Anchored' /\ (Feed!Next \/ UNCHANGED feedVars)
    <2>1. /\ pc = "process" /\ Connected /\ NextConfig(c) /\ InHand(batch)
          /\ UNCHANGED <<commits, confirmed, applied, start, pos, cp, watermark>>
      BY <1>10 DEF SendOk, SendFails, Connected, Anchored
    <2>2. CASE todo = {c}
      <3>1. EndProcess(batch) BY <2>1, <2>2 DEF NextConfig
      <3>2. batch \in BatchType BY <1>0 DEF Typed, TypeOK, BatchType
      <3> QED BY <1>0, <2>1, <3>1, <3>2, EndProcessFeeds DEF Feed!Next
    <2>3. CASE todo # {c}
      <3>1. UNCHANGED <<pc, part, batch>> BY <2>1, <2>3 DEF NextConfig
      <3> QED BY <2>1, <3>1, AnchoredKept, FeedStutters DEF Connected
    <2> QED BY <2>2, <2>3
  <1>11. ASSUME Stop, UNCHANGED <<commits, confirmed, cp, watermark>>
         PROVE  Anchored' /\ (Feed!Next \/ UNCHANGED feedVars)
    <2>1. Marks' = Marks /\ 0 \in Marks BY <1>11 DEF Marks
    <2>2. Anchored' BY <1>11, <2>1 DEF Stop, Anchored
    <2>3. ~Connected' BY <1>11 DEF Stop, Connected
    <2> QED BY <1>11, <2>2, <2>3, FeedDisconnects, FeedUnseen DEF Feed!Next
  <1>12. CASE Crash BY <1>11, <1>12 DEF Crash
  <1>13. ASSUME NEW c \in Configs, DeadLetterFails(c) PROVE Anchored' /\ (Feed!Next \/ UNCHANGED feedVars)
    BY <1>11, <1>13 DEF DeadLetterFails
  <1>14. ASSUME NEW c \in Configs, SaveCheckpoint(c) PROVE Anchored' /\ UNCHANGED feedVars
    <2>1. /\ pc = "save" /\ pc' \in {"save", "ack"} /\ cp' = [cp EXCEPT ![c] = batch.ack]
          /\ UNCHANGED <<commits, confirmed, pos, part, start, applied, watermark, batch>>
      BY <1>14 DEF SaveCheckpoint
    <2>2. IsNextCommit(batch.ack) /\ batch.kind # "sub" BY <2>1 DEF Anchored, InHand
    <2>3. Marks' = Marks /\ batch.ack \in Marks BY <2>1, <2>2 DEF Marks, IsNextCommit
    <2>4. cp \in [Configs -> Lsn \cup {NoLsn}] BY <1>0 DEF Typed, TypeOK
    <2>5. \A d \in Configs : cp'[d] \in Marks \cup {NoLsn} BY <2>1, <2>3, <2>4 DEF Anchored
    <2>6. InHand(batch)' BY <2>1, <2>2 DEF InHand, IsNextCommit
    <2>7. Anchored' BY <2>1, <2>2, <2>3, <2>5, <2>6 DEF Anchored
    <2> QED BY <2>1, <2>7, FeedStutters DEF Connected
  <1>15. CASE Ack
    <2>1. /\ pc = "ack" /\ pc' \in {"recv", "replay", "maintain"}
          /\ applied' = batch.ack /\ pos' = batch.ack /\ part' = 0
          /\ UNCHANGED <<commits, confirmed, start, cp, watermark>>
      BY <1>15 DEF Ack
    <2>2. IsNextCommit(batch.ack) BY <2>1 DEF Anchored, InHand
    <2>3. Marks' = Marks /\ batch.ack \in Marks BY <2>1, <2>2 DEF Marks, IsNextCommit
    <2>4. Anchored' BY <2>1, <2>3 DEF Anchored
    <2>5. Connected /\ Connected' BY <2>1 DEF Connected
    <2>6. Feed!IsNext(batch.ack) BY <2>2, <2>5 DEF Feed!IsNext, IsNextCommit
    <2>7. Feed!Finish BY <2>1, <2>5, <2>6 DEF Feed!Finish, Feed!IsNext
    <2> QED BY <2>4, <2>7 DEF Feed!Next
  <1>16. CASE DrainDlq \/ ReplayDlq \/ ReplayAborts \/ Maintain
    <2>1. /\ UNCHANGED <<commits, confirmed, pos, part, start, applied, cp, watermark>>
          /\ \/ pc = "drain" /\ pc' \in {"drain", "connect"}
             \/ pc \in {"replay", "maintain"} /\ pc' \in {"maintain", "recv"}
      BY <1>16 DEF DrainDlq, ReplayDlq, ReplayAborts, Maintain
    <2>2. Anchored' BY <2>1, AnchoredKept
    <2>3. Connected' = Connected BY <2>1 DEF Connected
    <2> QED BY <2>1, <2>2, <2>3, FeedStutters
  <1> QED
    BY <1>1, <1>2, <1>3, <1>4, <1>5, <1>6, <1>7, <1>8, <1>9, <1>10, <1>12, <1>13, <1>14, <1>15, <1>16
    DEF Next, Process, Environment

\* The loop takes from its connection what TransactionFeed says a connection
\* gives: the next transaction each time, in full sub-batches and a rest.
THEOREM FollowsTransactionFeed == Spec => FollowsFeed
  <1>1. Init => Anchored /\ Feed!Init
    <2> SUFFICES ASSUME Init PROVE Anchored /\ Feed!Init OBVIOUS
    <2>1. Anchored BY DEF Init, Anchored, Marks
    <2>2. ~Connected /\ commits = {} BY DEF Init, Connected
    <2> QED BY <2>1, <2>2 DEF Feed!Init
  <1>2. IInv /\ Anchored /\ [Next]_vars =>
          Anchored' /\ [Feed!Next]_<<Connected, commits, IF Connected THEN pos ELSE 0, IF Connected THEN part ELSE 0>>
    BY FollowsStep DEF feedVars
  <1> QED BY <1>1, <1>2, InvariantHolds, PTL DEF Spec, FollowsFeed, Feed!Spec

----------------------------------------------------------------------------
(* Mirrored when idle.  A config's namespace is up to date at a position if *)
(* each row that did not change beyond it is shown, queued or given up.     *)
(* The positions that matter are those the slot, the checkpoints, the skip  *)
(* window and the stream stand at, because any of them may be the one from  *)
(* which, or up to which, the config is not sent anything again.            *)

LastUpTo(r, l) == \A n \in Changes : wal[n].row = r => n <= l

InQueue(c, r) == \E e \in dlq : e.cfg = c /\ wal[e.change].row = r
Shown(c, r) == Gone(c, r) \/ InQueue(c, r) \/ sink[c][r] = RowAt(r, Len(wal))
Shows(c, l) == \A r \in SourceOf[c] : LastUpTo(r, l) => Shown(c, r)

\* Where the transactions go on that a config may still be sent.
At == IF pc \in {"drain", "connect"} THEN start
      ELSE IF pc \in {"save", "ack"} THEN batch.ack ELSE pos

CanReconnect == reconnects < MaxReconnects

\* The positions a config's namespace must be up to date with.
Claimed(c) ==
  {confirmed, Resume(c), memcp[c]}
    \cup (IF pc \in {"drain", "connect"} THEN {start} ELSE {})
    \cup (IF Connected THEN {pos} ELSE {})
    \cup (IF pc = "process" /\ c \notin todo THEN {batch.hi} ELSE {})
    \cup (IF pc \in {"save", "ack"} THEN {batch.ack} ELSE {})
    \cup (IF CanReconnect /\ cp[c] = NoLsn THEN {cp[d] : d \in Configs} ELSE {})

Held == \A c \in Active : \A l \in Claimed(c) : Shows(c, l)

\* Dead letters and what was given up are of the WAL, and only upserts fail.
Within ==
  /\ \A c \in Configs : dropped[c] \subseteq Changes
  /\ \A e \in dlq : e.change \in Changes /\ wal[e.change].op = "upsert"

Order ==
  /\ part = 0 /\ batch.kind # "sub"
  /\ Connected => confirmed <= pos /\ applied <= pos
  /\ pc = "process" => \A c \in todo : memcp[c] < batch.hi
  /\ pc = "save" /\ batch.kind = "toolarge" => \A c \in Active \ todo : cp[c] = batch.ack
  /\ pc # "down" => \A c \in Active : Resume(c) <= memcp[c] \/ Resume(c) <= At
  /\ InitialConfigs = Configs => \A c \in Configs : cp[c] # NoLsn

\* A checkpoint that an oversized transaction moved past the copy in memory is no
\* later than any other's.
Leveled ==
  pc # "down" => \A c, d \in Active :
    memcp[c] < cp[c] => cp[d] = NoLsn \/ cp[c] <= cp[d] \/ (pc = "save" /\ d \in todo)

\* A config without a checkpoint has not been sent a transaction past its watermark,
\* but perhaps the next one.
Unsaved(c) ==
  /\ \A d \in Configs : \A k \in commits : watermark[c] < k => cp[d] <= k
  /\ confirmed <= watermark[c]
  /\ Connected => pos <= watermark[c]
  /\ pc # "down" => memcp[c] = watermark[c] /\ (At <= watermark[c] \/ (pc = "save" /\ c \in todo))

Reconnecting == CanReconnect => Leveled /\ \A c \in Active : cp[c] = NoLsn => Unsaved(c)

Caught == Within /\ Order /\ Held /\ Reconnecting

----------------------------------------------------------------------------
\* What the theorem is about: whole transactions, dead letters that a replay reads
\* again, and no second schema change while a config may lack its checkpoint.
Policy == SubBatchSize = 0 /\ FailingOps \subseteq {"upsert"} /\ (MaxReconnects <= 1 \/ InitialConfigs = Configs)

\* Every position a config's namespace is measured by is an LSN of the WAL.
LEMMA ClaimedTypes ==
  ASSUME IInv, Held, NEW c \in Active, NEW l \in Claimed(c)
  PROVE  l \in Int /\ l <= Len(wal) /\ Shows(c, l)
  <1>0. Typed /\ EveryPositionSafe /\ c \in Configs BY DEF IInv, Active
  <1>1. Len(wal) \in Nat /\ part \in Nat /\ pos \in Nat BY <1>0, PositionTypes
  <1>2. confirmed \in Int /\ confirmed <= Len(wal) BY <1>0, PositionTypes DEF EveryPositionSafe, Safe
  <1>3. \A d \in Configs : cp[d] \in Int /\ cp[d] <= Len(wal) BY <1>0, PositionTypes DEF EveryPositionSafe, Safe
  <1>4. watermark[c] \in Int /\ watermark[c] <= Len(wal) BY <1>0, PositionTypes DEF IInv, WatermarkBounds
  <1>5. Resume(c) \in Int /\ Resume(c) <= Len(wal) BY <1>0, <1>3, <1>4 DEF Resume
  <1>6. memcp[c] \in Int /\ memcp[c] <= Len(wal) BY <1>0, PositionTypes DEF EveryPositionSafe
  <1>7. start \in Int /\ start <= Len(wal) BY <1>0, PositionTypes DEF EveryPositionSafe, Safe
  <1>8. pos \in Int /\ pos <= Len(wal)
    <2>1. pos + part <= Len(wal) BY <1>0 DEF EveryPositionSafe, Safe
    <2> QED BY <1>1, <2>1
  <1>9. pc = "process" => batch.hi \in Int /\ batch.hi <= Len(wal)
    BY <1>0, <1>1 DEF Typed, BatchBounds
  <1>10. pc \in {"save", "ack"} => batch.ack \in Int /\ batch.ack <= Len(wal)
    BY <1>0, LsnType DEF EveryPositionSafe, Safe, Typed, TypeOK, Lsn
  <1>11. Shows(c, l) BY DEF Held
  <1> QED BY <1>2, <1>3, <1>5, <1>6, <1>7, <1>8, <1>9, <1>10, <1>11 DEF Claimed

\* A namespace that is up to date at a position is so at every earlier one.
LEMMA ShowsLess ==
  ASSUME Typed, NEW c, NEW l \in Int, NEW m \in Int, m <= l, Shows(c, l)
  PROVE  Shows(c, m)
  <1>1. Len(wal) \in Nat BY PositionTypes
  <1>2. \A n \in Changes : n \in Int BY <1>1 DEF Changes
  <1>3. \A r : LastUpTo(r, m) => LastUpTo(r, l) BY <1>2 DEF LastUpTo
  <1> QED BY <1>3 DEF Shows

\* And at a later one, if the config's table did not change in between.
LEMMA ShowsFar ==
  ASSUME Typed, NEW c, NEW l \in Int, NEW m \in Int, Shows(c, l),
         \A n \in Changes : l < n /\ n <= m => wal[n].row \notin SourceOf[c]
  PROVE  Shows(c, m)
  <1>1. Len(wal) \in Nat BY PositionTypes
  <1>2. \A n \in Changes : n \in Int BY <1>1 DEF Changes
  <1>3. \A r \in SourceOf[c] : LastUpTo(r, m) => LastUpTo(r, l) BY <1>2 DEF LastUpTo
  <1> QED BY <1>3 DEF Shows

\* The newest changes decide: what the others are does not matter.
LEMMA NewestOfPart ==
  ASSUME NEW S \in SUBSET Int, NEW T \in SUBSET S, T # {}, \A n \in S \ T : \A m \in T : n < m
  PROVE  ValueAfter(T) = ValueAfter(S)
  <1>1. Newest(T) = Newest(S)
    <2>1. \A n \in Newest(T) : n \in S /\ \A m \in S : m <= n
      <3> SUFFICES ASSUME NEW n \in Newest(T), NEW m \in S PROVE n \in S /\ m <= n OBVIOUS
      <3>1. n \in T /\ \A k \in T : k <= n BY DEF Newest
      <3>2. CASE m \in T BY <3>1, <3>2
      <3>3. CASE m \notin T
        <4>1. m < n /\ m \in Int /\ n \in Int BY <3>1, <3>3
        <4> QED BY <3>1, <4>1
      <3> QED BY <3>2, <3>3
    <2>2. \A n \in Newest(S) : n \in T /\ \A m \in T : m <= n
      <3> SUFFICES ASSUME NEW n \in Newest(S) PROVE n \in T /\ \A m \in T : m <= n OBVIOUS
      <3>1. n \in S /\ n \in Int /\ \A k \in S : k <= n BY DEF Newest
      <3>2. PICK k \in T : TRUE OBVIOUS
      <3>3. k \in Int /\ k <= n BY <3>1
      <3>4. n \in T BY <3>1, <3>2, <3>3
      <3> QED BY <3>1, <3>4
    <2> QED BY <2>1, <2>2 DEF Newest
  <1> QED BY <1>1 DEF ValueAfter

\* A row nothing was committed to has the value it had.
LEMMA RowKept ==
  ASSUME IInv, [Next]_vars, NEW r, NEW l \in Int, l <= Len(wal), LastUpTo(r, l)'
  PROVE  LastUpTo(r, l) /\ RowAt(r, Len(wal))' = RowAt(r, Len(wal))
  <1>1. /\ Len(wal) \in Nat /\ Len(wal') \in Nat /\ Len(wal) <= Len(wal')
        /\ \A n \in Changes : wal'[n] = wal[n]
    BY WalGrows DEF IInv
  <1>2. Changes \subseteq Changes' /\ Changes' \subseteq Int BY <1>1 DEF Changes
  <1>3. LastUpTo(r, l) BY <1>1, <1>2 DEF LastUpTo
  <1> DEFINE S == {n \in Changes : n <= Len(wal) /\ wal[n].row = r}
             T == {n \in Changes' : n <= Len(wal') /\ wal'[n].row = r}
  <1>4. S = T
    <2>1. \A n \in T : n \in S
      <3> SUFFICES ASSUME NEW n \in T PROVE n \in S OBVIOUS
      <3>1. n <= l /\ n \in Int BY <1>2 DEF LastUpTo
      <3>2. n \in Changes BY <1>1, <3>1 DEF Changes
      <3> QED BY <1>1, <3>1, <3>2
    <2>2. \A n \in S : n \in T BY <1>1, <1>2
    <2> QED BY <2>1, <2>2
  <1>5. Newest(S) \subseteq Changes BY DEF Newest
  <1>6. (\E n \in Newest(S) : wal'[n].op = "upsert") <=> (\E n \in Newest(S) : wal[n].op = "upsert")
    BY <1>1, <1>5
  <1>7. RowAt(r, Len(wal))' = IF \E n \in Newest(T) : wal'[n].op = "upsert" THEN CHOOSE n \in Newest(T) : TRUE ELSE Absent
    BY DEF RowAt, ValueAfter
  <1>8. RowAt(r, Len(wal)) = IF \E n \in Newest(S) : wal[n].op = "upsert" THEN CHOOSE n \in Newest(S) : TRUE ELSE Absent
    BY DEF RowAt, ValueAfter
  <1> HIDE DEF S, T
  <1> QED BY <1>3, <1>4, <1>6, <1>7, <1>8

\* A step that leaves each row of the table as well shown as before, where it
\* has not changed.
LEMMA ShowsByRow ==
  ASSUME IInv, [Next]_vars, NEW c, NEW l \in Int, l <= Len(wal), Shows(c, l),
         \A r \in SourceOf[c] : LastUpTo(r, l) =>
           /\ Gone(c, r) \/ InQueue(c, r) => Gone(c, r)' \/ InQueue(c, r)' \/ sink'[c][r] = RowAt(r, Len(wal))
           /\ sink[c][r] = RowAt(r, Len(wal)) => sink'[c][r] = RowAt(r, Len(wal))
  PROVE  Shows(c, l)'
  <1> SUFFICES ASSUME NEW r \in SourceOf[c], LastUpTo(r, l)' PROVE Shown(c, r)'
    BY DEF Shows
  <1>1. LastUpTo(r, l) /\ RowAt(r, Len(wal))' = RowAt(r, Len(wal)) BY RowKept
  <1>2. Shown(c, r) BY <1>1 DEF Shows
  <1> QED BY <1>1, <1>2 DEF Shown

\* What is given up or queued stays so while the queue only grows.
LEMMA QueueGrows ==
  ASSUME IInv, Within, [Next]_vars, NEW c \in Configs, NEW r,
         dropped[c] \subseteq dropped'[c], dlq \subseteq dlq'
  PROVE  (Gone(c, r) => Gone(c, r)') /\ (InQueue(c, r) => InQueue(c, r)')
  <1>1. \A n \in Changes : wal'[n] = wal[n] BY WalGrows DEF IInv
  <1>2. dropped[c] \subseteq Changes /\ \A e \in dlq : e.change \in Changes BY DEF Within
  <1> QED BY <1>1, <1>2 DEF Gone, InQueue

\* What expires is given up.
LEMMA ExpireShows ==
  ASSUME IInv, Within, [Next]_vars, NEW c \in Configs, NEW l \in Int, l <= Len(wal), Shows(c, l),
         Expire, UNCHANGED sink
  PROVE  Shows(c, l)'
  <1>1. \A n \in Changes : wal'[n] = wal[n] BY WalGrows DEF IInv
  <1>2. PICK old \in SUBSET {e \in dlq : e.permanent} :
          /\ dlq' = dlq \ old
          /\ dropped' = [d \in Configs |-> dropped[d] \cup {e.change : e \in {x \in old : x.cfg = d}}]
    BY DEF Expire
  <1>3. dropped[c] \subseteq Changes /\ \A e \in dlq : e.change \in Changes BY DEF Within
  <1>4. dropped[c] \subseteq dropped'[c] /\ \A e \in old : e.cfg = c => e.change \in dropped'[c] BY <1>2
  <1>5. \A r : Gone(c, r) => Gone(c, r)' BY <1>1, <1>3, <1>4 DEF Gone
  <1>6. ASSUME NEW r, InQueue(c, r) PROVE Gone(c, r)' \/ InQueue(c, r)'
    <2>1. PICK e \in dlq : e.cfg = c /\ wal[e.change].row = r BY <1>6 DEF InQueue
    <2>2. wal'[e.change].row = r BY <1>1, <1>3, <2>1
    <2>3. CASE e \in old BY <1>4, <2>1, <2>2, <2>3 DEF Gone
    <2>4. CASE e \notin old BY <1>2, <2>1, <2>2, <2>4 DEF InQueue
    <2> QED BY <2>3, <2>4
  <1> QED BY <1>5, <1>6, ShowsByRow

\* A replayed upsert writes the row as it is now.
LEMMA ReplayShows ==
  ASSUME IInv, Within, [Next]_vars, NEW c \in Configs, NEW l \in Int, l <= Len(wal), Shows(c, l),
         NEW F \in SUBSET dlq, NEW ok \in SUBSET F, NEW sent \in SUBSET dlq, ReplayEffect(F, ok, sent), UNCHANGED dropped
  PROVE  Shows(c, l)'
  <1>1. \A n \in Changes : wal'[n] = wal[n] BY WalGrows DEF IInv
  <1>2. dropped[c] \subseteq Changes /\ \A e \in dlq : e.change \in Changes /\ wal[e.change].op = "upsert"
    BY DEF Within
  <1>3. dlq \subseteq EntryType BY DEF IInv, Typed, TypeOK, EntryType
  <1>4. \A r : Gone(c, r) => Gone(c, r)' BY <1>1, <1>2 DEF Gone
  <1> SUFFICES ASSUME NEW r \in SourceOf[c]
               PROVE  /\ InQueue(c, r) => InQueue(c, r)' \/ sink'[c][r] = RowAt(r, Len(wal))
                      /\ sink[c][r] = RowAt(r, Len(wal)) => sink'[c][r] = RowAt(r, Len(wal))
    BY <1>4, ShowsByRow
  <1> DEFINE here == {e.change : e \in {x \in ok \cup sent : x.cfg = c /\ wal[x.change].row = r}}
  <1>5. r \in Rows BY ConstantsAssumption
  <1>6. sink'[c][r] = IF here = {} THEN sink[c][r] ELSE ReplayValue(r, here) BY <1>5 DEF ReplayEffect
  <1>7. ReplayValue(r, here) = RowAt(r, Len(wal))
    <2>1. \A n \in here : wal[n].op = "upsert" BY <1>2
    <2>2. ~ \E n \in Newest(here) : wal[n].op = "delete" BY <2>1 DEF Newest
    <2> QED BY <2>2 DEF ReplayValue
  <1>8. ASSUME InQueue(c, r) PROVE InQueue(c, r)' \/ sink'[c][r] = RowAt(r, Len(wal))
    <2>1. PICK e \in dlq : e.cfg = c /\ wal[e.change].row = r BY <1>8 DEF InQueue
    <2>2. wal'[e.change].row = r BY <1>1, <1>2, <2>1
    <2>3. CASE e \in ok
      <3>1. here # {} BY <2>1, <2>3
      <3> QED BY <1>6, <1>7, <3>1
    <2>4. CASE e \in F \ ok
      <3>1. AfterFailure(e).cfg = c /\ AfterFailure(e).change = e.change BY <1>3, <2>1, AfterFailureType
      <3>2. AfterFailure(e) \in dlq' BY <2>4 DEF ReplayEffect
      <3> QED BY <2>2, <3>1, <3>2 DEF InQueue
    <2>5. CASE e \notin F
      <3>1. e \in dlq' BY <2>1, <2>5 DEF ReplayEffect
      <3> QED BY <2>1, <2>2, <3>1 DEF InQueue
    <2> QED BY <2>3, <2>4, <2>5
  <1> HIDE DEF here
  <1> QED BY <1>6, <1>7, <1>8

\* Whatever happens but a write of the config's own, its namespace stays as up to
\* date as it was.
LEMMA ShowsKept ==
  ASSUME IInv, Within, [Next]_vars, NEW c \in Active, NEW l \in Int, l <= Len(wal), Shows(c, l),
         ~ (SendOk(c) \/ SendFails(c) \/ DeadLetterFails(c))
  PROVE  Shows(c, l)'
  <1> USE DEF pgVars, sinkVars
  <1>0. c \in Configs BY DEF Active
  <1>1. ASSUME dropped[c] \subseteq dropped'[c], dlq \subseteq dlq', sink'[c] = sink[c] PROVE Shows(c, l)'
    BY <1>0, <1>1, QueueGrows, ShowsByRow
  <1>2. sink \in [Configs -> [Rows -> Lsn]] /\ dropped \in [Configs -> SUBSET (1 .. MaxChanges)]
    BY DEF IInv, Typed, TypeOK
  <1>3. CASE Commit \/ FlushSlot \/ Connect \/ RecvSubBatch \/ RecvBatch \/ RecvSchemaChanged \/ Ack \/ Crash \/ UNCHANGED vars
    <2>1. UNCHANGED <<dropped, dlq, sink>>
      BY <1>3 DEF Commit, FlushSlot, Connect, RecvSubBatch, RecvBatch, RecvSchemaChanged, Ack, Crash, vars
    <2> QED BY <1>1, <2>1
  <1>4. CASE RecvTransactionTooLarge
    <2>1. UNCHANGED <<dlq, sink>> BY <1>4 DEF RecvTransactionTooLarge
    <2>2. dropped[c] \subseteq dropped'[c] BY <1>0, <1>4 DEF RecvTransactionTooLarge
    <2> QED BY <1>1, <2>1, <2>2
  <1>5. ASSUME NEW d \in Configs, SaveCheckpoint(d) PROVE Shows(c, l)'
    BY <1>1, <1>5 DEF SaveCheckpoint
  <1>6. ASSUME NEW d \in Configs, BackfillNewConfig(d) PROVE Shows(c, l)'
    <2>1. d # c /\ UNCHANGED <<dropped, dlq>> BY <1>6 DEF BackfillNewConfig
    <2>2. sink'[c] = sink[c] BY <1>0, <1>2, <1>6, <2>1 DEF BackfillNewConfig
    <2> QED BY <1>1, <2>1, <2>2
  <1>7. ASSUME NEW d \in Configs, SendOk(d) \/ SendFails(d) \/ DeadLetterFails(d) PROVE Shows(c, l)'
    <2>1. d # c BY <1>7
    <2>2. sink' = sink \/ sink' = Written(d, Mine(d)) BY <1>7 DEF SendOk, SendFails, DeadLetterFails, Delivered
    <2>3. sink'[c] = sink[c] BY <1>0, <1>2, <2>1, <2>2 DEF Written
    <2>4. UNCHANGED dropped /\ dlq \subseteq dlq' BY <1>7 DEF SendOk, SendFails, DeadLetterFails
    <2> QED BY <1>1, <2>3, <2>4
  <1>8. CASE Start \/ Maintain
    BY <1>0, <1>8, ExpireShows DEF Start, Maintain
  <1>9. CASE DrainDlq \/ ReplayDlq
    <2>1. PICK F \in SUBSET Retryable : \E ok \in SUBSET F : ReplayPass(F, ok) BY <1>9 DEF DrainDlq, ReplayDlq
    <2>2. PICK ok \in SUBSET F : ReplayPass(F, ok) BY <2>1
    <2>3. F \in SUBSET dlq /\ ReplayEffect(F, ok, {}) BY <2>2 DEF Retryable, ReplayPass
    <2>4. UNCHANGED dropped BY <1>9 DEF DrainDlq, ReplayDlq
    <2> QED BY <1>0, <2>3, <2>4, ReplayShows
  <1>10. CASE ReplayAborts
    <2>1. PICK F \in SUBSET Retryable : \E ok \in SUBSET F : \E sent \in SUBSET (Retryable \ F) : ReplayEffect(F, ok, sent)
      BY <1>10 DEF ReplayAborts
    <2>2. PICK ok \in SUBSET F, sent \in SUBSET (Retryable \ F) : ReplayEffect(F, ok, sent) BY <2>1
    <2>3. F \in SUBSET dlq /\ sent \in SUBSET dlq BY DEF Retryable
    <2>4. UNCHANGED dropped BY <1>10 DEF ReplayAborts
    <2> QED BY <1>0, <2>2, <2>3, <2>4, ReplayShows
  <1> QED BY <1>3, <1>4, <1>5, <1>6, <1>7, <1>8, <1>9, <1>10 DEF Next, Process, Environment

\* The batch in hand is the next transaction, whole.
LEMMA InHandFacts ==
  ASSUME IInv, Anchored, Order, pc = "process"
  PROVE  /\ batch.kind = "batch" /\ batch.lo = pos + 1 /\ batch.ack = batch.hi
         /\ batch.hi \in Nat /\ pos \in Nat /\ batch.hi > pos /\ batch.hi <= Len(wal)
         /\ IsNextCommit(batch.hi)
  <1>1. Typed /\ EveryPositionSafe BY DEF IInv
  <1>2. pos \in Nat /\ Len(wal) \in Nat BY <1>1, PositionTypes
  <1>3. batch.kind = "batch" /\ batch.lo = pos + 1 /\ batch.ack = batch.hi
    BY <1>1, <1>2 DEF EveryPositionSafe, Order
  <1>4. IsNextCommit(batch.hi) BY <1>3 DEF Anchored, InHand
  <1>5. batch.hi \in pos .. Len(wal) BY <1>1 DEF Typed, BatchBounds
  <1> QED BY <1>2, <1>3, <1>4, <1>5 DEF IsNextCommit

\* A write leaves the newest value of every row it changes that has not changed
\* again since.
LEMMA WrittenNewest ==
  ASSUME IInv, Anchored, Order, pc = "process", NEW c \in Configs, NEW r \in SourceOf[c],
         LastUpTo(r, batch.hi)
  PROVE  \/ {n \in Mine(c) : wal[n].row = r} = {} /\ Written(c, Mine(c))[c][r] = sink[c][r]
         \/ {n \in Mine(c) : wal[n].row = r} # {} /\ Written(c, Mine(c))[c][r] = RowAt(r, Len(wal))
  <1> DEFINE here == {n \in Mine(c) : wal[n].row = r}
             all == {n \in Changes : n <= Len(wal) /\ wal[n].row = r}
  <1>1. r \in Rows BY ConstantsAssumption
  <1>2. sink \in [Configs -> [Rows -> Lsn]] BY DEF IInv, Typed, TypeOK
  <1>3. Written(c, Mine(c))[c][r] = IF here = {} THEN sink[c][r] ELSE ValueAfter(here)
    BY <1>1, <1>2 DEF Written
  <1>4. Len(wal) \in Nat BY PositionTypes DEF IInv
  <1>5. Changes \subseteq Int /\ \A n \in Changes : n <= Len(wal) BY <1>4 DEF Changes
  <1>6. /\ batch.lo = pos + 1 /\ batch.hi \in Nat /\ pos \in Nat BY InHandFacts
  <1>7. \A n \in here : n \in all /\ pos + 1 <= n
    <2> SUFFICES ASSUME NEW n \in here PROVE n \in all /\ pos + 1 <= n OBVIOUS
    <2>1. n \in batch.lo .. batch.hi /\ n \in Changes /\ wal[n].row = r BY DEF Mine, Routed
    <2> QED BY <1>5, <1>6, <2>1
  <1>8. \A n \in all \ here : n < pos + 1
    <2> SUFFICES ASSUME NEW n \in all \ here PROVE n < pos + 1 OBVIOUS
    <2>1. n \in Changes /\ wal[n].row = r /\ n <= batch.hi /\ n \in Int BY <1>5 DEF LastUpTo
    <2>2. n \notin batch.lo .. batch.hi BY <2>1 DEF Mine, Routed
    <2> QED BY <1>6, <2>1, <2>2
  <1>9. RowAt(r, Len(wal)) = ValueAfter(all) BY DEF RowAt
  <1>10. all \subseteq Int /\ here \subseteq all BY <1>5, <1>7
  <1> HIDE DEF here, all
  <1>11. \A n \in all \ here : \A m \in here : n < m
    <2> SUFFICES ASSUME NEW n \in all \ here, NEW m \in here PROVE n < m OBVIOUS
    <2>1. n \in Int /\ m \in Int /\ n < pos + 1 /\ pos + 1 <= m BY <1>7, <1>8, <1>10
    <2> QED BY <1>6, <2>1
  <1>12. here # {} => ValueAfter(here) = ValueAfter(all) BY <1>10, <1>11, NewestOfPart
  <1>13. here = {} \/ here # {} OBVIOUS
  <1> QED BY <1>3, <1>9, <1>12, <1>13 DEF here

\* A delivery brings the namespace up to its own transaction.
LEMMA DeliveryShows ==
  ASSUME IInv, Anchored, Within, Order, [Next]_vars, NEW c \in Active,
         SendOk(c) \/ SendFails(c) \/ DeadLetterFails(c), NEW l \in Int, l <= batch.hi, Shows(c, l)
  PROVE  Shows(c, l)'
  <1> USE DEF pgVars, sinkVars
  <1>0. c \in Configs /\ pc = "process" BY DEF Active, SendOk, SendFails, DeadLetterFails
  <1>1. batch.hi \in Nat /\ batch.hi <= Len(wal) /\ Len(wal) \in Nat
    BY <1>0, InHandFacts, PositionTypes DEF IInv
  <1>2. UNCHANGED dropped /\ dlq \subseteq dlq' BY DEF SendOk, SendFails, DeadLetterFails
  <1>3. \A r : (Gone(c, r) => Gone(c, r)') /\ (InQueue(c, r) => InQueue(c, r)')
    BY <1>0, <1>2, QueueGrows
  <1>4. sink' = sink \/ sink' = Written(c, Mine(c)) BY DEF SendOk, SendFails, DeadLetterFails, Delivered
  <1>5. Changes \subseteq Int BY <1>1 DEF Changes
  <1>6. ASSUME NEW r \in SourceOf[c], LastUpTo(r, l), sink[c][r] = RowAt(r, Len(wal))
        PROVE  sink'[c][r] = RowAt(r, Len(wal))
    <2>1. \A n \in Changes : wal[n].row = r => n <= l /\ n \in Int BY <1>5, <1>6 DEF LastUpTo
    <2>2. PICK h : h = batch.hi OBVIOUS
    <2>3. \A n \in Int : n <= l => n <= h BY <1>1, <2>2
    <2>4. LastUpTo(r, batch.hi) BY <2>1, <2>2, <2>3 DEF LastUpTo
    <2> QED BY <1>0, <1>4, <1>6, <2>4, WrittenNewest
  <1>7. l <= Len(wal) BY <1>1
  <1> QED BY <1>3, <1>6, <1>7, ShowsByRow

\* And if it was up to date before it, also at its end.
LEMMA DeliveryReaches ==
  ASSUME IInv, Anchored, Within, Order, [Next]_vars, NEW c \in Active,
         SendOk(c) \/ SendFails(c), Shows(c, pos), NEW h, h = batch.hi
  PROVE  Shows(c, h)'
  <1> USE DEF pgVars, sinkVars
  <1>0. c \in Configs /\ pc = "process" BY DEF Active, SendOk, SendFails
  <1>1. batch.hi \in Nat /\ batch.hi <= Len(wal) /\ Len(wal) \in Nat /\ pos \in Nat /\ batch.lo = pos + 1
    BY <1>0, InHandFacts, PositionTypes DEF IInv
  <1>2. UNCHANGED dropped /\ dlq \subseteq dlq' BY DEF SendOk, SendFails
  <1>3. \A r : (Gone(c, r) => Gone(c, r)') /\ (InQueue(c, r) => InQueue(c, r)')
    BY <1>0, <1>2, QueueGrows
  <1>4. Changes \subseteq Int BY <1>1 DEF Changes
  <1>5. \A n \in Changes : wal'[n] = wal[n] BY WalGrows DEF IInv
  <1> SUFFICES ASSUME NEW r \in SourceOf[c], LastUpTo(r, h)' PROVE Shown(c, r)' BY DEF Shows
  <1>7. LastUpTo(r, h) /\ RowAt(r, Len(wal))' = RowAt(r, Len(wal)) BY <1>1, RowKept
  <1>8. CASE {n \in Mine(c) : wal[n].row = r} = {}
    <2>1. LastUpTo(r, pos)
      <3> SUFFICES ASSUME NEW n \in Changes, wal[n].row = r PROVE n <= pos BY DEF LastUpTo
      <3>1. n <= h /\ n \in Int BY <1>4, <1>7 DEF LastUpTo
      <3>2. n \notin batch.lo .. batch.hi BY <1>8 DEF Mine, Routed
      <3> QED BY <1>1, <3>1, <3>2
    <2>2. Shown(c, r) BY <2>1 DEF Shows
    <2>3. sink' = sink \/ sink' = Written(c, Mine(c)) BY DEF SendOk, SendFails, Delivered
    <2>4. sink'[c][r] = sink[c][r] BY <1>0, <1>7, <1>8, <2>3, WrittenNewest
    <2> QED BY <1>3, <1>7, <2>2, <2>4 DEF Shown
  <1>9. CASE {n \in Mine(c) : wal[n].row = r} # {}
    <2>1. CASE SendOk(c)
      <3>1. sink'[c][r] = RowAt(r, Len(wal)) BY <1>0, <1>7, <1>9, <2>1, WrittenNewest DEF SendOk, Delivered
      <3> QED BY <1>7, <3>1 DEF Shown
    <2>2. CASE SendFails(c)
      <3>1. PICK n \in Mine(c) : wal[n].row = r BY <1>9
      <3>2. n \in Changes BY DEF Mine, Routed
      <3> DEFINE e == [cfg |-> c, change |-> n, retries |-> 0, permanent |-> FALSE]
      <3>3. e \in Entries(c, Mine(c)) BY <3>1 DEF Entries
      <3>4. e \in dlq' /\ e.cfg = c /\ wal'[e.change].row = r BY <1>5, <2>2, <3>1, <3>2, <3>3 DEF SendFails
      <3> QED BY <3>4 DEF Shown, InQueue
    <2> QED BY <2>1, <2>2
  <1> QED BY <1>8, <1>9

----------------------------------------------------------------------------
(* Every step leaves the namespaces up to date at every claimed position.   *)

\* The same of the positions a step leads to.
LEMMA ClaimedNext ==
  ASSUME IInv, [Next]_vars, NEW c \in Configs, NEW l \in Claimed(c)' PROVE l \in Int
  <1>1. Typed' BY TypeStep DEF IInv
  <1>2. Lsn \cup {NoLsn} \subseteq Int BY LsnType DEF Lsn, NoLsn
  <1>3. /\ confirmed' \in Int /\ start' \in Int /\ pos' \in Int /\ memcp'[c] \in Int
        /\ watermark'[c] \in Int /\ \A d \in Configs : cp'[d] \in Int
        /\ batch'.hi \in Int /\ batch'.ack \in Int
    BY <1>1, <1>2 DEF Typed, TypeOK
  <1>4. Resume(c)' \in Int BY <1>3 DEF Resume
  <1> QED BY <1>3, <1>4 DEF Claimed

\* Up to date at a later position before the step, hence at this one after it.
LEMMA HeldFrom ==
  ASSUME IInv, Within, Held, [Next]_vars, NEW c \in Active,
         ~ (SendOk(c) \/ SendFails(c) \/ DeadLetterFails(c)),
         NEW l \in Int, NEW m \in Claimed(c), l <= m
  PROVE  Shows(c, l)'
  <1>1. m \in Int /\ m <= Len(wal) /\ Shows(c, m) BY ClaimedTypes
  <1>2. Typed /\ Len(wal) \in Nat BY PositionTypes DEF IInv
  <1>3. l <= Len(wal) /\ Shows(c, l) BY <1>1, <1>2, ShowsLess
  <1> QED BY <1>3, ShowsKept

\* A step that moves no saved position but the stream's.
LEMMA HeldQuiet ==
  ASSUME IInv, Within, Held, [Next]_vars, NEW c \in Active,
         ~ (SendOk(c) \/ SendFails(c) \/ DeadLetterFails(c)),
         UNCHANGED <<confirmed, cp, watermark, memcp>>, CanReconnect' => CanReconnect,
         pc' \in {"drain", "connect"} => \E m \in Claimed(c) : start' <= m,
         Connected' => \E m \in Claimed(c) : pos' <= m,
         pc' = "process" /\ c \notin todo' => Shows(c, batch.hi)',
         pc' \in {"save", "ack"} => Shows(c, batch.ack)'
  PROVE  \A l \in Claimed(c)' : Shows(c, l)'
  <1> SUFFICES ASSUME NEW l \in Claimed(c)' PROVE Shows(c, l)' OBVIOUS
  <1>0. c \in Configs /\ l \in Int BY ClaimedNext DEF Active
  <1>1. CASE l \in {confirmed, Resume(c), memcp[c]}
    <2>1. l \in Claimed(c) BY <1>1 DEF Claimed
    <2> QED BY <1>0, <2>1, HeldFrom
  <1>2. CASE CanReconnect' /\ cp'[c] = NoLsn /\ l \in {cp[d] : d \in Configs}
    <2>1. l \in Claimed(c) BY <1>2 DEF Claimed
    <2> QED BY <1>0, <2>1, HeldFrom
  <1>3. CASE pc' \in {"drain", "connect"} /\ l = start' BY <1>0, <1>3, HeldFrom
  <1>4. CASE Connected' /\ l = pos' BY <1>0, <1>4, HeldFrom
  <1>5. CASE pc' = "process" /\ c \notin todo' /\ l = batch'.hi
    <2>1. Shows(c, batch.hi)' BY <1>5
    <2> QED BY <1>5, <2>1
  <1>6. CASE pc' \in {"save", "ack"} /\ l = batch'.ack
    <2>1. Shows(c, batch.ack)' BY <1>6
    <2> QED BY <1>6, <2>1
  <1>7. Resume(c)' = Resume(c) BY DEF Resume
  <1> QED BY <1>1, <1>2, <1>3, <1>4, <1>5, <1>6, <1>7 DEF Claimed

\* A config that a received transaction passes by, because it is ahead of it or
\* has no part in it, is up to date at its end.
LEMMA HeldReceived ==
  ASSUME Policy, IInv, Anchored, Caught, [Next]_vars, RecvBatch, NEW c \in Active
  PROVE  \A l \in Claimed(c)' : Shows(c, l)'
  <1> USE DEF pgVars, sinkVars, streamVars, budgets
  <1>0. /\ Typed /\ Within /\ Order /\ Held /\ c \in Configs /\ pc = "recv" /\ part = 0
        /\ UNCHANGED <<confirmed, cp, watermark, memcp, wal, reconnects, pos, start, dlq, dropped, sink>>
    BY DEF IInv, Caught, Order, Active, RecvBatch
  <1>1. PICK e \in commits : /\ IsNextCommit(e)
                             /\ BeginProcess([kind |-> "batch", lo |-> pos + part + 1, hi |-> e, ack |-> e])
    BY DEF RecvBatch
  <1> DEFINE b == [kind |-> "batch", lo |-> pos + 1, hi |-> e, ack |-> e]
  <1>2. pos \in Nat /\ e \in Nat /\ e > pos /\ e <= Len(wal) /\ Len(wal) \in Nat
    BY <1>0, <1>1, PositionTypes, LsnBounds DEF IsNextCommit, Typed
  <1>3. BeginProcess(b)
    <2>1. pos + part + 1 = pos + 1 BY <1>0, <1>2
    <2> QED BY <1>1, <2>1
  <1>4. b.kind = "batch" /\ b.lo = pos + 1 /\ b.hi = e /\ b.ack = e OBVIOUS
  <1>5. pos \in Claimed(c) /\ memcp[c] \in Claimed(c) BY <1>0 DEF Claimed, Connected
  <1> HIDE DEF b
  <1>6. ~ (SendOk(c) \/ SendFails(c) \/ DeadLetterFails(c))
    BY <1>0 DEF SendOk, SendFails, DeadLetterFails
  <1>7. ASSUME c \notin ToProcess(b) PROVE Shows(c, e)'
    <2>1. CASE Routed(c, b.lo .. b.hi) = {}
      <3>1. \A n \in Changes : pos < n /\ n <= e => wal[n].row \notin SourceOf[c]
        <4> SUFFICES ASSUME NEW n \in Changes, pos < n, n <= e PROVE wal[n].row \notin SourceOf[c] OBVIOUS
        <4>1. n \in Int BY <1>2 DEF Changes
        <4>2. n \in b.lo .. b.hi BY <1>2, <1>4, <4>1
        <4> QED BY <2>1, <4>2 DEF Routed
      <3>2. Shows(c, pos) BY <1>0, <1>5, ClaimedTypes
      <3>3. Shows(c, e) BY <1>0, <1>2, <3>1, <3>2, ShowsFar
      <3> QED BY <1>0, <1>2, <1>6, <3>3, ShowsKept
    <2>2. CASE ShouldSkip(c, e)
      <3>1. e <= memcp[c] BY <2>2 DEF ShouldSkip
      <3>2. e \in Int BY <1>2
      <3> QED BY <1>0, <1>5, <1>6, <3>1, <3>2, HeldFrom
    <2> QED BY <1>4, <1>7, <2>1, <2>2 DEF ToProcess
  <1>8. pc' \in {"process", "save", "ack"} /\ batch' = b /\ (pc' = "process" => todo' = ToProcess(b))
        /\ (pc' # "process" => ToProcess(b) = {})
    BY <1>3, <1>4 DEF BeginProcess, EndProcess, AfterSave
  <1>9. \E m \in Claimed(c) : pos' <= m BY <1>0, <1>2, <1>5
  <1>10. batch'.hi = e /\ batch'.ack = e BY <1>4, <1>8
  <1>11. pc' = "process" /\ c \notin todo' => Shows(c, batch.hi)' BY <1>7, <1>8, <1>10
  <1>12. pc' \in {"save", "ack"} => Shows(c, batch.ack)'
    <2>1. pc' \in {"save", "ack"} => c \notin ToProcess(b) BY <1>8
    <2> QED BY <1>7, <1>10, <2>1
  <1>13. CanReconnect' => CanReconnect /\ pc' \notin {"drain", "connect"} BY <1>0, <1>8 DEF CanReconnect
  <1> QED BY <1>0, <1>6, <1>8, <1>9, <1>11, <1>12, <1>13, HeldQuiet

\* What an oversized transaction changed is given up.
LEMMA HeldTooLarge ==
  ASSUME Policy, IInv, Anchored, Caught, [Next]_vars, RecvTransactionTooLarge, NEW c \in Active
  PROVE  \A l \in Claimed(c)' : Shows(c, l)'
  <1> USE DEF pgVars, sinkVars, streamVars, budgets
  <1>0. /\ Typed /\ Within /\ Order /\ Held /\ c \in Configs /\ pc = "recv"
        /\ UNCHANGED <<confirmed, cp, watermark, memcp, wal, reconnects, pos, start, dlq, sink>>
    BY DEF IInv, Caught, Order, Active, RecvTransactionTooLarge
  <1>1. PICK e \in commits : /\ IsNextCommit(e)
                             /\ EndProcess([kind |-> "toolarge", lo |-> pos + 1, hi |-> e, ack |-> e])
                             /\ dropped' = [d \in Configs |-> dropped[d] \cup Routed(d, pos + 1 .. e)]
    BY DEF RecvTransactionTooLarge
  <1>2. pos \in Nat /\ e \in Nat /\ e > pos /\ e <= Len(wal) /\ Len(wal) \in Nat
    BY <1>0, <1>1, PositionTypes, LsnBounds DEF IsNextCommit, Typed
  <1>3. pc' \in {"save", "ack"} /\ batch'.ack = e BY <1>1 DEF EndProcess, AfterSave
  <1>4. pos \in Claimed(c) BY <1>0 DEF Claimed, Connected
  <1>5. ~ (SendOk(c) \/ SendFails(c) \/ DeadLetterFails(c))
    BY <1>0 DEF SendOk, SendFails, DeadLetterFails
  <1>6. Shows(c, pos) BY <1>0, <1>4, ClaimedTypes
  <1>7. Shows(c, e)'
    <2> SUFFICES ASSUME NEW r \in SourceOf[c], LastUpTo(r, e)' PROVE Shown(c, r)' BY DEF Shows
    <2>1. LastUpTo(r, e) /\ RowAt(r, Len(wal))' = RowAt(r, Len(wal)) BY <1>2, RowKept
    <2>2. CASE \E n \in Routed(c, pos + 1 .. e) : wal[n].row = r
      <3>1. PICK n \in Routed(c, pos + 1 .. e) : wal[n].row = r BY <2>2
      <3>2. n \in dropped'[c] BY <1>0, <1>1
      <3> QED BY <1>0, <3>1, <3>2 DEF Shown, Gone
    <2>3. CASE ~ \E n \in Routed(c, pos + 1 .. e) : wal[n].row = r
      <3>1. LastUpTo(r, pos)
        <4> SUFFICES ASSUME NEW n \in Changes, wal[n].row = r PROVE n <= pos BY DEF LastUpTo
        <4>1. n <= e /\ n \in Int BY <1>2, <2>1 DEF LastUpTo, Changes
        <4>2. n \notin pos + 1 .. e BY <2>3 DEF Routed
        <4> QED BY <1>2, <4>1, <4>2
      <3>2. Shown(c, r) BY <1>6, <3>1 DEF Shows
      <3>3. dropped[c] \subseteq dropped'[c] BY <1>0, <1>1
      <3> QED BY <1>0, <2>1, <3>2, <3>3, QueueGrows DEF Shown
    <2> QED BY <2>2, <2>3
  <1>8. \E m \in Claimed(c) : pos' <= m BY <1>0, <1>2, <1>4
  <1>9. CanReconnect' => CanReconnect BY <1>0 DEF CanReconnect
  <1>10. pc' \in {"save", "ack"} => Shows(c, batch.ack)' BY <1>3, <1>7
  <1> QED BY <1>0, <1>3, <1>5, <1>8, <1>9, <1>10, HeldQuiet

\* What lies in front of a delivery: every claimed position is before its end.
LEMMA ClaimedBefore ==
  ASSUME Policy, IInv, Anchored, Caught, NEW c \in Active, pc = "process", c \in todo, NEW l \in Claimed(c)
  PROVE  l \in Int /\ l <= batch.hi
  <1>0. Order /\ Typed /\ Held /\ c \in Configs BY DEF Caught, IInv, Active
  <1>1. batch.hi \in Nat /\ pos \in Nat /\ batch.hi > pos /\ IsNextCommit(batch.hi) BY <1>0, InHandFacts
  <1>2. l \in Int BY <1>0, ClaimedTypes
  <1>3. confirmed <= pos /\ memcp[c] < batch.hi /\ (Resume(c) <= memcp[c] \/ Resume(c) <= pos)
    BY <1>0 DEF Order, Connected, At
  <1>4. Resume(c) \in Int /\ memcp[c] \in Int /\ confirmed \in Int BY <1>0, CoverFacts, PositionTypes
  <1>5. ASSUME CanReconnect, cp[c] = NoLsn, NEW d \in Configs PROVE cp[d] <= batch.hi
    <2>1. watermark[c] = memcp[c] BY <1>0, <1>5 DEF Caught, Reconnecting, Unsaved
    <2>2. batch.hi \in commits BY <1>1 DEF IsNextCommit
    <2> QED BY <1>0, <1>3, <1>5, <2>1, <2>2 DEF Caught, Reconnecting, Unsaved
  <1>6. l \in {confirmed, Resume(c), memcp[c], pos} => l <= batch.hi BY <1>1, <1>3, <1>4
  <1>7. l \in {confirmed, Resume(c), memcp[c], pos} \/ (CanReconnect /\ cp[c] = NoLsn /\ \E d \in Configs : l = cp[d])
    BY <1>0 DEF Claimed, Connected
  <1> QED BY <1>2, <1>5, <1>6, <1>7

\* The config that was served is up to date at the end of the transaction, the
\* others are where they were.
LEMMA HeldSent ==
  ASSUME Policy, IInv, Anchored, Caught, [Next]_vars, NEW d \in Configs, SendOk(d) \/ SendFails(d), NEW c \in Active
  PROVE  \A l \in Claimed(c)' : Shows(c, l)'
  <1> USE DEF pgVars, sinkVars, streamVars, budgets
  <1>0. /\ Typed /\ Within /\ Order /\ Held /\ c \in Configs /\ pc = "process" /\ d \in todo /\ NextConfig(d)
        /\ UNCHANGED <<confirmed, cp, watermark, memcp, wal, reconnects, pos, start, dropped>>
    BY DEF IInv, Caught, Order, Active, SendOk, SendFails
  <1>1. batch.kind = "batch" /\ batch.ack = batch.hi /\ batch.hi \in Nat /\ pos \in Nat BY <1>0, InHandFacts
  <1>2. /\ batch' = batch /\ pc' \in {"process", "save", "ack"}
        /\ pc' = "process" => todo' = todo \ {d}
        /\ pc' # "process" => todo = {d}
    BY <1>0, <1>1 DEF NextConfig, EndProcess, AfterSave
  <1>3. pos \in Claimed(c) BY <1>0 DEF Claimed, Connected
  <1>4. CanReconnect' => CanReconnect /\ pc' \notin {"drain", "connect"} BY <1>0, <1>2 DEF CanReconnect
  <1>5. CASE c # d
    <2>1. ~ (SendOk(c) \/ SendFails(c) \/ DeadLetterFails(c))
      <3>1. \A x \in Configs : SendOk(x) \/ SendFails(x) => (pc' = "process" => todo' = todo \ {x}) /\ (pc' # "process" => todo = {x})
                                                         /\ pc' # "down"
        <4> SUFFICES ASSUME NEW x \in Configs, SendOk(x) \/ SendFails(x)
                     PROVE  (pc' = "process" => todo' = todo \ {x}) /\ (pc' # "process" => todo = {x}) /\ pc' # "down"
          OBVIOUS
        <4>1. NextConfig(x) BY DEF SendOk, SendFails
        <4> QED BY <1>0, <1>1, <4>1 DEF NextConfig, EndProcess, AfterSave
      <3>2. SendOk(c) \/ SendFails(c) => c \in todo BY DEF SendOk, SendFails
      <3>3. ~ (SendOk(c) \/ SendFails(c)) BY <1>0, <1>2, <1>5, <3>1, <3>2
      <3>4. ~ DeadLetterFails(c) BY <1>2 DEF DeadLetterFails, Stop
      <3> QED BY <3>3, <3>4
    <2>2. ASSUME c \notin todo PROVE Shows(c, batch.hi)'
      <3>1. batch.hi \in Claimed(c) BY <1>0, <2>2 DEF Claimed
      <3>2. PICK h \in Int : h = batch.hi BY <1>1
      <3>3. Shows(c, h)' BY <1>0, <1>1, <2>1, <3>1, <3>2, HeldFrom
      <3> QED BY <1>2, <3>2, <3>3
    <2>3. pc' = "process" /\ c \notin todo' => Shows(c, batch.hi)' BY <1>2, <1>5, <2>2
    <2>4. pc' \in {"save", "ack"} => Shows(c, batch.ack)' BY <1>1, <1>2, <1>5, <2>2
    <2>5. \E m \in Claimed(c) : pos' <= m BY <1>0, <1>1, <1>3
    <2> QED BY <1>0, <1>2, <1>4, <2>1, <2>3, <2>4, <2>5, HeldQuiet
  <1>6. CASE c = d
    <2>1. ASSUME NEW l \in Claimed(c) PROVE Shows(c, l)'
      <3>1. l \in Int /\ l <= batch.hi /\ Shows(c, l) BY <1>0, <1>6, ClaimedBefore, ClaimedTypes
      <3> QED BY <1>0, <1>6, <3>1, DeliveryShows
    <2>2. PICK h : h = batch.hi OBVIOUS
    <2>3. Shows(c, h)'
      <3>1. Shows(c, pos) BY <1>0, <1>3, ClaimedTypes
      <3> QED BY <1>0, <1>6, <2>2, <3>1, DeliveryReaches
    <2>4. \A l \in Claimed(c)' : l \in Claimed(c) \/ l = h
      <3>1. Resume(c)' = Resume(c) BY <1>0 DEF Resume
      <3> QED BY <1>0, <1>1, <1>2, <1>4, <2>2, <3>1 DEF Claimed, Connected
    <2> QED BY <2>1, <2>3, <2>4
  <1> QED BY <1>5, <1>6

\* A step that claims nothing beyond what was claimed.
LEMMA HeldBelow ==
  ASSUME IInv, Within, Held, [Next]_vars, NEW c \in Active,
         ~ (SendOk(c) \/ SendFails(c) \/ DeadLetterFails(c)),
         \A l \in Claimed(c)' : \E m \in Claimed(c) : l <= m
  PROVE  \A l \in Claimed(c)' : Shows(c, l)'
  <1>1. c \in Configs BY DEF Active
  <1> QED BY <1>1, ClaimedNext, HeldFrom

\* A process that ends leaves the slot, the checkpoints and the watermarks.
LEMMA HeldStopped ==
  ASSUME Policy, IInv, Anchored, Caught, [Next]_vars, Crash \/ \E d \in Configs : DeadLetterFails(d), NEW c \in Active
  PROVE  \A l \in Claimed(c)' : Shows(c, l)'
  <1> USE DEF pgVars, sinkVars, streamVars, budgets
  <1>0. /\ Typed /\ Within /\ Order /\ Held /\ c \in Configs
        /\ UNCHANGED <<confirmed, cp, watermark, reconnects>> /\ Stop
    BY DEF IInv, Caught, Active, Crash, DeadLetterFails
  <1>1. pc' = "down" /\ memcp'[c] = NoLsn BY <1>0 DEF Stop
  <1>2. confirmed \in Nat BY <1>0, LsnBounds DEF Typed, TypeOK
  <1>3. confirmed \in Claimed(c) /\ Resume(c) \in Claimed(c) BY DEF Claimed
  <1>4. ASSUME NEW l \in Claimed(c)' PROVE \E m \in Claimed(c) : l <= m /\ l \in Int
    <2>1. l \in Int BY <1>0, ClaimedNext
    <2>2. CASE l = NoLsn BY <1>2, <1>3, <2>1, <2>2 DEF NoLsn
    <2>3. CASE l \in Claimed(c) BY <2>1, <2>3
    <2>4. Resume(c)' = Resume(c) /\ (CanReconnect' <=> CanReconnect) BY <1>0 DEF Resume, CanReconnect
    <2>5. l = NoLsn \/ l \in Claimed(c)
      BY <1>0, <1>1, <1>3, <2>4 DEF Claimed, Connected
    <2> QED BY <2>2, <2>3, <2>5
  <1>5. CASE ~ (SendOk(c) \/ SendFails(c) \/ DeadLetterFails(c)) BY <1>0, <1>4, <1>5, HeldBelow
  <1>6. CASE SendOk(c) \/ SendFails(c) \/ DeadLetterFails(c)
    <2> SUFFICES ASSUME NEW l \in Claimed(c)' PROVE Shows(c, l)' OBVIOUS
    <2>1. PICK m \in Claimed(c) : l <= m /\ l \in Int BY <1>4
    <2>2. pc = "process" /\ c \in todo BY <1>6 DEF SendOk, SendFails, DeadLetterFails
    <2>3. m \in Int /\ m <= batch.hi /\ Shows(c, m) BY <1>0, <2>2, ClaimedBefore, ClaimedTypes
    <2>4. batch.hi \in Int BY <1>0, <2>2, InHandFacts
    <2>5. l <= batch.hi /\ Shows(c, l) BY <1>0, <2>1, <2>3, <2>4, ShowsLess
    <2> QED BY <1>0, <1>6, <2>1, <2>5, DeliveryShows
  <1> QED BY <1>5, <1>6

\* A config that has just been backfilled is up to date at its watermark.
LEMMA HeldNew ==
  ASSUME IInv, Anchored, Caught, [Next]_vars, NEW c \in Configs, BackfillNewConfig(c)
  PROVE  \A l \in Claimed(c)' : Shows(c, l)'
  <1> USE DEF pgVars, sinkVars, streamVars, budgets
  <1>0. /\ Typed /\ pc = "down" /\ pc' = "down" /\ EveryPositionSafe
        /\ UNCHANGED <<wal, confirmed, cp, memcp, dlq, dropped>>
    BY DEF IInv, Caught, BackfillNewConfig
  <1>1. PICK w \in commits \cup {0} :
          /\ confirmed <= w /\ \A d \in Configs : cp[d] <= w
          /\ watermark' = [watermark EXCEPT ![c] = w]
          /\ \E at \in [Rows -> {l \in commits \cup {0} : w <= l}] :
               sink' = [sink EXCEPT ![c] = [r \in Rows |-> IF r \in SourceOf[c] THEN RowAt(r, at[r]) ELSE Absent]]
    BY DEF BackfillNewConfig
  <1>2. PICK at \in [Rows -> {l \in commits \cup {0} : w <= l}] :
          sink' = [sink EXCEPT ![c] = [r \in Rows |-> IF r \in SourceOf[c] THEN RowAt(r, at[r]) ELSE Absent]]
    BY <1>1
  <1>3. w \in Nat /\ Len(wal) \in Nat BY <1>0, LsnBounds DEF Typed
  <1>4. /\ watermark \in [Configs -> Lsn \cup {NoLsn}] /\ sink \in [Configs -> [Rows -> Lsn]]
        /\ \A d \in Configs : cp[d] \in Int
    BY <1>0, PositionTypes DEF Typed, TypeOK
  <1>5. watermark'[c] = w BY <1>1, <1>4
  <1>6. Changes \subseteq Int /\ \A n \in Changes : n <= Len(wal) BY <1>3 DEF Changes
  <1>7. ASSUME NEW r \in SourceOf[c], LastUpTo(r, w)' PROVE Shown(c, r)'
    <2>1. r \in Rows BY ConstantsAssumption
    <2>2. w <= at[r] /\ at[r] \in Int
      <3>1. commits \cup {0} \subseteq Int BY <1>0, LsnBounds DEF Typed
      <3> QED BY <2>1, <3>1
    <2>3. sink'[c][r] = RowAt(r, at[r]) BY <1>2, <1>4, <2>1
    <2>4. w <= Len(wal)
      <3>1. commits \cup {0} \subseteq Int /\ \A e \in commits : e <= Len(wal) BY <1>0, LsnBounds DEF Typed
      <3> QED BY <1>3, <3>1
    <2>5. LastUpTo(r, w) /\ RowAt(r, Len(wal))' = RowAt(r, Len(wal)) BY <1>3, <1>7, <2>4, RowKept
    <2>6. {n \in Changes : n <= at[r] /\ wal[n].row = r} = {n \in Changes : n <= Len(wal) /\ wal[n].row = r}
      <3>1. \A n \in Changes : wal[n].row = r => n <= at[r] /\ n <= Len(wal)
        <4> SUFFICES ASSUME NEW n \in Changes, wal[n].row = r PROVE n <= at[r] /\ n <= Len(wal) OBVIOUS
        <4>1. n <= w /\ n \in Int /\ n <= Len(wal) BY <1>6, <2>5 DEF LastUpTo
        <4> QED BY <1>3, <2>2, <4>1
      <3> QED BY <3>1
    <2>7. RowAt(r, at[r]) = RowAt(r, Len(wal)) BY <2>6 DEF RowAt
    <2> QED BY <2>3, <2>5, <2>7 DEF Shown
  <1>8. Shows(c, w)' BY <1>7 DEF Shows
  <1>9. memcp[c] = NoLsn BY <1>0 DEF EveryPositionSafe
  <1>10. ASSUME NEW l \in Claimed(c)' PROVE l \in Int /\ l <= w
    <2>1. l \in Int BY ClaimedNext
    <2>2. Resume(c)' <= w BY <1>0, <1>1, <1>3, <1>5 DEF Resume
    <2>3. NoLsn <= w BY <1>3 DEF NoLsn
    <2>4. l \in {confirmed, Resume(c)', NoLsn} \cup {cp[d] : d \in Configs}
      BY <1>0, <1>9 DEF Claimed, Connected
    <2> QED BY <1>1, <2>1, <2>2, <2>3, <2>4
  <1> SUFFICES ASSUME NEW l \in Claimed(c)' PROVE Shows(c, l)' OBVIOUS
  <1>11. SUFFICES ASSUME NEW r \in SourceOf[c], LastUpTo(r, l)' PROVE Shown(c, r)' BY DEF Shows
  <1>12. LastUpTo(r, w)'
    <2>1. Changes' \subseteq Int BY <1>0, <1>6 DEF Changes
    <2>2. l \in Int /\ l <= w BY <1>10
    <2> QED BY <1>3, <1>11, <2>1, <2>2 DEF LastUpTo
  <1> QED BY <1>7, <1>12

\* Every action keeps each namespace up to date at every claimed position.
LEMMA HeldStep ==
  ASSUME Policy, IInv, Anchored, Caught, [Next]_vars PROVE Held'
  <1> USE DEF pgVars, sinkVars, streamVars, budgets
  <1> SUFFICES ASSUME NEW c \in Active' PROVE \A l \in Claimed(c)' : Shows(c, l)' BY DEF Held
  <1>0. Typed /\ Within /\ Order /\ Held /\ c \in Configs /\ EveryPositionSafe
    BY DEF IInv, Caught, Active
  <1>1. CASE c \notin Active
    <2>1. \A d \in Configs : BackfillNewConfig(d) => d = c
      <3> SUFFICES ASSUME NEW d \in Configs, BackfillNewConfig(d), d # c PROVE FALSE OBVIOUS
      <3>1. watermark \in [Configs -> Lsn \cup {NoLsn}] BY <1>0 DEF Typed, TypeOK
      <3>2. watermark'[c] = watermark[c] BY <3>1, <1>0 DEF BackfillNewConfig
      <3> QED BY <1>0, <1>1, <3>2 DEF Active
    <2>2. CASE UNCHANGED watermark BY <1>0, <1>1, <2>2 DEF Active
    <2>3. CASE \E d \in Configs : BackfillNewConfig(d) BY <1>0, <2>1, <2>3, HeldNew
    <2>4. UNCHANGED watermark \/ \E d \in Configs : BackfillNewConfig(d)
      BY DEF Next, Process, Environment, vars, Commit, FlushSlot, Connect, RecvSubBatch, RecvBatch, RecvSchemaChanged,
         Ack, Crash, Start, RecvTransactionTooLarge, DrainDlq, ReplayDlq, ReplayAborts, Maintain,
         SendOk, SendFails, DeadLetterFails, SaveCheckpoint
    <2> QED BY <2>2, <2>3, <2>4
  <1>2. CASE c \in Active
    <2> USE <1>0, <1>2
    <2>1. CASE \E d \in Configs : SendOk(d) \/ SendFails(d) BY <2>1, HeldSent
    <2>2. CASE Crash \/ \E d \in Configs : DeadLetterFails(d) BY <2>2, HeldStopped
    <2>3. ASSUME ~ \E d \in Configs : SendOk(d) \/ SendFails(d) \/ DeadLetterFails(d)
          PROVE  ~ (SendOk(c) \/ SendFails(c) \/ DeadLetterFails(c))
      BY <2>3
    <2>4. CASE RecvBatch BY <2>4, HeldReceived
    <2>5. CASE RecvTransactionTooLarge BY <2>5, HeldTooLarge
    <2> DEFINE quiet == ~ (SendOk(c) \/ SendFails(c) \/ DeadLetterFails(c))
    <2>6. ASSUME quiet, Commit \/ UNCHANGED vars PROVE \A l \in Claimed(c)' : Shows(c, l)'
      <3>1. UNCHANGED <<confirmed, cp, watermark, memcp, start, pos, pc, todo, batch, reconnects>>
        BY <2>6 DEF Commit, vars
      <3>2. Claimed(c)' = Claimed(c) BY <3>1 DEF Claimed, Resume, Connected, CanReconnect
      <3>3. \A l \in Claimed(c) : l <= l BY ClaimedTypes
      <3> QED BY <2>6, <3>2, <3>3, HeldBelow
    <2>7. ASSUME quiet, FlushSlot PROVE \A l \in Claimed(c)' : Shows(c, l)'
      <3>1. UNCHANGED <<cp, watermark, memcp, start, pos, pc, todo, batch, reconnects>> /\ confirmed' = applied /\ Connected
        BY <2>7 DEF FlushSlot
      <3>2. applied <= pos /\ pos \in Claimed(c) BY <3>1 DEF Order, Claimed
      <3>3. Claimed(c)' \subseteq Claimed(c) \cup {applied}
        BY <3>1 DEF Claimed, Resume, Connected, CanReconnect
      <3>4. \A l \in Claimed(c) : l <= l BY ClaimedTypes
      <3> QED BY <2>7, <3>2, <3>3, <3>4, HeldBelow
    <2>8. ASSUME quiet, NEW d \in Configs, BackfillNewConfig(d) PROVE \A l \in Claimed(c)' : Shows(c, l)'
      <3>1. UNCHANGED <<confirmed, cp, memcp, start, pos, pc, todo, batch, reconnects>> BY <2>8 DEF BackfillNewConfig
      <3>2. watermark'[c] = watermark[c] BY WalGrows
      <3>3. Claimed(c)' = Claimed(c) BY <3>1, <3>2 DEF Claimed, Resume, Connected, CanReconnect
      <3>4. \A l \in Claimed(c) : l <= l BY ClaimedTypes
      <3> QED BY <2>8, <3>3, <3>4, HeldBelow
    <2>9. ASSUME quiet, Start PROVE \A l \in Claimed(c)' : Shows(c, l)'
      <3>1. /\ UNCHANGED <<confirmed, cp, watermark, reconnects>> /\ pc' = "drain"
            /\ memcp'[c] = Resume(c) /\ \A x \in StartCandidates : start' <= x
        BY <2>9 DEF Start
      <3>2. start' <= Resume(c) BY <3>1 DEF StartCandidates, Resume
      <3>3. Claimed(c)' \subseteq Claimed(c) \cup {start'}
        BY <3>1 DEF Claimed, Resume, Connected, CanReconnect
      <3>4. \A l \in Claimed(c) : l <= l BY ClaimedTypes
      <3>5. Resume(c) \in Claimed(c) BY DEF Claimed
      <3> QED BY <2>9, <3>2, <3>3, <3>4, <3>5, HeldBelow
    <2>10. ASSUME quiet, Connect PROVE \A l \in Claimed(c)' : Shows(c, l)'
      <3>1. /\ UNCHANGED <<confirmed, cp, watermark, memcp, reconnects, start>> /\ pc = "connect" /\ pc' = "recv"
            /\ pos' \in {start, confirmed}
        BY <2>10 DEF Connect, ResumeLsn
      <3>2. Claimed(c)' \subseteq Claimed(c)
        BY <3>1 DEF Claimed, Resume, Connected, CanReconnect
      <3>3. \A l \in Claimed(c) : l <= l BY ClaimedTypes
      <3> QED BY <2>10, <3>2, <3>3, HeldBelow
    <2>11. ASSUME quiet, RecvSchemaChanged PROVE \A l \in Claimed(c)' : Shows(c, l)'
      <3>1. /\ UNCHANGED <<confirmed, cp, watermark, memcp>> /\ pc' = "connect" /\ CanReconnect
            /\ \/ ReconnectCandidates = {} /\ start' = 0
               \/ start' \in ReconnectCandidates /\ \A x \in ReconnectCandidates : start' <= x
        BY <2>11 DEF RecvSchemaChanged, CanReconnect
      <3>2. \E m \in Claimed(c) : start' <= m
        <4>1. CASE cp[c] # NoLsn
          <5>1. cp[c] \in ReconnectCandidates /\ Resume(c) = cp[c] BY <4>1 DEF ReconnectCandidates, Resume
          <5>2. start' <= Resume(c) BY <3>1, <5>1
          <5> QED BY <5>2 DEF Claimed
        <4>2. CASE cp[c] = NoLsn /\ ReconnectCandidates = {}
          <5>1. start' = 0 /\ 0 <= confirmed BY <3>1, <4>2, LsnBounds DEF Typed, TypeOK, Lsn
          <5> QED BY <5>1 DEF Claimed
        <4>3. CASE cp[c] = NoLsn /\ ReconnectCandidates # {}
          <5>1. start' \in Claimed(c) BY <3>1, <4>3 DEF Claimed, ReconnectCandidates, Active
          <5> QED BY <5>1, ClaimedTypes
        <4> QED BY <4>1, <4>2, <4>3
      <3>3. Claimed(c)' \subseteq Claimed(c) \cup {start'}
        BY <3>1 DEF Claimed, Resume, Connected, CanReconnect
      <3>4. \A l \in Claimed(c) : l <= l BY ClaimedTypes
      <3> QED BY <2>11, <3>2, <3>3, <3>4, HeldBelow
    <2>12. ASSUME quiet, NEW d \in Configs, SaveCheckpoint(d) PROVE \A l \in Claimed(c)' : Shows(c, l)'
      <3>1. /\ UNCHANGED <<confirmed, watermark, reconnects, pos, batch>> /\ pc = "save" /\ pc' \in {"save", "ack"}
            /\ cp' = [cp EXCEPT ![d] = batch.ack] /\ memcp' \in {memcp, [memcp EXCEPT ![d] = batch.ack]}
        BY <2>12 DEF SaveCheckpoint
      <3>2. cp \in [Configs -> Lsn \cup {NoLsn}] /\ memcp \in [Configs -> Lsn \cup {NoLsn}] /\ batch.ack \in Lsn
        BY DEF Typed, TypeOK
      <3>3. \A x \in Configs : cp'[x] = cp[x] \/ cp'[x] = batch.ack BY <3>1, <3>2
      <3>4. memcp'[c] = memcp[c] \/ memcp'[c] = batch.ack BY <3>1, <3>2
      <3>5. batch.ack # NoLsn BY <3>2, LsnType DEF Lsn, NoLsn
      <3>6. batch.ack \in Claimed(c) BY <3>1 DEF Claimed
      <3>7. Claimed(c)' \subseteq Claimed(c)
        <4>1. Resume(c)' \in {Resume(c), batch.ack}
          BY <3>1, <3>3, <3>5 DEF Resume
        <4>2. cp'[c] = NoLsn => cp[c] = NoLsn BY <3>3, <3>5
        <4>3. CanReconnect' <=> CanReconnect BY <3>1 DEF CanReconnect
        <4>4. (CanReconnect' /\ cp'[c] = NoLsn) => \A x \in Configs : cp'[x] \in Claimed(c)
          BY <3>3, <3>6, <4>2, <4>3 DEF Claimed
        <4>5. {confirmed, Resume(c), memcp[c], pos, batch.ack} \subseteq Claimed(c)
          BY <3>1 DEF Claimed, Connected
        <4> QED BY <3>1, <3>4, <4>1, <4>4, <4>5 DEF Claimed, Connected
      <3>8. \A l \in Claimed(c) : l <= l BY ClaimedTypes
      <3> QED BY <2>12, <3>7, <3>8, HeldBelow
    <2>13. ASSUME quiet, Ack PROVE \A l \in Claimed(c)' : Shows(c, l)'
      <3>1. /\ UNCHANGED <<confirmed, cp, watermark, memcp, reconnects>> /\ pc = "ack"
            /\ pc' \in {"replay", "maintain", "recv"} /\ pos' = batch.ack
        BY <2>13 DEF Ack
      <3>2. Claimed(c)' \subseteq Claimed(c)
        BY <3>1 DEF Claimed, Resume, Connected, CanReconnect
      <3>3. \A l \in Claimed(c) : l <= l BY ClaimedTypes
      <3> QED BY <2>13, <3>2, <3>3, HeldBelow
    <2>14. ASSUME quiet, DrainDlq \/ ReplayDlq \/ ReplayAborts \/ Maintain
           PROVE  \A l \in Claimed(c)' : Shows(c, l)'
      <3>1. /\ UNCHANGED <<confirmed, cp, watermark, memcp, reconnects, pos, start>>
            /\ \/ pc = "drain" /\ pc' \in {"drain", "connect"}
               \/ pc \in {"replay", "maintain"} /\ pc' \in {"maintain", "recv"}
        BY <2>14 DEF DrainDlq, ReplayDlq, ReplayAborts, Maintain
      <3>2. Claimed(c)' \subseteq Claimed(c)
        BY <3>1 DEF Claimed, Resume, Connected, CanReconnect
      <3>3. \A l \in Claimed(c) : l <= l BY ClaimedTypes
      <3> QED BY <2>14, <3>2, <3>3, HeldBelow
    <2>15. ~ RecvSubBatch BY DEF RecvSubBatch, Policy
    <2> HIDE DEF quiet
    <2>16. CASE ~ \E d \in Configs : SendOk(d) \/ SendFails(d) \/ DeadLetterFails(d)
      <3>1. quiet BY <2>16 DEF quiet
      <3> QED
        BY <2>2, <2>4, <2>5, <2>6, <2>7, <2>8, <2>9, <2>10, <2>11, <2>12, <2>13, <2>14, <2>15, <2>16, <3>1
        DEF Next, Process, Environment
    <2> QED BY <2>1, <2>2, <2>16
  <1> QED BY <1>1, <1>2

----------------------------------------------------------------------------
(* The orders between positions.                                            *)

\* Entries and discarded changes stay changes of the WAL, and entries upserts.
LEMMA WithinStep ==
  ASSUME Policy, IInv, Within, [Next]_vars PROVE Within'
  <1> USE DEF pgVars, sinkVars
  <1>1. Changes \subseteq Changes' /\ \A n \in Changes : wal'[n] = wal[n]
    BY WalGrows DEF IInv, Changes
  <1>2. /\ dropped \in [Configs -> SUBSET (1 .. MaxChanges)] /\ dlq \subseteq EntryType
    BY DEF IInv, Typed, TypeOK, EntryType
  <1>3. ASSUME \A c \in Configs : \A n \in dropped'[c] : n \in Changes, \A e \in dlq' : e.change \in Changes /\ wal[e.change].op = "upsert"
        PROVE  Within'
    BY <1>1, <1>3 DEF Within
  <1>4. CASE UNCHANGED <<dropped, dlq>> BY <1>3, <1>4 DEF Within
  <1>5. ASSUME Expire PROVE Within'
    <2>1. PICK old \in SUBSET {e \in dlq : e.permanent} :
            /\ dlq' = dlq \ old
            /\ dropped' = [c \in Configs |-> dropped[c] \cup {e.change : e \in {x \in old : x.cfg = c}}]
      BY <1>5 DEF Expire
    <2> QED BY <1>3, <2>1 DEF Within
  <1>6. ASSUME NEW F \in SUBSET dlq, NEW ok \in SUBSET F, NEW sent, ReplayEffect(F, ok, sent), UNCHANGED dropped
        PROVE  Within'
    <2>1. \A e \in F \ ok : AfterFailure(e).change = e.change BY <1>2, AfterFailureType
    <2>2. dlq' = (dlq \ F) \cup {AfterFailure(e) : e \in F \ ok} BY <1>6 DEF ReplayEffect
    <2> QED BY <1>3, <1>6, <2>1, <2>2 DEF Within
  <1>7. CASE RecvTransactionTooLarge
    <2>1. PICK e : dropped' = [c \in Configs |-> dropped[c] \cup Routed(c, pos + 1 .. e)] /\ UNCHANGED dlq
      BY <1>7 DEF RecvTransactionTooLarge
    <2> QED BY <1>3, <2>1 DEF Within, Routed
  <1>8. ASSUME NEW c \in Configs, SendFails(c) \/ DeadLetterFails(c) PROVE Within'
    <2>1. UNCHANGED dropped /\ \E S \in SUBSET Mine(c) : dlq' = dlq \cup Entries(c, S)
      BY <1>8 DEF SendFails, DeadLetterFails
    <2>2. \A n \in Mine(c) : n \in Changes /\ wal[n].op = "upsert"
      BY <1>8 DEF SendFails, DeadLetterFails, CanFail, Mine, Routed, Policy
    <2> QED BY <1>3, <2>1, <2>2 DEF Within, Entries
  <1>9. CASE Start \/ Maintain BY <1>5, <1>9 DEF Start, Maintain
  <1>10. CASE DrainDlq \/ ReplayDlq \/ ReplayAborts
    BY <1>6, <1>10 DEF DrainDlq, ReplayDlq, ReplayAborts, ReplayPass, Retryable
  <1>11. ASSUME NEW c \in Configs, SendOk(c) \/ SaveCheckpoint(c) \/ BackfillNewConfig(c) PROVE Within'
    BY <1>4, <1>11 DEF SendOk, SaveCheckpoint, BackfillNewConfig
  <1>12. CASE Commit \/ FlushSlot \/ Connect \/ RecvSubBatch \/ RecvBatch \/ RecvSchemaChanged \/ Ack \/ Crash \/ UNCHANGED vars
    BY <1>4, <1>12 DEF Commit, FlushSlot, Connect, RecvSubBatch, RecvBatch, RecvSchemaChanged, Ack, Crash, vars
  <1> QED BY <1>7, <1>8, <1>9, <1>10, <1>11, <1>12 DEF Next, Process, Environment


\* The positions of a step and of what it leads to are LSNs.
LEMMA AtTypes ==
  ASSUME IInv, [Next]_vars
  PROVE  /\ At \in Int /\ At' \in Int /\ batch.ack \in Nat /\ batch'.ack \in Nat /\ confirmed \in Nat /\ confirmed' \in Nat
         /\ pos \in Nat /\ pos' \in Nat /\ applied \in Nat /\ applied' \in Nat /\ start \in Nat /\ start' \in Nat
         /\ \A c \in Configs : /\ cp[c] \in Int /\ cp[c] >= NoLsn /\ memcp[c] \in Int /\ memcp[c] >= NoLsn
                               /\ watermark[c] \in Int /\ Resume(c) \in Int /\ cp'[c] \in Int /\ memcp'[c] \in Int
  <1>1. Typed /\ Typed' BY TypeStep DEF IInv
  <1>2. Lsn \subseteq Nat /\ Lsn \cup {NoLsn} \subseteq Int /\ \A x \in Lsn \cup {NoLsn} : x >= NoLsn
    BY LsnType DEF Lsn, NoLsn
  <1>3. /\ start \in Lsn /\ pos \in Lsn /\ batch.ack \in Lsn /\ confirmed \in Lsn /\ applied \in Lsn
        /\ start' \in Lsn /\ pos' \in Lsn /\ batch'.ack \in Lsn /\ confirmed' \in Lsn /\ applied' \in Lsn
    BY <1>1 DEF Typed, TypeOK
  <1>4. \A c \in Configs : /\ cp[c] \in Lsn \cup {NoLsn} /\ memcp[c] \in Lsn \cup {NoLsn} /\ watermark[c] \in Lsn \cup {NoLsn}
                           /\ cp'[c] \in Lsn \cup {NoLsn} /\ memcp'[c] \in Lsn \cup {NoLsn}
    BY <1>1 DEF Typed, TypeOK
  <1>5. \A c \in Configs : Resume(c) \in Int BY <1>2, <1>4 DEF Resume
  <1>6. At \in Int /\ At' \in Int BY <1>2, <1>3 DEF At
  <1> QED BY <1>2, <1>3, <1>4, <1>5, <1>6

\* The stream goes forward.
LEMMA OrderForward ==
  ASSUME IInv, [Next]_vars, Order, UNCHANGED <<cp, watermark, memcp, part>>, batch'.kind # "sub",
         pc # "down", At <= At',
         Connected' => confirmed' <= pos' /\ applied' <= pos',
         pc' = "process" => \A c \in todo' : memcp[c] < batch'.hi,
         pc' = "save" /\ batch'.kind = "toolarge" => \A c \in Active \ todo' : cp[c] = batch'.ack
  PROVE  Order'
  <1>1. Active' = Active /\ \A c \in Configs : Resume(c)' = Resume(c) BY DEF Active, Resume
  <1>2. ASSUME NEW c \in Active, Resume(c) <= At PROVE Resume(c) <= At'
    <2>1. PICK x, y, z : x = Resume(c) /\ y = At /\ z = At' OBVIOUS
    <2>2. x \in Int /\ y \in Int /\ z \in Int BY <2>1, AtTypes DEF Active
    <2> QED BY <1>2, <2>1, <2>2
  <1>3. \A c \in Active : Resume(c) <= memcp[c] \/ Resume(c) <= At' BY <1>2 DEF Order
  <1>4. \A c \in Active : c \in Configs BY DEF Active
  <1>5. pc' # "down" => \A c \in Active' : Resume(c)' <= memcp'[c] \/ Resume(c)' <= At'
    BY <1>1, <1>3, <1>4
  <1> QED BY <1>1, <1>5 DEF Order

\* A process that is not running has nothing to keep in order.
LEMMA OrderDown ==
  ASSUME Order, UNCHANGED cp, part' = 0, batch'.kind # "sub", pc' = "down" PROVE Order'
  BY DEF Order, Connected

\* Every action keeps the positions in order.
LEMMA OrderStep ==
  ASSUME Policy, IInv, Anchored, Caught, [Next]_vars PROVE Order'
  <1> USE DEF pgVars, sinkVars, streamVars, budgets
  <1>0. Typed /\ Order /\ part = 0 /\ batch.kind # "sub" BY DEF IInv, Caught, Order
  <1>1. NoBatch.kind # "sub" BY DEF NoBatch
  <1>2. CASE Commit \/ UNCHANGED vars
    <2>1. UNCHANGED <<confirmed, cp, watermark, memcp, start, pos, part, applied, pc, todo, batch>>
      BY <1>2 DEF Commit, vars
    <2>2. Active' = Active /\ At' = At /\ (Connected' <=> Connected) /\ \A c : Resume(c)' = Resume(c)
      BY <2>1 DEF Active, At, Connected, Resume
    <2> QED BY <1>0, <2>1, <2>2 DEF Order
  <1>3. CASE FlushSlot
    <2>1. /\ UNCHANGED <<cp, watermark, memcp, start, pos, part, applied, pc, todo, batch>>
          /\ confirmed' = applied /\ Connected
      BY <1>3 DEF FlushSlot
    <2>2. Active' = Active /\ At' = At /\ (Connected' <=> Connected) /\ \A c : Resume(c)' = Resume(c)
      BY <2>1 DEF Active, At, Connected, Resume
    <2> QED BY <1>0, <2>1, <2>2 DEF Order
  <1>4. ASSUME NEW c \in Configs, BackfillNewConfig(c) PROVE Order'
    BY <1>0, <1>4, OrderDown DEF BackfillNewConfig
  <1>5. CASE Start
    <2>1. /\ UNCHANGED <<cp, watermark, part, batch>> /\ pc' = "drain"
          /\ memcp' = [c \in Configs |-> IF c \in Active THEN Resume(c) ELSE NoLsn]
      BY <1>5 DEF Start
    <2>2. Active' = Active /\ ~Connected' /\ \A c : Resume(c)' = Resume(c)
      BY <2>1 DEF Active, Connected, Resume
    <2>3. \A c \in Active : c \in Configs /\ Resume(c) \in Int BY AtTypes DEF Active
    <2>4. \A c \in Active : Resume(c) <= memcp'[c] BY <2>1, <2>3
    <2> QED BY <1>0, <2>1, <2>2, <2>4 DEF Order
  <1>6. CASE Connect
    <2>1. /\ UNCHANGED <<confirmed, cp, watermark, memcp, batch, start>> /\ pc = "connect" /\ pc' = "recv"
          /\ pos' = ResumeLsn /\ part' = 0 /\ applied' = 0
      BY <1>6 DEF Connect
    <2>2. start \in Nat /\ confirmed \in Nat BY AtTypes
    <2>3. pos' >= start /\ pos' >= confirmed /\ pos' >= 0 BY <2>1, <2>2 DEF ResumeLsn
    <2>4. At = start /\ At' = pos' BY <2>1 DEF At
    <2> QED BY <1>0, <2>1, <2>2, <2>3, <2>4, OrderForward
  <1>7. ~ RecvSubBatch BY DEF RecvSubBatch, Policy
  <1>8. CASE RecvBatch
    <2>1. PICK e \in commits : /\ IsNextCommit(e)
                               /\ BeginProcess([kind |-> "batch", lo |-> pos + part + 1, hi |-> e, ack |-> e])
      BY <1>8 DEF RecvBatch
    <2> DEFINE b == [kind |-> "batch", lo |-> pos + part + 1, hi |-> e, ack |-> e]
    <2>2. b.kind = "batch" /\ b.hi = e /\ b.ack = e /\ BeginProcess(b) BY <2>1
    <2> HIDE DEF b
    <2>3. /\ pc' \in {"process", "save", "ack"} /\ batch' = b /\ part' = part
          /\ (pc' = "process" => todo' = ToProcess(b))
      BY <2>2 DEF BeginProcess, EndProcess, AfterSave
    <2>4. UNCHANGED <<confirmed, cp, watermark, memcp, pos, applied>> /\ pc = "recv" BY <1>8 DEF RecvBatch
    <2>5. e \in Nat /\ pos \in Nat /\ e > pos BY <1>0, <2>1, LsnBounds, AtTypes DEF IsNextCommit, Typed
    <2>6. At = pos /\ At' \in {pos, e} BY <2>2, <2>3, <2>4 DEF At
    <2>7. At <= At' BY <2>5, <2>6
    <2>8. \A c \in ToProcess(b) : memcp[c] < e
      <3> SUFFICES ASSUME NEW c \in ToProcess(b) PROVE memcp[c] < e OBVIOUS
      <3>1. c \in Configs /\ ~ ShouldSkip(c, e) BY <2>2 DEF ToProcess, Active
      <3>2. memcp[c] \in Int BY <3>1, AtTypes
      <3> QED BY <2>5, <3>1, <3>2 DEF ShouldSkip, NoLsn
    <2>9. confirmed' <= pos' /\ applied' <= pos' BY <1>0, <2>4 DEF Order, Connected
    <2> QED BY <1>0, <2>2, <2>3, <2>4, <2>7, <2>8, <2>9, OrderForward
  <1>9. CASE RecvTransactionTooLarge
    <2>1. PICK e \in commits : /\ IsNextCommit(e)
                               /\ EndProcess([kind |-> "toolarge", lo |-> pos + 1, hi |-> e, ack |-> e])
      BY <1>9 DEF RecvTransactionTooLarge
    <2> DEFINE b == [kind |-> "toolarge", lo |-> pos + 1, hi |-> e, ack |-> e]
    <2>2. b.kind = "toolarge" /\ b.ack = e /\ EndProcess(b) BY <2>1
    <2> HIDE DEF b
    <2>3. pc' \in {"save", "ack"} /\ batch' = b /\ part' = part /\ todo' = ToSave(b)
      BY <2>2 DEF EndProcess, AfterSave
    <2>4. UNCHANGED <<confirmed, cp, watermark, memcp, pos, applied>> /\ pc = "recv" BY <1>9 DEF RecvTransactionTooLarge
    <2>5. e \in Nat /\ pos \in Nat /\ e > pos BY <1>0, <2>1, LsnBounds, AtTypes DEF IsNextCommit, Typed
    <2>6. At = pos /\ At' = e BY <2>2, <2>3, <2>4 DEF At
    <2>7. At <= At' BY <2>5, <2>6
    <2>8. Active \ ToSave(b) = {} BY <2>2 DEF ToSave
    <2>9. confirmed' <= pos' /\ applied' <= pos' BY <1>0, <2>4 DEF Order, Connected
    <2> QED BY <1>0, <2>2, <2>3, <2>4, <2>7, <2>8, <2>9, OrderForward
  <1>10. ASSUME NEW d \in Configs, SendOk(d) \/ SendFails(d) PROVE Order'
    <2>1. pc = "process" /\ NextConfig(d) /\ UNCHANGED <<confirmed, cp, watermark, memcp, pos, applied>>
      BY <1>10 DEF SendOk, SendFails
    <2>2. batch.kind = "batch" /\ batch.ack = batch.hi /\ batch.hi \in Nat /\ pos \in Nat /\ batch.hi > pos
      BY <1>0, <2>1, InHandFacts
    <2>3. /\ batch' = batch /\ part' = part /\ pc' \in {"process", "save", "ack"}
          /\ (pc' = "process" => todo' = todo \ {d})
      BY <2>1, <2>2 DEF NextConfig, EndProcess, AfterSave
    <2>4. At = pos /\ At' \in {pos, batch.ack} BY <2>1, <2>3 DEF At
    <2>5. At <= At' BY <2>2, <2>4
    <2>6. pc' = "process" => \A c \in todo' : memcp[c] < batch'.hi BY <1>0, <2>1, <2>3 DEF Order
    <2>7. confirmed' <= pos' /\ applied' <= pos' BY <1>0, <2>1 DEF Order, Connected
    <2> QED BY <1>0, <2>1, <2>2, <2>3, <2>5, <2>6, <2>7, OrderForward
  <1>11. CASE Crash \/ \E d \in Configs : DeadLetterFails(d)
    <2>1. Stop /\ UNCHANGED cp BY <1>11 DEF Crash, DeadLetterFails
    <2> QED BY <1>0, <1>1, <2>1, OrderDown DEF Stop
  <1>12. ASSUME NEW d \in Configs, SaveCheckpoint(d) PROVE Order'
    <2>1. /\ UNCHANGED <<confirmed, watermark, pos, part, applied, batch>> /\ pc = "save" /\ pc' \in {"save", "ack"}
          /\ cp' = [cp EXCEPT ![d] = batch.ack] /\ memcp' \in {memcp, [memcp EXCEPT ![d] = batch.ack]}
          /\ todo' = todo \ {d}
      BY <1>12 DEF SaveCheckpoint
    <2>2. cp \in [Configs -> Lsn \cup {NoLsn}] /\ memcp \in [Configs -> Lsn \cup {NoLsn}] BY <1>0 DEF Typed, TypeOK
    <2>3. batch.ack \in Nat /\ batch.ack # NoLsn BY AtTypes DEF NoLsn
    <2>4. cp'[d] = batch.ack /\ \A x \in Configs : x # d => cp'[x] = cp[x] /\ memcp'[x] = memcp[x] BY <2>1, <2>2
    <2>5. Active' = Active /\ At = batch.ack /\ At' = batch.ack /\ Connected /\ Connected'
      BY <2>1 DEF Active, At, Connected
    <2>6. ASSUME NEW c \in Active PROVE Resume(c)' <= memcp'[c] \/ Resume(c)' <= batch.ack
      <3>1. CASE c = d
        <4>1. Resume(c)' = batch.ack BY <2>3, <2>4, <3>1 DEF Resume
        <4> QED BY <2>3, <4>1
      <3>2. CASE c # d
        <4>1. c \in Configs BY DEF Active
        <4>2. Resume(c)' = Resume(c) /\ memcp'[c] = memcp[c] BY <2>1, <2>4, <3>2, <4>1 DEF Resume
        <4> QED BY <1>0, <2>1, <2>5, <4>2 DEF Order
      <3> QED BY <3>1, <3>2
    <2>7. batch.kind = "toolarge" => \A c \in Active \ (todo \ {d}) : cp'[c] = batch.ack
      BY <1>0, <2>1, <2>4 DEF Order, Active
    <2>8. \A c \in Configs : cp[c] # NoLsn => cp'[c] # NoLsn BY <2>3, <2>4
    <2> QED BY <1>0, <2>1, <2>5, <2>6, <2>7, <2>8 DEF Order
  <1>13. CASE Ack
    <2>1. /\ UNCHANGED <<confirmed, cp, watermark, memcp>> /\ pc = "ack" /\ pc' \in {"replay", "maintain", "recv"}
          /\ pos' = batch.ack /\ applied' = batch.ack /\ part' = 0 /\ batch'.kind \in {"none", batch.kind}
      BY <1>13 DEF Ack, NoBatch
    <2>2. batch.ack > pos BY <1>0, <2>1 DEF Anchored, InHand, IsNextCommit
    <2>3. batch.ack \in Nat /\ pos \in Nat /\ confirmed \in Nat BY AtTypes
    <2>4. confirmed <= pos BY <1>0, <2>1 DEF Order, Connected
    <2>5. At = batch.ack /\ At' = batch.ack BY <2>1 DEF At
    <2>6. At <= At' /\ confirmed' <= pos' /\ applied' <= pos' BY <2>1, <2>2, <2>3, <2>4, <2>5
    <2> QED BY <1>0, <2>1, <2>6, OrderForward
  <1>14. CASE DrainDlq \/ ReplayDlq \/ ReplayAborts \/ Maintain
    <2>1. /\ UNCHANGED <<confirmed, cp, watermark, memcp, pos, start, part, applied>> /\ batch' \in {batch, NoBatch}
          /\ \/ pc = "drain" /\ pc' \in {"drain", "connect"}
             \/ pc \in {"replay", "maintain"} /\ pc' \in {"maintain", "recv"}
      BY <1>14 DEF DrainDlq, ReplayDlq, ReplayAborts, Maintain
    <2>2. At' = At /\ (Connected' => Connected) BY <2>1 DEF At, Connected
    <2>3. At <= At' BY <2>2, AtTypes
    <2>4. Connected' => confirmed' <= pos' /\ applied' <= pos' BY <1>0, <2>1, <2>2 DEF Order
    <2> QED BY <1>0, <1>1, <2>1, <2>3, <2>4, OrderForward
  <1>15. CASE RecvSchemaChanged
    <2>1. /\ UNCHANGED <<confirmed, cp, watermark, memcp, batch>> /\ pc = "recv" /\ pc' = "connect" /\ CanReconnect
          /\ part' = 0
          /\ \/ ReconnectCandidates = {} /\ start' = 0
             \/ start' \in ReconnectCandidates
      BY <1>15 DEF RecvSchemaChanged, CanReconnect
    <2>2. Active' = Active /\ At = pos /\ At' = start' /\ ~Connected' /\ \A c : Resume(c)' = Resume(c)
      BY <2>1 DEF Active, At, Connected, Resume
    <2>3. ASSUME NEW c \in Active, ~ (Resume(c) <= memcp[c]) PROVE Resume(c) <= start'
      <3>1. c \in Configs BY DEF Active
      <3>2. Leveled /\ (cp[c] = NoLsn => Unsaved(c)) BY <2>1 DEF Caught, Reconnecting
      <3>3. cp[c] # NoLsn
        <4> SUFFICES ASSUME cp[c] = NoLsn PROVE FALSE OBVIOUS
        <4>1. Resume(c) = watermark[c] /\ memcp[c] = watermark[c] BY <2>1, <3>2 DEF Resume, Unsaved
        <4>2. watermark[c] \in Int BY <3>1, AtTypes
        <4> QED BY <2>3, <4>1, <4>2
      <3>4. Resume(c) = cp[c] /\ cp[c] \in ReconnectCandidates BY <3>3 DEF Resume, ReconnectCandidates
      <3>5. memcp[c] < cp[c] BY <2>3, <3>1, <3>4, AtTypes
      <3>6. \A d \in Active : cp[d] # NoLsn => cp[c] <= cp[d] BY <2>1, <3>2, <3>5 DEF Leveled
      <3>7. start' \in ReconnectCandidates BY <2>1, <3>4
      <3> QED BY <3>4, <3>6, <3>7 DEF ReconnectCandidates
    <2> QED BY <1>0, <2>1, <2>2, <2>3 DEF Order
  <1> QED
    BY <1>2, <1>3, <1>4, <1>5, <1>6, <1>7, <1>8, <1>9, <1>10, <1>11, <1>12, <1>13, <1>14, <1>15
    DEF Next, Process, Environment

\* A step of the stream moves no checkpoint.
LEMMA LeveledKept ==
  ASSUME Leveled, UNCHANGED <<cp, memcp, watermark>>, pc \notin {"down", "save"} PROVE Leveled'
  <1>1. Active' = Active BY DEF Active
  <1> QED BY <1>1 DEF Leveled

\* Checkpoints are saved to the same position one after the other.
LEMMA LeveledSave ==
  ASSUME IInv, Anchored, Order, Leveled, [Next]_vars, NEW x \in Configs, SaveCheckpoint(x) PROVE Leveled'
  <1> USE DEF pgVars, streamVars, budgets
  <1> PICK a : a = batch.ack OBVIOUS
  <1>1. /\ UNCHANGED <<watermark, batch>> /\ pc = "save" /\ x \in todo
        /\ cp' = [cp EXCEPT ![x] = a] /\ todo' = todo \ {x} /\ pc' = (IF todo = {x} THEN "ack" ELSE "save")
        /\ memcp' = IF batch.kind = "toolarge" THEN memcp ELSE [memcp EXCEPT ![x] = a]
    BY DEF SaveCheckpoint
  <1>2. cp \in [Configs -> Lsn \cup {NoLsn}] /\ memcp \in [Configs -> Lsn \cup {NoLsn}]
    BY DEF IInv, Typed, TypeOK
  <1>3. a \in Nat /\ a # NoLsn BY AtTypes DEF NoLsn
  <1>4. /\ cp'[x] = a /\ memcp'[x] = (IF batch.kind = "toolarge" THEN memcp[x] ELSE a)
        /\ \A y \in Configs : y # x => cp'[y] = cp[y] /\ memcp'[y] = memcp[y]
    BY <1>1, <1>2
  <1>5. Active' = Active BY <1>1 DEF Active
  <1>6. \A y \in Configs : cp[y] \in Int /\ cp[y] >= NoLsn /\ memcp[y] \in Int /\ memcp[y] >= NoLsn
    BY AtTypes
  \* A checkpoint past the copy in memory is not past this transaction.
  <1>7. ASSUME NEW c \in Active, memcp[c] < cp[c] PROVE cp[c] <= a
    <2>1. c \in Configs BY DEF Active
    <2>2. At = a /\ (Resume(c) <= memcp[c] \/ Resume(c) <= At) BY <1>1 DEF Order, At
    <2>3. cp[c] # NoLsn BY <1>6, <1>7, <2>1 DEF NoLsn
    <2>4. Resume(c) = cp[c] BY <2>3 DEF Resume
    <2> QED BY <1>6, <1>7, <2>1, <2>2, <2>4
  <1> SUFFICES ASSUME NEW c \in Active, NEW d \in Active, memcp'[c] < cp'[c]
               PROVE  cp'[d] = NoLsn \/ cp'[c] <= cp'[d] \/ (pc' = "save" /\ d \in todo')
    BY <1>5 DEF Leveled
  <1>8. c \in Configs /\ d \in Configs BY DEF Active
  <1>9. CASE c = x
    <2>1. batch.kind = "toolarge" BY <1>3, <1>4, <1>9
    <2>2. d \notin todo => cp[d] = a BY <1>1, <2>1 DEF Order
    <2>3. CASE d = x BY <1>3, <1>4, <1>9, <2>3
    <2>4. CASE d # x /\ d \in todo BY <1>1, <2>4
    <2>5. CASE d # x /\ d \notin todo BY <1>3, <1>4, <1>8, <1>9, <2>2, <2>5
    <2> QED BY <2>3, <2>4, <2>5
  <1>10. CASE c # x
    <2>1. memcp[c] < cp[c] /\ cp'[c] = cp[c] BY <1>4, <1>8, <1>10
    <2>2. CASE d = x BY <1>4, <1>7, <2>1, <2>2
    <2>3. CASE d # x
      <3>1. cp'[d] = cp[d] BY <1>4, <1>8, <2>3
      <3>2. cp[d] = NoLsn \/ cp[c] <= cp[d] \/ d \in todo BY <1>1, <2>1 DEF Leveled
      <3>3. d \in todo => pc' = "save" /\ d \in todo' BY <1>1, <2>3
      <3> QED BY <2>1, <3>1, <3>2, <3>3
    <2> QED BY <2>2, <2>3
  <1> QED BY <1>9, <1>10

\* Checkpoints stay level while the process may reconnect.
LEMMA LeveledStep ==
  ASSUME Policy, IInv, Anchored, Order, Leveled, [Next]_vars PROVE Leveled'
  <1> USE DEF pgVars, streamVars, budgets
  <1>1. CASE Commit \/ FlushSlot \/ UNCHANGED vars
    <2>1. UNCHANGED <<cp, memcp, watermark, pc, todo>> BY <1>1 DEF Commit, FlushSlot, vars
    <2> QED BY <2>1 DEF Leveled, Active
  <1>2. CASE Crash \/ \E d \in Configs : DeadLetterFails(d) \/ BackfillNewConfig(d)
    BY <1>2 DEF Crash, DeadLetterFails, Stop, BackfillNewConfig, Leveled
  <1>3. CASE Start
    <2>1. UNCHANGED <<cp, watermark>> /\ memcp' = [c \in Configs |-> IF c \in Active THEN Resume(c) ELSE NoLsn]
      BY <1>3 DEF Start
    <2>2. Active' = Active BY <2>1 DEF Active
    <2>3. ASSUME NEW c \in Active PROVE ~ (memcp'[c] < cp'[c])
      <3>1. memcp'[c] = Resume(c) /\ c \in Configs BY <2>1 DEF Active
      <3>2. cp[c] <= Resume(c) /\ cp[c] \in Int /\ Resume(c) \in Int BY <3>1, CoverFacts DEF IInv
      <3> QED BY <2>1, <3>1, <3>2
    <2> QED BY <2>2, <2>3 DEF Leveled
  <1>4. CASE \E d \in Configs : SaveCheckpoint(d) BY <1>4, LeveledSave
  <1>5. CASE \/ Connect \/ RecvBatch \/ RecvTransactionTooLarge \/ RecvSchemaChanged \/ Ack \/ DrainDlq \/ ReplayDlq
             \/ ReplayAborts \/ Maintain \/ \E d \in Configs : SendOk(d) \/ SendFails(d)
    BY <1>5, LeveledKept DEF Connect, RecvBatch, RecvTransactionTooLarge, RecvSchemaChanged, Ack, DrainDlq, ReplayDlq,
       ReplayAborts, Maintain, SendOk, SendFails
  <1>6. ~ RecvSubBatch BY DEF RecvSubBatch, Policy
  <1> QED BY <1>1, <1>2, <1>3, <1>4, <1>5, <1>6 DEF Next, Process, Environment

\* The stream goes on for a config without a checkpoint: it is sent nothing past
\* its watermark but what is about to be saved.
LEMMA UnsavedForward ==
  ASSUME NEW c \in Configs, Unsaved(c), UNCHANGED <<cp, watermark, memcp, commits>>, confirmed' <= watermark[c],
         pc # "down", Connected' => pos' <= watermark[c], pc' # "down" => At' <= watermark[c] \/ (pc' = "save" /\ c \in todo')
  PROVE  Unsaved(c)'
  BY DEF Unsaved

\* Process_events left: what is past the watermark is saved for the config.
LEMMA UnsavedEnds ==
  ASSUME IInv, Anchored, Order, [Next]_vars, NEW c \in Active, cp[c] = NoLsn, Unsaved(c),
         UNCHANGED <<cp, watermark, memcp, commits, confirmed, pos>>, Connected,
         NEW b, b.kind # "sub", b.ack \in Nat, EndProcess(b)
  PROVE  Unsaved(c)'
  <1>1. c \in Configs BY DEF Active
  <1>2. pc' = AfterSave(b) /\ batch' = b /\ todo' = ToSave(b) BY DEF EndProcess
  <1>3. pc' \in {"save", "ack"} /\ At' = b.ack BY <1>2 DEF AfterSave, At
  <1>4. watermark[c] \in Int BY <1>1, AtTypes
  <1>5. pc # "down" /\ memcp[c] = watermark[c] /\ confirmed <= watermark[c] /\ pos <= watermark[c]
    BY DEF Unsaved, Connected
  <1>6. CASE b.ack <= watermark[c] BY <1>1, <1>3, <1>5, <1>6, UnsavedForward
  <1>7. CASE ~ (b.ack <= watermark[c])
    <2>1. c \in ToSave(b) BY <1>5, <1>7 DEF ToSave, ShouldSkip
    <2>2. pc' = "save" /\ c \in todo' BY <1>2, <2>1 DEF AfterSave
    <2> QED BY <1>1, <1>5, <2>2, UnsavedForward
  <1> QED BY <1>6, <1>7

\* A config without a checkpoint was sent nothing past its watermark.
LEMMA UnsavedStep ==
  ASSUME Policy, IInv, Anchored, Caught, [Next]_vars, CanReconnect', NEW c \in Active', cp'[c] = NoLsn
  PROVE  Unsaved(c)'
  <1> USE DEF pgVars, sinkVars, streamVars, budgets
  <1>0. Typed /\ Order /\ c \in Configs /\ EveryPositionSafe BY DEF IInv, Caught, Active
  <1>1. cp[c] = NoLsn
    <2>1. CASE UNCHANGED cp BY <2>1
    <2>2. ASSUME NEW d \in Configs, SaveCheckpoint(d) PROVE cp[c] = NoLsn
      <3>1. cp \in [Configs -> Lsn \cup {NoLsn}] BY <1>0 DEF Typed, TypeOK
      <3>2. batch.ack # NoLsn BY AtTypes DEF NoLsn
      <3> QED BY <1>0, <2>2, <3>1, <3>2 DEF SaveCheckpoint
    <2>3. UNCHANGED cp \/ \E d \in Configs : SaveCheckpoint(d)
      BY DEF Next, Process, Environment, vars, Commit, FlushSlot, Connect, RecvSubBatch, RecvBatch, RecvSchemaChanged,
         Ack, Crash, Start, RecvTransactionTooLarge, DrainDlq, ReplayDlq, ReplayAborts, Maintain,
         SendOk, SendFails, DeadLetterFails, BackfillNewConfig
    <2> QED BY <2>1, <2>2, <2>3
  <1>2. CanReconnect
    <2>1. reconnects \in Nat /\ MaxReconnects \in Nat BY <1>0, ConstantsAssumption DEF Typed, TypeOK
    <2>2. reconnects' = reconnects \/ reconnects' = reconnects + 1
      BY DEF Next, Process, Environment, vars, Commit, FlushSlot, Connect, RecvSubBatch, RecvBatch, RecvSchemaChanged,
         Ack, Crash, Start, RecvTransactionTooLarge, DrainDlq, ReplayDlq, ReplayAborts, Maintain,
         SendOk, SendFails, DeadLetterFails, BackfillNewConfig, SaveCheckpoint
    <2> QED BY <2>1, <2>2 DEF CanReconnect
  <1>3. c \in Active => Unsaved(c) BY <1>1, <1>2 DEF Caught, Reconnecting
  <1>4. watermark[c] \in Int /\ \A d \in Configs : cp[d] \in Int BY <1>0, AtTypes
  <1>5. CASE Commit
    <2>1. /\ UNCHANGED <<confirmed, cp, watermark, memcp, start, pos, pc, todo, batch>>
          /\ \E k \in 1 .. MaxTxnLen : commits' = commits \cup {Len(wal) + k}
      BY <1>5 DEF Commit
    <2>2. PICK k \in 1 .. MaxTxnLen : commits' = commits \cup {Len(wal) + k} BY <2>1
    <2>3. c \in Active /\ Unsaved(c) BY <1>3, <2>1 DEF Active
    <2>4. k \in Nat /\ k > 0 /\ Len(wal) \in Nat
      <3>1. MaxTxnLen \in Nat /\ Len(wal) \in Nat BY <1>0, ConstantsAssumption, PositionTypes
      <3> QED BY <3>1
    <2>5. \A d \in Configs : cp[d] <= Len(wal) + k
      <3>1. \A d \in Configs : cp[d] <= Len(wal) BY <1>0 DEF EveryPositionSafe, Safe
      <3> QED BY <1>4, <2>4, <3>1
    <2>6. At' = At /\ (Connected' <=> Connected) BY <2>1 DEF At, Connected
    <2> QED BY <2>1, <2>2, <2>3, <2>5, <2>6 DEF Unsaved
  <1>6. CASE UNCHANGED vars
    <2>1. UNCHANGED <<confirmed, cp, watermark, memcp, start, pos, pc, todo, batch, commits>> BY <1>6 DEF vars
    <2>2. c \in Active /\ Unsaved(c) BY <1>3, <2>1 DEF Active
    <2>3. At' = At /\ (Connected' <=> Connected) BY <2>1 DEF At, Connected
    <2> QED BY <2>1, <2>2, <2>3 DEF Unsaved
  <1>7. CASE FlushSlot
    <2>1. /\ UNCHANGED <<cp, watermark, memcp, start, pos, pc, todo, batch, commits>>
          /\ confirmed' = applied /\ Connected
      BY <1>7 DEF FlushSlot
    <2>2. c \in Active /\ Unsaved(c) BY <1>3, <2>1 DEF Active
    <2>3. At' = At /\ (Connected' <=> Connected) /\ pc # "down" BY <2>1 DEF At, Connected
    <2>4. applied <= pos /\ pos <= watermark[c] BY <1>0, <2>1, <2>2 DEF Order, Unsaved
    <2>5. applied <= watermark[c] BY <1>4, <2>4, AtTypes
    <2> QED BY <1>0, <2>1, <2>2, <2>3, <2>5 DEF Unsaved
  <1>8. ASSUME NEW d \in Configs, BackfillNewConfig(d) PROVE Unsaved(c)'
    <2>1. PICK w \in commits \cup {0} : /\ confirmed <= w /\ \A x \in Configs : cp[x] <= w
                                        /\ watermark' = [watermark EXCEPT ![d] = w]
      BY <1>8 DEF BackfillNewConfig
    <2>2. /\ UNCHANGED <<cp, confirmed, commits, pc>> /\ pc = "down" BY <1>8 DEF BackfillNewConfig
    <2>3. ~Connected' BY <2>2 DEF Connected
    <2>4. watermark \in [Configs -> Lsn \cup {NoLsn}] BY <1>0 DEF Typed, TypeOK
    <2>5. CASE c = d
      <3>1. watermark'[c] = w BY <1>0, <2>1, <2>4, <2>5
      <3>2. w \in Nat /\ \A k \in commits : k \in Nat BY <1>0, LsnBounds DEF Typed
      <3>3. \A x \in Configs : \A k \in commits : w < k => cp[x] <= k BY <1>4, <2>1, <3>2
      <3> QED BY <2>1, <2>2, <2>3, <3>1, <3>3 DEF Unsaved
    <2>6. CASE c # d
      <3>1. watermark'[c] = watermark[c] BY <1>0, <2>1, <2>4, <2>6
      <3>2. c \in Active BY <1>0, <3>1 DEF Active
      <3> QED BY <1>3, <2>2, <2>3, <3>1, <3>2 DEF Unsaved
    <2> QED BY <2>5, <2>6
  <1>9. CASE c \in Active
    <2> USE <1>0, <1>1, <1>9
    <2>0. /\ Unsaved(c) /\ \A d \in Configs : \A k \in commits : watermark[c] < k => cp[d] <= k
          /\ confirmed <= watermark[c] /\ (Connected => pos <= watermark[c])
          /\ pc # "down" => memcp[c] = watermark[c] /\ (At <= watermark[c] \/ (pc = "save" /\ c \in todo))
      BY <1>3 DEF Unsaved
    <2>1. CASE Crash \/ \E d \in Configs : DeadLetterFails(d)
      <3>1. UNCHANGED <<cp, confirmed, commits, watermark>> /\ pc' = "down" BY <2>1 DEF Crash, DeadLetterFails, Stop
      <3> QED BY <2>0, <3>1 DEF Unsaved, Connected
    <2>2. CASE Start
      <3>1. /\ UNCHANGED <<cp, confirmed, commits, watermark>> /\ pc' = "drain"
            /\ memcp'[c] = Resume(c) /\ \A x \in StartCandidates : start' <= x
        BY <2>2 DEF Start
      <3>2. memcp'[c] = watermark[c] /\ start' <= watermark[c] BY <3>1 DEF Resume, StartCandidates
      <3>3. At' = start' /\ ~Connected' BY <3>1 DEF At, Connected
      <3> QED BY <2>0, <3>1, <3>2, <3>3 DEF Unsaved
    <2>3. CASE Connect
      <3>1. /\ UNCHANGED <<cp, confirmed, commits, watermark, memcp>> /\ pc = "connect" /\ pc' = "recv"
            /\ pos' \in {start, confirmed}
        BY <2>3 DEF Connect, ResumeLsn
      <3>2. At = start /\ At' = pos' BY <3>1 DEF At
      <3> QED BY <2>0, <3>1, <3>2, UnsavedForward
    <2>4. CASE RecvBatch
      <3>1. PICK e \in commits : BeginProcess([kind |-> "batch", lo |-> pos + part + 1, hi |-> e, ack |-> e])
        BY <2>4 DEF RecvBatch
      <3> DEFINE b == [kind |-> "batch", lo |-> pos + part + 1, hi |-> e, ack |-> e]
      <3>2. b.kind = "batch" /\ b.ack = e /\ BeginProcess(b) BY <3>1
      <3> HIDE DEF b
      <3>3. UNCHANGED <<cp, confirmed, commits, watermark, memcp, pos>> /\ pc = "recv" /\ Connected
        BY <2>4 DEF RecvBatch, Connected
      <3>4. b.ack \in Nat BY <3>2, LsnBounds DEF Typed
      <3>5. CASE ToProcess(b) = {}
        <4>1. EndProcess(b) BY <3>2, <3>5 DEF BeginProcess
        <4> QED BY <2>0, <3>2, <3>3, <3>4, <4>1, UnsavedEnds
      <3>6. CASE ToProcess(b) # {}
        <4>1. pc' = "process" BY <3>2, <3>6 DEF BeginProcess
        <4>2. At = pos /\ At' = pos BY <3>3, <4>1 DEF At
        <4> QED BY <2>0, <3>3, <4>1, <4>2, UnsavedForward
      <3> QED BY <3>5, <3>6
    <2>5. CASE RecvTransactionTooLarge
      <3>1. PICK e \in commits : EndProcess([kind |-> "toolarge", lo |-> pos + 1, hi |-> e, ack |-> e])
        BY <2>5 DEF RecvTransactionTooLarge
      <3> DEFINE b == [kind |-> "toolarge", lo |-> pos + 1, hi |-> e, ack |-> e]
      <3>2. b.kind = "toolarge" /\ b.ack = e /\ EndProcess(b) BY <3>1
      <3> HIDE DEF b
      <3>3. UNCHANGED <<cp, confirmed, commits, watermark, memcp, pos>> /\ Connected
        BY <2>5 DEF RecvTransactionTooLarge, Connected
      <3>4. b.ack \in Nat BY <3>2, LsnBounds DEF Typed
      <3> QED BY <2>0, <3>2, <3>3, <3>4, UnsavedEnds
    <2>6. ASSUME NEW d \in Configs, SendOk(d) \/ SendFails(d) PROVE Unsaved(c)'
      <3>1. /\ UNCHANGED <<cp, confirmed, commits, watermark, memcp, pos>> /\ pc = "process" /\ Connected /\ NextConfig(d)
        BY <2>6 DEF SendOk, SendFails, Connected
      <3>2. batch.kind = "batch" /\ batch.ack \in Nat BY <3>1, InHandFacts, AtTypes
      <3>3. CASE todo = {d}
        <4>1. EndProcess(batch) BY <3>1, <3>3 DEF NextConfig
        <4> QED BY <2>0, <3>1, <3>2, <4>1, UnsavedEnds
      <3>4. CASE todo # {d}
        <4>1. UNCHANGED pc BY <3>1, <3>4 DEF NextConfig
        <4>2. At = pos /\ At' = pos BY <3>1, <4>1 DEF At
        <4> QED BY <2>0, <3>1, <4>1, <4>2, UnsavedForward
      <3> QED BY <3>3, <3>4
    <2>7. ASSUME NEW d \in Configs, SaveCheckpoint(d) PROVE Unsaved(c)'
      <3>1. /\ UNCHANGED <<confirmed, watermark, commits, pos, batch>> /\ pc = "save" /\ d \in todo
            /\ cp' = [cp EXCEPT ![d] = batch.ack] /\ memcp' \in {memcp, [memcp EXCEPT ![d] = batch.ack]}
            /\ todo' = todo \ {d} /\ pc' = (IF todo = {d} THEN "ack" ELSE "save")
        BY <2>7 DEF SaveCheckpoint
      <3>2. cp \in [Configs -> Lsn \cup {NoLsn}] /\ memcp \in [Configs -> Lsn \cup {NoLsn}] BY DEF Typed, TypeOK
      <3>3. batch.ack \in Nat /\ batch.ack # NoLsn BY AtTypes DEF NoLsn
      <3>4. c # d BY <3>1, <3>2, <3>3
      <3>5. memcp'[c] = memcp[c] /\ \A x \in Configs : cp'[x] = cp[x] \/ cp'[x] = batch.ack BY <3>1, <3>2, <3>4
      <3>6. IsNextCommit(batch.ack) BY <3>1 DEF Anchored, InHand
      <3>7. ASSUME NEW k \in commits, watermark[c] < k PROVE batch.ack <= k
        <4>1. pos <= watermark[c] /\ pos \in Nat BY <2>0, <3>1, AtTypes DEF Connected
        <4>2. k \in Nat BY LsnBounds DEF Typed
        <4>3. k > pos BY <1>4, <3>7, <4>1, <4>2
        <4> QED BY <3>6, <4>3 DEF IsNextCommit
      <3>8. At = batch.ack /\ At' = batch.ack /\ Connected /\ Connected' BY <3>1 DEF At, Connected
      <3>9. At' <= watermark[c] \/ (pc' = "save" /\ c \in todo') BY <2>0, <3>1, <3>4, <3>8
      <3> QED BY <2>0, <3>1, <3>5, <3>7, <3>8, <3>9 DEF Unsaved
    <2>8. CASE Ack
      <3>1. /\ UNCHANGED <<confirmed, cp, watermark, memcp, commits>> /\ pc = "ack"
            /\ pc' \in {"replay", "maintain", "recv"} /\ pos' = batch.ack
        BY <2>8 DEF Ack
      <3>2. At = batch.ack /\ At' = batch.ack BY <3>1 DEF At
      <3> QED BY <2>0, <3>1, <3>2, UnsavedForward
    <2>9. CASE DrainDlq \/ ReplayDlq \/ ReplayAborts \/ Maintain
      <3>1. /\ UNCHANGED <<confirmed, cp, watermark, memcp, pos, start, commits>>
            /\ \/ pc = "drain" /\ pc' \in {"drain", "connect"}
               \/ pc \in {"replay", "maintain"} /\ pc' \in {"maintain", "recv"}
        BY <2>9 DEF DrainDlq, ReplayDlq, ReplayAborts, Maintain
      <3>2. At' = At /\ (Connected' => Connected) BY <3>1 DEF At, Connected
      <3> QED BY <2>0, <3>1, <3>2, UnsavedForward
    <2>10. ~ RecvSchemaChanged
      <3> SUFFICES ASSUME RecvSchemaChanged PROVE FALSE OBVIOUS
      <3>1. reconnects \in Nat /\ MaxReconnects \in Nat BY ConstantsAssumption DEF Typed, TypeOK
      <3>2. reconnects' = reconnects + 1 /\ reconnects' < MaxReconnects BY DEF RecvSchemaChanged, CanReconnect
      <3>3. InitialConfigs = Configs BY <3>1, <3>2 DEF Policy
      <3> QED BY <3>3 DEF Order
    <2>11. ~ RecvSubBatch BY DEF RecvSubBatch, Policy
    <2> QED
      BY <1>5, <1>6, <1>7, <1>8, <2>1, <2>2, <2>3, <2>4, <2>5, <2>6, <2>7, <2>8, <2>9, <2>10, <2>11
      DEF Next, Process, Environment
  <1>10. CASE c \notin Active
    <2>1. CASE UNCHANGED watermark BY <1>0, <1>10, <2>1 DEF Active
    <2>2. CASE \E d \in Configs : BackfillNewConfig(d) BY <1>8, <2>2
    <2>3. UNCHANGED watermark \/ \E d \in Configs : BackfillNewConfig(d)
      BY DEF Next, Process, Environment, vars, Commit, FlushSlot, Connect, RecvSubBatch, RecvBatch, RecvSchemaChanged,
         Ack, Crash, Start, RecvTransactionTooLarge, DrainDlq, ReplayDlq, ReplayAborts, Maintain,
         SendOk, SendFails, DeadLetterFails, SaveCheckpoint
    <2> QED BY <2>1, <2>2, <2>3
  <1> QED BY <1>9, <1>10

\* The four parts together are inductive.
LEMMA CaughtStep ==
  ASSUME Policy, IInv, Anchored, Caught, [Next]_vars PROVE Caught'
  <1>1. Within' /\ Order' /\ Held' BY WithinStep, OrderStep, HeldStep DEF Caught
  <1>2. Reconnecting'
    <2> SUFFICES ASSUME CanReconnect' PROVE Leveled' /\ \A c \in Active' : cp'[c] = NoLsn => Unsaved(c)'
      BY DEF Reconnecting
    <2>1. Leveled'
      <3>1. CanReconnect
        <4>1. reconnects \in Nat /\ MaxReconnects \in Nat BY ConstantsAssumption DEF IInv, Typed, TypeOK
        <4>2. reconnects' = reconnects \/ reconnects' = reconnects + 1
          BY DEF Next, Process, Environment, vars, Commit, FlushSlot, Connect, RecvSubBatch, RecvBatch, RecvSchemaChanged,
             Ack, Crash, Start, RecvTransactionTooLarge, DrainDlq, ReplayDlq, ReplayAborts, Maintain,
             SendOk, SendFails, DeadLetterFails, BackfillNewConfig, SaveCheckpoint, budgets
        <4> QED BY <4>1, <4>2 DEF CanReconnect
      <3> QED BY <3>1, LeveledStep DEF Caught, Reconnecting
    <2> QED BY <2>1, UnsavedStep
  <1> QED BY <1>1, <1>2 DEF Caught

(* Whenever the loop has handled all there is and no dead letter is left,   *)
(* every namespace equals its table, but for what a stated policy gave up:  *)
(* for any configs, tables and transactions, oversized ones included, any   *)
(* crashes, failed upserts, replays and configs that join between runs.     *)
THEOREM MirrorsWhenIdle == ASSUME Policy PROVE Spec => []MirroredWhenIdle
  <1>1. Init => Anchored /\ Caught
    <2> SUFFICES ASSUME Init PROVE Anchored /\ Caught OBVIOUS
    <2>1. Anchored BY DEF Init, Anchored, Marks
    <2>2. wal = <<>> /\ Len(wal) = 0 /\ Changes = {} BY DEF Init, Changes
    <2>3. Within BY DEF Init, Within
    <2>4. Order BY DEF Init, Order, Connected, NoBatch, NoLsn
    <2>5. Held
      <3>1. Newest({}) = {} BY DEF Newest
      <3>2. \A r : RowAt(r, Len(wal)) = Absent BY <2>2, <3>1 DEF RowAt, ValueAfter
      <3>3. \A c \in Configs : \A r \in Rows : sink[c][r] = Absent BY DEF Init
      <3>4. \A c \in Configs : SourceOf[c] \subseteq Rows BY ConstantsAssumption
      <3> QED BY <3>2, <3>3, <3>4 DEF Held, Shows, Shown, Active
    <2>6. Leveled BY DEF Init, Leveled
    <2>7. \A c \in Active : cp[c] # NoLsn BY DEF Init, Active, NoLsn
    <2> QED BY <2>1, <2>3, <2>4, <2>5, <2>6, <2>7 DEF Caught, Reconnecting
  <1>2. IInv /\ Anchored /\ Caught /\ [Next]_vars => Anchored' /\ Caught' BY FollowsStep, CaughtStep
  <1>3. IInv /\ Caught => MirroredWhenIdle
    <2> SUFFICES ASSUME IInv, Caught, pc = "recv", pos = Len(wal), dlq = {}, NEW c \in Active, NEW r \in SourceOf[c]
                 PROVE  Gone(c, r) \/ sink[c][r] = RowAt(r, Len(wal))
      BY DEF MirroredWhenIdle, Mirrored
    <2>1. Shows(c, pos) BY DEF Caught, Held, Claimed, Connected
    <2>2. LastUpTo(r, pos)
      <3>1. Len(wal) \in Nat BY PositionTypes DEF IInv
      <3> QED BY <3>1 DEF LastUpTo, Changes
    <2> QED BY <2>1, <2>2 DEF Shows, Shown, InQueue
  <1> QED BY <1>1, <1>2, <1>3, InvariantHolds, PTL DEF Spec
=============================================================================
