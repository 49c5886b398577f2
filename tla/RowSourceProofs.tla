-------------------------- MODULE RowSourceProofs --------------------------
(* Theorems about the sources of rows, for every value of their constants.   *)
(* ReplicationStream: any WAL, any layouts, any sub-batch size and any limit *)
(* on a transaction.  Backfill: any table, page size and number of retries.  *)
(* PgOutput: any bytes that arrive and any width of the integers.            *)
EXTENDS ReplicationStream, Backfill, PgOutput, SequenceTheorems, FiniteSetTheorems,
        WellFoundedInduction, TLAPS

Rows  == [rel : Relations, cols : Layouts]
Kinds == {"none", "SchemaChanged", "SubBatch", "Batch", "TransactionTooLarge"}
Whole == {"Batch", "TransactionTooLarge"}

TypeOK ==
  /\ wal \in Seq(Seq(Rows)) /\ subBatchSize \in SubBatchSizes
  /\ checkpoint \in 0 .. Len(wal) /\ up \in BOOLEAN /\ at \in Nat \ {0} /\ row \in Nat
  /\ described \in [Relations -> Layouts \cup {NoColumn}]
  /\ cache \in [Relations -> Layouts \cup {NoColumn}]
  /\ txn \in [open : BOOLEAN, events : Seq(Rows), too_large : BOOLEAN]
  /\ pending \in Nat /\ applied \in Nat /\ handed \in Seq(Rows) /\ failures \in Nat
  /\ result \in [kind : Kinds, events : Seq(Rows), ack : Nat]

\* Where a connection can be: it is on the transaction after the checkpoint,
\* and what it returned whole is that transaction.
OnTransaction ==
  /\ ~up => result = NoResult /\ handed = <<>>
  /\ up => /\ at = checkpoint + 1
           /\ IF at > Len(wal) THEN row = 0 ELSE row <= Len(wal[at]) + 1
           /\ row = 0 => result = NoResult /\ handed = <<>> /\ txn.events = <<>>
  /\ result.kind \in Whole => row = Len(wal[at]) + 1 /\ result.ack = at /\ txn.events = <<>>
  /\ result.kind \in {"none", "SchemaChanged", "TransactionTooLarge"} => result.events = <<>>

\* Handed over, returned and buffered are the rows received so far, in order.
Accounted ==
  /\ up /\ row >= 1 /\ result.kind \notin Whole /\ ~txn.too_large =>
       handed \o (result.events \o txn.events) = SubSeq(wal[at], 1, row - 1)
  /\ result.kind = "Batch" => handed \o result.events = wal[at]

\* Full sub-batches leave the buffer empty; an oversized transaction keeps
\* nothing, and there is none where transactions are split.
Batching ==
  /\ result.kind = "SubBatch" => /\ subBatchSize > 0 /\ Len(result.events) = subBatchSize
                                 /\ txn.events = <<>> /\ ~txn.too_large
  /\ subBatchSize = 0 => handed = <<>>
  /\ up /\ subBatchSize > 0 => Len(txn.events) < subBatchSize
  /\ up /\ row >= 1 /\ txn.too_large =>
       /\ subBatchSize = 0 /\ row - 1 > MaxTxnEvents /\ txn.events = <<>>
  /\ result.kind = "TransactionTooLarge" => subBatchSize = 0 /\ Len(wal[at]) > MaxTxnEvents

OwnColumns(events) == \A i \in 1 .. Len(events) : cache[events[i].rel] = events[i].cols

\* What is buffered still has the columns in the cache, unless the stream has
\* given the transaction up.
Decoding ==
  /\ cache = described
  /\ up /\ result.kind # "SchemaChanged" => OwnColumns(txn.events)
  /\ OwnColumns(result.events)

IInv == TypeOK /\ OnTransaction /\ Accounted /\ Batching /\ Decoding

----------------------------------------------------------------------------
(* Lemmas on the data.                                                     *)

LEMMA Values ==
  /\ NoTxn \in [open : BOOLEAN, events : Seq(Rows), too_large : BOOLEAN]
  /\ NoTxn.events = <<>> /\ NoTxn.too_large = FALSE
  /\ NoResult \in [kind : Kinds, events : Seq(Rows), ack : Nat]
  /\ NoResult.kind = "none" /\ NoResult.events = <<>>
  /\ Unknown \in [Relations -> Layouts \cup {NoColumn}]
  /\ <<>> \in Seq(Rows) /\ Len(<<>>) = 0
  BY DEF NoTxn, NoResult, Unknown, Kinds

LEMMA WalType ==
  ASSUME TypeOK
  PROVE  /\ Len(wal) \in Nat
         /\ \A t \in 1 .. Len(wal) : wal[t] \in Seq(Rows) /\ Len(wal[t]) \in Nat
         /\ \A t \in 1 .. Len(wal) : \A i \in 1 .. Len(wal[t]) : wal[t][i] \in Rows
  <1>1. wal \in Seq(Seq(Rows)) BY DEF TypeOK
  <1>2. \A t \in 1 .. Len(wal) : wal[t] \in Seq(Rows) BY <1>1, ElementOfSeq
  <1>3. \A t \in 1 .. Len(wal) : \A i \in 1 .. Len(wal[t]) : wal[t][i] \in Rows
    BY <1>2, ElementOfSeq
  <1> QED BY <1>1, <1>2, <1>3

\* One more row received, one more row of the transaction.
LEMMA OneMore ==
  ASSUME NEW h \in Seq(Rows), NEW b \in Seq(Rows), NEW w \in Seq(Rows), NEW n \in 1 .. Len(w),
         h \o b = SubSeq(w, 1, n - 1)
  PROVE  h \o Append(b, w[n]) = SubSeq(w, 1, n)
  <1> DEFINE e == w[n]  c == Append(b, e)  x == Len(h)  y == Len(b)
  <1>1. e \in Rows /\ c \in Seq(Rows) /\ Len(c) = y + 1 /\ c[y + 1] = e
        /\ \A i \in 1 .. y : c[i] = b[i]
    <2>1. e \in Rows BY ElementOfSeq
    <2> HIDE DEF e
    <2> QED BY <2>1, AppendProperties
  <1>2. x \in Nat /\ y \in Nat /\ n \in Nat OBVIOUS
  <1>3. \A i \in 1 .. n : w[i] \in Rows BY ElementOfSeq
  <1>4. /\ h \o c \in Seq(Rows) /\ Len(h \o c) = x + (y + 1)
        /\ \A i \in 1 .. x + (y + 1) : (h \o c)[i] = IF i <= x THEN h[i] ELSE c[i - x]
    BY <1>1, ConcatProperties
  <1>5. /\ Len(h \o b) = x + y
        /\ \A i \in 1 .. x + y : (h \o b)[i] = IF i <= x THEN h[i] ELSE b[i - x]
    BY ConcatProperties
  <1>6. /\ Len(SubSeq(w, 1, n - 1)) = n - 1
        /\ \A i \in 1 .. n - 1 : SubSeq(w, 1, n - 1)[i] = w[i]
    <2>1. n - 1 \in Int /\ \A i \in 1 .. n - 1 : w[i] \in Rows BY <1>3
    <2> DEFINE m == n - 1
    <2>2. m \in Nat BY <2>1
    <2> HIDE DEF m
    <2> QED BY <2>1, <2>2, SubSeqProperties DEF m
  <1>7. /\ SubSeq(w, 1, n) \in Seq(Rows) /\ Len(SubSeq(w, 1, n)) = n
        /\ \A i \in 1 .. n : SubSeq(w, 1, n)[i] = w[i]
    BY <1>3, SubSeqProperties
  <1> HIDE DEF e, c, x, y
  <1>8. x + y = n - 1 BY <1>5, <1>6
  <1>9. \A i \in 1 .. n : (h \o c)[i] = SubSeq(w, 1, n)[i]
    <2> SUFFICES ASSUME NEW i \in 1 .. n PROVE (h \o c)[i] = w[i] BY <1>7
    <2>1. CASE i = n
      <3>1. i - x = y + 1 /\ ~(i <= x) BY <1>2, <1>8, <2>1
      <3> QED BY <1>1, <1>2, <1>4, <1>8, <2>1, <3>1 DEF e
    <2>2. CASE i < n
      <3>1. (h \o b)[i] = w[i] BY <1>6, <2>2
      <3>2. i \in 1 .. x + y /\ i \in 1 .. x + (y + 1) BY <1>2, <1>8, <2>2
      <3>3. ~(i <= x) => i - x \in 1 .. y BY <1>2, <3>2
      <3> QED BY <1>1, <1>4, <1>5, <3>1, <3>2, <3>3
    <2>3. i = n \/ i < n BY <1>2
    <2> QED BY <2>1, <2>2, <2>3
  <1>10. Len(h \o c) = Len(SubSeq(w, 1, n)) BY <1>2, <1>4, <1>7, <1>8
  <1> QED BY <1>4, <1>7, <1>9, <1>10, SeqEqual DEF c, e

LEMMA PrefixLength ==
  ASSUME NEW w \in Seq(Rows), NEW n \in 0 .. Len(w)
  PROVE  Len(SubSeq(w, 1, n)) = n
  <1>1. \A i \in 1 .. n : w[i] \in Rows BY ElementOfSeq
  <1> QED BY <1>1, SubSeqProperties

\* How many rows the process holds or has handled.
LEMMA RowsInHand ==
  ASSUME TypeOK, OnTransaction, Accounted, Batching, up, at <= Len(wal), row >= 1,
         result.kind \notin Whole, ~txn.too_large
  PROVE  /\ Len(handed) + Len(result.events) + Len(txn.events) = row - 1
         /\ wal[at] \in Seq(Rows) /\ row - 1 \in 0 .. Len(wal[at])
  <1>1. at \in 1 .. Len(wal) /\ wal[at] \in Seq(Rows) /\ Len(wal[at]) \in Nat
    BY WalType DEF TypeOK
  <1>2. row - 1 \in 0 .. Len(wal[at]) BY <1>1, WalType DEF OnTransaction, TypeOK
  <1>3. handed \o (result.events \o txn.events) = SubSeq(wal[at], 1, row - 1) BY DEF Accounted
  <1>4. Len(handed \o (result.events \o txn.events)) = row - 1 BY <1>1, <1>2, <1>3, PrefixLength
  <1>5. handed \in Seq(Rows) /\ result.events \in Seq(Rows) /\ txn.events \in Seq(Rows)
    BY DEF TypeOK
  <1>6. result.events \o txn.events \in Seq(Rows)
        /\ Len(result.events \o txn.events) = Len(result.events) + Len(txn.events)
    BY <1>5, ConcatProperties
  <1>7. Len(handed \o (result.events \o txn.events)) = Len(handed) + Len(result.events \o txn.events)
    BY <1>5, <1>6, ConcatProperties
  <1>8. Len(handed) \in Nat /\ Len(result.events) \in Nat /\ Len(txn.events) \in Nat BY <1>5
  <1>9. Len(handed) + (Len(result.events) + Len(txn.events)) = row - 1 BY <1>4, <1>6, <1>7
  <1>10. Len(handed) + Len(result.events) + Len(txn.events) = row - 1
    <2> DEFINE x == Len(handed)  y == Len(result.events)  z == Len(txn.events)
    <2>1. x \in Nat /\ y \in Nat /\ z \in Nat /\ x + (y + z) = row - 1 BY <1>8, <1>9
    <2> HIDE DEF x, y, z
    <2>2. x + y + z = row - 1 BY <2>1
    <2> QED BY <2>2 DEF x, y, z
  <1> QED BY <1>1, <1>2, <1>10

----------------------------------------------------------------------------
(* The steps.                                                              *)

LEMMA InitIInv == Init => IInv
  <1> SUFFICES ASSUME Init PROVE IInv OBVIOUS
  <1>1. wal \in Seq(Seq(Rows)) BY StreamAssumption DEF Init, Rows
  <1>2. TypeOK
    <2>1. 0 \in 0 .. Len(wal) BY <1>1
    <2>2. subBatchSize \in SubBatchSizes /\ checkpoint \in 0 .. Len(wal) /\ at \in Nat \ {0}
      BY <2>1 DEF Init
    <2> QED BY <1>1, <2>2, Values DEF Init, TypeOK
  <1> QED BY <1>2, Values DEF Init, IInv, OnTransaction, Accounted, Batching, Decoding, OwnColumns, Whole

LEMMA ConnectStep ==
  ASSUME IInv, Connect PROVE IInv'
  <1> USE DEF IInv
  <1>1. /\ up' = TRUE /\ at' = checkpoint + 1 /\ row' = 0 /\ described' = Unknown
        /\ cache' = Unknown /\ txn' = NoTxn /\ pending' = 0 /\ applied' = 0
        /\ wal' = wal /\ subBatchSize' = subBatchSize /\ checkpoint' = checkpoint
        /\ result' = result /\ handed' = handed /\ failures' = failures
    BY DEF Connect
  <1>2. result = NoResult /\ handed = <<>> BY DEF Connect, OnTransaction
  <1>3. checkpoint + 1 \in Nat \ {0} BY WalType DEF TypeOK
  <1>4. TypeOK' BY <1>1, <1>3, Values DEF TypeOK
  <1> QED
    BY <1>1, <1>2, <1>4, Values DEF OnTransaction, Accounted, Batching, Decoding, OwnColumns, Whole

\* The stream is dropped with everything it buffered.
LEMMA DisconnectStep ==
  ASSUME IInv, Disconnect, UNCHANGED <<wal, subBatchSize, checkpoint, server, cache, txn, pending, applied>>,
         failures' \in Nat
  PROVE  IInv'
  <1> USE DEF IInv
  <1>1. /\ up' = FALSE /\ result' = NoResult /\ handed' = <<>> /\ wal' = wal
        /\ subBatchSize' = subBatchSize /\ checkpoint' = checkpoint /\ at' = at /\ row' = row
        /\ described' = described /\ cache' = cache /\ txn' = txn /\ pending' = pending /\ applied' = applied
    BY DEF Disconnect, server
  <1>2. TypeOK' BY <1>1, Values DEF TypeOK
  <1> QED
    BY <1>1, <1>2, Values DEF OnTransaction, Accounted, Batching, Decoding, OwnColumns, Whole

LEMMA RecvBeginStep ==
  ASSUME IInv, RecvBegin PROVE IInv'
  <1> USE DEF IInv
  <1>1. /\ up /\ result.kind = "none" /\ at <= Len(wal) /\ row = 0 BY DEF RecvBegin, Receiving
  <1>2. /\ row' = 1 /\ txn' = [NoTxn EXCEPT !.open = TRUE] /\ wal' = wal /\ subBatchSize' = subBatchSize
        /\ checkpoint' = checkpoint /\ up' = up /\ at' = at /\ described' = described /\ cache' = cache
        /\ pending' = pending /\ applied' = applied /\ result' = result /\ handed' = handed
        /\ failures' = failures
    BY DEF RecvBegin
  <1>3. /\ txn' \in [open : BOOLEAN, events : Seq(Rows), too_large : BOOLEAN]
        /\ txn'.events = <<>> /\ txn'.too_large = FALSE
    BY <1>2, Values DEF NoTxn
  <1>4. TypeOK' BY <1>2, <1>3 DEF TypeOK
  <1>5. at \in 1 .. Len(wal) /\ Len(wal[at]) \in Nat /\ wal[at] \in Seq(Rows) BY <1>1, WalType DEF TypeOK
  <1>6. result = NoResult /\ handed = <<>> BY <1>1 DEF OnTransaction
  <1>7. OnTransaction' BY <1>1, <1>2, <1>5, <1>6, Values DEF OnTransaction, Whole
  <1>8. Accounted'
    <2>1. SubSeq(wal[at], 1, 0) = <<>> BY SubSeqEmpty
    <2>2. handed \o (result.events \o txn'.events) = <<>> BY <1>3, <1>6, Values
    <2>3. row' - 1 = 0 /\ result'.kind = "none" BY <1>1, <1>2
    <2> QED BY <1>1, <1>2, <2>1, <2>2, <2>3 DEF Accounted, Whole
  <1>9. Batching' BY <1>1, <1>2, <1>3, <1>6, Values DEF Batching
  <1>10. Decoding' BY <1>2, <1>3, <1>6, Values DEF Decoding, OwnColumns
  <1> QED BY <1>4, <1>7, <1>8, <1>9, <1>10

\* A relation that changed under buffered rows makes the stream give up.
LEMMA RecvRelationStep ==
  ASSUME IInv, RecvRelation PROVE IInv'
  <1> USE DEF IInv
  <1> DEFINE r == Current.rel  l == Current.cols
  <1>1. /\ up /\ result.kind = "none" /\ at <= Len(wal) /\ row \in 1 .. Len(wal[at])
        /\ described[r] # l
    BY DEF RecvRelation, Receiving
  <1>2. /\ described' = [described EXCEPT ![r] = l] /\ cache' = [cache EXCEPT ![r] = l]
        /\ result' = IF NeedsReconnect(r, l) THEN [NoResult EXCEPT !.kind = "SchemaChanged"] ELSE NoResult
        /\ wal' = wal /\ subBatchSize' = subBatchSize /\ checkpoint' = checkpoint /\ up' = up
        /\ at' = at /\ row' = row /\ txn' = txn /\ pending' = pending /\ applied' = applied
        /\ handed' = handed /\ failures' = failures
    BY DEF RecvRelation
  <1>3. at \in 1 .. Len(wal) BY <1>1, WalType DEF TypeOK
  <1>4. Current \in Rows BY <1>1, <1>3, WalType DEF Current
  <1>5. r \in Relations /\ l \in Layouts BY <1>4 DEF Rows
  <1> HIDE DEF r, l
  <1>6. result'.kind \in {"none", "SchemaChanged"} /\ result'.events = <<>>
        /\ result' \in [kind : Kinds, events : Seq(Rows), ack : Nat]
        /\ (NeedsReconnect(r, l) => result'.kind = "SchemaChanged")
    BY <1>2, Values DEF NoResult, Kinds
  <1>7. TypeOK' BY <1>2, <1>5, <1>6 DEF TypeOK
  <1>8. result.events = <<>> BY <1>1 DEF OnTransaction
  <1>9. OnTransaction' BY <1>1, <1>2, <1>6 DEF OnTransaction, Whole
  <1>10. Accounted' BY <1>1, <1>2, <1>6, <1>8 DEF Accounted, Whole
  <1>11. Batching' BY <1>1, <1>2, <1>6 DEF Batching
  <1>12. Decoding'
    <2>1. cache' = described' BY <1>2 DEF Decoding
    <2>2. OwnColumns(result.events)' BY <1>6 DEF OwnColumns
    <2>3. ASSUME result'.kind # "SchemaChanged" PROVE OwnColumns(txn.events)'
      <3>1. OwnColumns(txn.events) BY <1>1 DEF Decoding
      <3>2. ~NeedsReconnect(r, l) BY <1>6, <2>3
      <3>3. ASSUME NEW i \in 1 .. Len(txn.events), txn.events[i].rel = r PROVE FALSE
        <4>1. txn.events \in Seq(Rows) BY DEF TypeOK
        <4>2. txn.events[i] \in Rows BY <4>1, ElementOfSeq
        <4>3. cache[r] = txn.events[i].cols /\ txn.events[i].cols \in Layouts
          BY <3>1, <3>3, <4>2 DEF OwnColumns, Rows
        <4>4. cache[r] # NoColumn /\ cache[r] # l
          BY <1>1, <4>3, StreamAssumption DEF Decoding
        <4> QED BY <3>2, <3>3, <4>4 DEF NeedsReconnect, ColumnsChanged, HasBufferedRows
      <3>4. \A i \in 1 .. Len(txn.events) : txn.events[i].rel \in Relations
        <4>1. txn.events \in Seq(Rows) BY DEF TypeOK
        <4>2. \A i \in 1 .. Len(txn.events) : txn.events[i] \in Rows BY <4>1, ElementOfSeq
        <4> QED BY <4>2 DEF Rows
      <3>5. \A i \in 1 .. Len(txn.events) : cache'[txn.events[i].rel] = cache[txn.events[i].rel]
        BY <1>2, <3>3, <3>4 DEF TypeOK
      <3> QED BY <1>2, <3>1, <3>5 DEF OwnColumns
    <2> QED BY <2>1, <2>2, <2>3 DEF Decoding
  <1> QED BY <1>7, <1>9, <1>10, <1>11, <1>12

\* What push_event does with a row, case by case.
LEMMA PushEventCases ==
  ASSUME NEW e, PushEvent(e)
  PROVE  \/ txn.too_large /\ UNCHANGED <<txn, result>>
         \/ /\ ~txn.too_large /\ subBatchSize > 0 /\ Len(txn.events) + 1 >= subBatchSize
            /\ result' = [kind |-> "SubBatch", events |-> Append(txn.events, e), ack |-> 0]
            /\ txn' = [txn EXCEPT !.events = <<>>]
         \/ /\ ~txn.too_large /\ subBatchSize = 0 /\ Len(txn.events) >= MaxTxnEvents
            /\ txn' = [txn EXCEPT !.too_large = TRUE, !.events = <<>>] /\ result' = result
         \/ /\ ~txn.too_large /\ ~(subBatchSize > 0 /\ Len(txn.events) + 1 >= subBatchSize)
            /\ txn' = [txn EXCEPT !.events = Append(@, e)] /\ result' = result
  BY DEF PushEvent, LimitReached

LEMMA RecvRowStep ==
  ASSUME IInv, RecvRow PROVE IInv'
  <1> USE DEF IInv
  <1>1. /\ up /\ result.kind = "none" /\ at <= Len(wal) /\ row \in 1 .. Len(wal[at])
        /\ described[Current.rel] = Current.cols
    BY DEF RecvRow, Receiving
  <1>2. /\ row' = row + 1 /\ wal' = wal /\ subBatchSize' = subBatchSize /\ checkpoint' = checkpoint
        /\ up' = up /\ at' = at /\ described' = described /\ cache' = cache /\ pending' = pending
        /\ applied' = applied /\ handed' = handed /\ failures' = failures
    BY DEF RecvRow
  <1>3. at \in 1 .. Len(wal) /\ wal[at] \in Seq(Rows) /\ Len(wal[at]) \in Nat BY <1>1, WalType DEF TypeOK
  <1> PICK e : e = Current OBVIOUS
  <1>4. e \in Rows /\ e = wal[at][row] BY <1>1, <1>3, WalType DEF Current
  <1>5. cache[e.rel] = e.cols BY <1>1 DEF Decoding
  <1>6. result.events = <<>> /\ txn.events \in Seq(Rows) /\ handed \in Seq(Rows) /\ Len(txn.events) \in Nat
        /\ subBatchSize \in Nat /\ MaxTxnEvents \in Nat /\ row \in Nat /\ row >= 1
    BY <1>1, <1>3, StreamAssumption DEF OnTransaction, TypeOK
  <1>7. /\ Append(txn.events, e) \in Seq(Rows) /\ Len(Append(txn.events, e)) = Len(txn.events) + 1
        /\ Append(txn.events, e)[Len(txn.events) + 1] = e
        /\ \A i \in 1 .. Len(txn.events) : Append(txn.events, e)[i] = txn.events[i]
    BY <1>4, <1>6, AppendProperties
  <1>8. ASSUME ~txn.too_large
        PROVE  handed \o Append(txn.events, e) = SubSeq(wal[at], 1, row)
    <2>1. handed \o (result.events \o txn.events) = SubSeq(wal[at], 1, row - 1)
      BY <1>1, <1>6, <1>8 DEF Accounted, Whole
    <2>2. result.events \o txn.events = txn.events BY <1>6, ConcatEmptySeq
    <2>3. row \in 1 .. Len(wal[at]) BY <1>1
    <2>4. handed \o txn.events = SubSeq(wal[at], 1, row - 1) BY <2>1, <2>2
    <2>5. handed \o Append(txn.events, wal[at][row]) = SubSeq(wal[at], 1, row)
      BY <1>3, <1>6, <2>3, <2>4, OneMore
    <2> QED BY <1>4, <2>5
  <1>9. OwnColumns(txn.events) /\ OwnColumns(result.events) BY <1>1, <1>6, Values DEF Decoding, OwnColumns
  <1>10. \A i \in 1 .. Len(Append(txn.events, e)) :
           cache[Append(txn.events, e)[i].rel] = Append(txn.events, e)[i].cols
    <2>1. \A i \in 1 .. Len(txn.events) + 1 : i \in 1 .. Len(txn.events) \/ i = Len(txn.events) + 1
      BY <1>6
    <2> QED BY <1>5, <1>7, <1>9, <2>1 DEF OwnColumns
  <1>11. PushEvent(e) BY DEF RecvRow
  <1>12. row' >= 1 /\ row' - 1 = row /\ row' \in Nat /\ row' <= Len(wal[at]) + 1
    <2>1. PICK n \in Nat : n = Len(wal[at]) BY <1>3
    <2>2. row \in 1..n /\ row' = row + 1 BY <1>1, <1>2, <2>1
    <2> QED BY <2>1, <2>2
  \* The transaction is oversized already: the row is dropped.
  <1>13. CASE txn.too_large /\ UNCHANGED <<txn, result>>
    <2>1. TypeOK' BY <1>2, <1>12, <1>13 DEF TypeOK
    <2>2. OnTransaction' BY <1>1, <1>2, <1>12, <1>13 DEF OnTransaction, Whole
    <2>3. Accounted' /\ Decoding' BY <1>1, <1>2, <1>9, <1>13 DEF Accounted, Decoding, OwnColumns
    <2>4. Batching' BY <1>1, <1>2, <1>6, <1>12, <1>13 DEF Batching
    <2> QED BY <2>1, <2>2, <2>3, <2>4
  \* A full sub-batch is returned.
  <1>14. CASE /\ ~txn.too_large /\ subBatchSize > 0 /\ Len(txn.events) + 1 >= subBatchSize
              /\ result' = [kind |-> "SubBatch", events |-> Append(txn.events, e), ack |-> 0]
              /\ txn' = [txn EXCEPT !.events = <<>>]
    <2>1. /\ result'.kind = "SubBatch" /\ result'.events = Append(txn.events, e)
          /\ result' \in [kind : Kinds, events : Seq(Rows), ack : Nat]
      BY <1>7, <1>14 DEF Kinds
    <2>2. /\ txn' \in [open : BOOLEAN, events : Seq(Rows), too_large : BOOLEAN]
          /\ txn'.events = <<>> /\ txn'.too_large = txn.too_large
      BY <1>14, Values DEF TypeOK
    <2>3. TypeOK' BY <1>2, <1>12, <2>1, <2>2 DEF TypeOK
    <2>4. OnTransaction' BY <1>1, <1>2, <1>12, <2>1 DEF OnTransaction, Whole
    <2>5. Accounted'
      <3>1. result'.events \o txn'.events = Append(txn.events, e) BY <1>7, <2>1, <2>2, ConcatEmptySeq
      <3> QED BY <1>2, <1>8, <1>12, <1>14, <2>1, <3>1 DEF Accounted
    <2>6. Batching'
      <3>1. Len(txn.events) + 1 = subBatchSize BY <1>1, <1>6, <1>14 DEF Batching
      <3> QED BY <1>2, <1>7, <1>14, <2>1, <2>2, <3>1, Values DEF Batching
    <2>7. Decoding'
      <3>1. cache' = described' BY <1>2 DEF Decoding
      <3>2. OwnColumns(txn.events)' BY <2>2, Values DEF OwnColumns
      <3>3. OwnColumns(result.events)' BY <1>2, <1>10, <2>1 DEF OwnColumns
      <3> QED BY <3>1, <3>2, <3>3 DEF Decoding
    <2> QED BY <2>3, <2>4, <2>5, <2>6, <2>7
  \* The limit is passed: what was buffered is dropped.
  <1>15. CASE /\ ~txn.too_large /\ subBatchSize = 0 /\ Len(txn.events) >= MaxTxnEvents
              /\ txn' = [txn EXCEPT !.too_large = TRUE, !.events = <<>>] /\ result' = result
    <2>1. /\ txn' \in [open : BOOLEAN, events : Seq(Rows), too_large : BOOLEAN]
          /\ txn'.events = <<>> /\ txn'.too_large
      BY <1>15, Values DEF TypeOK
    <2>2. TypeOK' BY <1>2, <1>12, <1>15, <2>1 DEF TypeOK
    <2>3. OnTransaction' BY <1>1, <1>2, <1>12, <1>15 DEF OnTransaction, Whole
    <2>4. Accounted' BY <1>1, <1>2, <1>15, <2>1 DEF Accounted
    <2>5. Batching'
      <3>1. handed = <<>> BY <1>15 DEF Batching
      <3>2. Len(txn.events) = row - 1 BY <1>1, <1>6, <1>15, <3>1, RowsInHand, Values DEF Whole
      <3>3. row > MaxTxnEvents BY <1>6, <1>15, <3>2
      <3> QED BY <1>1, <1>2, <1>12, <1>15, <2>1, <3>1, <3>3 DEF Batching
    <2>6. Decoding' BY <1>2, <1>9, <1>15, <2>1, Values DEF Decoding, OwnColumns
    <2> QED BY <2>2, <2>3, <2>4, <2>5, <2>6
  \* The row is buffered.
  <1>16. CASE /\ ~txn.too_large /\ ~(subBatchSize > 0 /\ Len(txn.events) + 1 >= subBatchSize)
              /\ txn' = [txn EXCEPT !.events = Append(@, e)] /\ result' = result
    <2>1. /\ txn' \in [open : BOOLEAN, events : Seq(Rows), too_large : BOOLEAN]
          /\ txn'.events = Append(txn.events, e) /\ txn'.too_large = txn.too_large
      BY <1>7, <1>16 DEF TypeOK
    <2>2. TypeOK' BY <1>2, <1>12, <1>16, <2>1 DEF TypeOK
    <2>3. OnTransaction' BY <1>1, <1>2, <1>12, <1>16 DEF OnTransaction, Whole
    <2>4. Accounted'
      <3>1. result'.events \o txn'.events = Append(txn.events, e) BY <1>6, <1>7, <1>16, <2>1, ConcatEmptySeq
      <3> QED BY <1>1, <1>2, <1>8, <1>12, <1>16, <3>1 DEF Accounted
    <2>5. Batching' BY <1>1, <1>2, <1>6, <1>7, <1>16, <2>1 DEF Batching
    <2>6. Decoding' BY <1>2, <1>9, <1>10, <1>16, <2>1 DEF Decoding, OwnColumns
    <2> QED BY <2>2, <2>3, <2>4, <2>5, <2>6
  <1> QED BY <1>11, <1>13, <1>14, <1>15, <1>16, PushEventCases

\* What is left of the transaction, or that it was too large.
LEMMA RecvCommitStep ==
  ASSUME IInv, RecvCommit PROVE IInv'
  <1> USE DEF IInv
  <1>1. up /\ result.kind = "none" /\ at <= Len(wal) /\ row = Len(wal[at]) + 1
    BY DEF RecvCommit, Receiving
  <1>2. /\ txn' = NoTxn /\ pending' = at /\ wal' = wal /\ subBatchSize' = subBatchSize
        /\ checkpoint' = checkpoint /\ up' = up /\ at' = at /\ row' = row /\ described' = described
        /\ cache' = cache /\ applied' = applied /\ handed' = handed /\ failures' = failures
    BY DEF RecvCommit, server
  <1>3. result' = IF txn.too_large
                  THEN [kind |-> "TransactionTooLarge", events |-> <<>>, ack |-> at]
                  ELSE [kind |-> "Batch", events |-> txn.events, ack |-> at]
    BY DEF RecvCommit
  <1>4. at \in 1 .. Len(wal) /\ wal[at] \in Seq(Rows) /\ Len(wal[at]) \in Nat /\ at \in Nat /\ row >= 1
    BY <1>1, WalType DEF TypeOK
  <1>5. /\ result' \in [kind : Kinds, events : Seq(Rows), ack : Nat] /\ result'.ack = at
        /\ txn.too_large => result'.kind = "TransactionTooLarge" /\ result'.events = <<>>
        /\ ~txn.too_large => result'.kind = "Batch" /\ result'.events = txn.events
    BY <1>3, <1>4, Values DEF TypeOK, Kinds
  <1>6. TypeOK' BY <1>2, <1>4, <1>5, Values DEF TypeOK
  <1>7. OnTransaction'
    <2>1. result'.kind \in Whole /\ txn'.events = <<>> BY <1>2, <1>5, Values DEF Whole
    <2>2. at = checkpoint + 1 /\ ~(at > Len(wal)) BY <1>1, <1>4 DEF OnTransaction
    <2> QED BY <1>1, <1>2, <1>4, <1>5, <2>1, <2>2 DEF OnTransaction
  <1>8. Accounted'
    <2> SUFFICES ASSUME ~txn.too_large PROVE handed \o txn.events = wal[at]
      BY <1>2, <1>5 DEF Accounted, Whole
    <2>1. handed \o (result.events \o txn.events) = SubSeq(wal[at], 1, row - 1)
      BY <1>1, <1>4 DEF Accounted, Whole
    <2>2. result.events \o txn.events = txn.events
      BY <1>1, ConcatEmptySeq DEF OnTransaction, TypeOK
    <2>3. row - 1 = Len(wal[at]) BY <1>1, <1>4
    <2>4. SubSeq(wal[at], 1, Len(wal[at])) = wal[at] BY <1>4, SubSeqFull
    <2> QED BY <2>1, <2>2, <2>3, <2>4
  <1>9. Batching'
    <2>1. ASSUME txn.too_large PROVE subBatchSize = 0 /\ Len(wal[at]) > MaxTxnEvents
      <3>1. subBatchSize = 0 /\ row - 1 > MaxTxnEvents BY <1>1, <1>4, <2>1 DEF Batching
      <3>2. row - 1 = Len(wal[at]) BY <1>1, <1>4
      <3> QED BY <3>1, <3>2
    <2> QED BY <1>2, <1>5, <2>1, Values DEF Batching
  <1>10. Decoding' BY <1>1, <1>2, <1>5, Values DEF Decoding, OwnColumns
  <1> QED BY <1>6, <1>7, <1>8, <1>9, <1>10

LEMMA HandleSubBatchStep ==
  ASSUME IInv, HandleSubBatch PROVE IInv'
  <1> USE DEF IInv
  <1>1. /\ result.kind = "SubBatch" /\ result' = NoResult /\ handed' = handed \o result.events
        /\ wal' = wal /\ subBatchSize' = subBatchSize /\ checkpoint' = checkpoint /\ up' = up
        /\ at' = at /\ row' = row /\ described' = described /\ cache' = cache /\ txn' = txn
        /\ pending' = pending /\ applied' = applied /\ failures' = failures
    BY DEF HandleSubBatch, server
  <1>2. handed \in Seq(Rows) /\ result.events \in Seq(Rows) /\ txn.events \in Seq(Rows) BY DEF TypeOK
  <1>3. handed' \in Seq(Rows) BY <1>1, <1>2, ConcatProperties
  <1>4. TypeOK' BY <1>1, <1>3, Values DEF TypeOK
  <1>5. up BY <1>1, Values DEF OnTransaction
  <1>6. row >= 1
    <2>1. row # 0 BY <1>1, <1>5, Values DEF OnTransaction
    <2> QED BY <2>1 DEF TypeOK
  <1>7. txn.events = <<>> /\ ~txn.too_large /\ subBatchSize > 0 BY <1>1 DEF Batching
  <1>8. OnTransaction' BY <1>1, <1>5, <1>6, Values DEF OnTransaction, Whole
  <1>9. Accounted'
    <2>1. handed \o (result.events \o txn.events) = SubSeq(wal[at], 1, row - 1)
      BY <1>1, <1>5, <1>6, <1>7 DEF Accounted, Whole
    <2>2. result.events \o txn.events = result.events BY <1>2, <1>7, ConcatEmptySeq
    <2>3. result'.events \o txn'.events = <<>> BY <1>1, <1>7, Values
    <2>4. handed' \o <<>> = handed' BY <1>3, ConcatEmptySeq
    <2> QED BY <1>1, <2>1, <2>2, <2>3, <2>4, Values DEF Accounted
  <1>10. Batching' BY <1>1, <1>7, Values, StreamAssumption DEF Batching, TypeOK
  <1>11. Decoding' BY <1>1, <1>7, Values DEF Decoding, OwnColumns
  <1> QED BY <1>4, <1>8, <1>9, <1>10, <1>11

\* On to the next transaction.
LEMMA HandleTransactionStep ==
  ASSUME IInv, HandleTransaction PROVE IInv'
  <1> USE DEF IInv
  <1>1. /\ result.kind \in Whole /\ result' = NoResult /\ checkpoint' = result.ack
        /\ applied' = pending /\ pending' = 0 /\ at' = at + 1 /\ row' = 0 /\ handed' = <<>>
        /\ wal' = wal /\ subBatchSize' = subBatchSize /\ up' = up /\ described' = described
        /\ cache' = cache /\ txn' = txn /\ failures' = failures
    BY DEF HandleTransaction, Whole
  <1>2. up /\ result.kind # "none" BY <1>1, Values DEF OnTransaction, Whole
  <1>3. result.ack = at /\ at = checkpoint + 1 /\ at <= Len(wal)
    <2>1. row # 0 BY <1>2, Values DEF OnTransaction
    <2> QED BY <1>1, <1>2, <2>1, WalType DEF OnTransaction, TypeOK
  <1>4. TypeOK'
    <2>1. Len(wal) \in Nat /\ checkpoint \in 0 .. Len(wal) BY WalType DEF TypeOK
    <2>2. checkpoint + 1 \in 0 .. Len(wal) /\ at + 1 \in Nat \ {0} BY <1>3, <2>1
    <2>3. checkpoint' \in 0 .. Len(wal) /\ at' \in Nat \ {0} BY <1>1, <1>3, <2>2
    <2> QED BY <1>1, <2>3, Values DEF TypeOK
  <1>5. txn.events = <<>> BY <1>1 DEF OnTransaction
  <1>6. OnTransaction'
    <2>1. at' = checkpoint' + 1 /\ up' BY <1>1, <1>2, <1>3
    <2>2. row' <= Len(wal[at']) + 1 \/ at' > Len(wal)
      <3> SUFFICES ASSUME ~(at' > Len(wal)) PROVE 0 <= Len(wal[at + 1]) + 1 BY <1>1
      <3>1. at + 1 \in 1 .. Len(wal) BY <1>1, WalType DEF TypeOK
      <3> QED BY <3>1, WalType
    <2> QED BY <1>1, <1>5, <2>1, <2>2, Values DEF OnTransaction, Whole
  <1>7. Accounted' /\ Batching' BY <1>1, Values DEF Accounted, Batching, Whole
  <1>8. Decoding' BY <1>1, <1>5, Values DEF Decoding, OwnColumns
  <1> QED BY <1>4, <1>6, <1>7, <1>8

LEMMA NextIInv == ASSUME IInv, [Next]_vars PROVE IInv'
  <1>1. CASE Connect BY <1>1, ConnectStep
  <1>2. CASE RecvBegin BY <1>2, RecvBeginStep
  <1>3. CASE RecvRelation BY <1>3, RecvRelationStep
  <1>4. CASE RecvRow BY <1>4, RecvRowStep
  <1>5. CASE RecvCommit BY <1>5, RecvCommitStep
  <1>6. CASE HandleSubBatch BY <1>6, HandleSubBatchStep
  <1>7. CASE HandleTransaction BY <1>7, HandleTransactionStep
  <1>8. CASE HandleSchemaChanged
    BY <1>8, DisconnectStep DEF HandleSchemaChanged, IInv, TypeOK
  <1>9. CASE Fail
    <2>1. failures' \in Nat BY <1>9 DEF Fail, IInv, TypeOK
    <2> QED BY <1>9, <2>1, DisconnectStep DEF Fail
  <1>10. CASE UNCHANGED vars
    <2> USE <1>10 DEF vars, server, IInv
    <2>1. TypeOK' BY DEF TypeOK
    <2>2. OnTransaction' BY DEF OnTransaction
    <2>3. Accounted' BY DEF Accounted
    <2>4. Batching' BY DEF Batching
    <2>5. Decoding' BY DEF Decoding, OwnColumns
    <2> QED BY <2>1, <2>2, <2>3, <2>4, <2>5
  <1> QED
    BY <1>1, <1>2, <1>3, <1>4, <1>5, <1>6, <1>7, <1>8, <1>9, <1>10 DEF Next, Stream

----------------------------------------------------------------------------
(* The inductive invariant: what was handed over, what is being returned    *)
(* and what is buffered make up the rows received, and all the stream may   *)
(* still decode has the columns in its cache.                               *)
THEOREM Inductive == Spec => []IInv
  <1>1. Init => IInv BY InitIInv
  <1>2. IInv /\ [Next]_vars => IInv' BY NextIInv
  <1> QED BY <1>1, <1>2, PTL DEF Spec

(* Rows are decoded with the columns they were encoded with, for any schema *)
(* changes at any place of any transaction and for any watched columns.     *)
THEOREM DecodesWithOwnColumns == Spec => []DecodedWithOwnColumns
  <1>1. IInv => DecodedWithOwnColumns BY DEF IInv, Decoding, OwnColumns, DecodedWithOwnColumns
  <1> QED BY <1>1, Inductive, PTL

(* Sub-batches and the final batch are exactly the transaction, and only a  *)
(* transaction over the limit is given up as too large.                     *)
THEOREM HandsOverWholeTransactions == Spec => []HandsOverTransactions
  <1>1. ASSUME IInv, result.kind = "SubBatch"
        PROVE  handed \o result.events = SubSeq(wal[at], 1, row - 1)
    <2> USE DEF IInv
    <2>1. txn.events = <<>> /\ ~txn.too_large BY <1>1 DEF Batching
    <2>2. up /\ row >= 1 BY <1>1, Values DEF OnTransaction, TypeOK
    <2>3. result.events \o txn.events = result.events BY <1>1, <2>1, ConcatEmptySeq DEF TypeOK
    <2> QED BY <1>1, <2>1, <2>2, <2>3 DEF Accounted, Whole
  <1>2. IInv => HandsOverTransactions
    BY <1>1 DEF IInv, Accounted, Batching, HandsOverTransactions
  <1> QED BY <1>2, Inductive, PTL

----------------------------------------------------------------------------
(* The positions of TransactionFeed: Ends is a recursive function, so that  *)
(* it satisfies its equation has to be shown, by least counterexamples.     *)

\* A set of natural numbers that is not empty has a least member.
LEMMA LeastNat ==
  ASSUME NEW S \in SUBSET Nat, S # {}
  PROVE  \E m \in S : \A k \in S : m <= k
  <1>1. IsWellFoundedOn(OpToRel(<, Nat), Nat) BY NatLessThanWellFounded
  <1>2. PICK m \in S : \A k \in S : ~(<<k, m>> \in OpToRel(<, Nat)) BY <1>1, WFMin
  <1>3. \A k \in S : ~(k < m) BY <1>2 DEF OpToRel
  <1>4. \A k \in S : m <= k
    <2> SUFFICES ASSUME NEW k \in S PROVE m <= k OBVIOUS
    <2>1. k \in Nat /\ m \in Nat OBVIOUS
    <2> QED BY <1>3, <2>1
  <1> QED BY <1>4

LEMMA EndsExist ==
  ASSUME TypeOK
  PROVE  \E f : f = [t \in 0 .. Len(wal) |-> IF t = 0 THEN 0 ELSE f[t - 1] + Len(wal[t])]
  <1> DEFINE N == Len(wal)
             l(t) == Len(wal[t])
             Upto(n, f) == f = [t \in 0 .. n |-> IF t = 0 THEN 0 ELSE f[t - 1] + l(t)]
             S == {n \in 0 .. N : ~ \E f : Upto(n, f)}
  <1>1. N \in Nat BY WalType
  <1> SUFFICES ASSUME S # {} PROVE FALSE BY <1>1
  <1>2. PICK m \in S : \A k \in S : m <= k
    <2>1. S \in SUBSET Nat BY <1>1
    <2> HIDE DEF S
    <2> QED BY <2>1, LeastNat
  <1>3. m # 0
    <2>1. Upto(0, [t \in 0 .. 0 |-> 0]) OBVIOUS
    <2> QED BY <2>1
  <1>4. m \in 0 .. N /\ m - 1 \in 0 .. N BY <1>1, <1>3
  <1>5. PICK f : Upto(m - 1, f)
    <2>1. m - 1 \notin S
      <3> HIDE DEF S
      <3> QED BY <1>1, <1>2, <1>4
    <2> QED BY <1>4, <2>1
  <1> DEFINE g == [t \in 0 .. m |-> IF t = m THEN f[m - 1] + l(m) ELSE f[t]]
  <1>6. Upto(m, g)
    <2>1. \A t \in 0 .. m - 1 : f[t] = IF t = 0 THEN 0 ELSE f[t - 1] + l(t) BY <1>5
    <2> HIDE DEF l
    <2>2. \A t \in 0 .. m : g[t] = IF t = m THEN f[m - 1] + l(m) ELSE f[t] OBVIOUS
    <2>3. g[m] = g[m - 1] + l(m) BY <1>2, <1>3, <2>2
    <2>4. \A t \in 0 .. m - 1 : g[t] = IF t = 0 THEN 0 ELSE g[t - 1] + l(t) BY <1>2, <1>3, <2>1, <2>2
    <2>5. g = [t \in 0 .. m |-> g[t]] OBVIOUS
    <2>6. \A t \in 0 .. m : g[t] = IF t = 0 THEN 0 ELSE g[t - 1] + l(t)
      <3> HIDE DEF g, S
      <3>1. \A t \in 0 .. m : t = m \/ t \in 0 .. m - 1 BY <1>4
      <3> QED BY <1>3, <2>3, <2>4, <3>1
    <2> HIDE DEF g
    <2> QED BY <2>5, <2>6
  <1>7. m \in 0 .. N /\ ~ \E h : Upto(m, h) BY <1>2
  <1> QED BY <1>6, <1>7

LEMMA EndsEquation ==
  ASSUME TypeOK
  PROVE  /\ Ends = [t \in 0 .. Len(wal) |-> IF t = 0 THEN 0 ELSE Ends[t - 1] + Len(wal[t])]
  BY EndsExist DEF Ends

LEMMA EndsPrime == ASSUME wal' = wal PROVE Ends' = Ends BY DEF Ends

LEMMA EndsFacts ==
  ASSUME TypeOK
  PROVE  /\ Len(wal) \in Nat /\ Ends[0] = 0 /\ \A t \in 0 .. Len(wal) : Ends[t] \in Nat
         /\ \A t \in 1 .. Len(wal) : Ends[t] = Ends[t - 1] + Len(wal[t])
  <1> DEFINE N == Len(wal)  S == {t \in 0 .. N : Ends[t] \notin Nat}
  <1>1. N \in Nat /\ \A t \in 1 .. N : Len(wal[t]) \in Nat BY WalType
  <1>2. Ends[0] = 0 BY <1>1, EndsEquation
  <1>3. \A t \in 1 .. N : Ends[t] = Ends[t - 1] + Len(wal[t])
    <2> SUFFICES ASSUME NEW t \in 1 .. N PROVE Ends[t] = Ends[t - 1] + Len(wal[t]) OBVIOUS
    <2>1. t \in 0 .. N /\ t # 0 BY <1>1
    <2> HIDE DEF N
    <2> QED BY <2>1, EndsEquation DEF N
  <1>4. S = {}
    <2> SUFFICES ASSUME S # {} PROVE FALSE OBVIOUS
    <2>1. S \in SUBSET Nat BY <1>1
    <2>2. PICK m \in S : \A k \in S : m <= k
      <3> HIDE DEF S
      <3> QED BY <2>1, LeastNat
    <2>3. m \in 1 .. N /\ m - 1 \in 0 .. N BY <1>1, <1>2
    <2>4. m - 1 \notin S
      <3> HIDE DEF S
      <3> QED BY <1>1, <2>2, <2>3
    <2>5. Ends[m - 1] \in Nat BY <2>3, <2>4
    <2>6. Ends[m] = Ends[m - 1] + Len(wal[m]) /\ Len(wal[m]) \in Nat BY <1>1, <1>3, <2>3
    <2>7. Ends[m] \in Nat BY <2>5, <2>6
    <2> QED BY <2>2, <2>7
  <1> QED BY <1>1, <1>2, <1>3, <1>4

LEMMA EndsMonotone ==
  ASSUME TypeOK, NEW s \in 0 .. Len(wal), NEW t \in 0 .. Len(wal), s <= t
  PROVE  Ends[s] <= Ends[t]
  <1> DEFINE N == Len(wal)  S == {u \in 0 .. N : s <= u /\ Ends[u] < Ends[s]}
  <1>1. N \in Nat /\ \A u \in 1 .. N : Len(wal[u]) \in Nat BY WalType
  <1>2. \A u \in 0 .. N : Ends[u] \in Nat BY EndsFacts
  <1>3. S = {}
    <2> SUFFICES ASSUME S # {} PROVE FALSE OBVIOUS
    <2>1. S \in SUBSET Nat BY <1>1
    <2>2. PICK m \in S : \A k \in S : m <= k
      <3> HIDE DEF S
      <3> QED BY <2>1, LeastNat
    <2>3. m \in 0 .. N /\ s <= m /\ Ends[m] < Ends[s] BY <2>2
    <2>4. s # m BY <1>2, <2>3
    <2>5. m \in 1 .. N /\ m - 1 \in 0 .. N /\ s <= m - 1 BY <1>1, <2>3, <2>4
    <2>6. m - 1 \notin S
      <3> HIDE DEF S
      <3> QED BY <1>1, <2>2, <2>5
    <2>7. ~(Ends[m - 1] < Ends[s]) BY <2>5, <2>6
    <2>8. Ends[m] = Ends[m - 1] + Len(wal[m]) BY <2>5, EndsFacts
    <2>9. Ends[m - 1] \in Nat /\ Ends[s] \in Nat /\ Len(wal[m]) \in Nat BY <1>1, <1>2, <2>5
    <2> QED BY <2>3, <2>7, <2>8, <2>9
  <1> QED BY <1>2, <1>3

\* The next position of the feed is the end of the next transaction, if it has rows.
LEMMA NextPosition ==
  ASSUME TypeOK, NEW t \in 1 .. Len(wal), Len(wal[t]) > 0
  PROVE  /\ Ends[t] \in Commits /\ Ends[t] > Ends[t - 1]
         /\ \A k \in Commits : k > Ends[t - 1] => Ends[t] <= k
  <1>1. Len(wal) \in Nat /\ t - 1 \in 0 .. Len(wal) /\ t \in 0 .. Len(wal) BY WalType
  <1>2. Ends[t] = Ends[t - 1] + Len(wal[t]) /\ Len(wal[t]) \in Nat /\ Ends[t - 1] \in Nat
    BY <1>1, EndsFacts, WalType
  <1>3. ASSUME NEW k \in Commits, k > Ends[t - 1] PROVE Ends[t] <= k
    <2>1. PICK u \in 1 .. Len(wal) : k = Ends[u] BY DEF Commits
    <2>2. u \in 0 .. Len(wal) /\ Ends[u] \in Nat BY <1>1, EndsFacts
    <2>3. ~(u <= t - 1)
      <3> SUFFICES ASSUME u <= t - 1 PROVE FALSE OBVIOUS
      <3>1. Ends[u] <= Ends[t - 1] BY <1>1, <2>2, EndsMonotone
      <3> QED BY <1>2, <1>3, <2>1, <2>2, <3>1
    <2>4. t <= u BY <1>1, <2>2, <2>3
    <2> QED BY <1>1, <2>1, <2>2, <2>4, EndsMonotone
  <1> QED BY <1>2, <1>3 DEF Commits

----------------------------------------------------------------------------
(* Refinement: each step is a step of TransactionFeed or changes nothing of *)
(* it.                                                                      *)

feed == <<up, Commits, Position, Len(handed)>>

LEMMA SameWal ==
  ASSUME [Next]_vars
  PROVE  wal' = wal /\ Ends' = Ends /\ Commits' = Commits
  <1>1. wal' = wal
    BY DEF Next, Stream, Connect, RecvBegin, RecvRelation, RecvRow, RecvCommit, HandleSubBatch,
           HandleTransaction, HandleSchemaChanged, Fail, vars
  <1>2. Ends' = Ends BY <1>1, EndsPrime
  <1>3. Commits' = Commits BY <1>1, <1>2 DEF Commits
  <1> QED BY <1>1, <1>2, <1>3

\* The transaction of whatever was returned.
LEMMA Returned ==
  ASSUME IInv, result.kind # "none"
  PROVE  /\ up /\ row >= 1 /\ at \in 1 .. Len(wal) /\ Position = Ends[at - 1]
         /\ Len(wal) \in Nat /\ at - 1 \in 0 .. Len(wal) /\ Len(wal[at]) \in Nat
         /\ Ends[at - 1] \in Nat /\ Ends[at] \in Nat /\ Ends[at] = Ends[at - 1] + Len(wal[at])
  <1>1. up /\ row >= 1 /\ at <= Len(wal) BY Values DEF IInv, OnTransaction, TypeOK
  <1>2. TypeOK /\ at \in Nat \ {0} BY DEF IInv, TypeOK
  <1>3. at \in 1 .. Len(wal) /\ at - 1 \in 0 .. Len(wal) /\ at \in 0 .. Len(wal) BY <1>1, <1>2, WalType
  <1> QED BY <1>1, <1>2, <1>3, WalType, EndsFacts DEF Position

LEMMA ConnectFeeds ==
  ASSUME IInv, Connect, Commits' = Commits, Ends' = Ends PROVE Feed!Connect
  <1>1. ~up /\ up' = TRUE /\ at' = checkpoint + 1 /\ handed' = <<>>
    BY DEF Connect, IInv, OnTransaction
  <1>2. Position' = Ends[checkpoint] /\ checkpoint \in 0 .. Len(wal)
    BY <1>1 DEF Position, IInv, TypeOK
  <1>3. Ends[checkpoint] \in Commits \cup {0}
    <2>1. checkpoint = 0 \/ checkpoint \in 1 .. Len(wal) BY <1>2, WalType DEF IInv
    <2> QED BY <2>1, EndsFacts DEF Commits, IInv
  <1> QED BY <1>1, <1>2, <1>3 DEF Feed!Connect

LEMMA HandleSubBatchFeeds ==
  ASSUME IInv, HandleSubBatch, Commits' = Commits, Ends' = Ends PROVE Feed!SubBatch
  <1>1. /\ result.kind = "SubBatch" /\ handed' = handed \o result.events
        /\ up' = up /\ at' = at
    BY DEF HandleSubBatch, server
  <1> DEFINE p == Ends[at - 1]  e == Ends[at]  m == Len(wal[at])  k == Len(handed)
  <1>2. /\ up /\ row >= 1 /\ at \in 1 .. Len(wal) /\ Position = p /\ m \in Nat
        /\ p \in Nat /\ e = p + m
    BY <1>1, Returned
  <1>3. /\ subBatchSize \in SubBatchSizes \ {0} /\ subBatchSize \in Nat /\ subBatchSize > 0
        /\ Len(result.events) = subBatchSize /\ txn.events = <<>> /\ ~txn.too_large
    BY <1>1, StreamAssumption DEF IInv, Batching, TypeOK
  <1>4. k + subBatchSize <= m /\ k \in Nat
    <2>1. k + Len(result.events) + Len(txn.events) = row - 1 /\ row - 1 \in 0 .. m
      BY <1>1, <1>2, <1>3, RowsInHand, WalType DEF IInv, Whole
    <2>2. k \in Nat /\ Len(txn.events) = 0 BY <1>3, Values DEF IInv, TypeOK
    <2> HIDE DEF k, m
    <2> QED BY <1>2, <1>3, <2>1, <2>2
  <1>5. Len(handed') = k + subBatchSize
    <2>1. handed \in Seq(Rows) /\ result.events \in Seq(Rows) BY DEF IInv, TypeOK
    <2>2. Len(handed \o result.events) = Len(handed) + Len(result.events)
      BY <2>1, ConcatProperties
    <2> QED BY <1>1, <1>3, <2>2
  <1>6. e \in Commits /\ e > p /\ \A c \in Commits : c > p => e <= c
    <2>1. m > 0
      <3> HIDE DEF k, m
      <3> QED BY <1>2, <1>3, <1>4
    <2> QED BY <1>2, <2>1, NextPosition DEF IInv
  <1>7. Feed!IsNext(e) BY <1>2, <1>6 DEF Feed!IsNext
  <1>8. p + k + subBatchSize <= e
    <2> HIDE DEF p, e, k, m
    <2> QED BY <1>2, <1>3, <1>4
  <1>9. Position' = Position BY <1>1 DEF Position
  <1> QED BY <1>1, <1>2, <1>3, <1>5, <1>6, <1>7, <1>8, <1>9 DEF Feed!SubBatch

LEMMA HandleTransactionFeeds ==
  ASSUME IInv, HandleTransaction, Commits' = Commits, Ends' = Ends
  PROVE  Feed!Finish \/ UNCHANGED feed
  <1>1. /\ result.kind \in Whole /\ result.kind # "none" /\ handed' = <<>>
        /\ up' = up /\ at' = at + 1
    BY DEF HandleTransaction, Whole
  <1> DEFINE p == Ends[at - 1]  e == Ends[at]  m == Len(wal[at])
  <1>2. /\ up /\ at \in 1 .. Len(wal) /\ Position = p /\ m \in Nat
        /\ p \in Nat /\ e \in Nat /\ e = p + m
    BY <1>1, Returned
  <1>3. Position' = e /\ Len(handed') = 0
    <2>1. at' - 1 = at BY <1>1, <1>2
    <2> QED BY <1>1, <1>2, <2>1 DEF Position
  <1>4. CASE m > 0
    <2>1. e \in Commits /\ e > p /\ \A c \in Commits : c > p => e <= c
      BY <1>2, <1>4, NextPosition DEF IInv
    <2>2. Feed!IsNext(Position') BY <1>2, <1>3, <2>1 DEF Feed!IsNext
    <2> QED BY <1>1, <1>2, <1>3, <2>2 DEF Feed!Finish
  <1>5. CASE m = 0
    <2>1. handed \in Seq(Rows) /\ result.events \in Seq(Rows) BY DEF IInv, TypeOK
    <2>2. Len(handed) = 0
      <3>1. CASE result.kind = "Batch"
        <4>1. handed \o result.events = wal[at] BY <3>1 DEF IInv, Accounted
        <4>2. Len(handed \o result.events) = Len(handed) + Len(result.events)
          BY <2>1, ConcatProperties
        <4> QED BY <1>5, <2>1, <4>1, <4>2
      <3>2. CASE result.kind = "TransactionTooLarge"
        BY <3>2, Values DEF IInv, Batching
      <3> QED BY <1>1, <3>1, <3>2 DEF Whole
    <2>3. Position' = Position BY <1>2, <1>3, <1>5
    <2> QED BY <1>1, <1>3, <2>2, <2>3 DEF feed
  <1> QED BY <1>2, <1>4, <1>5

LEMMA StepOfFeed ==
  ASSUME IInv, [Next]_vars
  PROVE  [Feed!Next]_<<up, Commits, Position, Len(handed)>>
  <1>1. Commits' = Commits /\ Ends' = Ends BY SameWal
  <1>2. CASE Connect BY <1>1, <1>2, ConnectFeeds DEF Feed!Next
  <1>3. CASE RecvBegin \/ RecvRelation \/ RecvRow \/ RecvCommit \/ UNCHANGED vars
    <2>1. up' = up /\ at' = at /\ handed' = handed
      BY <1>3 DEF RecvBegin, RecvRelation, RecvRow, RecvCommit, vars, server
    <2> QED BY <1>1, <2>1 DEF Position
  <1>4. CASE HandleSubBatch BY <1>1, <1>4, HandleSubBatchFeeds DEF Feed!Next
  <1>5. CASE HandleTransaction BY <1>1, <1>5, HandleTransactionFeeds DEF Feed!Next, feed
  <1>6. CASE HandleSchemaChanged \/ Fail
    <2>1. up /\ Disconnect
      BY <1>6, Values DEF HandleSchemaChanged, Fail, IInv, OnTransaction
    <2>2. ~up' /\ Position' = 0 /\ Len(handed') = 0 BY <2>1, Values DEF Disconnect, Position
    <2> QED BY <1>1, <2>1, <2>2 DEF Feed!Disconnect, Feed!Next
  <1> QED BY <1>2, <1>3, <1>4, <1>5, <1>6 DEF Next, Stream

(* recv_batch implements TransactionFeed: whatever schema changes, restarts *)
(* and oversized transactions, the loop gets the transactions in commit     *)
(* order, in full sub-batches and a rest.                                   *)
THEOREM ImplementsTransactionFeed == Spec => ImplementsFeed
  <1>1. Init => Feed!Init
    <2> SUFFICES ASSUME Init PROVE Feed!Init OBVIOUS
    <2>1. TypeOK BY InitIInv DEF IInv
    <2>2. ~up /\ Position = 0 /\ Len(handed) = 0 BY Values DEF Init, Position
    <2>3. Commits \subseteq Nat
      <3>1. \A t \in 1 .. Len(wal) : Ends[t] \in Nat
        <4>1. \A t \in 1 .. Len(wal) : t \in 0 .. Len(wal) BY <2>1, WalType
        <4> QED BY <2>1, <4>1, EndsFacts
      <3> QED BY <3>1 DEF Commits
    <2> QED BY <2>2, <2>3 DEF Feed!Init
  <1>2. IInv /\ [Next]_vars => [Feed!Next]_<<up, Commits, Position, Len(handed)>>
    BY StepOfFeed
  <1> QED BY Inductive, <1>1, <1>2, PTL DEF Spec, ImplementsFeed, Feed!Spec
----------------------------------------------------------------------------
(* The backfill.                                                            *)

Copying == {"transform", "write", "save"}
Running == {"fetch", "complete"} \cup Copying

CopyTypeOK ==
  /\ lsn \in Nat /\ confirmed \in Nat
  /\ table \in [Ids -> Nat] /\ changed \in [Ids -> Nat] /\ docs \in [Ids -> Nat]
  /\ status \in {"none", "InProgress", "Completed"}
  /\ last_id \in 0 .. MaxId /\ cursor \in 0 .. MaxId
  /\ {watermark_lsn, watermark, first} \subseteq Nat \cup {NoLsn}
  /\ pc \in {"down", "handover", "stream"} \cup Running
  /\ DOMAIN rows \subseteq Ids /\ \A i \in DOMAIN rows : rows[i] \in Nat
  /\ has_more \in BOOLEAN /\ runs \in Nat

\* No change is ahead of the WAL; before the first watermark nothing was done.
Started ==
  /\ \A i \in Ids : changed[i] <= lsn
  /\ first <= lsn
  /\ first = NoLsn => /\ pc = "down" /\ status = "none" /\ last_id = None
                      /\ \A i \in Ids : docs[i] = Absent

Matches(i) == Untouched(i) => docs[i] = table[i]

\* What is copied is right: a document of an untouched row is the row, and
\* up to the cursor there is one for each row.
Copied ==
  /\ \A i \in Ids : Untouched(i) => docs[i] \in {Absent, table[i]}
  /\ \A i \in Ids : i <= last_id => Matches(i)
  /\ pc \in {"fetch"} \cup Copying => cursor = last_id

\* The page in hand starts after the cursor and leaves no row out up to its
\* last one, nor after that if it is the last page.
Page ==
  pc \in Copying =>
    /\ DOMAIN rows # {} /\ \A i \in DOMAIN rows : i > cursor
    /\ \A i \in DOMAIN rows : Untouched(i) => rows[i] = table[i]
    /\ \A i \in Ids \ DOMAIN rows : Untouched(i) /\ i > cursor =>
         table[i] = Absent \/ (has_more /\ \A j \in DOMAIN rows : j < i)
    /\ pc = "save" => \A i \in DOMAIN rows : Matches(i)

\* The last page was saved only if there was nothing left to copy.
Finished ==
  /\ pc = "complete" \/ status = "Completed" => \A i \in Ids : Matches(i)
  /\ pc \in {"handover", "stream"} => status = "Completed"
  /\ status = "Completed" => pc \in {"down", "handover", "stream"}

\* A backfill that was never interrupted stores the first watermark taken.
OneRun ==
  /\ runs = 0 <=> first = NoLsn
  /\ runs = 1 /\ pc \in Running => watermark = first
  /\ runs = 1 /\ status = "Completed" => watermark_lsn = first

CopyIInv == CopyTypeOK /\ Started /\ Copied /\ Page /\ Finished /\ OneRun

----------------------------------------------------------------------------
(* Lemmas on the operators.                                                *)

LEMMA CopyConstants ==
  /\ MaxId \in Nat /\ BatchSize \in Nat /\ BatchSize > 0
  /\ Ids \subseteq Nat /\ IsFiniteSet(Ids) /\ NoLsn \in Int /\ NoLsn < 0 /\ Absent \in Nat
  /\ \A i \in Ids : i > 0 /\ i <= MaxId
  <1>1. MaxId \in Nat /\ BatchSize \in Nat \ {0} BY BackfillAssumption
  <1>2. IsFiniteSet(1 .. MaxId) BY <1>1, FS_Interval
  <1> QED BY <1>1, <1>2 DEF Ids, NoLsn, Absent

\* A nonempty set of ids has a first one.
LEMMA FirstId ==
  ASSUME NEW S \in SUBSET Ids, S # {}
  PROVE  \E i \in S : \A j \in S : i <= j
  <1>1. S \subseteq Nat BY CopyConstants
  <1>2. IsWellFoundedOn(OpToRel(<, Nat), Nat) BY NatLessThanWellFounded
  <1>3. PICK i \in S : \A j \in S : ~(<<j, i>> \in OpToRel(<, Nat)) BY <1>1, <1>2, WFMin
  <1>4. \A j \in S : ~(j < i) BY <1>1, <1>3 DEF OpToRel
  <1> QED BY <1>1, <1>4

\* And a last one.
LEMMA LastIdExists ==
  ASSUME NEW S \in SUBSET Ids, S # {}
  PROVE  \E i \in S : \A j \in S : j <= i
  <1> DEFINE M == {MaxId + 1 - i : i \in S}
  <1>1. MaxId \in Nat /\ S \subseteq Nat /\ \A i \in S : i > 0 /\ i <= MaxId BY CopyConstants
  <1>2. M \in SUBSET Ids /\ M # {}
    <2>1. \A i \in S : MaxId + 1 - i \in 1 .. MaxId BY <1>1
    <2> QED BY <2>1 DEF Ids
  <1>3. PICK m \in M : \A k \in M : m <= k BY <1>2, FirstId
  <1>4. PICK i \in S : m = MaxId + 1 - i BY DEF M
  <1>5. \A j \in S : MaxId + 1 - i <= MaxId + 1 - j BY <1>3, <1>4
  <1> QED BY <1>1, <1>5

\* LastId is the last row of the page.
LEMMA LastIdIsLast ==
  ASSUME DOMAIN rows \subseteq Ids, DOMAIN rows # {}
  PROVE  LastId \in DOMAIN rows /\ \A j \in DOMAIN rows : j <= LastId
  BY LastIdExists DEF LastId

\* The first rows of S: no row of S before one of them is left out, there is
\* one if S has one, and they are all of S if S fits.
LEMMA FirstOfProperties ==
  ASSUME NEW S \in SUBSET Ids, NEW n \in Nat, n > 0
  PROVE  /\ FirstOf(S, n) \subseteq S
         /\ \A i \in FirstOf(S, n), j \in S : j <= i => j \in FirstOf(S, n)
         /\ S # {} => FirstOf(S, n) # {}
         /\ Cardinality(S) <= n => FirstOf(S, n) = S
  <1> DEFINE upto(i) == {j \in S : j <= i}
  <1>0. S \subseteq Nat /\ IsFiniteSet(S) BY CopyConstants, FS_Subset
  <1>1. \A i : IsFiniteSet(upto(i)) /\ Cardinality(upto(i)) \in Nat
    BY <1>0, FS_Subset, FS_CardinalityType
  <1>2. FirstOf(S, n) = {i \in S : Cardinality(upto(i)) <= n} BY DEF FirstOf
  <1>3. ASSUME NEW i \in FirstOf(S, n), NEW j \in S, j <= i PROVE j \in FirstOf(S, n)
    <2>1. i \in S /\ Cardinality(upto(i)) <= n BY <1>2
    <2>2. upto(j) \subseteq upto(i)
      <3>1. \A k \in S : k <= j => k <= i BY <1>0, <1>3, <2>1
      <3> QED BY <3>1
    <2>3. Cardinality(upto(j)) <= Cardinality(upto(i)) BY <1>1, <2>2, FS_Subset
    <2> HIDE DEF upto
    <2>4. Cardinality(upto(j)) <= n BY <1>1, <2>1, <2>3
    <2> QED BY <1>2, <2>4
  <1>4. ASSUME S # {} PROVE FirstOf(S, n) # {}
    <2>1. PICK i \in S : \A j \in S : i <= j BY <1>4, FirstId
    <2>2. upto(i) = {i}
      <3>1. \A j \in S : j <= i <=> j = i BY <1>0, <2>1
      <3> QED BY <3>1
    <2>3. Cardinality(upto(i)) = 1 BY <2>2, FS_Singleton
    <2> QED BY <1>2, <2>3
  <1>5. ASSUME Cardinality(S) <= n PROVE FirstOf(S, n) = S
    <2>1. SUFFICES ASSUME NEW i \in S PROVE Cardinality(upto(i)) <= n BY <1>2
    <2>2. upto(i) \subseteq S OBVIOUS
    <2>3. Cardinality(upto(i)) <= Cardinality(S) /\ Cardinality(S) \in Nat
      BY <1>0, <2>2, FS_Subset, FS_CardinalityType
    <2> HIDE DEF upto
    <2> QED BY <1>1, <1>5, <2>3
  <1> QED BY <1>2, <1>3, <1>4, <1>5

----------------------------------------------------------------------------
(* The steps.                                                              *)

LEMMA CopyInitIInv == BackfillInit => CopyIInv
  <1> SUFFICES ASSUME BackfillInit PROVE CopyIInv OBVIOUS
  <1>1. CopyTypeOK
    <2>1. table \in [Ids -> {Absent, 1}] /\ table \in [Ids -> Nat] BY CopyConstants DEF BackfillInit, Absent
    <2>2. changed \in [Ids -> Nat] /\ docs \in [Ids -> Nat] BY CopyConstants DEF BackfillInit, Absent
    <2>3. DOMAIN rows = {} BY DEF BackfillInit, NoRows
    <2>4. \A i \in DOMAIN rows : rows[i] \in Nat BY <2>3
    <2>5. last_id \in 0 .. MaxId /\ cursor \in 0 .. MaxId BY CopyConstants DEF BackfillInit, None
    <2>6. {watermark_lsn, watermark, first} \subseteq Nat \cup {NoLsn} BY DEF BackfillInit
    <2>7. DOMAIN rows \subseteq Ids BY <2>3
    <2> QED BY <2>1, <2>2, <2>4, <2>5, <2>6, <2>7 DEF BackfillInit, CopyTypeOK
  <1>2. Started /\ Copied /\ Page /\ Finished /\ OneRun
    BY CopyConstants DEF BackfillInit, Started, Copied, Page, Finished, OneRun, Untouched, Running, Copying, None, NoLsn
  <1> QED BY <1>1, <1>2 DEF CopyIInv

\* A row the application writes is not untouched any more.
LEMMA WriteStep ==
  ASSUME CopyIInv, NEW i \in Ids, Write(i) PROVE CopyIInv'
  <1> USE DEF CopyIInv
  <1>1. PICK v \in {Absent, lsn + 1} : table' = [table EXCEPT ![i] = v] BY DEF Write
  <1>2. lsn \in Nat /\ lsn' = lsn + 1 /\ v \in Nat BY CopyConstants DEF CopyTypeOK, Write
  <1>3. /\ changed' = [changed EXCEPT ![i] = lsn + 1] /\ first' = first /\ docs' = docs
        /\ pc' = pc /\ status' = status /\ last_id' = last_id /\ cursor' = cursor /\ rows' = rows
        /\ has_more' = has_more /\ runs' = runs /\ watermark' = watermark
        /\ watermark_lsn' = watermark_lsn /\ confirmed' = confirmed
    BY DEF Write, progress, run, history
  <1>4. CopyTypeOK' BY <1>1, <1>2, <1>3 DEF CopyTypeOK
  <1>5. first <= lsn /\ first \in Int BY CopyConstants DEF CopyTypeOK, Started
  <1>6. \A j \in Ids : changed[j] \in Nat /\ changed[j] <= lsn BY DEF CopyTypeOK, Started
  <1>7. \A j \in Ids : Untouched(j)' => j # i /\ Untouched(j) /\ table'[j] = table[j]
    BY <1>1, <1>2, <1>3, <1>5 DEF Untouched, CopyTypeOK
  <1>8. Started'
    <2>1. \A j \in Ids : changed'[j] <= lsn' BY <1>2, <1>3, <1>6 DEF CopyTypeOK
    <2> QED BY <1>2, <1>3, <1>5, <2>1 DEF Started
  <1>9. \A j \in Ids : Matches(j) => Matches(j)' BY <1>3, <1>7 DEF Matches
  <1>10. Copied' BY <1>3, <1>7, <1>9 DEF Copied
  <1>11. Page'
    <2> SUFFICES ASSUME pc \in Copying PROVE Page' BY <1>3 DEF Page
    <2>1. DOMAIN rows \subseteq Ids BY DEF CopyTypeOK
    <2> QED BY <1>3, <1>7, <1>9, <2>1 DEF Page
  <1>12. Finished' BY <1>3, <1>9 DEF Finished
  <1>13. OneRun' BY <1>3 DEF OneRun
  <1> QED BY <1>4, <1>8, <1>10, <1>11, <1>12, <1>13

\* Nothing the copy depends on moves.
LEMMA OldInstanceAcksStep ==
  ASSUME CopyIInv, OldInstanceAcks PROVE CopyIInv'
  <1> USE DEF CopyIInv
  <1>1. UNCHANGED <<pgVars, progress, docs, pc, run, history>> BY DEF OldInstanceAcks
  <1>2. confirmed' \in Nat BY DEF OldInstanceAcks, CopyTypeOK
  <1>3. CopyTypeOK' BY <1>1, <1>2 DEF CopyTypeOK, pgVars, progress, run, history
  <1> QED
    BY <1>1, <1>3 DEF Started, Copied, Matches, Page, Finished, OneRun, Untouched,
                      pgVars, progress, run, history

\* A stop loses the run's own state only.
LEMMA StopStep ==
  ASSUME CopyIInv, Stop, UNCHANGED <<pgVars, progress, history>>, confirmed' = confirmed,
         docs' \in [Ids -> Nat],
         \A i \in Ids : docs'[i] = docs[i] \/ (first # NoLsn /\ (Untouched(i) => docs'[i] = table[i]))
  PROVE  CopyIInv'
  <1> USE DEF CopyIInv
  <1>1. pc' = "down" /\ rows' = NoRows /\ cursor' = None /\ watermark' = NoLsn /\ has_more' = FALSE
    BY DEF Stop
  <1>2. /\ lsn' = lsn /\ table' = table /\ changed' = changed /\ status' = status
        /\ last_id' = last_id /\ watermark_lsn' = watermark_lsn /\ first' = first /\ runs' = runs
    BY DEF pgVars, progress, history
  <1>3. CopyTypeOK'
    <2>1. DOMAIN rows' = {} BY <1>1 DEF NoRows
    <2>2. DOMAIN rows' \subseteq Ids /\ \A i \in DOMAIN rows' : rows'[i] \in Nat BY <2>1
    <2>3. cursor' \in 0 .. MaxId BY <1>1, CopyConstants DEF None
    <2>4. {watermark_lsn', watermark', first'} \subseteq Nat \cup {NoLsn} BY <1>1, <1>2 DEF CopyTypeOK
    <2> QED BY <1>1, <1>2, <2>2, <2>3, <2>4 DEF CopyTypeOK
  <1>4. \A i \in Ids : Untouched(i)' <=> Untouched(i) BY <1>2 DEF Untouched
  <1>5. \A i \in Ids : Matches(i) => Matches(i)' BY <1>2, <1>4 DEF Matches
  <1>6. Started' BY <1>1, <1>2 DEF Started
  <1>7. Copied' BY <1>1, <1>2, <1>4, <1>5 DEF Copied, Copying
  <1>8. Page' /\ Finished' /\ OneRun'
    BY <1>1, <1>2, <1>5 DEF Page, Finished, OneRun, Copying, Running
  <1> QED BY <1>3, <1>6, <1>7, <1>8

LEMMA CrashStep ==
  ASSUME CopyIInv, Crash PROVE CopyIInv'
  <1>1. docs' \in [Ids -> Nat] BY DEF CopyIInv, CopyTypeOK, Crash
  <1> QED BY <1>1, StopStep DEF Crash

LEMMA BeginStep ==
  ASSUME CopyIInv, Begin PROVE CopyIInv'
  <1> USE DEF CopyIInv
  <1>1. /\ watermark' = lsn /\ cursor' = last_id /\ pc' = "fetch" /\ runs' = runs + 1
        /\ first' = IF first = NoLsn THEN lsn ELSE first
        /\ status # "Completed" /\ pc = "down"
    BY DEF Begin
  <1>2. /\ lsn' = lsn /\ table' = table /\ changed' = changed /\ status' = status
        /\ last_id' = last_id /\ watermark_lsn' = watermark_lsn /\ confirmed' = confirmed
        /\ docs' = docs /\ rows' = rows /\ has_more' = has_more
    BY DEF Begin, pgVars, progress
  <1>3. CopyTypeOK' BY <1>1, <1>2 DEF CopyTypeOK, Running
  <1>4. first' # NoLsn /\ first' <= lsn
    BY <1>1, CopyConstants DEF CopyTypeOK, Started
  <1>5. Started' BY <1>1, <1>2, <1>4 DEF Started
  <1>6. CASE first = NoLsn
    <2>1. last_id = None /\ \A i \in Ids : docs[i] = Absent BY <1>6 DEF Started
    <2>2. \A i \in Ids : i > None BY CopyConstants DEF None
    <2>3. Copied' BY <1>1, <1>2, <2>1, <2>2, CopyConstants DEF Copied, Matches, None
    <2> QED
      BY <1>1, <1>2, <1>3, <1>4, <1>5, <1>6, <2>3 DEF Page, Finished, OneRun, Copying, Running, CopyTypeOK
  <1>7. CASE first # NoLsn
    <2>1. first' = first BY <1>1, <1>7
    <2>2. Copied' BY <1>1, <1>2, <2>1 DEF Copied, Matches, Untouched
    <2>3. runs \in Nat /\ runs # 0 BY <1>7 DEF CopyTypeOK, OneRun
    <2> QED
      BY <1>1, <1>2, <1>3, <1>4, <1>5, <2>1, <2>2, <2>3 DEF Page, Finished, OneRun, Copying
  <1> QED BY <1>6, <1>7

\* While a backfill runs, the first watermark has been taken.
LEMMA RunningStarted == ASSUME CopyIInv, pc # "down" PROVE first # NoLsn
  BY DEF CopyIInv, Started

\* A page is the first rows after the cursor; the table ends with it unless
\* there was one row more.
LEMMA FetchStep ==
  ASSUME CopyIInv, Fetch PROVE CopyIInv'
  <1> USE DEF CopyIInv
  <1> DEFINE D == FirstOf(After(cursor), BatchSize)
  <1>1. /\ pc = "fetch" /\ rows' = [i \in D |-> table[i]] /\ has_more' = HasMore
        /\ pc' = IF After(cursor) = {} THEN "complete" ELSE "transform"
    BY DEF Fetch
  <1>2. /\ lsn' = lsn /\ table' = table /\ changed' = changed /\ status' = status
        /\ last_id' = last_id /\ watermark_lsn' = watermark_lsn /\ confirmed' = confirmed
        /\ docs' = docs /\ watermark' = watermark /\ cursor' = cursor /\ first' = first /\ runs' = runs
    BY DEF Fetch, pgVars, progress, history
  <1>3. After(cursor) \in SUBSET Ids BY DEF After
  <1>4. /\ D \subseteq After(cursor) /\ (After(cursor) # {} => D # {})
        /\ \A i \in D, j \in After(cursor) : j <= i => j \in D
        /\ (Cardinality(After(cursor)) <= BatchSize => D = After(cursor))
    BY <1>3, CopyConstants, FirstOfProperties
  <1>5. DOMAIN rows' = D /\ \A i \in D : rows'[i] = table[i] BY <1>1
  <1>6. HasMore \in BOOLEAN BY DEF HasMore
  <1> HIDE DEF D
  <1>7. CopyTypeOK' BY <1>1, <1>2, <1>3, <1>4, <1>5, <1>6 DEF CopyTypeOK, Running, Copying
  <1>8. \A i \in Ids : /\ Untouched(i)' <=> Untouched(i)
                       /\ Matches(i)' <=> Matches(i)
    BY <1>2 DEF Untouched, Matches
  <1>9. Started' BY <1>1, <1>2 DEF Started
  <1>10. Copied' BY <1>1, <1>2, <1>8 DEF Copied
  <1>11. Cardinality(After(cursor)) \in Nat
    BY <1>3, CopyConstants, FS_Subset, FS_CardinalityType
  <1>12. Page'
    <2> SUFFICES ASSUME pc' \in Copying PROVE Page' BY DEF Page
    <2>1. pc' = "transform" /\ After(cursor) # {} BY <1>1 DEF Copying
    <2>2. D # {} /\ \A i \in D : i > cursor BY <1>4, <2>1 DEF After
    <2>3. ASSUME NEW i \in Ids \ D, i > cursor, table[i] # Absent
          PROVE  HasMore /\ \A j \in D : j < i
      <3>1. i \in After(cursor) BY <2>3 DEF After
      <3>2. ~(Cardinality(After(cursor)) <= BatchSize) BY <1>4, <2>3, <3>1
      <3>3. HasMore BY <1>11, <3>2, CopyConstants DEF HasMore
      <3>4. \A j \in D : ~(i <= j) BY <1>4, <2>3, <3>1
      <3>5. \A j \in D : j \in Nat /\ i \in Nat BY <1>3, <1>4, CopyConstants
      <3> QED BY <3>3, <3>4, <3>5
    <2> QED BY <1>1, <1>2, <1>5, <1>8, <2>1, <2>2, <2>3 DEF Page
  <1>13. Finished'
    <2>1. CASE After(cursor) = {}
      <3>1. ASSUME NEW i \in Ids, Untouched(i) PROVE docs[i] = table[i]
        <4>1. CASE i <= cursor BY <1>1, <3>1, <4>1 DEF Copied, Matches
        <4>2. CASE i > cursor
          <5>1. table[i] = Absent BY <2>1, <4>2 DEF After
          <5> QED BY <3>1, <5>1 DEF Copied
        <4> QED BY <4>1, <4>2, CopyConstants DEF CopyTypeOK
      <3> QED BY <1>1, <1>2, <1>8, <2>1, <3>1 DEF Finished, Matches
    <2>2. CASE After(cursor) # {} BY <1>1, <1>2, <1>8, <2>2 DEF Finished
    <2> QED BY <2>1, <2>2
  <1>14. OneRun' BY <1>1, <1>2 DEF OneRun, Running, Copying, Finished
  <1> QED BY <1>7, <1>9, <1>10, <1>12, <1>13, <1>14

LEMMA TransformStep ==
  ASSUME CopyIInv, Transform PROVE CopyIInv'
  <1> USE DEF CopyIInv
  <1>1. pc = "transform" /\ pc' = "write" BY DEF Transform
  <1>2. /\ lsn' = lsn /\ table' = table /\ changed' = changed /\ status' = status
        /\ last_id' = last_id /\ watermark_lsn' = watermark_lsn /\ confirmed' = confirmed
        /\ docs' = docs /\ watermark' = watermark /\ cursor' = cursor /\ first' = first /\ runs' = runs
        /\ rows' = rows /\ has_more' = has_more
    BY DEF Transform, pgVars, progress, history, run
  <1>3. CopyTypeOK' BY <1>1, <1>2 DEF CopyTypeOK, Running, Copying
  <1>4. \A i \in Ids : /\ Untouched(i)' <=> Untouched(i)
                       /\ Matches(i)' <=> Matches(i)
    BY <1>2 DEF Untouched, Matches
  <1>5. Started' /\ Copied' BY <1>1, <1>2, <1>4 DEF Started, Copied, Copying
  <1>6. Page' BY <1>1, <1>2, <1>4 DEF Page, Copying, CopyTypeOK
  <1>7. Finished' /\ OneRun' BY <1>1, <1>2, <1>4 DEF Finished, OneRun, Copying, Running
  <1> QED BY <1>3, <1>5, <1>6, <1>7

\* What a page leaves in the namespace.
LEMMA WrittenDocs ==
  ASSUME CopyIInv, pc = "write"
  PROVE  /\ Written \in [Ids -> Nat]
         /\ \A i \in Ids : Written[i] = docs[i] \/ (Untouched(i) => Written[i] = table[i])
         /\ \A i \in DOMAIN rows : Untouched(i) => Written[i] = table[i]
         /\ \A i \in Ids : Matches(i) => (Untouched(i) => Written[i] = table[i])
  <1> USE DEF CopyIInv
  <1>1. DOMAIN rows \subseteq Ids /\ \A i \in DOMAIN rows : rows[i] \in Nat BY DEF CopyTypeOK
  <1>2. \A i \in Ids : Written[i] = IF i \in DOMAIN rows THEN rows[i] ELSE docs[i] BY DEF Written
  <1>3. \A i \in DOMAIN rows : Untouched(i) => rows[i] = table[i] BY DEF Page, Copying
  <1>4. Written \in [Ids -> Nat] BY <1>1 DEF Written, CopyTypeOK
  <1> QED BY <1>1, <1>2, <1>3, <1>4 DEF Matches

LEMMA WritePageStep ==
  ASSUME CopyIInv, docs' = Written, pc = "write", pc' \in {"write", "save"},
         UNCHANGED <<pgVars, confirmed, progress, run, history>>
  PROVE  CopyIInv'
  <1> USE DEF CopyIInv
  <1>2. /\ lsn' = lsn /\ table' = table /\ changed' = changed /\ status' = status
        /\ last_id' = last_id /\ watermark_lsn' = watermark_lsn /\ confirmed' = confirmed
        /\ watermark' = watermark /\ cursor' = cursor /\ first' = first /\ runs' = runs
        /\ rows' = rows /\ has_more' = has_more
    BY DEF pgVars, progress, history, run
  <1>3. CopyTypeOK' BY <1>2, WrittenDocs DEF CopyTypeOK, Running, Copying
  <1>4. first # NoLsn BY RunningStarted
  <1>5. \A i \in Ids : Untouched(i)' <=> Untouched(i) BY <1>2 DEF Untouched
  <1>6. \A i \in Ids : Matches(i) => Matches(i)' BY <1>2, <1>5, WrittenDocs DEF Matches
  <1>7. \A i \in DOMAIN rows : Matches(i)' BY <1>2, <1>5, WrittenDocs DEF Matches, CopyTypeOK
  <1>8. Started' BY <1>2, <1>4 DEF Started
  <1>9. Copied'
    <2>1. \A i \in Ids : Untouched(i) => Written[i] \in {Absent, table[i]}
      BY WrittenDocs DEF Copied
    <2> QED BY <1>2, <1>5, <1>6, <2>1 DEF Copied, Copying
  <1>10. Page' BY <1>2, <1>5, <1>7 DEF Page, Copying, CopyTypeOK
  <1>11. Finished' BY <1>2, <1>6 DEF Finished
  <1>12. OneRun' BY <1>2 DEF OneRun, Running, Copying
  <1> QED BY <1>3, <1>8, <1>9, <1>10, <1>11, <1>12

\* The cursor moves to the last row of a page all of whose rows are written.
LEMMA SavePageStep ==
  ASSUME CopyIInv, SavePage PROVE CopyIInv'
  <1> USE DEF CopyIInv
  <1>1. /\ pc = "save" /\ status' = "InProgress" /\ last_id' = LastId /\ cursor' = LastId
        /\ rows' = NoRows /\ has_more' = FALSE
        /\ pc' = IF has_more THEN "fetch" ELSE "complete"
    BY DEF SavePage
  <1>2. /\ lsn' = lsn /\ table' = table /\ changed' = changed
        /\ watermark_lsn' = watermark_lsn /\ confirmed' = confirmed
        /\ docs' = docs /\ watermark' = watermark /\ first' = first /\ runs' = runs
    BY DEF SavePage, pgVars, history
  <1>3. DOMAIN rows \subseteq Ids /\ DOMAIN rows # {} BY <1>1 DEF CopyTypeOK, Page, Copying
  <1>4. LastId \in Ids /\ LastId \in DOMAIN rows /\ \A j \in DOMAIN rows : j <= LastId
    BY <1>3, LastIdIsLast
  <1>5. LastId \in 0 .. MaxId BY <1>4 DEF Ids
  <1>6. CopyTypeOK' BY <1>1, <1>2, <1>5 DEF CopyTypeOK, Running, Copying, NoRows
  <1>7. \A i \in Ids : /\ Untouched(i)' <=> Untouched(i)
                       /\ Matches(i)' <=> Matches(i)
    BY <1>2 DEF Untouched, Matches
  <1>8. \A i \in Ids : Matches(i) \/ (has_more /\ i > LastId)
    <2> SUFFICES ASSUME NEW i \in Ids, Untouched(i), docs[i] # table[i] PROVE has_more /\ i > LastId
      BY DEF Matches
    <2>1. ~Matches(i) BY DEF Matches
    <2>2. i \notin DOMAIN rows BY <1>1, <2>1 DEF Page, Copying
    <2>3. i > cursor BY <1>1, <2>1, CopyConstants DEF Copied, Copying, CopyTypeOK
    <2>4. table[i] # Absent BY DEF Copied
    <2> QED BY <1>1, <1>4, <2>2, <2>3, <2>4, CopyConstants DEF Page, Copying
  <1>9. Started'
    BY <1>1, <1>2, RunningStarted DEF Started
  <1>10. Copied'
    <2>1. \A i \in Ids : i <= LastId => Matches(i) BY <1>4, <1>8, CopyConstants
    <2> QED BY <1>1, <1>2, <1>7, <2>1 DEF Copied
  <1>11. Page' BY <1>1 DEF Page, Copying
  <1>12. Finished' BY <1>1, <1>2, <1>7, <1>8 DEF Finished
  <1>13. OneRun' BY <1>1, <1>2 DEF OneRun, Running, Copying
  <1> QED BY <1>6, <1>9, <1>10, <1>11, <1>12, <1>13

LEMMA OperationFailsStep ==
  ASSUME CopyIInv, OperationFails PROVE CopyIInv'
  <1>1. /\ pc \in {"fetch", "transform", "write", "save"}
        /\ UNCHANGED <<pgVars, progress, history>> /\ confirmed' = confirmed
    BY DEF OperationFails
  <1>2. docs' = docs \/ (pc = "write" /\ docs' = Written) BY DEF OperationFails
  <1>3. CASE Stop
    <2>1. first # NoLsn BY <1>1, RunningStarted
    <2>2. CASE docs' = docs
      <3>1. docs' \in [Ids -> Nat] BY <2>2 DEF CopyIInv, CopyTypeOK
      <3> QED BY <1>1, <1>3, <2>2, <3>1, StopStep
    <2>3. CASE pc = "write" /\ docs' = Written
      <3>1. /\ docs' \in [Ids -> Nat]
            /\ \A i \in Ids : docs'[i] = docs[i] \/ (Untouched(i) => docs'[i] = table[i])
        BY <2>3, WrittenDocs
      <3> QED BY <1>1, <1>3, <2>1, <3>1, StopStep
    <2> QED BY <1>2, <2>2, <2>3
  <1>4. CASE UNCHANGED <<pc, run>>
    <2>1. CASE docs' = docs
      BY <1>1, <1>4, <2>1 DEF CopyIInv, CopyTypeOK, Started, Copied, Matches, Page, Finished, OneRun, Untouched,
                              pgVars, progress, run, history
    <2>2. CASE pc = "write" /\ docs' = Written
      BY <1>1, <1>4, <2>2, WritePageStep
    <2> QED BY <1>2, <2>1, <2>2
  <1> QED BY <1>3, <1>4 DEF OperationFails

LEMMA CompleteStep ==
  ASSUME CopyIInv, Complete PROVE CopyIInv'
  <1> USE DEF CopyIInv
  <1>1. /\ pc = "complete" /\ pc' = "handover" /\ status' = "Completed" /\ watermark_lsn' = watermark
    BY DEF Complete
  <1>2. /\ lsn' = lsn /\ table' = table /\ changed' = changed /\ last_id' = last_id
        /\ confirmed' = confirmed /\ docs' = docs /\ watermark' = watermark /\ cursor' = cursor
        /\ first' = first /\ runs' = runs /\ rows' = rows /\ has_more' = has_more
    BY DEF Complete, pgVars, history, run
  <1>3. CopyTypeOK' BY <1>1, <1>2 DEF CopyTypeOK
  <1>4. \A i \in Ids : /\ Untouched(i)' <=> Untouched(i)
                       /\ Matches(i)' <=> Matches(i)
    BY <1>2 DEF Untouched, Matches
  <1>5. first # NoLsn BY <1>1, RunningStarted
  <1>6. Started' /\ Copied' BY <1>1, <1>2, <1>4, <1>5 DEF Started, Copied, Copying
  <1>7. Page' /\ Finished' /\ OneRun'
    BY <1>1, <1>2, <1>4 DEF Page, Finished, OneRun, Copying, Running
  <1> QED BY <1>3, <1>6, <1>7

\* Starting the stream changes nothing but where the process is.
LEMMA StreamStep ==
  ASSUME CopyIInv, status = "Completed", pc' \in {"handover", "stream"},
         UNCHANGED <<pgVars, confirmed, progress, docs, run, history>>
  PROVE  CopyIInv'
  <1> USE DEF CopyIInv
  <1>1. /\ lsn' = lsn /\ table' = table /\ changed' = changed /\ status' = status
        /\ last_id' = last_id /\ watermark_lsn' = watermark_lsn /\ confirmed' = confirmed
        /\ docs' = docs /\ watermark' = watermark /\ cursor' = cursor /\ first' = first /\ runs' = runs
        /\ rows' = rows /\ has_more' = has_more
    BY DEF pgVars, progress, history, run
  <1>2. CopyTypeOK' BY <1>1 DEF CopyTypeOK
  <1>3. \A i \in Ids : /\ Untouched(i)' <=> Untouched(i)
                       /\ Matches(i)' <=> Matches(i)
    BY <1>1 DEF Untouched, Matches
  <1>4. Started' /\ Copied' BY <1>1, <1>3 DEF Started, Copied, Copying
  <1>5. Page' /\ Finished' /\ OneRun'
    BY <1>1, <1>3 DEF Page, Finished, OneRun, Copying, Running
  <1> QED BY <1>2, <1>4, <1>5

LEMMA CopyNextIInv == ASSUME CopyIInv, [BackfillNext]_backfillVars PROVE CopyIInv'
  <1>1. CASE Begin BY <1>1, BeginStep
  <1>2. CASE Fetch BY <1>2, FetchStep
  <1>3. CASE Transform BY <1>3, TransformStep
  <1>4. CASE WritePage BY <1>4, WritePageStep DEF WritePage
  <1>5. CASE SavePage BY <1>5, SavePageStep
  <1>6. CASE Complete BY <1>6, CompleteStep
  <1>7. CASE HandOver BY <1>7, StreamStep DEF HandOver, CopyIInv, Finished
  <1>8. CASE Restart BY <1>8, StreamStep DEF Restart
  <1>9. CASE \E i \in Ids : Write(i) BY <1>9, WriteStep
  <1>10. CASE OldInstanceAcks BY <1>10, OldInstanceAcksStep
  <1>11. CASE OperationFails BY <1>11, OperationFailsStep
  <1>12. CASE Crash BY <1>12, CrashStep
  <1>13. CASE UNCHANGED backfillVars
    BY <1>13 DEF CopyIInv, CopyTypeOK, Started, Copied, Matches, Page, Finished, OneRun, Untouched,
                 backfillVars, pgVars, progress, run, history
  <1> QED
    BY <1>1, <1>2, <1>3, <1>4, <1>5, <1>6, <1>7, <1>8, <1>9, <1>10, <1>11, <1>12, <1>13 DEF BackfillNext, Process

----------------------------------------------------------------------------
(* The inductive invariant: what is copied agrees with the table wherever   *)
(* the table has not changed since the first watermark, up to the saved     *)
(* cursor and, page by page, beyond it.                                     *)
THEOREM CopyInductive == BackfillSpec => []CopyIInv
  <1>1. BackfillInit => CopyIInv BY CopyInitIInv
  <1>2. CopyIInv /\ [BackfillNext]_backfillVars => CopyIInv' BY CopyNextIInv
  <1> QED BY <1>1, <1>2, PTL DEF BackfillSpec

(* A completed backfill has copied every row, whatever the page size, and   *)
(* however often run_backfill was stopped and went on from its cursor.      *)
THEOREM MissesNoRow == BackfillSpec => []NoRowMissed
  <1>1. CopyIInv => NoRowMissed BY DEF CopyIInv, Finished, Matches, NoRowMissed
  <1> QED BY <1>1, CopyInductive, PTL

(* After an uninterrupted backfill during which nobody moved the slot past  *)
(* the watermark, every row is up to date or its last change is still to    *)
(* come from the stream.                                                    *)
THEOREM HandsOverCompletely == BackfillSpec => []ExclusiveHandoverComplete
  <1>1. ASSUME CopyIInv, runs = 1, confirmed <= watermark_lsn, pc = "stream", NEW i \in Ids
        PROVE  UpToDate(i)
    <2> USE DEF CopyIInv
    <2>1. status = "Completed" /\ first # NoLsn /\ watermark_lsn = first
      BY <1>1, RunningStarted DEF Finished, OneRun
    <2>2. first \in Nat /\ confirmed \in Nat /\ changed[i] \in Nat BY <1>1, <2>1 DEF CopyTypeOK
    <2>3. StreamFrom = first BY <1>1, <2>1, <2>2 DEF StreamFrom
    <2>4. CASE changed[i] <= first
      BY <2>1, <2>4, <1>1 DEF Finished, Matches, Untouched, UpToDate
    <2>5. CASE changed[i] > first BY <2>3, <2>5 DEF UpToDate
    <2> QED BY <2>2, <2>4, <2>5
  <1>2. CopyIInv => ExclusiveHandoverComplete BY <1>1 DEF ExclusiveHandoverComplete, HandoverComplete
  <1> QED BY <1>2, CopyInductive, PTL

----------------------------------------------------------------------------
(* Induction and folds.  The induction theorems of the library take an      *)
(* operator; these take a set and a function.                               *)

\* What holds of 0 and, up to n, of the next number, holds up to n.
LEMMA Climb ==
  ASSUME NEW n \in Nat, NEW S, 0 \in S, \A k \in 0 .. n - 1 : k \in S => k + 1 \in S
  PROVE  \A k \in 0..n : k \in S
  <1> DEFINE Out == {k \in 0..n : k \notin S}
  <1> SUFFICES ASSUME Out # {} PROVE FALSE OBVIOUS
  <1>0. Out \in SUBSET Nat OBVIOUS
  <1>1. PICK i \in Out : \A j \in Out : i <= j BY <1>0, LeastNat
  <1>2. i \in 0..n /\ i \notin S /\ i # 0 OBVIOUS
  <1>3. i - 1 \in 0 .. n - 1 /\ i - 1 \in 0..n BY <1>2
  <1>4. i - 1 \notin Out BY <1>1, <1>2
  <1>5. (i - 1) + 1 \in S BY <1>3, <1>4
  <1> QED BY <1>2, <1>5

LEMMA MaxIs ==
  ASSUME NEW S \in SUBSET Int, NEW m \in S, \A x \in S : x <= m
  PROVE  Max(S) = m
  <1>1. m \in S /\ \A y \in S : m >= y OBVIOUS
  <1>2. Max(S) \in S /\ \A y \in S : Max(S) >= y BY <1>1 DEF Max
  <1>3. Max(S) \in Int /\ m \in Int /\ Max(S) >= m /\ m >= Max(S) BY <1>1, <1>2
  <1> QED BY <1>3

LEMMA MaxIsIn ==
  ASSUME NEW n \in Nat, NEW S \in SUBSET (0..n), S # {}
  PROVE  Max(S) \in S /\ \A x \in S : x <= Max(S)
  <1> DEFINE M == {n - x : x \in S}
  <1>1. M \in SUBSET Nat /\ M # {}
    <2>1. \A x \in S : x \in 0..n /\ n - x \in Nat OBVIOUS
    <2> QED BY <2>1
  <1>2. PICK m \in M : \A k \in M : m <= k BY <1>1, LeastNat
  <1>3. PICK x \in S : m = n - x OBVIOUS
  <1>4. \A y \in S : n - x <= n - y BY <1>2, <1>3
  <1>5. \A y \in S : y <= x BY <1>4
  <1>6. S \in SUBSET Int OBVIOUS
  <1> QED BY <1>5, <1>6, MaxIs

LEMMA UpTo ==
  ASSUME NEW k \in Nat, k > 0
  PROVE  Max(1..k) = k /\ (1..k) \ {k} = 1 .. k - 1 /\ 1..k # {}
  <1>1. 1..k \in SUBSET Int /\ k \in 1..k /\ \A x \in 1..k : x <= k OBVIOUS
  <1>2. Max(1..k) = k BY <1>1, MaxIs
  <1> QED BY <1>2

\* f folds the first n elements of seq, for every subset of their places.
IsFold(f, base, step, seq, n) ==
  f = [s \in SUBSET (1..n) |->
         IF s = {} THEN base ELSE step[<<f[s \ {Max(s)}], seq[Max(s)]>>]]

\* step goes from a value and an element to a value.
Folds(E, V, base, step, seq, n) ==
  base \in V /\ step \in [V \X E -> V] /\ n \in Nat /\ \A i \in 1..n : seq[i] \in E

\* A fold over a sequence of a step from values and elements to values is well defined.
LEMMA FoldExists ==
  ASSUME NEW E, NEW V, NEW base, NEW step, NEW seq, NEW n, Folds(E, V, base, step, seq, n)
  PROVE  \E f \in [SUBSET (1..n) -> V] : IsFold(f, base, step, seq, n)
  <1> DEFINE P(k, f) == \A s \in SUBSET (1..k) :
                f[s] = IF s = {} THEN base ELSE step[<<f[s \ {Max(s)}], seq[Max(s)]>>]
             S == {k \in 0..n : \E f \in [SUBSET (1..k) -> V] : P(k, f)}
  <1>0. base \in V /\ step \in [V \X E -> V] /\ n \in Nat /\ \A i \in 1..n : seq[i] \in E
    BY DEF Folds
  <1> USE <1>0
  <1>1. 0 \in S
    <2>1. SUBSET (1..0) = {{}} OBVIOUS
    <2> DEFINE g == [s \in SUBSET (1..0) |-> base]
    <2>2. g \in [SUBSET (1..0) -> V] /\ P(0, g) BY <2>1
    <2> HIDE DEF g
    <2>3. \E f \in [SUBSET (1..0) -> V] : P(0, f) BY <2>2
    <2>4. 0 \in 0..n OBVIOUS
    <2> HIDE DEF P
    <2> QED BY <2>3, <2>4
  <1>2. ASSUME NEW k \in 0 .. n - 1, k \in S PROVE k + 1 \in S
    <2>1. PICK f \in [SUBSET (1..k) -> V] : P(k, f) BY <1>2
    <2> DEFINE g == [s \in SUBSET (1 .. k + 1) |->
                       IF k + 1 \in s THEN step[<<f[s \ {k + 1}], seq[k + 1]>>] ELSE f[s]]
    <2>2. \A s \in SUBSET (1 .. k + 1) : k + 1 \notin s => s \in SUBSET (1..k) OBVIOUS
    <2>3. \A s \in SUBSET (1 .. k + 1) : s \ {k + 1} \in SUBSET (1..k) OBVIOUS
    <2>4. seq[k + 1] \in E OBVIOUS
    <2>5. g \in [SUBSET (1 .. k + 1) -> V]
      <3>1. ASSUME NEW s \in SUBSET (1 .. k + 1) PROVE g[s] \in V
        <4>1. CASE k + 1 \in s
          <5>1. f[s \ {k + 1}] \in V BY <2>3
          <5>2. <<f[s \ {k + 1}], seq[k + 1]>> \in V \X E BY <2>4, <5>1
          <5> QED BY <4>1, <5>2
        <4>2. CASE k + 1 \notin s BY <4>2, <2>2
        <4> QED BY <4>1, <4>2
      <3> QED BY <3>1
    <2>6. ASSUME NEW s \in SUBSET (1 .. k + 1)
          PROVE  g[s] = IF s = {} THEN base ELSE step[<<g[s \ {Max(s)}], seq[Max(s)]>>]
      <3>1. CASE k + 1 \in s
        <4>1. Max(s) = k + 1
          <5>1. s \in SUBSET Int /\ \A x \in s : x <= k + 1 OBVIOUS
          <5> QED BY <3>1, <5>1, MaxIs
        <4>2. g[s \ {k + 1}] = f[s \ {k + 1}]
          <5>1. s \ {k + 1} \in SUBSET (1 .. k + 1) /\ k + 1 \notin s \ {k + 1} OBVIOUS
          <5> QED BY <5>1
        <4>3. g[s] = step[<<f[s \ {k + 1}], seq[k + 1]>>] BY <3>1
        <4>4. s # {} BY <3>1
        <4> HIDE DEF g
        <4> QED BY <4>1, <4>2, <4>3, <4>4
      <3>2. CASE k + 1 \notin s
        <4>1. s \in SUBSET (1..k) /\ s \ {Max(s)} \in SUBSET (1..k) BY <3>2, <2>2
        <4>2. s \ {Max(s)} \in SUBSET (1 .. k + 1) /\ k + 1 \notin s \ {Max(s)} BY <3>2
        <4>3. g[s \ {Max(s)}] = f[s \ {Max(s)}] BY <4>2
        <4>4. g[s] = f[s] BY <3>2
        <4> HIDE DEF g
        <4> QED BY <2>1, <4>1, <4>3, <4>4
      <3> QED BY <3>1, <3>2
    <2>7. P(k + 1, g) BY <2>6
    <2> HIDE DEF g
    <2>8. \E h \in [SUBSET (1 .. k + 1) -> V] : P(k + 1, h) BY <2>5, <2>7
    <2>9. k + 1 \in 0..n OBVIOUS
    <2> HIDE DEF P
    <2> QED BY <2>8, <2>9
  <1> HIDE DEF S
  <1>3. n \in S BY <1>1, <1>2, Climb
  <1>4. PICK f \in [SUBSET (1..n) -> V] : P(n, f) BY <1>3 DEF S
  <1> QED BY <1>4 DEF IsFold


\* step goes from a value and a number to a value.
StepsIn(V, n, base, step) ==
  n \in Nat /\ base \in V /\ \A v \in V, i \in 1..n : step[<<v, i>>] \in V

\* A function that is defined from its value before.
LEMMA Recursion ==
  ASSUME NEW V, NEW n, NEW base, NEW step, StepsIn(V, n, base, step)
  PROVE  \E f \in [0..n -> V] : f[0] = base /\ \A i \in 1..n : f[i] = step[<<f[i - 1], i>>]
  <1> DEFINE P(k, f) == \A i \in 0..k : f[i] = IF i = 0 THEN base ELSE step[<<f[i - 1], i>>]
             S == {k \in 0..n : \E f \in [0..k -> V] : P(k, f)}
  <1> USE DEF StepsIn
  <1>1. 0 \in S
    <2> DEFINE g == [i \in 0..0 |-> base]
    <2>1. g \in [0..0 -> V] /\ P(0, g) OBVIOUS
    <2> HIDE DEF g
    <2>2. \E f \in [0..0 -> V] : P(0, f) BY <2>1
    <2>3. 0 \in 0..n OBVIOUS
    <2> HIDE DEF P
    <2> QED BY <2>2, <2>3
  <1>2. ASSUME NEW k \in 0 .. n - 1, k \in S PROVE k + 1 \in S
    <2>1. PICK f \in [0..k -> V] : P(k, f) BY <1>2
    <2> DEFINE g == [i \in 0 .. k + 1 |-> IF i = k + 1 THEN step[<<f[k], k + 1>>] ELSE f[i]]
    <2>2. f[k] \in V /\ k + 1 \in 1..n /\ step[<<f[k], k + 1>>] \in V
      <3>1. k \in 0..k /\ k + 1 \in 1..n OBVIOUS
      <3>2. f[k] \in V BY <3>1
      <3> QED BY <3>1, <3>2
    <2>3. \A i \in 0 .. k + 1 : i # k + 1 => i \in 0..k OBVIOUS
    <2>4. g \in [0 .. k + 1 -> V] BY <2>2, <2>3
    <2>5. ASSUME NEW i \in 0 .. k + 1
          PROVE  g[i] = IF i = 0 THEN base ELSE step[<<g[i - 1], i>>]
      <3>1. CASE i = k + 1
        <4>1. k \in 0 .. k + 1 /\ k # k + 1 /\ i # 0 /\ i - 1 = k BY <3>1
        <4>2. g[k] = f[k] BY <4>1
        <4>3. g[i] = step[<<f[k], k + 1>>] BY <3>1
        <4> HIDE DEF g
        <4> QED BY <3>1, <4>1, <4>2, <4>3
      <3>2. CASE i = 0
        <4>1. 0 \in 0..k /\ 0 # k + 1 /\ 0 \in 0 .. k + 1 OBVIOUS
        <4>2. g[0] = f[0] BY <4>1
        <4> HIDE DEF g
        <4> QED BY <2>1, <3>2, <4>1, <4>2
      <3>3. CASE i # 0 /\ i # k + 1
        <4>1. i \in 0..k /\ i - 1 \in 0 .. k + 1 /\ i - 1 # k + 1 BY <3>3
        <4>2. g[i - 1] = f[i - 1] /\ g[i] = f[i] BY <3>3, <4>1
        <4> HIDE DEF g
        <4> QED BY <2>1, <3>3, <4>1, <4>2
      <3> QED BY <3>1, <3>2, <3>3
    <2>6. P(k + 1, g) BY <2>5
    <2> HIDE DEF g
    <2>7. \E h \in [0 .. k + 1 -> V] : P(k + 1, h) BY <2>4, <2>6
    <2>8. k + 1 \in 0..n OBVIOUS
    <2> HIDE DEF P
    <2> QED BY <2>7, <2>8
  <1> HIDE DEF S
  <1>3. n \in S BY <1>1, <1>2, Climb
  <1>4. PICK f \in [0..n -> V] : P(n, f) BY <1>3 DEF S
  <1>5. 0 \in 0..n /\ \A i \in 1..n : i \in 0..n /\ i # 0 OBVIOUS
  <1> QED BY <1>4, <1>5

----------------------------------------------------------------------------
(* Numbers: what is read from w bytes is encoded in these bytes.            *)

\* One more digit, and back.
Shifted(v, b, c) == v \in Int /\ b \in Byte /\ c = 256 * v + b

LEMMA ShiftedBack ==
  ASSUME NEW v, NEW b, NEW c, Shifted(v, b, c)
  PROVE  c \div 256 = v /\ c % 256 = b
  BY DEF Shifted, Byte

\* The digits come in one after the other.
DigitsIn(h, high, s) ==
  /\ h \in [0 .. Len(s) -> Int] /\ h[0] = high
  /\ \A k \in 1 .. Len(s) : h[k] = 256 * h[k - 1] + s[k]
  /\ Digits(high, s) = h[Len(s)]

LEMMA DigitsSteps ==
  ASSUME NEW high \in Int, NEW s \in Seq(Byte)
  PROVE  \E h : DigitsIn(h, high, s)
  <1> DEFINE n == Len(s)
             Read(f) == f = [t \in SUBSET (1..n) |->
                          IF t = {} THEN high ELSE 256 * f[t \ {Max(t)}] + s[Max(t)]]
             step == [p \in Int \X Byte |-> 256 * p[1] + p[2]]
             g == CHOOSE f : Read(f)
  <1>1. n \in Nat /\ DOMAIN s = 1..n /\ \A i \in 1..n : s[i] \in Byte
    BY LenProperties, ElementOfSeq
  <1>2. step \in [Int \X Byte -> Int]
    <2>1. \A p \in Int \X Byte : p[1] \in Int /\ p[2] \in Byte OBVIOUS
    <2>2. \A p \in Int \X Byte : 256 * p[1] + p[2] \in Int
      <3>1. \A x \in Int, y \in Byte : 256 * x + y \in Int BY DEF Byte
      <3> QED BY <2>1, <3>1
    <2> QED BY <2>2
  <1>3. \A v \in Int, e \in Byte : step[<<v, e>>] = 256 * v + e OBVIOUS
  <1> HIDE DEF step
  <1> HIDE DEF n
  <1>4. PICK f \in [SUBSET (1..n) -> Int] : IsFold(f, high, step, s, n)
    <2>1. Folds(Byte, Int, high, step, s, n) BY <1>1, <1>2 DEF Folds
    <2> QED BY <2>1, FoldExists
  <1>5. Read(f)
    <2>1. ASSUME NEW t \in SUBSET (1..n), t # {}
          PROVE  step[<<f[t \ {Max(t)}], s[Max(t)]>>] = 256 * f[t \ {Max(t)}] + s[Max(t)]
      <3>1. t \in SUBSET (0..n) /\ t \ {Max(t)} \in SUBSET (1..n)
        <4>1. \A x \in t : x \in 1..n /\ x \in 0..n BY <1>1
        <4> QED BY <4>1
      <3>2. Max(t) \in t BY <1>1, <2>1, <3>1, MaxIsIn
      <3> DEFINE x == f[t \ {Max(t)}]
                 e == s[Max(t)]
      <3>3. x \in Int /\ e \in Byte BY <1>1, <3>1, <3>2
      <3> HIDE DEF x, e
      <3>4. step[<<x, e>>] = 256 * x + e BY <1>3, <3>3
      <3> QED BY <3>4 DEF x, e
    <2> QED BY <1>4, <2>1 DEF IsFold
  <1> HIDE DEF Read
  <1>6. Read(g) BY <1>5
  <1> USE DEF Read
  <1>7. Digits(high, s) = g[1..n] BY <1>1 DEF Digits, FoldLeft, MapThenFoldSet
  <1> HIDE DEF g
  <1> DEFINE h == [k \in 0..n |-> g[1..k]]
  <1>8. h[0] = high
    <2>1. 1..0 = {} /\ 0 \in 0..n BY <1>1
    <2> QED BY <1>6, <2>1
  <1>9. ASSUME NEW k \in 1..n PROVE h[k] = 256 * h[k - 1] + s[k]
    <2>1. k \in Nat /\ k > 0 /\ k - 1 \in 0..n /\ k \in 0..n BY <1>1
    <2>2. Max(1..k) = k /\ (1..k) \ {k} = 1 .. k - 1 /\ 1..k # {} BY <2>1, UpTo
    <2>3. 1..k \in SUBSET (1..n) BY <1>1
    <2>4. g[1..k] = 256 * g[1 .. k - 1] + s[k]
      <3>0. PICK t : t = 1..k OBVIOUS
      <3>1. t \in SUBSET (1..n) /\ t # {} /\ Max(t) = k /\ t \ {k} = 1 .. k - 1 BY <2>2, <2>3, <3>0
      <3>2. g[t] = 256 * g[t \ {Max(t)}] + s[Max(t)] BY <1>6, <3>1
      <3>3. g[t] = 256 * g[1 .. k - 1] + s[k] BY <3>1, <3>2, Zenon
      <3> QED BY <3>0, <3>3, Zenon
    <2> QED BY <2>1, <2>4
  <1>10. h[n] = g[1..n] BY <1>1
  <1>11. DOMAIN h = 0..n /\ h = [k \in 0..n |-> h[k]] OBVIOUS
  <1> HIDE DEF h
  <1>12. \A k \in 0..n : h[k] \in Int
    <2> DEFINE S == {k \in 0..n : h[k] \in Int}
    <2>1. 0 \in S BY <1>1, <1>8
    <2>2. ASSUME NEW k \in 0 .. n - 1, k \in S PROVE k + 1 \in S
      <3>1. k + 1 \in 1..n /\ k + 1 \in 0..n /\ (k + 1) - 1 = k BY <1>1
      <3>2. h[k + 1] = 256 * h[k] + s[k + 1] BY <1>9, <3>1
      <3>3. s[k + 1] \in Byte /\ h[k] \in Int BY <1>1, <2>2, <3>1
      <3> DEFINE u == h[k]
                 b == s[k + 1]
      <3>5. u \in Int /\ b \in Byte /\ h[k + 1] = 256 * u + b BY <3>2, <3>3
      <3> HIDE DEF u, b
      <3>6. 256 * u + b \in Int
        <4>1. u \in Int /\ b \in Int BY <3>5 DEF Byte
        <4> QED BY <4>1
      <3>4. h[k + 1] \in Int BY <3>5, <3>6
      <3> QED BY <3>1, <3>4
    <2> HIDE DEF S
    <2>3. \A k \in 0..n : k \in S BY <1>1, <2>1, <2>2, Climb
    <2> QED BY <2>3 DEF S
  <1>13. h \in [0..n -> Int] BY <1>11, <1>12
  <1>14. DigitsIn(h, high, s) BY <1>7, <1>8, <1>9, <1>10, <1>13 DEF DigitsIn, n
  <1> QED BY <1>14

\* And go out one after the other.
DigitsOut(g, v, w) ==
  /\ g \in [0..w -> Int] /\ g[0] = v
  /\ \A i \in 1..w : g[i] = g[i - 1] \div 256
  /\ BigEndian(v, w) = [j \in 1..w |-> g[w - j] % 256]

LEMMA BigEndianSteps ==
  ASSUME NEW v \in Int, NEW w \in Nat
  PROVE  \E g : DigitsOut(g, v, w)
  <1> DEFINE High(f) == f = [i \in 0..w |-> IF i = 0 THEN v ELSE f[i - 1] \div 256]
             step == [p \in Int \X (1..w) |-> p[1] \div 256]
             g == CHOOSE f : High(f)
  <1>1. \A x \in Int, i \in 1..w : step[<<x, i>>] = x \div 256 OBVIOUS
  <1>9. \A x \in Int : x \div 256 \in Int OBVIOUS
  <1>0. \A x \in Int, i \in 1..w : step[<<x, i>>] \in Int BY <1>1, <1>9
  <1> HIDE DEF step
  <1> DEFINE V == Int
  <1>10. v \in V /\ \A x \in V, i \in 1..w : step[<<x, i>>] \in V BY <1>0
  <1> HIDE DEF V
  <1>11. \E f \in [0..w -> V] : f[0] = v /\ \A i \in 1..w : f[i] = step[<<f[i - 1], i>>]
    <2>1. StepsIn(V, w, v, step) BY <1>10 DEF StepsIn
    <2> QED BY <2>1, Recursion
  <1>2. PICK f \in [0..w -> Int] : f[0] = v /\ \A i \in 1..w : f[i] = step[<<f[i - 1], i>>]
    BY <1>11 DEF V
  <1>3. High(f)
    <2>1. \A i \in 0..w : i # 0 => f[i - 1] \in Int /\ i \in 1..w
      <3>1. \A i \in 0..w : i # 0 => i - 1 \in 0..w /\ i \in 1..w OBVIOUS
      <3> QED BY <3>1
    <2>2. \A i \in 0..w : i # 0 => step[<<f[i - 1], i>>] = f[i - 1] \div 256 BY <1>1, <2>1
    <2>3. \A i \in 0..w : f[i] = IF i = 0 THEN v ELSE f[i - 1] \div 256 BY <1>2, <2>1, <2>2
    <2>4. f = [i \in 0..w |-> f[i]] OBVIOUS
    <2> QED BY <2>3, <2>4
  <1> HIDE DEF High
  <1>4. High(g) BY <1>3
  <1> USE DEF High
  <1>5. BigEndian(v, w) = [i \in 1..w |-> g[w - i] % 256] BY DEF BigEndian
  <1> HIDE DEF g
  <1>6. g[0] = v /\ \A i \in 1..w : g[i] = g[i - 1] \div 256
    <2>1. 0 \in 0..w /\ \A i \in 1..w : i \in 0..w /\ i # 0 OBVIOUS
    <2> QED BY <1>4, <2>1
  <1>7. \A k \in 0..w : g[k] \in Int
    <2> DEFINE S == {k \in 0..w : g[k] \in Int}
    <2>1. 0 \in S BY <1>6
    <2>2. ASSUME NEW k \in 0 .. w - 1, k \in S PROVE k + 1 \in S
      <3>1. k + 1 \in 1..w /\ k + 1 \in 0..w /\ (k + 1) - 1 = k OBVIOUS
      <3>2. g[k + 1] = g[k] \div 256 /\ g[k] \in Int BY <1>6, <2>2, <3>1
      <3> QED BY <3>1, <3>2
    <2> HIDE DEF S
    <2>3. \A k \in 0..w : k \in S BY <2>1, <2>2, Climb
    <2> QED BY <2>3 DEF S
  <1>8. g \in [0..w -> Int] BY <1>4, <1>7
  <1>12. DigitsOut(g, v, w) BY <1>5, <1>6, <1>8 DEF DigitsOut
  <1> QED BY <1>12

LEMMA BigEndianIsBytes ==
  ASSUME NEW v \in Int, NEW w \in Nat
  PROVE  BigEndian(v, w) \in Seq(Byte) /\ Len(BigEndian(v, w)) = w
  <1>1. PICK g \in [0..w -> Int] :
          /\ g[0] = v
          /\ \A i \in 1..w : g[i] = g[i - 1] \div 256
          /\ BigEndian(v, w) = [j \in 1..w |-> g[w - j] % 256]
    <2>1. PICK g : DigitsOut(g, v, w) BY BigEndianSteps
    <2> QED BY <2>1 DEF DigitsOut
  <1>2. \A i \in 1..w : w - i \in 0..w OBVIOUS
  <1>3. \A i \in 1..w : g[w - i] \in Int BY <1>2
  <1>4. \A x \in Int : x % 256 \in Byte BY DEF Byte
  <1>7. \A i \in 1..w : g[w - i] % 256 \in Byte BY <1>3, <1>4
  <1>5. BigEndian(v, w) \in [1..w -> Byte] BY <1>1, <1>7
  <1>6. BigEndian(v, w) \in Seq(Byte) BY <1>5, SeqDef
  <1> QED BY <1>1, <1>6

LEMMA BigEndianOfDigits ==
  ASSUME NEW high \in Int, NEW s \in Seq(Byte)
  PROVE  Digits(high, s) \in Int /\ BigEndian(Digits(high, s), Len(s)) = s
  <1> DEFINE n == Len(s)
             v == Digits(high, s)
  <1>1. n \in Nat /\ \A i \in 1..n : s[i] \in Byte BY LenProperties, ElementOfSeq
  <1>2. PICK h \in [0..n -> Int] :
          /\ h[0] = high
          /\ \A k \in 1..n : h[k] = 256 * h[k - 1] + s[k]
          /\ Digits(high, s) = h[n]
    <2>1. PICK h : DigitsIn(h, high, s) BY DigitsSteps
    <2> QED BY <2>1 DEF DigitsIn
  <1>3. v \in Int /\ v = h[n] BY <1>1, <1>2
  <1> HIDE DEF v
  <1>4. PICK g \in [0..n -> Int] :
          /\ g[0] = v
          /\ \A i \in 1..n : g[i] = g[i - 1] \div 256
          /\ BigEndian(v, n) = [j \in 1..n |-> g[n - j] % 256]
    <2>1. PICK g : DigitsOut(g, v, n) BY <1>1, <1>3, BigEndianSteps
    <2> HIDE DEF n
    <2> QED BY <2>1 DEF DigitsOut
  <1> HIDE DEF n
  <1>5. \A k \in 0..n : g[k] = h[n - k]
    <2> DEFINE S == {k \in 0..n : g[k] = h[n - k]}
    <2>1. 0 \in S
      <3>1. n - 0 = n /\ 0 \in 0..n BY <1>1
      <3> QED BY <1>3, <1>4, <3>1
    <2>2. ASSUME NEW k \in 0 .. n - 1, k \in S PROVE k + 1 \in S
      <3>1. k + 1 \in 1..n /\ k + 1 \in 0..n /\ (k + 1) - 1 = k BY <1>1
      <3>2. n - k \in 1..n /\ (n - k) - 1 = n - (k + 1) /\ n - (k + 1) \in 0..n BY <1>1
      <3>3. g[k + 1] = h[n - k] \div 256 BY <1>4, <2>2, <3>1
      <3>4. h[n - k] = 256 * h[n - (k + 1)] + s[n - k] BY <1>2, <3>2
      <3>5. h[n - (k + 1)] \in Int /\ s[n - k] \in Byte BY <1>1, <3>2
      <3>7. Shifted(h[n - (k + 1)], s[n - k], h[n - k]) BY <3>4, <3>5 DEF Shifted
      <3>8. h[n - k] \div 256 = h[n - (k + 1)] BY <3>7, ShiftedBack
      <3>6. g[k + 1] = h[n - (k + 1)] BY <3>3, <3>8
      <3> QED BY <3>1, <3>6
    <2> HIDE DEF S
    <2>3. \A k \in 0..n : k \in S BY <1>1, <2>1, <2>2, Climb
    <2> QED BY <2>3 DEF S
  <1>6. ASSUME NEW i \in 1..n PROVE BigEndian(v, n)[i] = s[i]
    <2>1. n - i \in 0..n /\ n - (n - i) = i /\ i - 1 \in 0..n BY <1>1
    <2>2. BigEndian(v, n)[i] = h[i] % 256 BY <1>4, <1>5, <2>1
    <2>3. h[i] = 256 * h[i - 1] + s[i] BY <1>2
    <2>4. h[i - 1] \in Int /\ s[i] \in Byte BY <1>1, <2>1
    <2>5. Shifted(h[i - 1], s[i], h[i]) BY <2>3, <2>4 DEF Shifted
    <2>6. h[i] % 256 = s[i] BY <2>5, ShiftedBack
    <2> QED BY <2>2, <2>6
  <1>7. BigEndian(v, n) \in Seq(Byte) /\ Len(BigEndian(v, n)) = n BY <1>1, <1>3, BigEndianIsBytes
  <1>8. BigEndian(v, n) = s
    <2>1. s \in Seq(Byte) /\ Len(s) = n BY DEF n
    <2> QED BY <1>6, <1>7, <2>1, SeqEqual
  <1> QED BY <1>3, <1>8 DEF n, v

\* What Unsigned reads is not negative.
LEMMA DigitsNatural ==
  ASSUME NEW s \in Seq(Byte)
  PROVE  Digits(0, s) \in Nat
  <1> DEFINE n == Len(s)
             high == 0
  <1>1. n \in Nat /\ \A i \in 1..n : s[i] \in Byte BY LenProperties, ElementOfSeq
  <1>0. high \in Int /\ high = 0 OBVIOUS
  <1> HIDE DEF high
  <1>2. PICK h \in [0..n -> Int] :
          /\ h[0] = high
          /\ \A k \in 1..n : h[k] = 256 * h[k - 1] + s[k]
          /\ Digits(high, s) = h[n]
    <2>1. PICK h : DigitsIn(h, high, s) BY <1>0, DigitsSteps
    <2> QED BY <2>1 DEF DigitsIn
  <1> DEFINE S == {k \in 0..n : h[k] \in Nat}
  <1> HIDE DEF n
  <1>3. 0 \in S BY <1>0, <1>1, <1>2
  <1>4. ASSUME NEW k \in 0 .. n - 1, k \in S PROVE k + 1 \in S
    <2>1. k + 1 \in 1..n /\ k + 1 \in 0..n /\ (k + 1) - 1 = k BY <1>1
    <2>2. h[k + 1] = 256 * h[k] + s[k + 1] BY <1>2, <2>1
    <2>3. s[k + 1] \in Nat /\ h[k] \in Nat
      <3>1. s[k + 1] \in Byte BY <1>1, <2>1
      <3>2. Byte \subseteq Nat BY DEF Byte
      <3>3. h[k] \in Nat BY <1>4
      <3> QED BY <3>1, <3>2, <3>3
    <2> QED BY <2>1, <2>2, <2>3
  <1> HIDE DEF S
  <1>5. \A k \in 0..n : k \in S BY <1>1, <1>3, <1>4, Climb
  <1> QED BY <1>0, <1>1, <1>2, <1>5 DEF S

----------------------------------------------------------------------------
(* Sequences of sequences: what is encoded one after the other.             *)

Bytes == Seq(Byte)

LEMMA FlattenEmpty == FlattenSeq(<<>>) = <<>>
  BY EmptySeq DEF FlattenSeq

\* The sequences are put together one after the other.
LEMMA FlattenSteps ==
  ASSUME NEW t \in Seq(Bytes)
  PROVE  \E h \in [0 .. Len(t) -> Bytes] :
           /\ h[0] = <<>>
           /\ \A k \in 1 .. Len(t) : h[k] = h[k - 1] \o t[k]
           /\ FlattenSeq(t) = h[Len(t)]
  <1> DEFINE n == Len(t)
             Flat(f) == f = [i \in 1..n |-> IF i = 1 THEN t[i] ELSE f[i - 1] \o t[i]]
             step == [p \in Bytes \X (1..n) |-> p[1] \o t[p[2]]]
             flat == CHOOSE f : Flat(f)
  <1>1. n \in Nat /\ \A i \in 1..n : t[i] \in Bytes BY LenProperties, ElementOfSeq
  <1>2. <<>> \in Bytes BY EmptySeq DEF Bytes
  <1>3. \A v \in Bytes, i \in 1..n : v \o t[i] \in Bytes BY <1>1, ConcatProperties DEF Bytes
  <1>4. \A v \in Bytes, i \in 1..n : step[<<v, i>>] = v \o t[i] OBVIOUS
  <1> HIDE DEF step
  <1>5. StepsIn(Bytes, n, <<>>, step) BY <1>1, <1>2, <1>3, <1>4 DEF StepsIn
  <1>6. PICK g \in [0..n -> Bytes] : g[0] = <<>> /\ \A i \in 1..n : g[i] = step[<<g[i - 1], i>>]
    BY <1>5, Recursion
  <1> HIDE DEF n
  <1>7. ASSUME NEW i \in 1..n PROVE i - 1 \in 0..n /\ g[i - 1] \in Bytes /\ g[i] = g[i - 1] \o t[i]
    <2>1. i - 1 \in 0..n /\ i - 1 # n BY <1>1
    <2>2. g[i - 1] \in Bytes BY <2>1
    <2> QED BY <1>4, <1>6, <2>1, <2>2
  <1>8. FlattenSeq(t) = g[n]
    <2>1. CASE n = 0
      <3>1. t = <<>> BY <2>1, EmptySeq DEF n
      <3> QED BY <1>6, <2>1, <3>1, FlattenEmpty
    <2>2. CASE n # 0
      <3> DEFINE f == [i \in 1..n |-> g[i]]
      <3>1. ASSUME NEW i \in 1..n PROVE f[i] = IF i = 1 THEN t[i] ELSE f[i - 1] \o t[i]
        <4>1. CASE i = 1
          <5>0. i - 1 = 0 BY <4>1
          <5>3. g[i] = g[i - 1] \o t[i] BY <1>7
          <5>1. g[1] = g[0] \o t[1] BY <4>1, <5>0, <5>3
          <5>2. g[1] = t[1] BY <1>1, <1>6, <4>1, <5>1, ConcatEmptySeq DEF Bytes
          <5> QED BY <4>1, <5>2
        <4>2. CASE i # 1
          <5>1. i - 1 \in 1..n BY <1>1, <4>2
          <5>2. f[i] = g[i] /\ f[i - 1] = g[i - 1] BY <5>1
          <5> HIDE DEF f
          <5> QED BY <1>7, <4>2, <5>2
        <4> QED BY <4>1, <4>2
      <3>2. Flat(f) BY <3>1
      <3> HIDE DEF f
      <3>3. Flat(flat) BY <3>2
      <3>4. FlattenSeq(t) = flat[n] BY <2>2 DEF FlattenSeq, n
      <3> HIDE DEF flat
      <3> DEFINE S == {k \in 0..n : k = 0 \/ flat[k] = g[k]}
      <3>5. 0 \in S BY <1>1
      <3>6. ASSUME NEW k \in 0 .. n - 1, k \in S PROVE k + 1 \in S
        <4>1. k + 1 \in 1..n /\ k + 1 \in 0..n /\ (k + 1) - 1 = k BY <1>1
        <4>2. flat[k + 1] = IF k + 1 = 1 THEN t[k + 1] ELSE flat[k] \o t[k + 1] BY <3>3, <4>1
        <4>3. g[k + 1] = g[k] \o t[k + 1] BY <1>7, <4>1
        <4>4. CASE k = 0
          <5>1. g[k + 1] = t[k + 1] BY <1>1, <1>6, <4>1, <4>3, <4>4, ConcatEmptySeq DEF Bytes
          <5> QED BY <4>1, <4>2, <4>4, <5>1
        <4>5. CASE k # 0
          <5>1. flat[k] = g[k] BY <3>6, <4>5
          <5>2. k + 1 # 1 BY <1>1, <4>5
          <5>3. flat[k + 1] = g[k + 1] BY <4>2, <4>3, <5>1, <5>2
          <5> QED BY <4>1, <5>3
        <4> QED BY <4>4, <4>5
      <3> HIDE DEF S
      <3>7. \A k \in 0..n : k \in S BY <1>1, <3>5, <3>6, Climb
      <3>8. n \in S /\ n \in 0..n BY <1>1, <3>7
      <3> QED BY <2>2, <3>4, <3>8 DEF S
    <2> QED BY <2>1, <2>2
  <1>9. /\ g[0] = <<>>
        /\ \A k \in 1..n : g[k] = g[k - 1] \o t[k]
        /\ FlattenSeq(t) = g[n]
    BY <1>6, <1>7, <1>8
  <1> QED BY <1>9 DEF n

LEMMA FlattenAppend ==
  ASSUME NEW t \in Seq(Bytes), NEW x \in Bytes
  PROVE  FlattenSeq(t) \in Bytes /\ FlattenSeq(Append(t, x)) = FlattenSeq(t) \o x
  <1> DEFINE n == Len(t)
             u == Append(t, x)
  <1>1. n \in Nat BY LenProperties
  <1>2. u \in Seq(Bytes) /\ Len(u) = n + 1 /\ u[n + 1] = x /\ \A i \in 1..n : u[i] = t[i]
    BY AppendProperties
  <1>3. PICK h \in [0..n -> Bytes] :
          /\ h[0] = <<>>
          /\ \A k \in 1..n : h[k] = h[k - 1] \o t[k]
          /\ FlattenSeq(t) = h[n]
    BY FlattenSteps
  <1> HIDE DEF u, n
  <1>4. PICK g \in [0 .. Len(u) -> Bytes] :
          /\ g[0] = <<>>
          /\ \A k \in 1 .. Len(u) : g[k] = g[k - 1] \o u[k]
          /\ FlattenSeq(u) = g[Len(u)]
    BY <1>2, FlattenSteps
  <1> DEFINE S == {k \in 0..n : g[k] = h[k]}
  <1>5. 0 \in S BY <1>1, <1>3, <1>4
  <1>6. ASSUME NEW k \in 0 .. n - 1, k \in S PROVE k + 1 \in S
    <2>1. k + 1 \in 1..n /\ k + 1 \in 1 .. Len(u) /\ k + 1 \in 0..n /\ (k + 1) - 1 = k
      BY <1>1, <1>2
    <2>2. g[k + 1] = g[k] \o u[k + 1] BY <1>4, <2>1
    <2>3. h[k + 1] = h[k] \o t[k + 1] BY <1>3, <2>1
    <2> QED BY <1>2, <1>6, <2>1, <2>2, <2>3
  <1> HIDE DEF S
  <1>7. \A k \in 0..n : k \in S BY <1>1, <1>5, <1>6, Climb
  <1>8. g[n] = h[n]
    <2>1. n \in 0..n BY <1>1
    <2> QED BY <1>7, <2>1 DEF S
  <1>9. g[n + 1] = g[n] \o u[n + 1]
    <2>1. n + 1 \in 1 .. Len(u) /\ (n + 1) - 1 = n BY <1>1, <1>2
    <2> QED BY <1>4, <2>1
  <1>10. FlattenSeq(t) \in Bytes
    <2>1. n \in 0..n BY <1>1
    <2> QED BY <1>3, <2>1
  <1> QED BY <1>2, <1>3, <1>4, <1>8, <1>9, <1>10 DEF u, n

\* The encodings of the elements of s, one after the other.
Each(E, s) == FlattenSeq([i \in DOMAIN s |-> E[s[i]]])

\* A longer sequence has the longer encoding.
LEMMA EachAppend ==
  ASSUME NEW D, NEW E \in [D -> Bytes], NEW s \in Seq(D), NEW x \in D
  PROVE  Each(E, s) \in Bytes /\ Each(E, Append(s, x)) = Each(E, s) \o E[x]
  <1> DEFINE n == Len(s)
             a == Append(s, x)
             t == [i \in DOMAIN s |-> E[s[i]]]
             u == [i \in DOMAIN a |-> E[a[i]]]
  <1>1. n \in Nat /\ DOMAIN s = 1..n /\ \A i \in 1..n : s[i] \in D BY LenProperties, ElementOfSeq
  <1>2. a \in Seq(D) /\ Len(a) = n + 1 /\ a[n + 1] = x /\ \A i \in 1..n : a[i] = s[i]
    BY AppendProperties
  <1> HIDE DEF a
  <1>3. DOMAIN a = 1 .. n + 1 /\ \A i \in 1 .. n + 1 : a[i] \in D
    BY <1>2, LenProperties, ElementOfSeq
  <1> HIDE DEF n
  <1>4. t \in Seq(Bytes) /\ Len(t) = n /\ \A i \in 1..n : t[i] = E[s[i]]
    <2>1. t \in [1..n -> Bytes] /\ \A i \in 1..n : t[i] = E[s[i]] BY <1>1
    <2> HIDE DEF t
    <2>2. t \in Seq(Bytes) BY <1>1, <2>1, SeqDef
    <2> QED BY <1>1, <2>1, <2>2
  <1>5. u \in Seq(Bytes) /\ Len(u) = n + 1 /\ \A i \in 1 .. n + 1 : u[i] = E[a[i]]
    <2>1. u \in [1 .. n + 1 -> Bytes] /\ \A i \in 1 .. n + 1 : u[i] = E[a[i]] BY <1>3
    <2> HIDE DEF u
    <2>2. u \in Seq(Bytes) BY <1>1, <2>1, SeqDef
    <2> QED BY <1>1, <2>1, <2>2
  <1> HIDE DEF t, u
  <1>6. u = Append(t, E[x])
    <2>1. /\ Append(t, E[x]) \in Seq(Bytes) /\ Len(Append(t, E[x])) = n + 1
          /\ Append(t, E[x])[n + 1] = E[x] /\ \A i \in 1..n : Append(t, E[x])[i] = t[i]
      BY <1>4, AppendProperties
    <2> DEFINE v == Append(t, E[x])
    <2> HIDE DEF v
    <2>2. \A i \in 1 .. n + 1 : i \in 1..n \/ i = n + 1 BY <1>1
    <2>3. \A i \in 1 .. n + 1 : u[i] = v[i] BY <1>1, <1>2, <1>4, <1>5, <2>1, <2>2 DEF v
    <2>4. u = v BY <1>5, <2>1, <2>3, SeqEqual DEF v
    <2> QED BY <2>4 DEF v
  <1>7. FlattenSeq(t) \in Bytes /\ FlattenSeq(Append(t, E[x])) = FlattenSeq(t) \o E[x]
    BY <1>4, FlattenAppend
  <1>8. Each(E, s) = FlattenSeq(t) /\ Each(E, a) = FlattenSeq(u) BY DEF Each, t, u
  <1> QED BY <1>6, <1>7, <1>8 DEF a
----------------------------------------------------------------------------
(* What is read from the buffer.                                            *)

LEMMA Widths == {U16, U32, U64} \subseteq Nat /\ U16 > 0 /\ U32 > 0 /\ U64 > 0
  BY WidthsAssumption

LEMMA SubSeqBytes ==
  ASSUME NEW s \in Bytes, NEW a \in Nat \ {0}, NEW b \in Nat, a <= b + 1, b <= Len(s)
  PROVE  SubSeq(s, a, b) \in Bytes /\ Len(SubSeq(s, a, b)) = b - a + 1
  <1>1. Len(s) \in Nat /\ \A i \in 1 .. Len(s) : s[i] \in Byte
    BY LenProperties, ElementOfSeq DEF Bytes
  <1>2. \A i \in a..b : s[i] \in Byte BY <1>1
  <1>3. /\ SubSeq(s, a, b) \in Seq(Byte)
        /\ Len(SubSeq(s, a, b)) = IF a <= b THEN b - a + 1 ELSE 0
    BY <1>2, SubSeqProperties
  <1> QED BY <1>3 DEF Bytes

LEMMA SubSeqOne ==
  ASSUME NEW s \in Bytes, NEW a \in 1 .. Len(s)
  PROVE  SubSeq(s, a, a) = <<s[a]>> /\ s[a] \in Byte
  <1>1. Len(s) \in Nat BY LenProperties DEF Bytes
  <1>2. s[a] \in Byte BY ElementOfSeq DEF Bytes
  <1>3. SubSeq(s, a, a) \in Bytes /\ Len(SubSeq(s, a, a)) = 1 BY <1>1, SubSeqBytes
  <1>4. a \in Int /\ \A i \in a..a : s[i] \in Byte BY <1>1, <1>2
  <1>5. SubSeq(s, a, a)[1] = s[a]
    <2>1. \A i \in 1 .. a - a + 1 : SubSeq(s, a, a)[i] = s[a + i - 1] BY <1>4, SubSeqProperties
    <2>2. 1 \in 1 .. a - a + 1 /\ a + 1 - 1 = a BY <1>1
    <2> QED BY <2>1, <2>2
  <1>6. <<s[a]>> \in Bytes /\ Len(<<s[a]>>) = 1 /\ <<s[a]>>[1] = s[a] BY <1>2 DEF Bytes
  <1> DEFINE x == SubSeq(s, a, a)
             y == <<s[a]>>
  <1>7. x \in Seq(Byte) /\ y \in Seq(Byte) /\ Len(x) = 1 /\ Len(y) = 1 /\ x[1] = y[1]
    BY <1>3, <1>5, <1>6 DEF Bytes
  <1> HIDE DEF x, y
  <1>8. \A i \in 1 .. Len(x) : x[i] = y[i] BY <1>7
  <1>9. x = y BY <1>7, <1>8, SeqEqual
  <1> QED BY <1>2, <1>9 DEF x, y

\* What is read next is added to what was read.
\* r, and the next n bytes.
With(r, n) == r \o SubSeq(rest, 1, n)
Piece(c, b) == SubSeq(rest, c, b)

Adjoin(r, a, c, b) ==
  /\ r \in Bytes /\ rest \in Bytes /\ a \in Nat /\ b \in Nat
  /\ a <= b /\ b <= Len(rest) /\ c = a + 1

LEMMA Join ==
  ASSUME NEW r, NEW a, NEW c, NEW b, Adjoin(r, a, c, b)
  PROVE  With(r, a) \o Piece(c, b) = With(r, b)
  <1> USE DEF Adjoin
  <1>1. Len(rest) \in Nat BY LenProperties DEF Bytes
  <1>2. SubSeq(rest, 1, a) \in Bytes /\ SubSeq(rest, a + 1, b) \in Bytes
    <2>1. SubSeq(rest, 1, a) \in Bytes BY <1>1, SubSeqBytes
    <2>2. SubSeq(rest, a + 1, b) \in Bytes BY <1>1, SubSeqBytes
    <2> QED BY <2>1, <2>2
  <1>3. SubSeq(rest, 1, a) \o SubSeq(rest, a + 1, b) = SubSeq(rest, 1, b)
    <2>1. 1 \in 1 .. Len(rest) + 1 /\ a \in 1 - 1 .. Len(rest) /\ b \in a .. Len(rest) BY <1>1
    <2> QED BY <2>1, ConcatAdjacentSubSeq DEF Bytes
  <1> DEFINE x == SubSeq(rest, 1, a)
             y == SubSeq(rest, a + 1, b)
             z == SubSeq(rest, 1, b)
  <1>4. r \in Seq(Byte) /\ x \in Seq(Byte) /\ y \in Seq(Byte) BY <1>2 DEF Bytes
  <1>6. With(r, a) = r \o x /\ With(r, b) = r \o z /\ x \o y = z /\ Piece(c, b) = y
    BY <1>3 DEF With, Piece
  <1> HIDE DEF x, y, z
  <1>5. (r \o x) \o y = r \o (x \o y) BY <1>4, ConcatAssociative
  <1> QED BY <1>5, <1>6

\* A number that is read is encoded in the bytes it was read from.
LEMMA ReadsNumber ==
  ASSUME rest \in Bytes, NEW skip \in Nat, NEW w \in Nat, skip + w <= Len(rest)
  PROVE  /\ Unsigned(skip, w) \in Nat /\ Signed(skip, w) \in Int
         /\ BigEndian(Unsigned(skip, w), w) = SubSeq(rest, skip + 1, skip + w)
         /\ BigEndian(Signed(skip, w), w) = SubSeq(rest, skip + 1, skip + w)
  <1> DEFINE s == SubSeq(rest, skip + 1, skip + w)
             high == IF rest[skip + 1] < 128 THEN 0 ELSE -1
  <1>1. s \in Seq(Byte) /\ Len(s) = w
    <2>1. skip + 1 \in Nat \ {0} /\ skip + w \in Nat /\ skip + 1 <= (skip + w) + 1 OBVIOUS
    <2>2. s \in Bytes /\ Len(s) = (skip + w) - (skip + 1) + 1 BY <2>1, SubSeqBytes
    <2> HIDE DEF s
    <2> QED BY <2>2 DEF Bytes
  <1>2. high \in Int /\ 0 \in Int OBVIOUS
  <1>3. Unsigned(skip, w) = Digits(0, s) /\ Signed(skip, w) = Digits(high, s)
    BY DEF Unsigned, Signed
  <1> HIDE DEF s, high
  <1>4. Digits(high, s) \in Int /\ BigEndian(Digits(high, s), Len(s)) = s
    BY <1>1, <1>2, BigEndianOfDigits
  <1>5. BigEndian(Digits(0, s), Len(s)) = s BY <1>1, <1>2, BigEndianOfDigits
  <1>6. Digits(0, s) \in Nat BY <1>1, DigitsNatural
  <1> QED BY <1>1, <1>3, <1>4, <1>5, <1>6 DEF s

\* Equal pieces of a sequence put together again.
Pieces(s, base, w, n) ==
  s \in Bytes /\ base \in Nat /\ w \in Nat /\ n \in Nat /\ base + n * w + w <= Len(s)

LEMMA Chunks ==
  ASSUME NEW s, NEW base, NEW w, NEW n, Pieces(s, base, w, n)
  PROVE  FlattenSeq([i \in 1..n |-> SubSeq(s, base + i * w + 1, base + i * w + w)])
           = SubSeq(s, base + w + 1, base + n * w + w)
  <1>0. base + n * w + w <= Len(s) BY DEF Pieces
  <1> s \in Bytes /\ base \in Nat /\ w \in Nat /\ n \in Nat BY DEF Pieces
  <1> DEFINE end(k) == base + k * w + w
             t == [i \in 1..n |-> SubSeq(s, base + i * w + 1, base + i * w + w)]
  <1>1. Len(s) \in Nat BY LenProperties DEF Bytes
  <1>2. ASSUME NEW k \in 0..n
        PROVE  end(k) \in Nat /\ base + w <= end(k) /\ end(k) <= Len(s) /\ k * w \in Nat
    <2>1. k * w \in Nat /\ (n - k) * w \in Nat /\ n * w = k * w + (n - k) * w /\ n * w \in Nat
      OBVIOUS
    <2> QED BY <1>0, <1>1, <2>1
  <1>3. ASSUME NEW k \in 0 .. n - 1
        PROVE  k \in 0..n /\ k + 1 \in 0..n /\ end(k + 1) = end(k) + w /\ base + (k + 1) * w = end(k)
    <2>1. (k + 1) * w = k * w + w /\ k * w \in Nat OBVIOUS
    <2> QED BY <2>1
  <1>4. end(0) = base + w OBVIOUS
  <1>5. ASSUME NEW k \in 0 .. n - 1
        PROVE  t[k + 1] = SubSeq(s, end(k) + 1, end(k + 1)) /\ t[k + 1] \in Bytes
    <2>1. k + 1 \in 1..n OBVIOUS
    <2>2. t[k + 1] = SubSeq(s, end(k) + 1, end(k + 1)) BY <1>3, <2>1
    <2> HIDE DEF t, end
    <2> DEFINE e == end(k)
               f == end(k + 1)
    <2>3. e \in Nat /\ f \in Nat /\ f = e + w /\ f <= Len(s)
      <3>1. k \in 0..n /\ k + 1 \in 0..n /\ f = e + w BY <1>3
      <3>2. e \in Nat BY <1>2, <3>1
      <3>3. f \in Nat /\ f <= Len(s) BY <1>2, <3>1
      <3> QED BY <3>1, <3>2, <3>3
    <2> HIDE DEF e, f
    <2>5. e + 1 \in Nat \ {0} /\ e + 1 <= f + 1 BY <2>3
    <2>6. SubSeq(s, e + 1, f) \in Bytes BY <2>3, <2>5, SubSeqBytes
    <2>4. SubSeq(s, end(k) + 1, end(k + 1)) \in Bytes BY <2>6 DEF e, f
    <2> QED BY <2>2, <2>4
  <1>6. t \in Seq(Bytes) /\ Len(t) = n
    <2>1. \A i \in 1..n : i - 1 \in 0 .. n - 1 /\ (i - 1) + 1 = i OBVIOUS
    <2>2. \A i \in 1..n : t[i] \in Bytes
      <3> HIDE DEF t, end
      <3> QED BY <1>5, <2>1
    <2>3. t \in [1..n -> Bytes] BY <2>2
    <2>4. DOMAIN t = 1..n OBVIOUS
    <2> HIDE DEF t
    <2>5. t \in Seq(Bytes) BY <2>3, SeqDef
    <2> QED BY <2>4, <2>5
  <1> HIDE DEF t
  <1>7. PICK h \in [0 .. Len(t) -> Bytes] :
          /\ h[0] = <<>>
          /\ \A k \in 1 .. Len(t) : h[k] = h[k - 1] \o t[k]
          /\ FlattenSeq(t) = h[Len(t)]
    BY <1>6, FlattenSteps
  <1> DEFINE S == {k \in 0..n : h[k] = SubSeq(s, base + w + 1, end(k))}
  <1>8. 0 \in S
    <2>1. SubSeq(s, base + w + 1, base + w) = <<>>
      <3>1. base + w + 1 \in Int /\ base + w \in Int /\ base + w < base + w + 1 OBVIOUS
      <3> QED BY <3>1, SubSeqEmpty
    <2>2. 0 \in 0..n OBVIOUS
    <2> HIDE DEF end
    <2> QED BY <1>4, <1>7, <2>1, <2>2
  <1> HIDE DEF end
  <1>9. ASSUME NEW k \in 0 .. n - 1, k \in S PROVE k + 1 \in S
    <2>1. k + 1 \in 1..n /\ k + 1 \in 0..n /\ (k + 1) - 1 = k OBVIOUS
    <2>2. h[k + 1] = h[k] \o t[k + 1] BY <1>6, <1>7, <2>1
    <2>3. h[k] = SubSeq(s, base + w + 1, end(k)) BY <1>9
    <2>4. t[k + 1] = SubSeq(s, end(k) + 1, end(k + 1)) BY <1>5
    <2>5. /\ base + w + 1 \in 1 .. Len(s) + 1 /\ end(k) \in (base + w + 1) - 1 .. Len(s)
          /\ end(k + 1) \in end(k) .. Len(s)
      BY <1>1, <1>2, <1>3
    <2> DEFINE m == base + w + 1
               e == end(k)
               f == end(k + 1)
    <2>6. m \in 1 .. Len(s) + 1 /\ e \in m - 1 .. Len(s) /\ f \in e .. Len(s) BY <2>5
    <2> HIDE DEF m, e, f
    <2>7. SubSeq(s, m, e) \o SubSeq(s, e + 1, f) = SubSeq(s, m, f)
      BY <2>6, ConcatAdjacentSubSeq DEF Bytes
    <2> QED BY <2>1, <2>2, <2>3, <2>4, <2>7 DEF m, e, f
  <1> HIDE DEF S
  <1>10. \A k \in 0..n : k \in S BY <1>8, <1>9, Climb
  <1>11. h[n] = SubSeq(s, base + w + 1, end(n))
    <2>1. n \in 0..n OBVIOUS
    <2> QED BY <1>10, <2>1 DEF S
  <1>12. FlattenSeq(t) = SubSeq(s, base + w + 1, end(n)) BY <1>6, <1>7, <1>11
  <1> QED BY <1>12 DEF t, end
----------------------------------------------------------------------------
(* The encodings the decoder undoes.                                        *)

Tuple == Seq(ColumnValue)
RowKinds == {"insert", "update", "delete"}

ValuesOf(t) == EncodedEach(t, EncodedValue)
ColumnsOf(cs) == EncodedEach(cs, EncodedColumn)
TuplesOf(mark, ts) == EncodedEach(ts, LAMBDA t : <<mark>> \o EncodedTuple(t))

LEMMA Concat ==
  ASSUME NEW x \in Bytes, NEW y \in Bytes
  PROVE  x \o y \in Bytes /\ Len(x \o y) = Len(x) + Len(y)
  BY ConcatProperties DEF Bytes

LEMMA Associative ==
  ASSUME NEW x \in Bytes, NEW y \in Bytes, NEW z \in Bytes
  PROVE  (x \o y) \o z = x \o (y \o z)
  BY ConcatAssociative DEF Bytes

\* The same with its conditions in one, where more facts on sequences are known.
ThreeBytes(x, y, z) == x \in Bytes /\ y \in Bytes /\ z \in Bytes

LEMMA AssociativeThree ==
  ASSUME NEW x, NEW y, NEW z, ThreeBytes(x, y, z)
  PROVE  (x \o y) \o z = x \o (y \o z)
  BY Associative DEF ThreeBytes

LEMMA Empty ==
  /\ <<>> \in Bytes /\ Len(<<>>) = 0
  /\ \A x \in Bytes : x \o <<>> = x /\ <<>> \o x = x
  <1>1. <<>> \in Seq(Byte) /\ Len(<<>>) = 0 BY EmptySeq
  <1>2. \A x \in Seq(Byte) : x \o <<>> = x /\ <<>> \o x = x BY ConcatEmptySeq
  <1> QED BY <1>1, <1>2 DEF Bytes

LEMMA One ==
  ASSUME NEW b \in Byte
  PROVE  <<b>> \in Bytes /\ Len(<<b>>) = 1
  BY DEF Bytes

LEMMA Codes ==
  /\ \A kind \in {"null", "unchanged", "text", "binary"} : Code[kind] \in Byte
  /\ \A kind \in RowKinds : RowTag[kind] \in Byte
  /\ {Code.B, Code.C, Code.R, Code.T, Code.N, Code.K, Code.O} \subseteq Byte
  BY DEF Code, RowTag, RowKinds, Byte

LEMMA FlattenOne ==
  ASSUME NEW x \in Bytes
  PROVE  FlattenSeq(<<x>>) = x
  <1>1. <<>> \in Seq(Bytes) /\ Append(<<>>, x) = <<x>> BY EmptySeq
  <1>2. FlattenSeq(Append(<<>>, x)) = FlattenSeq(<<>>) \o x BY <1>1, FlattenAppend
  <1> QED BY <1>1, <1>2, FlattenEmpty, Empty

LEMMA EachEmpty ==
  /\ ValuesOf(<<>>) = <<>> /\ ColumnsOf(<<>>) = <<>>
  /\ \A mark \in Byte : TuplesOf(mark, <<>>) = <<>>
  <1>1. DOMAIN <<>> = {} OBVIOUS
  <1>2. ValuesOf(<<>>) = <<>>
    <2>1. [i \in DOMAIN <<>> |-> EncodedValue(<<>>[i])] = <<>> OBVIOUS
    <2> QED BY <2>1, FlattenEmpty DEF ValuesOf, EncodedEach
  <1>3. ColumnsOf(<<>>) = <<>>
    <2>1. [i \in DOMAIN <<>> |-> EncodedColumn(<<>>[i])] = <<>> OBVIOUS
    <2> QED BY <2>1, FlattenEmpty DEF ColumnsOf, EncodedEach
  <1>4. ASSUME NEW mark \in Byte PROVE TuplesOf(mark, <<>>) = <<>>
    <2>1. [i \in DOMAIN <<>> |-> <<mark>> \o EncodedTuple(<<>>[i])] = <<>> OBVIOUS
    <2> QED BY <2>1, FlattenEmpty DEF TuplesOf, EncodedEach
  <1> QED BY <1>2, <1>3, <1>4

LEMMA ValueIsBytes ==
  ASSUME NEW v \in ColumnValue
  PROVE  EncodedValue(v) \in Bytes
  <1>1. CASE v.kind \in {"null", "unchanged"}
    <2>1. Code[v.kind] \in Byte BY <1>1, Codes
    <2> QED BY <1>1, <2>1, One DEF EncodedValue
  <1>2. CASE v.kind \notin {"null", "unchanged"}
    <2>1. v.kind \in {"text", "binary"} /\ v.bytes \in Bytes BY <1>2 DEF ColumnValue, Bytes
    <2>2. <<Code[v.kind]>> \in Bytes BY <2>1, Codes, One
    <2>3. Len(v.bytes) \in Int /\ U32 \in Nat BY <2>1, LenProperties, Widths DEF Bytes
    <2>4. BigEndian(Len(v.bytes), U32) \in Bytes BY <2>3, BigEndianIsBytes DEF Bytes
    <2>5. <<Code[v.kind]>> \o BigEndian(Len(v.bytes), U32) \in Bytes BY <2>2, <2>4, Concat
    <2>6. (<<Code[v.kind]>> \o BigEndian(Len(v.bytes), U32)) \o v.bytes \in Bytes
      BY <2>1, <2>5, Concat
    <2> QED BY <1>2, <2>6 DEF EncodedValue
  <1> QED BY <1>1, <1>2

LEMMA ValuesAppend ==
  ASSUME NEW t \in Tuple, NEW v \in ColumnValue
  PROVE  ValuesOf(t) \in Bytes /\ ValuesOf(Append(t, v)) = ValuesOf(t) \o EncodedValue(v)
  <1> DEFINE E == [x \in ColumnValue |-> EncodedValue(x)]
             a == Append(t, v)
  <1>1. E \in [ColumnValue -> Bytes] /\ \A x \in ColumnValue : E[x] = EncodedValue(x)
    BY ValueIsBytes
  <1> HIDE DEF E
  <1>2. t \in Seq(ColumnValue) BY DEF Tuple
  <1>3. a \in Seq(ColumnValue) BY <1>2, AppendProperties
  <1>4. Each(E, t) \in Bytes /\ Each(E, a) = Each(E, t) \o E[v]
    BY <1>1, <1>2, EachAppend
  <1>5. ASSUME NEW s \in Seq(ColumnValue)
        PROVE  [i \in DOMAIN s |-> E[s[i]]] = [i \in DOMAIN s |-> EncodedValue(s[i])]
    <2>1. \A i \in DOMAIN s : s[i] \in ColumnValue BY LenProperties, ElementOfSeq
    <2> QED BY <1>1, <2>1
  <1> HIDE DEF a
  <1>6. ValuesOf(t) = Each(E, t) BY <1>2, <1>5 DEF ValuesOf, EncodedEach, Each
  <1>7. ValuesOf(a) = Each(E, a) BY <1>3, <1>5 DEF ValuesOf, EncodedEach, Each
  <1> QED BY <1>1, <1>4, <1>6, <1>7 DEF a

LEMMA ColumnIsBytes ==
  ASSUME NEW c \in ColumnInfo
  PROVE  EncodedColumn(c) \in Bytes /\ Len(EncodedColumn(c)) = 1 + (Len(c.name) + 1) + U32 + U32
  <1>1. c.name \in Seq(Byte) /\ c.type_oid \in Int /\ c.type_modifier \in Int BY DEF ColumnInfo
  <1> DEFINE f == <<IF c.part_of_key THEN 1 ELSE 0>>
             n == CString(c.name)
             o == BigEndian(c.type_oid, U32)
             m == BigEndian(c.type_modifier, U32)
  <1>2. f \in Bytes /\ Len(f) = 1
    <2>1. (IF c.part_of_key THEN 1 ELSE 0) \in Byte BY DEF Byte
    <2> QED BY <2>1, One
  <1>3. n \in Bytes /\ Len(n) = Len(c.name) + 1
    <2>1. 0 \in Byte BY DEF Byte
    <2> QED BY <1>1, <2>1, AppendProperties DEF CString, Bytes
  <1>4. o \in Bytes /\ Len(o) = U32 /\ m \in Bytes /\ Len(m) = U32
    BY <1>1, Widths, BigEndianIsBytes DEF Bytes
  <1>5. EncodedColumn(c) = ((f \o n) \o o) \o m BY DEF EncodedColumn
  <1> HIDE DEF f, n, o, m
  <1>6. f \o n \in Bytes /\ Len(f \o n) = Len(f) + Len(n) BY <1>2, <1>3, Concat
  <1>7. (f \o n) \o o \in Bytes /\ Len((f \o n) \o o) = Len(f \o n) + Len(o) BY <1>4, <1>6, Concat
  <1>8. /\ ((f \o n) \o o) \o m \in Bytes
        /\ Len(((f \o n) \o o) \o m) = Len((f \o n) \o o) + Len(m)
    BY <1>4, <1>7, Concat
  <1>9. Len(c.name) \in Nat /\ U32 \in Nat BY <1>1, LenProperties, Widths
  <1>10. Len(f \o n) = 1 + (Len(c.name) + 1) BY <1>2, <1>3, <1>6, <1>9
  <1>11. Len((f \o n) \o o) = 1 + (Len(c.name) + 1) + U32 BY <1>4, <1>7, <1>9, <1>10
  <1>12. Len(((f \o n) \o o) \o m) = 1 + (Len(c.name) + 1) + U32 + U32
    BY <1>4, <1>8, <1>9, <1>11
  <1> QED BY <1>5, <1>8, <1>12

LEMMA ColumnsAppend ==
  ASSUME NEW t \in Seq(ColumnInfo), NEW v \in ColumnInfo
  PROVE  ColumnsOf(t) \in Bytes /\ ColumnsOf(Append(t, v)) = ColumnsOf(t) \o EncodedColumn(v)
  <1> DEFINE E == [x \in ColumnInfo |-> EncodedColumn(x)]
             a == Append(t, v)
  <1>1. E \in [ColumnInfo -> Bytes] /\ \A x \in ColumnInfo : E[x] = EncodedColumn(x)
    BY ColumnIsBytes
  <1> HIDE DEF E
  <1>3. a \in Seq(ColumnInfo) BY AppendProperties
  <1>4. Each(E, t) \in Bytes /\ Each(E, a) = Each(E, t) \o E[v]
    BY <1>1, EachAppend
  <1>5. ASSUME NEW s \in Seq(ColumnInfo)
        PROVE  [i \in DOMAIN s |-> E[s[i]]] = [i \in DOMAIN s |-> EncodedColumn(s[i])]
    <2>1. \A i \in DOMAIN s : s[i] \in ColumnInfo BY LenProperties, ElementOfSeq
    <2> QED BY <1>1, <2>1
  <1> HIDE DEF a
  <1>6. ColumnsOf(t) = Each(E, t) BY <1>5 DEF ColumnsOf, EncodedEach, Each
  <1>7. ColumnsOf(a) = Each(E, a) BY <1>3, <1>5 DEF ColumnsOf, EncodedEach, Each
  <1> QED BY <1>1, <1>4, <1>6, <1>7 DEF a

LEMMA TupleIsBytes ==
  ASSUME NEW t \in Tuple
  PROVE  /\ ValuesOf(t) \in Bytes
         /\ BigEndian(Len(t), U16) \in Bytes
         /\ EncodedTuple(t) = BigEndian(Len(t), U16) \o ValuesOf(t)
         /\ EncodedTuple(t) \in Bytes
  <1>1. ValuesOf(t) \in Bytes
    <2>1. [kind |-> "null"] \in ColumnValue BY DEF ColumnValue
    <2> QED BY <2>1, ValuesAppend
  <1>2. Len(t) \in Int /\ U16 \in Nat BY LenProperties, Widths DEF Tuple
  <1>3. BigEndian(Len(t), U16) \in Bytes BY <1>2, BigEndianIsBytes DEF Bytes
  <1>4. EncodedTuple(t) = BigEndian(Len(t), U16) \o ValuesOf(t) BY DEF EncodedTuple, ValuesOf
  <1> QED BY <1>1, <1>3, <1>4, Concat

\* A message has at most one tuple before the update and one after it.
LEMMA TuplesOne ==
  ASSUME NEW mark \in Byte, NEW t \in Tuple
  PROVE  TuplesOf(mark, <<t>>) = <<mark>> \o EncodedTuple(t) /\ TuplesOf(mark, <<t>>) \in Bytes
  <1>1. <<mark>> \o EncodedTuple(t) \in Bytes BY One, TupleIsBytes, Concat
  <1>2. [i \in DOMAIN <<t>> |-> <<mark>> \o EncodedTuple(<<t>>[i])] = <<<<mark>> \o EncodedTuple(t)>>
    <2> DEFINE s == <<t>>
               y == <<mark>> \o EncodedTuple(t)
    <2>1. DOMAIN s = 1..1 /\ \A i \in 1..1 : s[i] = t OBVIOUS
    <2> HIDE DEF s
    <2>2. [i \in DOMAIN s |-> <<mark>> \o EncodedTuple(s[i])] = [i \in 1..1 |-> y] BY <2>1
    <2> HIDE DEF y
    <2>3. [i \in 1..1 |-> y] = <<y>> OBVIOUS
    <2> QED BY <2>2, <2>3 DEF s, y
  <1>3. TuplesOf(mark, <<t>>) = FlattenSeq(<<<<mark>> \o EncodedTuple(t)>>)
    BY <1>2 DEF TuplesOf, EncodedEach
  <1> QED BY <1>1, <1>3, FlattenOne
----------------------------------------------------------------------------
(* The invariant: the bytes that were taken are the beginning of an         *)
(* encoding of the message, as far as it is decoded.                        *)

RowMessage == [kind : RowKinds, relation_id : Nat, old : Option(Tuple), new : Option(Tuple)]

\* A row message up to its new tuple.
Before(m, mark) == <<RowTag[m.kind]>> \o EncodedId(m.relation_id) \o TuplesOf(mark, m.old)

\* The marker of the tuple that is read.
Marker(mark) == IF side = "new" THEN Code.N ELSE mark

HeaderLength == 1 + U32 + (Len(msg.namespace) + 1) + (Len(msg.name) + 1) + 1 + U16

ControlStage(r) ==
  /\ field = "tag" => r = <<>>
  /\ field = "begin" => r = <<Code.B>>
  /\ field = "commit" => r = <<Code.C>>
  /\ field = "truncate" => r = <<Code.T>>
  /\ field = "relation" => r = <<Code.R>>

RelationFields == {"namespace", "name", "identity", "flags", "column", "type"}

RelationStage(r) ==
  field \in RelationFields =>
    /\ msg \in RelationMessage
    /\ field \in {"namespace", "name", "identity"} => msg.columns = <<>>
    /\ field = "namespace" => Len(r) = 1 + U32
    /\ field = "name" => Len(r) = 1 + U32 + (Len(msg.namespace) + 1)
    /\ field = "identity" =>
         Len(r) = 1 + U32 + (Len(msg.namespace) + 1) + (Len(msg.name) + 1)
    /\ field = "flags" => Len(r) = HeaderLength + Len(ColumnsOf(msg.columns))
    /\ field \in {"column", "type"} =>
         \E s \in Seq(ColumnInfo), c \in ColumnInfo :
           /\ msg.columns = Append(s, c)
           /\ Len(r) = HeaderLength + Len(ColumnsOf(s))
                         + (IF field = "column" THEN 1 ELSE 1 + (Len(c.name) + 1))

RowFields == {"row", "count", "value", "marker"}

RowStage(r) ==
  field \in RowFields =>
    /\ msg \in RowMessage /\ msg.new = <<>>
    /\ field = "row" => r = <<RowTag[msg.kind]>> /\ msg.old = <<>>
    /\ side = "old" /\ field # "marker" => msg.old = <<>>
    /\ field = "marker" => \E mark \in {Code.K, Code.O} : r = Before(msg, mark)
    /\ field = "count" =>
         /\ tuple = <<>>
         /\ \E mark \in {Code.K, Code.O} : r = Before(msg, mark) \o <<Marker(mark)>>
    /\ field = "value" =>
         /\ tuple \in Tuple
         /\ \E mark \in {Code.K, Code.O} :
              r = (Before(msg, mark) \o <<Marker(mark)>>)
                    \o (BigEndian(Len(tuple) + left, U16) \o ValuesOf(tuple))

Accepted(r) ==
  IF msg.kind = "relation" THEN \E e \in Encodings(msg) : Len(e) = Len(r)
  ELSE r \in Encodings(msg)

Stage(r) ==
  /\ ControlStage(r) /\ RelationStage(r) /\ RowStage(r)
  /\ field = "ok" => Accepted(r)

DecoderInv ==
  /\ wire \in Bytes /\ rest \in Bytes /\ left \in Nat /\ side \in {"old", "new"}
  /\ \E r \in Bytes : wire = r \o rest /\ Stage(r)

\* n bytes are taken, after r.
Taking(r, n) ==
  /\ wire \in Bytes /\ rest \in Bytes /\ r \in Bytes /\ wire = r \o rest
  /\ n \in Nat /\ n <= Len(rest)
  /\ rest' = SubSeq(rest, n + 1, Len(rest)) /\ wire' = wire

LEMMA Taken ==
  ASSUME NEW r, NEW n, Taking(r, n)
  PROVE  /\ wire' \in Bytes /\ rest' \in Bytes
         /\ With(r, n) \in Bytes /\ Len(With(r, n)) = Len(r) + n
         /\ wire' = With(r, n) \o rest'
  <1>0. /\ wire \in Bytes /\ rest \in Bytes /\ r \in Bytes /\ wire = r \o rest
        /\ n \in Nat /\ n <= Len(rest)
        /\ rest' = SubSeq(rest, n + 1, Len(rest)) /\ wire' = wire
    BY DEF Taking
  <1> USE <1>0
  <1>1. Len(rest) \in Nat BY LenProperties DEF Bytes
  <1> DEFINE x == SubSeq(rest, 1, n)
             y == SubSeq(rest, n + 1, Len(rest))
  <1>2. x \in Bytes /\ Len(x) = n
    <2>1. Len(SubSeq(rest, 1, n)) = n - 1 + 1 BY <1>1, SubSeqBytes
    <2>2. SubSeq(rest, 1, n) \in Bytes BY <1>1, SubSeqBytes
    <2> QED BY <2>1, <2>2
  <1>3. y \in Bytes BY <1>1, SubSeqBytes
  <1>4. x \o y = rest
    <2>1. 1 \in 1 .. Len(rest) + 1 /\ n \in 1 - 1 .. Len(rest) /\ Len(rest) \in n .. Len(rest)
      BY <1>1
    <2>2. SubSeq(rest, 1, n) \o SubSeq(rest, n + 1, Len(rest)) = SubSeq(rest, 1, Len(rest))
      BY <2>1, ConcatAdjacentSubSeq DEF Bytes
    <2> QED BY <2>2, SubSeqFull DEF Bytes
  <1>5. rest' = y /\ With(r, n) = r \o x BY DEF With
  <1> HIDE DEF x, y
  <1>6. r \o x \in Bytes /\ Len(r \o x) = Len(r) + n BY <1>2, Concat
  <1>8. (r \o x) \o y = r \o (x \o y)
    <2>1. ThreeBytes(r, x, y) BY <1>2, <1>3 DEF ThreeBytes
    <2> QED BY <2>1, AssociativeThree
  <1>7. (r \o x) \o y = r \o rest BY <1>4, <1>8
  <1> QED BY <1>3, <1>5, <1>6, <1>7

LEMMA Carried ==
  ASSUME NEW q \in Bytes, wire' \in Bytes, rest' \in Bytes, left' \in Nat, side' \in {"old", "new"},
         wire' = q \o rest', Stage(q)'
  PROVE  DecoderInv'
  BY DEF DecoderInv

LEMMA Stopped ==
  ASSUME DecoderInv, Finish("err") \/ Finish("panic")
  PROVE  DecoderInv'
  <1>1. PICK r \in Bytes : wire = r \o rest BY DEF DecoderInv
  <1>2. UNCHANGED <<wire, rest, side, left>> /\ field' \in {"err", "panic"} BY DEF Finish
  <1>3. Stage(r)'
    BY <1>2 DEF Stage, ControlStage, RelationStage, RowStage, RelationFields, RowFields
  <1> QED BY <1>1, <1>2, <1>3 DEF DecoderInv

LEMMA Done ==
  ASSUME NEW q, field' = "ok", Accepted(q)'
  PROVE  Stage(q)'
  BY DEF Stage, ControlStage, RelationStage, RowStage, RelationFields, RowFields

LEMMA FieldOfIs ==
  /\ DOMAIN FieldOf = {Code.B, Code.C, Code.R, Code.T}
  /\ FieldOf[Code.B] = "begin" /\ FieldOf[Code.C] = "commit"
  /\ FieldOf[Code.R] = "relation" /\ FieldOf[Code.T] = "truncate"
  BY DEF FieldOf, Code

LEMMA RowKindIs ==
  ASSUME NEW t \in Range(RowTag)
  PROVE  RowKind(t) \in RowKinds /\ RowTag[RowKind(t)] = t
  <1>1. DOMAIN RowTag = RowKinds BY DEF RowTag, RowKinds
  <1>2. \E k \in DOMAIN RowTag : RowTag[k] = t BY DEF Range
  <1> QED BY <1>1, <1>2 DEF RowKind

LEMMA TagKeeps == ASSUME DecoderInv, DecodeTag PROVE DecoderInv'
  <1>1. PICK r \in Bytes : wire = r \o rest /\ Stage(r) BY DEF DecoderInv
  <1>2. r = <<>> BY <1>1 DEF DecodeTag, Stage, ControlStage
  <1>3. CASE Finish("err") \/ Finish("panic") BY <1>3, Stopped
  <1>4. CASE ~(Finish("err") \/ Finish("panic"))
    <2> DEFINE tag == rest[1]
    <2>1. /\ 1 \in 0 .. Len(rest) /\ rest' = SubSeq(rest, 1 + 1, Len(rest))
          /\ UNCHANGED <<wire, side, left>>
          /\ \/ tag \in DOMAIN FieldOf /\ field' = FieldOf[tag]
             \/ /\ tag \in Range(RowTag) /\ field' = "row"
                /\ msg' = [kind |-> RowKind(tag), relation_id |-> 0, old |-> <<>>, new |-> <<>>]
             \/ field' = "ok" /\ msg' = [kind |-> "other", tag |-> tag]
      BY <1>4 DEF DecodeTag, Take, Fits, Goto, Keep
    <2>2. wire \in Bytes /\ rest \in Bytes /\ left \in Nat /\ side \in {"old", "new"}
      BY DEF DecoderInv
    <2>3. Len(rest) \in Nat /\ 1 <= Len(rest) BY <2>1, <2>2, LenProperties DEF Bytes
    <2>4. tag \in Byte /\ SubSeq(rest, 1, 1) = <<tag>> BY <2>2, <2>3, SubSeqOne
    <2> HIDE DEF tag
    <2>5. PICK q \in Bytes : q = <<tag>> /\ wire' = q \o rest' /\ wire' \in Bytes /\ rest' \in Bytes
      <3>1. r \o <<tag>> = <<tag>> BY <1>2, <2>4, One, Empty
      <3>3. Taking(r, 1) BY <1>1, <2>1, <2>2, <2>3 DEF Taking
      <3>2. wire' \in Bytes /\ rest' \in Bytes /\ With(r, 1) \in Bytes /\ wire' = With(r, 1) \o rest'
        BY <3>3, Taken
      <3> QED BY <2>4, <3>1, <3>2 DEF With
    <2>6. Stage(q)'
      <3>1. CASE tag \in DOMAIN FieldOf /\ field' = FieldOf[tag]
        <4>1. \/ tag = Code.B /\ field' = "begin"
              \/ tag = Code.C /\ field' = "commit"
              \/ tag = Code.R /\ field' = "relation"
              \/ tag = Code.T /\ field' = "truncate"
          BY <3>1, FieldOfIs
        <4> QED BY <2>5, <4>1
              DEF Stage, ControlStage, RelationStage, RowStage, RelationFields, RowFields
      <3>2. CASE /\ tag \in Range(RowTag) /\ field' = "row"
                 /\ msg' = [kind |-> RowKind(tag), relation_id |-> 0, old |-> <<>>, new |-> <<>>]
        <4>1. RowKind(tag) \in RowKinds /\ RowTag[RowKind(tag)] = tag BY <3>2, RowKindIs
        <4>2. /\ msg' \in RowMessage /\ msg'.new = <<>> /\ msg'.old = <<>>
              /\ RowTag[msg'.kind] = tag
          BY <3>2, <4>1 DEF RowMessage, Option
        <4> QED BY <2>5, <3>2, <4>2
              DEF Stage, ControlStage, RelationStage, RowStage, RelationFields
      <3>3. CASE field' = "ok" /\ msg' = [kind |-> "other", tag |-> tag]
        <4>1. Accepted(q)' BY <2>5, <3>3 DEF Accepted, Encodings
        <4> QED BY <3>3, <4>1, Done
      <3> QED BY <2>1, <3>1, <3>2, <3>3
    <2> QED BY <2>1, <2>2, <2>5, <2>6, Carried
  <1> QED BY <1>3, <1>4

LEMMA Pair ==
  ASSUME NEW c \in Byte, NEW f \in Byte
  PROVE  <<c>> \o <<f>> = <<c, f>>
  <1> DEFINE x == <<c>>
             y == <<f>>
             z == <<c, f>>
  <1>1. x \in Seq(Byte) /\ Len(x) = 1 /\ x[1] = c OBVIOUS
  <1>2. y \in Seq(Byte) /\ Len(y) = 1 /\ y[1] = f OBVIOUS
  <1>3. z \in Seq(Byte) /\ Len(z) = 2 /\ z[1] = c /\ z[2] = f OBVIOUS
  <1> HIDE DEF x, y, z
  <1>4. /\ x \o y \in Seq(Byte) /\ Len(x \o y) = Len(x) + Len(y)
        /\ \A i \in 1 .. Len(x) + Len(y) : (x \o y)[i] = IF i <= Len(x) THEN x[i] ELSE y[i - Len(x)]
    BY <1>1, <1>2, ConcatProperties
  <1> DEFINE xy == x \o y
  <1>5. xy \in Seq(Byte) /\ Len(xy) = 2 BY <1>1, <1>2, <1>4
  <1>6. xy[1] = c /\ xy[2] = f
    <2>1. 1 \in 1 .. Len(x) + Len(y) /\ 2 \in 1 .. Len(x) + Len(y) /\ 1 <= Len(x) /\ ~(2 <= Len(x))
          /\ 2 - Len(x) = 1
      BY <1>1, <1>2
    <2> QED BY <1>1, <1>2, <1>4, <2>1
  <1> HIDE DEF xy
  <1>7. \A i \in 1 .. Len(z) : xy[i] = z[i]
    <2>1. \A i \in 1 .. Len(z) : i = 1 \/ i = 2 BY <1>3
    <2> QED BY <1>3, <1>6, <2>1
  <1>8. xy = z BY <1>3, <1>5, <1>7, SeqEqual
  <1> QED BY <1>8 DEF x, y, z, xy

\* The fields of a message in their order: `a` bytes, then those up to `b`.
Covers(r, a, w, b) ==
  /\ rest \in Bytes /\ r \in Bytes /\ a \in Nat /\ w \in Nat /\ b \in Nat
  /\ b = a + w /\ b <= Len(rest)

LEMMA NumberAt ==
  ASSUME NEW r, NEW a, NEW w, NEW b, Covers(r, a, w, b)
  PROVE  /\ With(r, a) \o BigEndian(Unsigned(a, w), w) = With(r, b)
         /\ With(r, a) \o BigEndian(Signed(a, w), w) = With(r, b)
  <1>0. /\ rest \in Bytes /\ r \in Bytes /\ a \in Nat /\ w \in Nat /\ b \in Nat
        /\ b = a + w /\ b <= Len(rest)
    BY DEF Covers
  <1> USE <1>0
  <1>1. /\ BigEndian(Unsigned(a, w), w) = Piece(a + 1, b)
        /\ BigEndian(Signed(a, w), w) = Piece(a + 1, b)
    BY ReadsNumber DEF Piece
  <1>2. With(r, a) \o Piece(a + 1, b) = With(r, b)
    <2>1. Adjoin(r, a, a + 1, b) BY LenProperties DEF Adjoin, Bytes
    <2> QED BY <2>1, Join
  <1> QED BY <1>1, <1>2

LEMMA FirstNumber ==
  ASSUME NEW r, NEW w, Covers(r, 0, w, w)
  PROVE  /\ r \o BigEndian(Unsigned(0, w), w) = With(r, w)
         /\ r \o BigEndian(Signed(0, w), w) = With(r, w)
  <1> USE DEF Covers
  <1>1. 0 \in Nat /\ 0 + w <= Len(rest) /\ 0 + w = w /\ 0 + 1 = 1 OBVIOUS
  <1>2. /\ BigEndian(Unsigned(0, w), w) = SubSeq(rest, 0 + 1, 0 + w)
        /\ BigEndian(Signed(0, w), w) = SubSeq(rest, 0 + 1, 0 + w)
    BY <1>1, ReadsNumber
  <1> QED BY <1>1, <1>2 DEF With

LEMMA ByteAt ==
  ASSUME NEW r, NEW a, NEW b, Covers(r, a, 1, b)
  PROVE  /\ With(r, a) \o <<rest[b]>> = With(r, b)
         /\ rest[b] \in Byte
  <1> USE DEF Covers
  <1>1. Len(rest) \in Nat BY LenProperties DEF Bytes
  <1>2. b \in 1 .. Len(rest) BY <1>1
  <1>3. Piece(b, b) = <<rest[b]>> /\ rest[b] \in Byte BY <1>2, SubSeqOne DEF Piece
  <1>4. With(r, a) \o Piece(b, b) = With(r, b)
    <2>1. Adjoin(r, a, b, b) BY <1>1 DEF Adjoin
    <2> QED BY <2>1, Join
  <1> QED BY <1>3, <1>4

LEMMA BeginKeeps == ASSUME DecoderInv, DecodeBegin PROVE DecoderInv'
  <1>1. PICK r \in Bytes : wire = r \o rest /\ Stage(r) BY DEF DecoderInv
  <1>2. r = <<Code.B>> BY <1>1 DEF DecodeBegin, Stage, ControlStage
  <1>3. CASE Finish("err") \/ Finish("panic") BY <1>3, Stopped
  <1>4. CASE ~(Finish("err") \/ Finish("panic"))
    <2> DEFINE n == U64 + U64 + U32
               a == 2 * U64
    <2>1. /\ n \in 0 .. Len(rest) /\ rest' = SubSeq(rest, n + 1, Len(rest))
          /\ UNCHANGED <<wire, side, left>> /\ field' = "ok"
          /\ msg' = [kind |-> "begin", final_lsn |-> Unsigned(0, U64),
                     timestamp |-> Signed(U64, U64), xid |-> Unsigned(a, U32)]
      BY <1>4 DEF DecodeBegin, Take, Fits, Goto, Keep
    <2>2. wire \in Bytes /\ rest \in Bytes /\ left \in Nat /\ side \in {"old", "new"}
      BY DEF DecoderInv
    <2>3. /\ U64 \in Nat /\ U32 \in Nat /\ a \in Nat /\ n \in Nat
          /\ a = U64 + U64 /\ n = a + U32
      BY Widths
    <2>4. Len(rest) \in Nat BY <2>2, LenProperties DEF Bytes
    <2> HIDE DEF n, a
    <2>5. n <= Len(rest) BY <2>1, <2>3, <2>4
    <2>6. a <= Len(rest) /\ U64 <= Len(rest) BY <2>3, <2>4, <2>5
    <2>14. Taking(r, n) BY <1>1, <2>1, <2>2, <2>3, <2>5 DEF Taking
    <2>7. PICK q \in Bytes : /\ q = With(r, n)
                             /\ wire' = q \o rest' /\ wire' \in Bytes /\ rest' \in Bytes
      BY <2>14, Taken
    <2>15. Covers(r, 0, U64, U64) /\ Covers(r, U64, U64, a) /\ Covers(r, a, U32, n)
      BY <2>2, <2>3, <2>5, <2>6 DEF Covers
    <2>8. r \o BigEndian(Unsigned(0, U64), U64) = With(r, U64)
      BY <2>15, FirstNumber
    <2>9. With(r, U64) \o BigEndian(Signed(U64, U64), U64) = With(r, a)
      BY <2>15, NumberAt
    <2>10. With(r, a) \o BigEndian(Unsigned(a, U32), U32) = q
      BY <2>7, <2>15, NumberAt
    <2>11. Encodings(msg') = {((r \o BigEndian(Unsigned(0, U64), U64))
                                \o BigEndian(Signed(U64, U64), U64))
                                \o BigEndian(Unsigned(a, U32), U32)}
      BY <1>2, <2>1 DEF Encodings
    <2>12. q \in Encodings(msg') BY <2>8, <2>9, <2>10, <2>11
    <2>13. Stage(q)'
      <3>1. Accepted(q)' BY <2>1, <2>12 DEF Accepted
      <3> QED BY <2>1, <3>1, Done
    <2> QED BY <2>1, <2>2, <2>7, <2>13, Carried
  <1> QED BY <1>3, <1>4

LEMMA CommitKeeps == ASSUME DecoderInv, DecodeCommit PROVE DecoderInv'
  <1>1. PICK r \in Bytes : wire = r \o rest /\ Stage(r) BY DEF DecoderInv
  <1>2. r = <<Code.C>> BY <1>1 DEF DecodeCommit, Stage, ControlStage
  <1>3. CASE Finish("err") \/ Finish("panic") BY <1>3, Stopped
  <1>4. CASE ~(Finish("err") \/ Finish("panic"))
    <2> DEFINE n == 1 + U64 + U64 + U64
    <2>1. /\ n \in 0 .. Len(rest) /\ rest' = SubSeq(rest, n + 1, Len(rest))
          /\ UNCHANGED <<wire, side, left>> /\ field' = "ok"
          /\ msg' = [kind |-> "commit", flags |-> rest[1], commit_lsn |-> Unsigned(1, U64),
                     end_lsn |-> Unsigned(1 + U64, U64), timestamp |-> Signed(1 + 2 * U64, U64)]
      BY <1>4 DEF DecodeCommit, Take, Fits, Goto, Keep
    <2>2. wire \in Bytes /\ rest \in Bytes /\ left \in Nat /\ side \in {"old", "new"}
      BY DEF DecoderInv
    <2> DEFINE a == 1 + U64
               b == 1 + 2 * U64
    <2>3. /\ U64 \in Nat /\ a \in Nat /\ b \in Nat /\ n \in Nat
          /\ a = 1 + U64 /\ b = a + U64 /\ n = b + U64
      BY Widths
    <2>4. Len(rest) \in Nat BY <2>2, LenProperties DEF Bytes
    <2>14. /\ msg' = [kind |-> "commit", flags |-> rest[1], commit_lsn |-> Unsigned(1, U64),
                      end_lsn |-> Unsigned(a, U64), timestamp |-> Signed(b, U64)]
      BY <2>1
    <2> HIDE DEF n, a, b
    <2>5. n <= Len(rest) BY <2>1, <2>3, <2>4
    <2>6. a <= Len(rest) /\ b <= Len(rest) /\ 1 <= Len(rest) BY <2>3, <2>4, <2>5
    <2>15. Taking(r, n) BY <1>1, <2>1, <2>2, <2>3, <2>5 DEF Taking
    <2>16. Covers(r, 1, U64, a) /\ Covers(r, a, U64, b) /\ Covers(r, b, U64, n)
      BY <1>1, <2>2, <2>3, <2>5, <2>6 DEF Covers
    <2>7. PICK q \in Bytes : /\ q = With(r, n)
                             /\ wire' = q \o rest' /\ wire' \in Bytes /\ rest' \in Bytes
      BY <2>15, Taken
    <2>8. With(r, 1) = <<Code.C, rest[1]>>
      <3>1. 1 \in 1 .. Len(rest) BY <2>4, <2>6
      <3>2. SubSeq(rest, 1, 1) = <<rest[1]>> BY <2>2, <3>1, SubSeqOne
      <3> DEFINE c == Code.C
                 f == rest[1]
      <3>3. <<c>> \o <<f>> = <<c, f>>
        <4>1. c \in Byte /\ f \in Byte BY <2>2, <3>1, SubSeqOne, Codes
        <4> HIDE DEF c, f
        <4> QED BY <4>1, Pair
      <3> QED BY <1>2, <3>2, <3>3 DEF With
    <2>9. With(r, 1) \o BigEndian(Unsigned(1, U64), U64) = With(r, a)
      BY <2>16, NumberAt
    <2>10. With(r, a) \o BigEndian(Unsigned(a, U64), U64) = With(r, b)
      BY <2>16, NumberAt
    <2>11. With(r, b) \o BigEndian(Signed(b, U64), U64) = q
      BY <2>7, <2>16, NumberAt
    <2>12. Encodings(msg') = {((<<Code.C, rest[1]>> \o BigEndian(Unsigned(1, U64), U64))
                                \o BigEndian(Unsigned(a, U64), U64))
                                \o BigEndian(Signed(b, U64), U64)}
      BY <2>14 DEF Encodings
    <2>13. Stage(q)'
      <3>1. q \in Encodings(msg') BY <2>8, <2>9, <2>10, <2>11, <2>12
      <3>2. Accepted(q)' BY <2>14, <3>1 DEF Accepted
      <3> QED BY <2>1, <3>2, Done
    <2> QED BY <2>1, <2>2, <2>7, <2>13, Carried
  <1> QED BY <1>3, <1>4

LEMMA TruncateKeeps == ASSUME DecoderInv, DecodeTruncate PROVE DecoderInv'
  <1>1. PICK r \in Bytes : wire = r \o rest /\ Stage(r) BY DEF DecoderInv
  <1>2. r = <<Code.T>> BY <1>1 DEF DecodeTruncate, Stage, ControlStage
  <1>3. CASE Finish("err") \/ Finish("panic") BY <1>3, Stopped
  <1>4. CASE ~(Finish("err") \/ Finish("panic"))
    <2> DEFINE nrels == Unsigned(0, U32)
               size == U32 + 1 + nrels * U32
               ids == [i \in 1..nrels |-> Unsigned(1 + i * U32, U32)]
    <2>1. /\ size \in 0 .. Len(rest) /\ rest' = SubSeq(rest, size + 1, Len(rest))
          /\ UNCHANGED <<wire, side, left>> /\ field' = "ok" /\ U32 + 1 \in 0 .. Len(rest)
          /\ msg' = [kind |-> "truncate", option_bits |-> rest[U32 + 1], relation_ids |-> ids]
      BY <1>4 DEF DecodeTruncate, Take, Fits, Goto, Keep
    <2>2. wire \in Bytes /\ rest \in Bytes /\ left \in Nat /\ side \in {"old", "new"}
      BY DEF DecoderInv
    <2>3. Len(rest) \in Nat /\ U32 \in Nat BY <2>2, LenProperties, Widths DEF Bytes
    <2>4. U32 <= Len(rest) /\ U32 + 1 <= Len(rest) BY <2>1, <2>3
    <2>5. nrels \in Nat
      <3>1. 0 + U32 <= Len(rest) /\ 0 \in Nat BY <2>3, <2>4
      <3> QED BY <2>2, <2>3, <3>1, ReadsNumber
    <2>6. /\ ids \in [1..nrels -> Int]
          /\ \A i \in 1..nrels : ids[i] = Unsigned(1 + i * U32, U32)
          /\ \A i \in 1..nrels : BigEndian(ids[i], U32)
                                  = SubSeq(rest, 1 + i * U32 + 1, 1 + i * U32 + U32)
      <3> HIDE DEF nrels
      <3>1. ASSUME NEW i \in 1..nrels
            PROVE  1 + i * U32 \in Nat /\ (1 + i * U32) + U32 <= Len(rest)
        <4>1. i * U32 \in Nat /\ (nrels - i) * U32 \in Nat /\ nrels * U32 = i * U32 + (nrels - i) * U32
          BY <2>3, <2>5
        <4> DEFINE x == i * U32
                   y == (nrels - i) * U32
                   z == nrels * U32
        <4>2. x \in Nat /\ y \in Nat /\ z = x + y /\ U32 + 1 + z <= Len(rest) BY <2>1, <4>1
        <4> HIDE DEF x, y, z
        <4>3. 1 + x \in Nat /\ (1 + x) + U32 <= Len(rest) BY <2>3, <4>2
        <4> QED BY <4>3 DEF x
      <3>2. ASSUME NEW i \in 1..nrels
            PROVE  /\ Unsigned(1 + i * U32, U32) \in Nat
                   /\ BigEndian(Unsigned(1 + i * U32, U32), U32)
                        = SubSeq(rest, (1 + i * U32) + 1, (1 + i * U32) + U32)
        <4> DEFINE k == 1 + i * U32
        <4>1. k \in Nat /\ k + U32 <= Len(rest) BY <3>1
        <4> HIDE DEF k
        <4>2. Unsigned(k, U32) \in Nat /\ BigEndian(Unsigned(k, U32), U32) = SubSeq(rest, k + 1, k + U32)
          BY <2>2, <2>3, <4>1, ReadsNumber
        <4> QED BY <4>2 DEF k
      <3> QED BY <3>2
    <2>7. size \in Nat /\ nrels * U32 \in Nat /\ size = 1 + nrels * U32 + U32 /\ size <= Len(rest)
      <3>1. nrels * U32 \in Nat BY <2>3, <2>5
      <3> HIDE DEF nrels
      <3> QED BY <2>1, <2>3, <3>1
    <2>8. ids \in Seq(Int) /\ Len(ids) = nrels
      <3>1. DOMAIN ids = 1..nrels OBVIOUS
      <3> HIDE DEF ids, nrels
      <3>2. ids \in Seq(Int) BY <2>5, <2>6, SeqDef
      <3> QED BY <2>5, <3>1, <3>2
    <2>9. EncodedEach(ids, EncodedId) = Piece(U32 + 1 + 1, size)
      <3>1. EncodedEach(ids, EncodedId) = FlattenSeq([i \in DOMAIN ids |-> BigEndian(ids[i], U32)])
        BY DEF EncodedEach, EncodedId
      <3>2. DOMAIN ids = 1..nrels OBVIOUS
      <3> HIDE DEF ids, nrels, size
      <3>3. [i \in DOMAIN ids |-> BigEndian(ids[i], U32)]
              = [i \in 1..nrels |-> SubSeq(rest, 1 + i * U32 + 1, 1 + i * U32 + U32)]
        BY <2>6, <3>2
      <3>4. FlattenSeq([i \in 1..nrels |-> SubSeq(rest, 1 + i * U32 + 1, 1 + i * U32 + U32)])
              = SubSeq(rest, 1 + U32 + 1, 1 + nrels * U32 + U32)
        <4>1. Pieces(rest, 1, U32, nrels) BY <2>2, <2>3, <2>5, <2>7 DEF Pieces
        <4> QED BY <4>1, Chunks
      <3>5. 1 + U32 + 1 = U32 + 1 + 1 BY <2>3
      <3> QED BY <2>7, <3>1, <3>3, <3>4, <3>5 DEF Piece
    <2> HIDE DEF ids, nrels, size
    <2>10. PICK q \in Bytes : /\ q = With(r, size)
                              /\ wire' = q \o rest' /\ wire' \in Bytes /\ rest' \in Bytes
      <3>1. Taking(r, size) BY <1>1, <2>1, <2>2, <2>7 DEF Taking
      <3> QED BY <3>1, Taken
    <2> DEFINE a == U32 + 1
    <2>16. a \in Nat /\ a = U32 + 1 /\ a <= Len(rest) /\ a <= size /\ a + 1 \in Nat
      <3>1. nrels * U32 \in Nat BY <2>7
      <3> QED BY <2>3, <2>4, <2>7, <3>1
    <2> HIDE DEF a
    <2>17. Covers(r, 0, U32, U32) /\ Covers(r, U32, 1, a) BY <2>2, <2>3, <2>4, <2>16 DEF Covers
    <2>11. r \o BigEndian(Len(ids), U32) = With(r, U32)
      BY <2>8, <2>17, FirstNumber DEF nrels
    <2>12. With(r, U32) \o <<rest[a]>> = With(r, a)
      BY <2>17, ByteAt
    <2>13. With(r, a) \o Piece(a + 1, size) = q
      <3>1. Adjoin(r, a, a + 1, size) BY <2>2, <2>7, <2>16 DEF Adjoin
      <3>2. With(r, a) \o Piece(a + 1, size) = With(r, size)
        BY <3>1, Join
      <3> QED BY <2>10, <3>2
    <2>14. Encodings(msg') = {((r \o BigEndian(Len(ids), U32)) \o <<rest[a]>>)
                                \o EncodedEach(ids, EncodedId)}
      BY <1>2, <2>1, <2>16 DEF Encodings
    <2>15. Stage(q)'
      <3>1. q \in Encodings(msg') BY <2>9, <2>11, <2>12, <2>13, <2>14 DEF a
      <3>2. Accepted(q)' BY <2>1, <3>1 DEF Accepted
      <3> QED BY <2>1, <3>2, Done
    <2> QED BY <2>1, <2>2, <2>10, <2>15, Carried
  <1> QED BY <1>3, <1>4
\* A name ends before the first zero, which is there.
LEMMA NameIsRead ==
  ASSUME rest \in Bytes, 0 \in Range(rest)
  PROVE  /\ NameEnd \in Nat /\ 1 <= NameEnd /\ NameEnd <= Len(rest)
         /\ NameRead \in Bytes /\ NameEnd = Len(NameRead) + 1
  <1> DEFINE I == {i \in 1 .. Len(rest) : rest[i] = 0}
  <1>1. Len(rest) \in Nat /\ DOMAIN rest = 1 .. Len(rest) BY LenProperties DEF Bytes
  <1>2. I # {} /\ I \in SUBSET Nat BY <1>1 DEF Range
  <1>3. NameEnd = Min(I) BY <1>2 DEF NameEnd, SelectInSeq
  <1>4. PICK m \in I : \A j \in I : m <= j BY <1>2, LeastNat
  <1>5. Min(I) \in I BY <1>4 DEF Min
  <1>6. NameEnd \in Nat /\ 1 <= NameEnd /\ NameEnd <= Len(rest) BY <1>1, <1>3, <1>5
  <1> DEFINE e == NameEnd - 1
  <1>7. e \in Nat /\ 1 <= e + 1 /\ e <= Len(rest) /\ NameEnd = e + 1 BY <1>1, <1>6
  <1>9. NameRead = SubSeq(rest, 1, e) BY DEF NameRead
  <1> HIDE DEF e
  <1>8. SubSeq(rest, 1, e) \in Bytes /\ Len(SubSeq(rest, 1, e)) = e - 1 + 1 BY <1>7, SubSeqBytes
  <1> QED BY <1>6, <1>7, <1>8, <1>9

LEMMA TakeIs ==
  ASSUME DecoderInv, NEW n, Fits(n), rest' = SubSeq(rest, n + 1, Len(rest)), wire' = wire,
         NEW r \in Bytes, wire = r \o rest
  PROVE  \E q \in Bytes : /\ wire' = q \o rest' /\ wire' \in Bytes /\ rest' \in Bytes
                          /\ q = With(r, n) /\ Len(q) = Len(r) + n
  <1>1. wire \in Bytes /\ rest \in Bytes BY DEF DecoderInv
  <1>2. Len(rest) \in Nat BY <1>1, LenProperties DEF Bytes
  <1>3. Taking(r, n) BY <1>1, <1>2 DEF Taking, Fits
  <1> QED BY <1>3, Taken

LEMMA RelationKeeps == ASSUME DecoderInv, DecodeRelation PROVE DecoderInv'
  <1>1. PICK r \in Bytes : wire = r \o rest /\ Stage(r) BY DEF DecoderInv
  <1>2. r = <<Code.R>> BY <1>1 DEF DecodeRelation, Stage, ControlStage
  <1>3. CASE Finish("err") \/ Finish("panic") BY <1>3, Stopped
  <1>4. CASE ~(Finish("err") \/ Finish("panic"))
    <2>1. /\ Fits(U32) /\ rest' = SubSeq(rest, U32 + 1, Len(rest))
          /\ UNCHANGED <<wire, side, left>> /\ field' = "namespace"
          /\ msg' = [kind |-> "relation", id |-> Unsigned(0, U32), namespace |-> <<>>,
                     name |-> <<>>, identity |-> Default, columns |-> <<>>]
      BY <1>4 DEF DecodeRelation, Take, Goto, Keep
    <2>2. rest \in Bytes /\ left \in Nat /\ side \in {"old", "new"} BY DEF DecoderInv
    <2>3. PICK q \in Bytes : /\ wire' = q \o rest' /\ wire' \in Bytes /\ rest' \in Bytes
                             /\ Len(q) = Len(r) + U32
      BY <1>1, <2>1, TakeIs
    <2>4. Len(q) = 1 + U32
      <3>1. Len(r) = 1 BY <1>2, Codes, One
      <3> QED BY <2>3, <3>1
    <2>5. Unsigned(0, U32) \in Nat
      <3>1. 0 \in Nat /\ U32 \in Nat /\ 0 + U32 <= Len(rest)
        <4>1. U32 \in Nat /\ Len(rest) \in Nat BY <2>2, Widths, LenProperties DEF Bytes
        <4> QED BY <2>1, <4>1 DEF Fits
      <3> QED BY <2>2, <3>1, ReadsNumber
    <2>6. msg' \in RelationMessage /\ msg'.columns = <<>>
      <3>1. <<>> \in Seq(Byte) /\ <<>> \in Seq(ColumnInfo) BY EmptySeq
      <3>2. Default \in Byte BY DEF Default, Byte
      <3> QED BY <2>1, <2>5, <3>1, <3>2 DEF RelationMessage
    <2>7. Stage(q)'
      BY <2>1, <2>4, <2>6 DEF Stage, ControlStage, RelationStage, RowStage, RelationFields, RowFields
    <2> QED BY <2>1, <2>2, <2>3, <2>7, Carried
  <1> QED BY <1>3, <1>4

\* What the fields of a relation stand for, at one of them.

LEMMA NamesKeep == ASSUME DecoderInv, DecodeNames PROVE DecoderInv'
  <1>1. PICK r \in Bytes : wire = r \o rest /\ Stage(r) BY DEF DecoderInv
  <1>2. rest \in Bytes /\ left \in Nat /\ side \in {"old", "new"} BY DEF DecoderInv
  <1>3. CASE Finish("err") \/ Finish("panic") BY <1>3, Stopped
  <1>4. CASE ~(Finish("err") \/ Finish("panic"))
    <2>1. /\ 0 \in Range(rest) /\ Fits(NameEnd) /\ rest' = SubSeq(rest, NameEnd + 1, Len(rest))
          /\ UNCHANGED <<wire, side, left>>
          /\ \/ /\ field = "namespace" /\ field' = "name"
                /\ msg' = [msg EXCEPT !.namespace = NameRead]
             \/ /\ field = "name" /\ field' = "identity"
                /\ msg' = [msg EXCEPT !.name = NameRead]
      BY <1>4 DEF DecodeNames, ReadCString, Take, Goto, Keep
    <2>2. NameRead \in Bytes /\ NameEnd = Len(NameRead) + 1 BY <1>2, <2>1, NameIsRead
    <2>3. PICK q \in Bytes : /\ wire' = q \o rest' /\ wire' \in Bytes /\ rest' \in Bytes
                             /\ Len(q) = Len(r) + NameEnd
      BY <1>1, <2>1, TakeIs
    <2>4. Len(q) = Len(r) + (Len(NameRead) + 1) BY <2>2, <2>3
    <2>5. msg \in RelationMessage /\ msg.columns = <<>>
      BY <1>1, <2>1 DEF Stage, RelationStage, RelationFields
    <2>6. CASE field = "namespace"
      <3>1. Len(r) = 1 + U32 BY <1>1, <2>6 DEF Stage, RelationStage, RelationFields
      <3>2. field' = "name" /\ msg' = [msg EXCEPT !.namespace = NameRead] BY <2>1, <2>6
      <3>3. msg' \in RelationMessage /\ msg'.columns = <<>> /\ msg'.namespace = NameRead
        BY <2>2, <2>5, <3>2 DEF RelationMessage, Bytes
      <3>4. Len(q) = 1 + U32 + (Len(msg'.namespace) + 1) BY <2>4, <3>1, <3>3
      <3>5. Stage(q)'
        BY <3>2, <3>3, <3>4
           DEF Stage, ControlStage, RelationStage, RowStage, RelationFields, RowFields
      <3> QED BY <1>2, <2>1, <2>3, <3>5, Carried
    <2>7. CASE field = "name"
      <3>1. Len(r) = 1 + U32 + (Len(msg.namespace) + 1)
        BY <1>1, <2>7 DEF Stage, RelationStage, RelationFields
      <3>2. field' = "identity" /\ msg' = [msg EXCEPT !.name = NameRead] BY <2>1, <2>7
      <3>3. /\ msg' \in RelationMessage /\ msg'.columns = <<>>
            /\ msg'.namespace = msg.namespace /\ msg'.name = NameRead
        BY <2>2, <2>5, <3>2 DEF RelationMessage, Bytes
      <3>4. Len(q) = 1 + U32 + (Len(msg'.namespace) + 1) + (Len(msg'.name) + 1)
        BY <2>4, <3>1, <3>3
      <3>5. Stage(q)'
        BY <3>2, <3>3, <3>4
           DEF Stage, ControlStage, RelationStage, RowStage, RelationFields, RowFields
      <3> QED BY <1>2, <2>1, <2>3, <3>5, Carried
    <2> QED BY <2>1, <2>6, <2>7
  <1> QED BY <1>3, <1>4

LEMMA IdentityKeeps == ASSUME DecoderInv, DecodeIdentity PROVE DecoderInv'
  <1>1. PICK r \in Bytes : wire = r \o rest /\ Stage(r) BY DEF DecoderInv
  <1>2. rest \in Bytes /\ side \in {"old", "new"} BY DEF DecoderInv
  <1>3. CASE Finish("err") \/ Finish("panic") BY <1>3, Stopped
  <1>4. CASE ~(Finish("err") \/ Finish("panic"))
    <2> DEFINE n == 1 + U16
               id == IF rest[1] \in Identities THEN rest[1] ELSE Default
    <2>1. /\ Fits(n) /\ rest' = SubSeq(rest, n + 1, Len(rest))
          /\ UNCHANGED <<wire, side>> /\ field = "identity" /\ field' = "flags"
          /\ msg' = [msg EXCEPT !.identity = id] /\ left' = Unsigned(1, U16)
      BY <1>4 DEF DecodeIdentity, Take, Goto, Keep
    <2>2. id \in Byte BY DEF Identities, Default, Byte
    <2>3. PICK q \in Bytes : /\ wire' = q \o rest' /\ wire' \in Bytes /\ rest' \in Bytes
                             /\ Len(q) = Len(r) + n
      <3> HIDE DEF n
      <3> QED BY <1>1, <2>1, TakeIs
    <2>4. left' \in Nat
      <3>1. U16 \in Nat /\ Len(rest) \in Nat BY <1>2, Widths, LenProperties DEF Bytes
      <3>2. 1 \in Nat /\ 1 + U16 <= Len(rest) BY <2>1, <3>1 DEF Fits
      <3>3. Unsigned(1, U16) \in Nat BY <1>2, <3>1, <3>2, ReadsNumber
      <3> QED BY <2>1, <3>3
    <2>5. /\ msg \in RelationMessage /\ msg.columns = <<>>
          /\ Len(r) = 1 + U32 + (Len(msg.namespace) + 1) + (Len(msg.name) + 1)
      BY <1>1, <2>1 DEF Stage, RelationStage, RelationFields
    <2> HIDE DEF id
    <2>6. /\ msg' \in RelationMessage /\ msg'.columns = <<>>
          /\ msg'.namespace = msg.namespace /\ msg'.name = msg.name
      BY <2>1, <2>2, <2>5 DEF RelationMessage
    <2>7. Len(q) = HeaderLength'
      <3>1. HeaderLength' = 1 + U32 + (Len(msg.namespace) + 1) + (Len(msg.name) + 1) + 1 + U16
        BY <2>6 DEF HeaderLength
      <3>2. Len(msg.namespace) \in Nat /\ Len(msg.name) \in Nat /\ U16 \in Nat /\ U32 \in Nat
        <4>1. msg.namespace \in Seq(Byte) /\ msg.name \in Seq(Byte) BY <2>5 DEF RelationMessage
        <4> QED BY <4>1, LenProperties, Widths
      <3> DEFINE a == Len(msg.namespace)
                 b == Len(msg.name)
      <3>3. /\ a \in Nat /\ b \in Nat /\ Len(q) = 1 + U32 + (a + 1) + (b + 1) + (1 + U16)
            /\ HeaderLength' = 1 + U32 + (a + 1) + (b + 1) + 1 + U16
        BY <2>3, <2>5, <3>1, <3>2
      <3> HIDE DEF a, b
      <3> QED BY <3>2, <3>3
    <2>8. Len(ColumnsOf(msg'.columns)) = 0 BY <2>6, EachEmpty, Empty
    <2>9. Len(q) = HeaderLength' + Len(ColumnsOf(msg'.columns))
      <3>1. Len(q) \in Nat BY LenProperties DEF Bytes
      <3> QED BY <2>7, <2>8, <3>1
    <2>10. Stage(q)'
      BY <2>1, <2>6, <2>9
         DEF Stage, ControlStage, RelationStage, RowStage, RelationFields, RowFields
    <2> QED BY <1>2, <2>1, <2>3, <2>4, <2>10, Carried
  <1> QED BY <1>3, <1>4

LEMMA HeaderIsNat ==
  ASSUME msg \in RelationMessage
  PROVE  HeaderLength \in Nat
  <1> DEFINE a == Len(msg.namespace)
             b == Len(msg.name)
  <1>1. msg.namespace \in Seq(Byte) /\ msg.name \in Seq(Byte) BY DEF RelationMessage
  <1>2. a \in Nat /\ b \in Nat BY <1>1, LenProperties
  <1>3. HeaderLength = 1 + U32 + (a + 1) + (b + 1) + 1 + U16 BY DEF HeaderLength
  <1> HIDE DEF a, b
  <1> QED BY <1>2, <1>3, Widths

LEMMA ColumnsAreBytes ==
  ASSUME NEW s \in Seq(ColumnInfo)
  PROVE  ColumnsOf(s) \in Bytes /\ Len(ColumnsOf(s)) \in Nat
  <1>1. [part_of_key |-> TRUE, name |-> <<>>, type_oid |-> 0, type_modifier |-> 0] \in ColumnInfo
    <2>1. <<>> \in Seq(Byte) BY EmptySeq
    <2> QED BY <2>1 DEF ColumnInfo
  <1>2. ColumnsOf(s) \in Bytes BY <1>1, ColumnsAppend
  <1> QED BY <1>2, LenProperties DEF Bytes

\* How long the encoding of a relation is.
LEMMA RelationLength ==
  ASSUME NEW m \in RelationMessage
  PROVE  \E e \in Encodings(m) :
           Len(e) = 1 + U32 + (Len(m.namespace) + 1) + (Len(m.name) + 1) + 1 + U16
                      + Len(ColumnsOf(m.columns))
  <1> DEFINE t == <<Code.R>>
             i == EncodedId(m.id)
             s == CString(m.namespace)
             n == CString(m.name)
             y == <<m.identity>>
             k == BigEndian(Len(m.columns), U16)
             c == ColumnsOf(m.columns)
  <1>1. /\ m.kind = "relation" /\ m.id \in Int /\ m.namespace \in Seq(Byte) /\ m.name \in Seq(Byte)
        /\ m.identity \in Byte /\ m.columns \in Seq(ColumnInfo)
    BY DEF RelationMessage
  <1>2. Encodings(m) = {(((((t \o i) \o s) \o n) \o y) \o k) \o c}
    BY <1>1 DEF Encodings, ColumnsOf
  <1>3. /\ t \in Bytes /\ Len(t) = 1
        /\ y \in Bytes /\ Len(y) = 1
    BY <1>1, Codes, One
  <1>4. i \in Bytes /\ Len(i) = U32
    BY <1>1, Widths, BigEndianIsBytes DEF Bytes, EncodedId
  <1>5. 0 \in Byte BY DEF Byte
  <1>6. s \in Bytes /\ Len(s) = Len(m.namespace) + 1
    BY <1>1, <1>5, AppendProperties DEF CString, Bytes
  <1>7. n \in Bytes /\ Len(n) = Len(m.name) + 1
    BY <1>1, <1>5, AppendProperties DEF CString, Bytes
  <1>8. k \in Bytes /\ Len(k) = U16
    <2>1. Len(m.columns) \in Int BY <1>1, LenProperties
    <2> QED BY <2>1, Widths, BigEndianIsBytes DEF Bytes
  <1>9. c \in Bytes BY <1>1, ColumnsAreBytes
  <1>10. /\ U16 \in Nat /\ U32 \in Nat /\ Len(m.namespace) \in Nat /\ Len(m.name) \in Nat
         /\ Len(c) \in Nat
    <2>1. Len(c) \in Nat BY <1>9, LenProperties DEF Bytes
    <2> HIDE DEF c
    <2> QED BY <1>1, <2>1, LenProperties, Widths
  <1> HIDE DEF t, i, s, n, y, k, c
  <1>11. t \o i \in Bytes /\ Len(t \o i) = 1 + U32 BY <1>3, <1>4, Concat
  <1>12. (t \o i) \o s \in Bytes /\ Len((t \o i) \o s) = (1 + U32) + (Len(m.namespace) + 1)
    BY <1>6, <1>11, Concat
  <1> DEFINE x == (t \o i) \o s
  <1>13. x \o n \in Bytes /\ Len(x \o n) = Len(x) + Len(n) BY <1>7, <1>12, Concat
  <1>14. (x \o n) \o y \in Bytes /\ Len((x \o n) \o y) = Len(x \o n) + 1 BY <1>3, <1>13, Concat
  <1> DEFINE z == (x \o n) \o y
  <1>15. z \o k \in Bytes /\ Len(z \o k) = Len(z) + U16 BY <1>8, <1>14, Concat
  <1>16. Len((z \o k) \o c) = Len(z \o k) + Len(c) BY <1>9, <1>15, Concat
  <1>17. Len((z \o k) \o c) = 1 + U32 + (Len(m.namespace) + 1) + (Len(m.name) + 1) + 1 + U16 + Len(c)
    <2> DEFINE a == Len(m.namespace)
               b == Len(m.name)
               d == Len(c)
               lx == Len(x)
               ln == Len(x \o n)
               lz == Len(z)
               lk == Len(z \o k)
               le == Len((z \o k) \o c)
    <2>1. /\ a \in Nat /\ b \in Nat /\ d \in Nat /\ U16 \in Nat /\ U32 \in Nat
          /\ lx = (1 + U32) + (a + 1) /\ ln = lx + (b + 1) /\ lz = ln + 1 /\ lk = lz + U16
          /\ le = lk + d
      BY <1>7, <1>10, <1>12, <1>13, <1>14, <1>15, <1>16
    <2> HIDE DEF a, b, d, lx, ln, lz, lk, le
    <2>2. le = 1 + U32 + (a + 1) + (b + 1) + 1 + U16 + d BY <2>1
    <2> QED BY <2>2 DEF a, b, d, le
  <1> QED BY <1>2, <1>17 DEF c

LEMMA FlagsKeep == ASSUME DecoderInv, DecodeColumnFlags PROVE DecoderInv'
  <1>1. PICK r \in Bytes : wire = r \o rest /\ Stage(r) BY DEF DecoderInv
  <1>2. wire \in Bytes /\ rest \in Bytes /\ left \in Nat /\ side \in {"old", "new"} BY DEF DecoderInv
  <1>3. CASE Finish("err") \/ Finish("panic") BY <1>3, Stopped
  <1>4. CASE ~(Finish("err") \/ Finish("panic"))
    <2>1. msg \in RelationMessage /\ Len(r) = HeaderLength + Len(ColumnsOf(msg.columns))
      BY <1>1 DEF DecodeColumnFlags, Stage, RelationStage, RelationFields
    <2>2. CASE Finish("ok")
      <3>1. UNCHANGED <<wire, rest, msg, side, left>> /\ field' = "ok" BY <2>2 DEF Finish
      <3>2. \E e \in Encodings(msg) : Len(e) = Len(r) BY <2>1, RelationLength DEF HeaderLength
      <3>3. msg.kind = "relation" BY <2>1 DEF RelationMessage
      <3>4. Accepted(r)' BY <3>1, <3>2, <3>3 DEF Accepted
      <3>5. Stage(r)' BY <3>1, <3>4, Done
      <3>6. wire' = r \o rest' BY <1>1, <3>1
      <3> QED BY <1>2, <3>1, <3>5, <3>6, Carried
    <2>3. CASE ~Finish("ok")
      <3> DEFINE c == [part_of_key |-> rest[1] % 2 = 1, name |-> <<>>, type_oid |-> 0,
                       type_modifier |-> 0]
      <3>1. /\ Fits(1) /\ rest' = SubSeq(rest, 1 + 1, Len(rest)) /\ left > 0
            /\ UNCHANGED <<wire, side>> /\ field = "flags" /\ field' = "column"
            /\ msg' = [msg EXCEPT !.columns = Append(msg.columns, c)] /\ left' = left - 1
        BY <1>4, <2>3 DEF DecodeColumnFlags, Take, Goto
      <3>2. left' \in Nat BY <1>2, <3>1
      <3>3. PICK q \in Bytes : /\ wire' = q \o rest' /\ wire' \in Bytes /\ rest' \in Bytes
                               /\ Len(q) = Len(r) + 1
        BY <1>1, <3>1, TakeIs
      <3>4. c \in ColumnInfo
        <4>1. <<>> \in Seq(Byte) BY EmptySeq
        <4> QED BY <4>1 DEF ColumnInfo
      <3> HIDE DEF c
      <3>5. msg.columns \in Seq(ColumnInfo) BY <2>1 DEF RelationMessage
      <3>6. Append(msg.columns, c) \in Seq(ColumnInfo) BY <3>4, <3>5, AppendProperties
      <3>7. /\ msg' \in RelationMessage /\ msg'.columns = Append(msg.columns, c)
            /\ msg'.namespace = msg.namespace /\ msg'.name = msg.name
        BY <2>1, <3>1, <3>6 DEF RelationMessage
      <3>8. HeaderLength' = HeaderLength BY <3>7 DEF HeaderLength
      <3>9. Len(q) = HeaderLength' + Len(ColumnsOf(msg.columns)) + 1 BY <2>1, <3>3, <3>8
      <3>10. \E s \in Seq(ColumnInfo), d \in ColumnInfo :
               msg'.columns = Append(s, d) /\ Len(q) = HeaderLength' + Len(ColumnsOf(s)) + 1
        BY <3>4, <3>5, <3>7, <3>9
      <3>11. Stage(q)'
        BY <3>1, <3>7, <3>10
           DEF Stage, ControlStage, RelationStage, RowStage, RelationFields, RowFields
      <3> QED BY <1>2, <3>1, <3>2, <3>3, <3>11, Carried
    <2> QED BY <2>2, <2>3
  <1> QED BY <1>3, <1>4

\* The last column is replaced.
LEMMA ExceptLast ==
  ASSUME NEW s \in Seq(ColumnInfo), NEW c \in ColumnInfo, NEW d \in ColumnInfo,
         NEW a, a = Append(s, c)
  PROVE  a[Len(a)] = c /\ [a EXCEPT ![Len(a)] = d] = Append(s, d)
  <1> DEFINE n == Len(s)
             b == [a EXCEPT ![Len(a)] = d]
             e == Append(s, d)
  <1>1. n \in Nat BY LenProperties
  <1>2. a \in Seq(ColumnInfo) /\ Len(a) = n + 1 /\ a[n + 1] = c /\ \A i \in 1..n : a[i] = s[i]
    BY AppendProperties
  <1>3. e \in Seq(ColumnInfo) /\ Len(e) = n + 1 /\ e[n + 1] = d /\ \A i \in 1..n : e[i] = s[i]
    BY AppendProperties
  <1> HIDE DEF e, n
  <1> DEFINE i == Len(a)
  <1>4. DOMAIN a = 1 .. n + 1 /\ i = n + 1 /\ i \in 1 .. n + 1 /\ b = [a EXCEPT ![i] = d]
    BY <1>1, <1>2, LenProperties
  <1>8. a \in [1 .. n + 1 -> ColumnInfo] BY <1>2, LenProperties
  <1> HIDE DEF b, i
  <1>9. /\ b \in [1 .. n + 1 -> ColumnInfo]
        /\ \A j \in 1 .. n + 1 : b[j] = IF j = i THEN d ELSE a[j]
    BY <1>4, <1>8
  <1>10. b \in Seq(ColumnInfo) /\ Len(b) = n + 1
    <2>1. n + 1 \in Nat /\ DOMAIN b = 1 .. n + 1 BY <1>1, <1>9
    <2>2. b \in Seq(ColumnInfo) BY <1>9, <2>1, SeqDef
    <2> QED BY <2>1, <2>2
  <1>5. /\ b \in Seq(ColumnInfo) /\ Len(b) = Len(a)
        /\ \A j \in 1 .. Len(a) : b[j] = IF j = Len(a) THEN d ELSE a[j]
    BY <1>2, <1>9, <1>10 DEF i
  <1>6. \A j \in 1 .. Len(b) : b[j] = e[j]
    <2>1. \A j \in 1 .. Len(b) : j \in 1..n \/ j = n + 1 BY <1>1, <1>2, <1>5
    <2> QED BY <1>1, <1>2, <1>3, <1>5, <2>1
  <1>7. b = e BY <1>2, <1>3, <1>5, <1>6, SeqEqual
  <1> QED BY <1>2, <1>7 DEF b, e

LEMMA NameKeeps == ASSUME DecoderInv, DecodeColumnName PROVE DecoderInv'
  <1>1. PICK r \in Bytes : wire = r \o rest /\ Stage(r) BY DEF DecoderInv
  <1>2. rest \in Bytes /\ left \in Nat /\ side \in {"old", "new"} BY DEF DecoderInv
  <1>3. CASE Finish("err") \/ Finish("panic") BY <1>3, Stopped
  <1>4. CASE ~(Finish("err") \/ Finish("panic"))
    <2>1. /\ 0 \in Range(rest) /\ Fits(NameEnd) /\ rest' = SubSeq(rest, NameEnd + 1, Len(rest))
          /\ UNCHANGED <<wire, side, left>> /\ field = "column" /\ field' = "type"
          /\ msg' = [msg EXCEPT !.columns[Len(msg.columns)].name = NameRead]
      BY <1>4 DEF DecodeColumnName, ReadCString, Take, Goto, Keep
    <2>2. NameRead \in Bytes /\ NameEnd = Len(NameRead) + 1 BY <1>2, <2>1, NameIsRead
    <2>3. PICK q \in Bytes : /\ wire' = q \o rest' /\ wire' \in Bytes /\ rest' \in Bytes
                             /\ Len(q) = Len(r) + NameEnd
      BY <1>1, <2>1, TakeIs
    <2>4. msg \in RelationMessage BY <1>1, <2>1 DEF Stage, RelationStage, RelationFields
    <2>5. PICK s \in Seq(ColumnInfo), c \in ColumnInfo :
            msg.columns = Append(s, c) /\ Len(r) = HeaderLength + Len(ColumnsOf(s)) + 1
      BY <1>1, <2>1 DEF Stage, RelationStage, RelationFields
    <2> DEFINE d == [c EXCEPT !.name = NameRead]
               a == msg.columns
    <2>6. d \in ColumnInfo /\ d.name = NameRead BY <2>2 DEF ColumnInfo, Bytes
    <2>7. msg' = [msg EXCEPT !.columns = [a EXCEPT ![Len(a)] = [a[Len(a)] EXCEPT !.name = NameRead]]]
      BY <2>1
    <2>8. a = Append(s, c) BY <2>5
    <2> HIDE DEF a
    <2>9. msg' = [msg EXCEPT !.columns = Append(s, d)]
      <3>1. a[Len(a)] = c /\ [a EXCEPT ![Len(a)] = d] = Append(s, d)
        <4> HIDE DEF d
        <4> QED BY <2>6, <2>8, ExceptLast
      <3> QED BY <2>7, <3>1
    <2> HIDE DEF d
    <2>10. Append(s, d) \in Seq(ColumnInfo) BY <2>6, AppendProperties
    <2>11. /\ msg' \in RelationMessage /\ msg'.columns = Append(s, d)
           /\ msg'.namespace = msg.namespace /\ msg'.name = msg.name
      BY <2>4, <2>9, <2>10 DEF RelationMessage
    <2>12. HeaderLength' = HeaderLength BY <2>11 DEF HeaderLength
    <2>13. Len(q) = HeaderLength' + Len(ColumnsOf(s)) + (1 + (Len(d.name) + 1))
      <3>1. HeaderLength \in Nat /\ Len(ColumnsOf(s)) \in Nat /\ Len(NameRead) \in Nat
        <4>3. HeaderLength \in Nat BY <2>4, HeaderIsNat
        <4> QED BY <2>2, <4>3, ColumnsAreBytes, LenProperties DEF Bytes
      <3> DEFINE h == HeaderLength
                 k == Len(ColumnsOf(s))
                 m == Len(NameRead)
      <3>2. h \in Nat /\ k \in Nat /\ m \in Nat /\ Len(q) = (h + k + 1) + (m + 1)
        BY <2>2, <2>3, <2>5, <3>1
      <3> HIDE DEF h, k, m
      <3>3. Len(q) = h + k + (1 + (m + 1)) BY <3>2
      <3> QED BY <2>6, <2>12, <3>3 DEF h, k, m
    <2>14. \E t \in Seq(ColumnInfo), e \in ColumnInfo :
             /\ msg'.columns = Append(t, e)
             /\ Len(q) = HeaderLength' + Len(ColumnsOf(t)) + (1 + (Len(e.name) + 1))
      BY <2>6, <2>11, <2>13
    <2>15. Stage(q)'
      BY <2>1, <2>11, <2>14
         DEF Stage, ControlStage, RelationStage, RowStage, RelationFields, RowFields
    <2> QED BY <1>2, <2>1, <2>3, <2>15, Carried
  <1> QED BY <1>3, <1>4

LEMMA TypeKeeps == ASSUME DecoderInv, DecodeColumnType PROVE DecoderInv'
  <1>1. PICK r \in Bytes : wire = r \o rest /\ Stage(r) BY DEF DecoderInv
  <1>2. rest \in Bytes /\ left \in Nat /\ side \in {"old", "new"} BY DEF DecoderInv
  <1>3. CASE Finish("err") \/ Finish("panic") BY <1>3, Stopped
  <1>4. CASE ~(Finish("err") \/ Finish("panic"))
    <2> DEFINE n == U32 + U32
               o == Unsigned(0, U32)
               m == Signed(U32, U32)
               a == msg.columns
    <2>1. /\ Fits(n) /\ rest' = SubSeq(rest, n + 1, Len(rest))
          /\ UNCHANGED <<wire, side, left>> /\ field = "type" /\ field' = "flags"
          /\ msg' = [msg EXCEPT !.columns =
                       [a EXCEPT ![Len(a)] = [a[Len(a)] EXCEPT !.type_oid = o, !.type_modifier = m]]]
      BY <1>4 DEF DecodeColumnType, Take, Goto, Keep
    <2>2. o \in Nat /\ m \in Int
      <3>1. U32 \in Nat /\ Len(rest) \in Nat BY <1>2, Widths, LenProperties DEF Bytes
      <3>2. 0 \in Nat /\ 0 + U32 <= Len(rest) /\ U32 + U32 <= Len(rest) BY <2>1, <3>1 DEF Fits
      <3> QED BY <1>2, <3>1, <3>2, ReadsNumber
    <2>3. PICK q \in Bytes : /\ wire' = q \o rest' /\ wire' \in Bytes /\ rest' \in Bytes
                             /\ Len(q) = Len(r) + n
      <3> HIDE DEF n, a, o, m
      <3> QED BY <1>1, <2>1, TakeIs
    <2>4. msg \in RelationMessage BY <1>1, <2>1 DEF Stage, RelationStage, RelationFields
    <2>5. PICK s \in Seq(ColumnInfo), c \in ColumnInfo :
            /\ msg.columns = Append(s, c)
            /\ Len(r) = HeaderLength + Len(ColumnsOf(s)) + (1 + (Len(c.name) + 1))
      BY <1>1, <2>1 DEF Stage, RelationStage, RelationFields
    <2> HIDE DEF o, m
    <2> DEFINE d == [c EXCEPT !.type_oid = o, !.type_modifier = m]
    <2>6. d \in ColumnInfo /\ d.name = c.name BY <2>2 DEF ColumnInfo
    <2>8. a = Append(s, c) BY <2>5
    <2> HIDE DEF a
    <2>9. msg' = [msg EXCEPT !.columns = Append(s, d)]
      <3>1. a[Len(a)] = c /\ [a EXCEPT ![Len(a)] = d] = Append(s, d)
        <4> HIDE DEF d
        <4> QED BY <2>6, <2>8, ExceptLast
      <3> QED BY <2>1, <3>1
    <2> HIDE DEF d
    <2>10. Append(s, d) \in Seq(ColumnInfo) BY <2>6, AppendProperties
    <2>11. /\ msg' \in RelationMessage /\ msg'.columns = Append(s, d)
           /\ msg'.namespace = msg.namespace /\ msg'.name = msg.name
      BY <2>4, <2>9, <2>10 DEF RelationMessage
    <2>12. HeaderLength' = HeaderLength BY <2>11 DEF HeaderLength
    <2>13. Len(q) = HeaderLength' + Len(ColumnsOf(msg'.columns))
      <3>1. /\ HeaderLength \in Nat /\ Len(ColumnsOf(s)) \in Nat /\ Len(c.name) \in Nat /\ U32 \in Nat
        <4>3. HeaderLength \in Nat BY <2>4, HeaderIsNat
        <4>4. Len(c.name) \in Nat
          <5>1. c.name \in Seq(Byte) BY DEF ColumnInfo
          <5> QED BY <5>1, LenProperties
        <4> QED BY <4>3, <4>4, ColumnsAreBytes, Widths
      <3>2. Len(ColumnsOf(Append(s, d))) = Len(ColumnsOf(s)) + (1 + (Len(c.name) + 1) + U32 + U32)
        <4>1. /\ ColumnsOf(s) \in Bytes
              /\ ColumnsOf(Append(s, d)) = ColumnsOf(s) \o EncodedColumn(d)
          BY <2>6, ColumnsAppend
        <4>2. EncodedColumn(d) \in Bytes /\ Len(EncodedColumn(d)) = 1 + (Len(c.name) + 1) + U32 + U32
          BY <2>6, ColumnIsBytes
        <4> QED BY <4>1, <4>2, Concat
      <3> DEFINE h == HeaderLength
                 k == Len(ColumnsOf(s))
                 l == Len(c.name)
      <3>3. /\ h \in Nat /\ k \in Nat /\ l \in Nat /\ U32 \in Nat
            /\ Len(q) = (h + k + (1 + (l + 1))) + (U32 + U32)
        BY <2>3, <2>5, <3>1
      <3>4. Len(ColumnsOf(msg'.columns)) = k + (1 + (l + 1) + U32 + U32) BY <2>11, <3>2
      <3>5. HeaderLength' = h BY <2>12
      <3> HIDE DEF h, k, l
      <3>6. Len(q) = h + (k + (1 + (l + 1) + U32 + U32)) BY <3>3
      <3> QED BY <3>4, <3>5, <3>6
    <2>15. Stage(q)'
      BY <2>1, <2>11, <2>13
         DEF Stage, ControlStage, RelationStage, RowStage, RelationFields, RowFields
    <2> QED BY <1>2, <2>1, <2>3, <2>15, Carried
  <1> QED BY <1>3, <1>4
Marks == {Code.K, Code.O}

LEMMA MarksAreBytes == \A mark \in Marks : mark \in Byte /\ Marker(mark) \in Byte
  BY Codes DEF Marks, Marker

\* The tag and the relation of a row message.
Head1(m) == <<RowTag[m.kind]>> \o EncodedId(m.relation_id)

LEMMA BeforeIs ==
  ASSUME NEW m \in RowMessage, NEW mark \in Byte
  PROVE  /\ Head1(m) \in Bytes /\ Before(m, mark) \in Bytes
         /\ Before(m, mark) = Head1(m) \o TuplesOf(mark, m.old)
         /\ m.old = <<>> => Before(m, mark) = Head1(m)
  <1>1. m.kind \in RowKinds /\ m.relation_id \in Int /\ m.old \in Option(Tuple) BY DEF RowMessage
  <1>2. <<RowTag[m.kind]>> \in Bytes BY <1>1, Codes, One
  <1>3. EncodedId(m.relation_id) \in Bytes BY <1>1, Widths, BigEndianIsBytes DEF EncodedId, Bytes
  <1>4. Head1(m) \in Bytes BY <1>2, <1>3, Concat DEF Head1
  <1>5. Before(m, mark) = Head1(m) \o TuplesOf(mark, m.old) BY DEF Before, Head1
  <1>6. m.old = <<>> => TuplesOf(mark, m.old) = <<>> BY EachEmpty
  <1>7. TuplesOf(mark, m.old) \in Bytes
    <2>1. m.old = <<>> \/ \E t \in Tuple : m.old = <<t>> BY <1>1 DEF Option
    <2> QED BY <1>6, <2>1, Empty, TuplesOne
  <1>8. Before(m, mark) \in Bytes BY <1>4, <1>5, <1>7, Concat
  <1> QED BY <1>4, <1>5, <1>6, <1>8, Empty

LEMMA Refused ==
  ASSUME NEW q, field' = "err"
  PROVE  Stage(q)'
  BY DEF Stage, ControlStage, RelationStage, RowStage, RelationFields, RowFields

LEMMA RowKeeps == ASSUME DecoderInv, DecodeRow PROVE DecoderInv'
  <1>1. PICK r \in Bytes : wire = r \o rest /\ Stage(r) BY DEF DecoderInv
  <1>2. rest \in Bytes /\ left \in Nat /\ side \in {"old", "new"} BY DEF DecoderInv
  <1>3. CASE Finish("err") \/ Finish("panic") BY <1>3, Stopped
  <1>4. CASE ~(Finish("err") \/ Finish("panic"))
    <2> DEFINE a == U32 + 1
               id == Unsigned(0, U32)
    <2>1. /\ Fits(a) /\ rest' = SubSeq(rest, a + 1, Len(rest)) /\ UNCHANGED <<wire, left>>
          /\ field = "row" /\ msg' = [msg EXCEPT !.relation_id = id]
          /\ \/ field' = "err" /\ side' = side
             \/ /\ field' = "count" /\ tuple' = <<>>
                /\ \/ side' = "old" /\ rest[a] \in {Code.K, Code.O}
                   \/ side' = "new" /\ rest[a] = Code.N
      BY <1>4 DEF DecodeRow, Take, Goto, Keep, ReadTuple
    <2>2. U32 \in Nat /\ Len(rest) \in Nat BY <1>2, Widths, LenProperties DEF Bytes
    <2>3. a \in Nat /\ a = U32 + 1 /\ a <= Len(rest) /\ U32 <= Len(rest) BY <2>1, <2>2 DEF Fits
    <2>4. id \in Nat
      <3>1. 0 \in Nat /\ 0 + U32 <= Len(rest) BY <2>2, <2>3
      <3> QED BY <1>2, <2>2, <3>1, ReadsNumber
    <2> HIDE DEF a
    <2>5. PICK q \in Bytes : /\ wire' = q \o rest' /\ wire' \in Bytes /\ rest' \in Bytes
                             /\ q = With(r, a)
      BY <1>1, <2>1, TakeIs
    <2>6. CASE field' = "err"
      <3>1. Stage(q)' BY <2>6, Refused
      <3> QED BY <1>2, <2>1, <2>5, <2>6, <3>1, Carried
    <2>7. CASE field' # "err"
      <3>1. /\ msg \in RowMessage /\ msg.new = <<>> /\ msg.old = <<>> /\ r = <<RowTag[msg.kind]>>
        BY <1>1, <2>1 DEF Stage, RowStage, RowFields
      <3>2. /\ msg' \in RowMessage /\ msg'.new = <<>> /\ msg'.old = <<>>
            /\ msg'.kind = msg.kind /\ msg'.relation_id = id
        <4> HIDE DEF id
        <4> QED BY <2>1, <2>4, <3>1 DEF RowMessage
      <3>3. Covers(r, 0, U32, U32) /\ Covers(r, U32, 1, a)
        BY <1>1, <1>2, <2>2, <2>3 DEF Covers
      <3>4. r \o BigEndian(id, U32) = With(r, U32) BY <3>3, FirstNumber
      <3>5. With(r, U32) \o <<rest[a]>> = q BY <2>5, <3>3, ByteAt
      <3>6. Head1(msg') = r \o BigEndian(id, U32) BY <3>1, <3>2 DEF Head1, EncodedId
      <3>13. PICK mark \in {Code.K, Code.O} :
                rest[a] = IF side' = "new" THEN Code.N ELSE mark
        BY <2>1, <2>7
      <3>7. Marker(mark)' = rest[a] BY <3>13 DEF Marker
      <3>8. Before(msg', mark) = Head1(msg') BY <3>2, BeforeIs, MarksAreBytes DEF Marks
      <3>9. q = Before(msg', mark) \o <<Marker(mark)'>> BY <3>4, <3>5, <3>6, <3>7, <3>8
      <3>10. \E x \in {Code.K, Code.O} : q = Before(msg', x) \o <<Marker(x)'>> BY <3>9
      <3>11. field' = "count" /\ tuple' = <<>> /\ side' \in {"old", "new"} BY <2>1, <2>7
      <3>12. Stage(q)'
        BY <3>2, <3>10, <3>11
           DEF Stage, ControlStage, RelationStage, RowStage, RelationFields, RowFields
      <3> QED BY <1>2, <2>1, <2>5, <3>11, <3>12, Carried
    <2> QED BY <2>6, <2>7
  <1> QED BY <1>3, <1>4

LEMMA WithOne ==
  ASSUME rest \in Bytes, Fits(1), NEW r
  PROVE  With(r, 1) = r \o <<rest[1]>> /\ rest[1] \in Byte
  <1>1. Len(rest) \in Nat BY LenProperties DEF Bytes
  <1>2. 1 \in 1 .. Len(rest) BY <1>1 DEF Fits
  <1> QED BY <1>2, SubSeqOne DEF With

LEMMA NewMarkerKeeps == ASSUME DecoderInv, DecodeNewMarker PROVE DecoderInv'
  <1>1. PICK r \in Bytes : wire = r \o rest /\ Stage(r) BY DEF DecoderInv
  <1>2. rest \in Bytes /\ left \in Nat /\ side \in {"old", "new"} BY DEF DecoderInv
  <1>3. CASE Finish("err") \/ Finish("panic") BY <1>3, Stopped
  <1>4. CASE ~(Finish("err") \/ Finish("panic"))
    <2>1. /\ Fits(1) /\ rest' = SubSeq(rest, 1 + 1, Len(rest)) /\ UNCHANGED <<wire, left, msg>>
          /\ field = "marker"
          /\ \/ field' = "err" /\ side' = side
             \/ field' = "count" /\ tuple' = <<>> /\ side' = "new" /\ rest[1] = Code.N
      BY <1>4 DEF DecodeNewMarker, Take, Goto, Keep, ReadTuple
    <2>2. PICK q \in Bytes : /\ wire' = q \o rest' /\ wire' \in Bytes /\ rest' \in Bytes
                             /\ q = With(r, 1)
      BY <1>1, <2>1, TakeIs
    <2>3. CASE field' = "err"
      <3>1. Stage(q)' BY <2>3, Refused
      <3> QED BY <1>2, <2>1, <2>2, <2>3, <3>1, Carried
    <2>4. CASE field' # "err"
      <3>1. msg \in RowMessage /\ msg.new = <<>> BY <1>1, <2>1 DEF Stage, RowStage, RowFields
      <3>2. PICK mark \in {Code.K, Code.O} : r = Before(msg, mark)
        BY <1>1, <2>1 DEF Stage, RowStage, RowFields
      <3>3. Marker(mark)' = rest[1] BY <2>1, <2>4 DEF Marker
      <3>4. q = Before(msg', mark) \o <<Marker(mark)'>>
        <4>1. q = r \o <<rest[1]>> BY <1>2, <2>1, <2>2, WithOne
        <4> QED BY <2>1, <3>2, <3>3, <4>1
      <3>5. \E x \in {Code.K, Code.O} : q = Before(msg', x) \o <<Marker(x)'>> BY <3>4
      <3>6. field' = "count" /\ tuple' = <<>> /\ side' = "new" BY <2>1, <2>4
      <3>7. msg' \in RowMessage /\ msg'.new = <<>> BY <2>1, <3>1
      <3>8. Stage(q)'
        BY <3>5, <3>6, <3>7
           DEF Stage, ControlStage, RelationStage, RowStage, RelationFields, RowFields
      <3> QED BY <1>2, <2>1, <2>2, <3>6, <3>8, Carried
    <2> QED BY <2>3, <2>4
  <1> QED BY <1>3, <1>4

LEMMA CountKeeps == ASSUME DecoderInv, DecodeCount PROVE DecoderInv'
  <1>1. PICK r \in Bytes : wire = r \o rest /\ Stage(r) BY DEF DecoderInv
  <1>2. rest \in Bytes /\ left \in Nat /\ side \in {"old", "new"} BY DEF DecoderInv
  <1>3. CASE Finish("err") \/ Finish("panic") BY <1>3, Stopped
  <1>4. CASE ~(Finish("err") \/ Finish("panic"))
    <2> DEFINE n == Unsigned(0, U16)
    <2>1. /\ Fits(U16) /\ rest' = SubSeq(rest, U16 + 1, Len(rest))
          /\ UNCHANGED <<wire, msg, side, tuple>> /\ field = "count" /\ field' = "value" /\ left' = n
      BY <1>4 DEF DecodeCount, Take, Goto
    <2>2. U16 \in Nat /\ Len(rest) \in Nat BY <1>2, Widths, LenProperties DEF Bytes
    <2>3. U16 <= Len(rest) BY <2>1, <2>2 DEF Fits
    <2>4. n \in Nat
      <3>1. 0 \in Nat /\ 0 + U16 <= Len(rest) BY <2>2, <2>3
      <3> QED BY <1>2, <2>2, <3>1, ReadsNumber
    <2>5. PICK q \in Bytes : /\ wire' = q \o rest' /\ wire' \in Bytes /\ rest' \in Bytes
                             /\ q = With(r, U16)
      BY <1>1, <2>1, TakeIs
    <2>6. /\ msg \in RowMessage /\ msg.new = <<>> /\ tuple = <<>>
          /\ side = "old" => msg.old = <<>>
      BY <1>1, <2>1 DEF Stage, RowStage, RowFields
    <2>7. PICK mark \in {Code.K, Code.O} : r = Before(msg, mark) \o <<Marker(mark)>>
      BY <1>1, <2>1 DEF Stage, RowStage, RowFields
    <2>8. q = r \o BigEndian(n, U16)
      <3>1. Covers(r, 0, U16, U16) BY <1>1, <1>2, <2>2, <2>3 DEF Covers
      <3> QED BY <2>5, <3>1, FirstNumber
    <2> HIDE DEF n
    <2>9. BigEndian(Len(tuple') + left', U16) \o ValuesOf(tuple') = BigEndian(n, U16)
      <3>1. tuple' = <<>> /\ Len(tuple') = 0 BY <2>1, <2>6, Empty
      <3>2. Len(tuple') + left' = n BY <2>1, <2>4, <3>1
      <3>3. BigEndian(n, U16) \in Bytes BY <2>2, <2>4, BigEndianIsBytes DEF Bytes
      <3> QED BY <3>1, <3>2, <3>3, EachEmpty, Empty
    <2>10. Marker(mark)' = Marker(mark) BY <2>1 DEF Marker
    <2>11. \E x \in {Code.K, Code.O} :
             q = (Before(msg', x) \o <<Marker(x)'>>)
                   \o (BigEndian(Len(tuple') + left', U16) \o ValuesOf(tuple'))
      BY <2>1, <2>7, <2>8, <2>9, <2>10
    <2>12. tuple' \in Tuple /\ msg' \in RowMessage /\ msg'.new = <<>> /\ (side' = "old" => msg'.old = <<>>)
      BY <2>1, <2>6, EmptySeq DEF Tuple
    <2>13. Stage(q)'
      BY <2>1, <2>11, <2>12
         DEF Stage, ControlStage, RelationStage, RowStage, RelationFields, RowFields
    <2> QED BY <1>2, <2>1, <2>4, <2>5, <2>13, Carried
  <1> QED BY <1>3, <1>4

\* The same for four.
FourBytes(x, y, z, u) == x \in Bytes /\ y \in Bytes /\ z \in Bytes /\ u \in Bytes

LEMMA AssociativeFour ==
  ASSUME NEW x, NEW y, NEW z, NEW u, FourBytes(x, y, z, u)
  PROVE  (x \o (y \o z)) \o u = x \o (y \o (z \o u))
  <1> x \in Bytes /\ y \in Bytes /\ z \in Bytes /\ u \in Bytes BY DEF FourBytes
  <1>1. y \o z \in Bytes BY Concat
  <1>2. (x \o (y \o z)) \o u = x \o ((y \o z) \o u)
    <2>1. ThreeBytes(x, y \o z, u) BY <1>1 DEF ThreeBytes
    <2> QED BY <2>1, AssociativeThree
  <1>3. (y \o z) \o u = y \o (z \o u) BY Associative
  <1> QED BY <1>2, <1>3

\* A column that is read is encoded behind the columns before it.
ReadsColumn(r, q, v) ==
  /\ field = "value" /\ wire = r \o rest /\ Stage(r) /\ ColumnRead(v) /\ left > 0
  /\ q = r \o EncodedValue(v) /\ wire' = q \o rest' /\ wire' \in Bytes /\ rest' \in Bytes

LEMMA ColumnReadKeeps ==
  ASSUME DecoderInv, NEW r \in Bytes, NEW q \in Bytes, NEW v \in ColumnValue,
         ReadsColumn(r, q, v)
  PROVE  DecoderInv'
  <1>1. left \in Nat /\ side \in {"old", "new"} BY DEF DecoderInv
  <1>2. /\ tuple' = Append(tuple, v) /\ left' = left - 1 /\ UNCHANGED <<field, msg, side>>
    BY DEF ReadsColumn, ColumnRead
  <1>3. /\ msg \in RowMessage /\ msg.new = <<>> /\ (side = "old" => msg.old = <<>>) /\ tuple \in Tuple
    BY DEF ReadsColumn, Stage, RowStage, RowFields
  <1>4. PICK mark \in {Code.K, Code.O} :
          r = (Before(msg, mark) \o <<Marker(mark)>>)
                \o (BigEndian(Len(tuple) + left, U16) \o ValuesOf(tuple))
    BY DEF ReadsColumn, Stage, RowStage, RowFields
  <1>5. tuple' \in Tuple /\ Len(tuple') + left' = Len(tuple) + left /\ left' \in Nat
    <2>1. tuple \in Seq(ColumnValue) BY <1>3 DEF Tuple
    <2>2. Append(tuple, v) \in Seq(ColumnValue) /\ Len(Append(tuple, v)) = Len(tuple) + 1
      BY <2>1, AppendProperties
    <2>3. Len(tuple) \in Nat BY <2>1, LenProperties
    <2>4. tuple' \in Tuple BY <1>2, <2>2 DEF Tuple
    <2> DEFINE m == Len(tuple)
               n == Len(tuple')
    <2>5. m \in Nat /\ n = m + 1 /\ left' = left - 1 /\ left \in Nat /\ left > 0
      BY <1>1, <1>2, <2>2, <2>3 DEF ReadsColumn
    <2> HIDE DEF m, n
    <2>6. n + left' = m + left /\ left' \in Nat BY <2>5
    <2> QED BY <2>4, <2>6 DEF m, n
  <1>6. ValuesOf(tuple) \in Bytes /\ ValuesOf(tuple') = ValuesOf(tuple) \o EncodedValue(v)
    BY <1>2, <1>3, ValuesAppend
  <1> DEFINE p == Before(msg, mark) \o <<Marker(mark)>>
             h == BigEndian(Len(tuple) + left, U16)
             s == ValuesOf(tuple)
             e == EncodedValue(v)
  <1>7. p \in Bytes /\ h \in Bytes /\ s \in Bytes /\ e \in Bytes
    <2>1. mark \in Byte /\ Marker(mark) \in Byte BY MarksAreBytes DEF Marks
    <2>2. Before(msg, mark) \in Bytes BY <1>3, <2>1, BeforeIs
    <2>3. p \in Bytes BY <2>1, <2>2, One, Concat
    <2>4. Len(tuple) + left \in Int /\ U16 \in Nat
      <3>1. Len(tuple) \in Nat BY <1>3, LenProperties DEF Tuple
      <3> QED BY <1>1, <3>1, Widths
    <2>5. h \in Bytes BY <2>4, BigEndianIsBytes DEF Bytes
    <2> QED BY <1>6, <2>3, <2>5, ValueIsBytes
  <1>8. Marker(mark)' = Marker(mark) BY <1>2 DEF Marker
  <1>9. q = (p \o (h \o s)) \o e BY <1>4 DEF ReadsColumn
  <1>10. (Before(msg', mark) \o <<Marker(mark)'>>)
           \o (BigEndian(Len(tuple') + left', U16) \o ValuesOf(tuple')) = p \o (h \o (s \o e))
    BY <1>2, <1>5, <1>6, <1>8
  <1> HIDE DEF p, h, s, e
  <1>11. (p \o (h \o s)) \o e = p \o (h \o (s \o e))
    <2>1. FourBytes(p, h, s, e) BY <1>7 DEF FourBytes
    <2> QED BY <2>1, AssociativeFour
  <1>12. \E x \in {Code.K, Code.O} :
           q = (Before(msg', x) \o <<Marker(x)'>>)
                 \o (BigEndian(Len(tuple') + left', U16) \o ValuesOf(tuple'))
    BY <1>9, <1>10, <1>11
  <1>13. Stage(q)'
    BY <1>2, <1>3, <1>5, <1>12
       DEF ReadsColumn, Stage, ControlStage, RelationStage, RowStage, RelationFields, RowFields
  <1> QED BY <1>1, <1>2, <1>5, <1>13, Carried DEF ReadsColumn

LEMMA ValueKeeps == ASSUME DecoderInv, DecodeValue PROVE DecoderInv'
  <1>1. PICK r \in Bytes : wire = r \o rest /\ Stage(r) BY DEF DecoderInv
  <1>2. rest \in Bytes /\ left \in Nat /\ side \in {"old", "new"} BY DEF DecoderInv
  <1>3. CASE Finish("err") \/ Finish("panic") BY <1>3, Stopped
  <1>4. CASE ~(Finish("err") \/ Finish("panic"))
    <2>1. field = "value" /\ left > 0 /\ Fits(1) BY <1>4 DEF DecodeValue
    <2>2. Len(rest) \in Nat /\ U32 \in Nat BY <1>2, LenProperties, Widths DEF Bytes
    <2>3. With(r, 1) = r \o <<rest[1]>> /\ rest[1] \in Byte BY <1>2, <2>1, WithOne
    <2>4. ASSUME NEW kind \in {"null", "unchanged"}, rest[1] = Code[kind],
                 Take(1, 1, ColumnRead([kind |-> kind]))
          PROVE  DecoderInv'
      <3> DEFINE v == [kind |-> kind]
      <3>1. /\ rest' = SubSeq(rest, 1 + 1, Len(rest)) /\ wire' = wire /\ ColumnRead(v)
        BY <1>4, <2>4 DEF Take
      <3>2. v \in ColumnValue BY DEF ColumnValue
      <3>3. EncodedValue(v) = <<rest[1]>> BY <2>4 DEF EncodedValue
      <3> HIDE DEF v
      <3>4. PICK q \in Bytes : /\ wire' = q \o rest' /\ wire' \in Bytes /\ rest' \in Bytes
                               /\ q = With(r, 1)
        BY <1>1, <2>1, <3>1, TakeIs
      <3>5. q = r \o EncodedValue(v) BY <2>3, <3>3, <3>4
      <3>6. ReadsColumn(r, q, v) BY <1>1, <2>1, <3>1, <3>4, <3>5 DEF ReadsColumn
      <3> QED BY <3>2, <3>6, ColumnReadKeeps
    <2>5. ASSUME NEW kind \in {"text", "binary"}, rest[1] = Code[kind], Fits(1 + U32),
                 LET size == 1 + U32 + Unsigned(1, U32) IN
                   Take(size, size,
                     ColumnRead([kind |-> kind, bytes |-> SubSeq(rest, 2 + U32, size)]))
          PROVE  DecoderInv'
      <3> DEFINE k == Unsigned(1, U32)
                 size == 1 + U32 + k
                 a == 1 + U32
                 b == SubSeq(rest, 2 + U32, size)
                 v == [kind |-> kind, bytes |-> b]
      <3>1. /\ Fits(size) /\ rest' = SubSeq(rest, size + 1, Len(rest)) /\ wire' = wire /\ ColumnRead(v)
        BY <1>4, <2>5 DEF Take
      <3>2. a \in Nat /\ a = 1 + U32 /\ a <= Len(rest) /\ 2 + U32 = a + 1 BY <2>2, <2>5 DEF Fits
      <3>3. k \in Nat
        <4>1. 1 \in Nat /\ 1 + U32 <= Len(rest) BY <3>2
        <4> QED BY <1>2, <2>2, <4>1, ReadsNumber
      <3>4. size \in Nat /\ size = a + k /\ size <= Len(rest)
        <4> HIDE DEF k
        <4> QED BY <2>2, <3>1, <3>3 DEF Fits
      <3>5. b = Piece(a + 1, size) BY <3>2 DEF Piece
      <3> HIDE DEF k, size, a
      <3>6. b \in Bytes /\ Len(b) = k
        <4>3. a \in Nat /\ k \in Nat /\ size = a + k BY <3>2, <3>3, <3>4
        <4>1. a + 1 \in Nat \ {0} /\ a + 1 <= size + 1 /\ size - (a + 1) + 1 = k
          <5> HIDE DEF b, v
          <5> QED BY <4>3
        <4>2. SubSeq(rest, a + 1, size) \in Bytes /\ Len(SubSeq(rest, a + 1, size)) = size - (a + 1) + 1
          BY <1>2, <3>4, <4>1, SubSeqBytes
        <4> QED BY <3>2, <4>1, <4>2
      <3> HIDE DEF b
      <3>7. v \in ColumnValue BY <3>6 DEF ColumnValue, Bytes
      <3>8. EncodedValue(v) = (<<rest[1]>> \o BigEndian(k, U32)) \o b BY <2>5, <3>6 DEF EncodedValue
      <3> HIDE DEF v
      <3>9. PICK q \in Bytes : /\ wire' = q \o rest' /\ wire' \in Bytes /\ rest' \in Bytes
                               /\ q = With(r, size)
        BY <1>1, <3>1, TakeIs
      <3>10. With(r, 1) \o BigEndian(k, U32) = With(r, a)
        <4>1. Covers(r, 1, U32, a) BY <1>1, <1>2, <2>2, <3>2 DEF Covers
        <4> QED BY <4>1, NumberAt DEF k
      <3>11. With(r, a) \o Piece(a + 1, size) = With(r, size)
        <4>1. a <= size BY <2>2, <3>2, <3>3, <3>4
        <4>2. Adjoin(r, a, a + 1, size) BY <1>1, <1>2, <3>2, <3>4, <4>1 DEF Adjoin
        <4> QED BY <4>2, Join
      <3>12. q = r \o EncodedValue(v)
        <4> DEFINE o == <<rest[1]>>
                   n == BigEndian(k, U32)
        <4>1. q = ((r \o o) \o n) \o b BY <2>3, <3>5, <3>9, <3>10, <3>11
        <4>2. o \in Bytes /\ n \in Bytes
          <5>1. k \in Int BY <3>3
          <5> QED BY <2>2, <2>3, <5>1, One, BigEndianIsBytes DEF Bytes
        <4> HIDE DEF o, n
        <4>3. o \o n \in Bytes BY <4>2, Concat
        <4>4. (r \o o) \o n = r \o (o \o n) BY <4>2, Associative
        <4>5. (r \o (o \o n)) \o b = r \o ((o \o n) \o b)
          <5>1. ThreeBytes(r, o \o n, b) BY <3>6, <4>3 DEF ThreeBytes
          <5> QED BY <5>1, AssociativeThree
        <4> QED BY <3>8, <4>1, <4>4, <4>5 DEF o, n
      <3>13. ReadsColumn(r, q, v) BY <1>1, <2>1, <3>1, <3>9, <3>12 DEF ReadsColumn
      <3> QED BY <3>7, <3>13, ColumnReadKeeps
    <2> QED BY <1>4, <2>1, <2>4, <2>5 DEF DecodeValue
  <1> QED BY <1>3, <1>4

LEMMA RowEncodings ==
  ASSUME NEW m \in RowMessage, NEW mark \in {Code.K, Code.O}
  PROVE  Before(m, mark) \o TuplesOf(Code.N, m.new) \in Encodings(m)
  <1>1. m.kind \in RowKinds BY DEF RowMessage
  <1>2. Encodings(m) = {<<RowTag[m.kind]>> \o EncodedId(m.relation_id)
                          \o EncodedEach(m.old, LAMBDA t : <<x>> \o EncodedTuple(t))
                          \o EncodedEach(m.new, LAMBDA t : <<Code.N>> \o EncodedTuple(t)) :
                          x \in {Code.K, Code.O}}
    BY <1>1 DEF Encodings, RowKinds
  <1>3. \A x \in {Code.K, Code.O} :
          <<RowTag[m.kind]>> \o EncodedId(m.relation_id)
            \o EncodedEach(m.old, LAMBDA t : <<x>> \o EncodedTuple(t))
            \o EncodedEach(m.new, LAMBDA t : <<Code.N>> \o EncodedTuple(t))
          = Before(m, x) \o TuplesOf(Code.N, m.new)
    BY DEF Before, TuplesOf
  <1>4. Encodings(m) = {Before(m, x) \o TuplesOf(Code.N, m.new) : x \in {Code.K, Code.O}}
    BY <1>2, <1>3, Zenon
  <1> QED BY <1>4

LEMMA DoneKeeps == ASSUME DecoderInv, TupleDone PROVE DecoderInv'
  <1>1. PICK r \in Bytes : wire = r \o rest /\ Stage(r) BY DEF DecoderInv
  <1>2. wire \in Bytes /\ rest \in Bytes /\ left \in Nat /\ side \in {"old", "new"} BY DEF DecoderInv
  <1>3. /\ field = "value" /\ left = 0 /\ UNCHANGED <<wire, rest, side, left>>
        /\ field' = IF msg.kind = "update" /\ side = "old" THEN "marker" ELSE "ok"
        /\ msg' = [msg EXCEPT ![side] = <<tuple>>]
    BY DEF TupleDone, Goto
  <1>4. /\ msg \in RowMessage /\ msg.new = <<>> /\ (side = "old" => msg.old = <<>>) /\ tuple \in Tuple
    BY <1>1, <1>3 DEF Stage, RowStage, RowFields
  <1>5. PICK mark \in {Code.K, Code.O} :
          r = (Before(msg, mark) \o <<Marker(mark)>>)
                \o (BigEndian(Len(tuple) + left, U16) \o ValuesOf(tuple))
    BY <1>1, <1>3 DEF Stage, RowStage, RowFields
  <1>6. mark \in Byte /\ Marker(mark) \in Byte BY MarksAreBytes DEF Marks
  <1>7. r = Before(msg, mark) \o TuplesOf(Marker(mark), <<tuple>>)
    <2> DEFINE b == Before(msg, mark)
               o == <<Marker(mark)>>
               e == EncodedTuple(tuple)
    <2>1. Len(tuple) + left = Len(tuple)
      <3>1. Len(tuple) \in Nat BY <1>4, LenProperties DEF Tuple
      <3> QED BY <1>3, <3>1
    <2>2. r = (b \o o) \o e /\ e \in Bytes BY <1>4, <1>5, <2>1, TupleIsBytes
    <2>3. b \in Bytes /\ o \in Bytes BY <1>4, <1>6, BeforeIs, One
    <2>4. TuplesOf(Marker(mark), <<tuple>>) = o \o e BY <1>4, <1>6, TuplesOne
    <2> HIDE DEF b, o, e
    <2>5. (b \o o) \o e = b \o (o \o e) BY <2>2, <2>3, Associative
    <2> QED BY <2>2, <2>4, <2>5 DEF b
  <1>8. <<tuple>> \in Option(Tuple) /\ <<>> \in Option(Tuple) BY <1>4 DEF Option
  <1>9. CASE side = "old"
    <2>1. msg' = [msg EXCEPT !.old = <<tuple>>] BY <1>3, <1>9
    <2>2. /\ msg' \in RowMessage /\ msg'.new = <<>> /\ msg'.old = <<tuple>>
          /\ msg'.kind = msg.kind /\ msg'.relation_id = msg.relation_id
      BY <1>4, <1>8, <2>1 DEF RowMessage
    <2>3. Marker(mark) = mark BY <1>9 DEF Marker
    <2>4. r = Before(msg', mark)
      <3>1. Before(msg, mark) = Head1(msg) BY <1>4, <1>6, <1>9, BeforeIs
      <3>2. Before(msg', mark) = Head1(msg') \o TuplesOf(mark, <<tuple>>) BY <1>6, <2>2, BeforeIs
      <3>3. Head1(msg') = Head1(msg) BY <2>2 DEF Head1
      <3> QED BY <1>7, <2>3, <3>1, <3>2, <3>3
    <2>5. CASE msg.kind = "update"
      <3>1. field' = "marker" BY <1>3, <1>9, <2>5
      <3>2. \E x \in {Code.K, Code.O} : r = Before(msg', x) BY <2>4
      <3>3. Stage(r)'
        BY <2>2, <3>1, <3>2
           DEF Stage, ControlStage, RelationStage, RowStage, RelationFields, RowFields
      <3>4. wire' = r \o rest' BY <1>1, <1>3
      <3> QED BY <1>2, <1>3, <3>3, <3>4, Carried
    <2>6. CASE msg.kind # "update"
      <3>1. field' = "ok" BY <1>3, <2>6
      <3>2. Before(msg', mark) \o TuplesOf(Code.N, msg'.new) \in Encodings(msg')
        BY <2>2, RowEncodings
      <3>3. Before(msg', mark) \o TuplesOf(Code.N, msg'.new) = r
        <4>1. TuplesOf(Code.N, msg'.new) = <<>> BY <2>2, EachEmpty, Codes
        <4> QED BY <2>4, <4>1, Empty
      <3>4. msg'.kind # "relation" BY <2>2 DEF RowMessage, RowKinds
      <3>5. Accepted(r)' BY <3>2, <3>3, <3>4 DEF Accepted
      <3>6. Stage(r)' BY <3>1, <3>5, Done
      <3>7. wire' = r \o rest' BY <1>1, <1>3
      <3> QED BY <1>2, <1>3, <3>6, <3>7, Carried
    <2> QED BY <2>5, <2>6
  <1>10. CASE side = "new"
    <2>1. msg' = [msg EXCEPT !.new = <<tuple>>] BY <1>3, <1>10
    <2>2. /\ msg' \in RowMessage /\ msg'.new = <<tuple>> /\ msg'.old = msg.old
          /\ msg'.kind = msg.kind /\ msg'.relation_id = msg.relation_id
      BY <1>4, <1>8, <2>1 DEF RowMessage
    <2>3. Marker(mark) = Code.N /\ field' = "ok" BY <1>3, <1>10 DEF Marker
    <2>4. Before(msg', mark) = Before(msg, mark) BY <2>2 DEF Before
    <2>5. Before(msg', mark) \o TuplesOf(Code.N, msg'.new) \in Encodings(msg') BY <2>2, RowEncodings
    <2>6. Before(msg', mark) \o TuplesOf(Code.N, msg'.new) = r BY <1>7, <2>2, <2>3, <2>4
    <2>7. msg'.kind # "relation" BY <2>2 DEF RowMessage, RowKinds
    <2>8. Accepted(r)' BY <2>5, <2>6, <2>7 DEF Accepted
    <2>9. Stage(r)' BY <2>3, <2>8, Done
    <2>10. wire' = r \o rest' BY <1>1, <1>3
    <2> QED BY <1>2, <1>3, <2>9, <2>10, Carried
  <1> QED BY <1>2, <1>9, <1>10

----------------------------------------------------------------------------
(* The theorems.                                                            *)

LEMMA DecoderStarts == DecoderInit => DecoderInv
  <1> SUFFICES ASSUME DecoderInit PROVE DecoderInv OBVIOUS
  <1>1. wire \in Bytes BY WiresAssumption DEF DecoderInit, Bytes
  <1>2. wire = <<>> \o wire BY <1>1, Empty
  <1>3. Stage(<<>>)
    BY DEF DecoderInit, Stage, ControlStage, RelationStage, RowStage, RelationFields, RowFields
  <1>4. rest = wire /\ left = 0 /\ side = "new" BY DEF DecoderInit
  <1> QED BY <1>1, <1>2, <1>3, <1>4, Empty DEF DecoderInv

LEMMA DecoderKeeps == DecoderInv /\ [Decode]_decoder => DecoderInv'
  <1> SUFFICES ASSUME DecoderInv, [Decode]_decoder PROVE DecoderInv' OBVIOUS
  <1>1. CASE DecodeTag BY <1>1, TagKeeps
  <1>2. CASE DecodeBegin BY <1>2, BeginKeeps
  <1>3. CASE DecodeCommit BY <1>3, CommitKeeps
  <1>4. CASE DecodeTruncate BY <1>4, TruncateKeeps
  <1>5. CASE DecodeRelation BY <1>5, RelationKeeps
  <1>6. CASE DecodeNames BY <1>6, NamesKeep
  <1>7. CASE DecodeIdentity BY <1>7, IdentityKeeps
  <1>8. CASE DecodeColumnFlags BY <1>8, FlagsKeep
  <1>9. CASE DecodeColumnName BY <1>9, NameKeeps
  <1>10. CASE DecodeColumnType BY <1>10, TypeKeeps
  <1>11. CASE DecodeRow BY <1>11, RowKeeps
  <1>12. CASE DecodeNewMarker BY <1>12, NewMarkerKeeps
  <1>13. CASE DecodeCount BY <1>13, CountKeeps
  <1>14. CASE DecodeValue BY <1>14, ValueKeeps
  <1>15. CASE TupleDone BY <1>15, DoneKeeps
  <1>16. CASE UNCHANGED decoder
    <2>1. UNCHANGED <<wire, rest, field, msg, side, tuple, left>> BY <1>16 DEF decoder
    <2>2. PICK r \in Bytes : wire = r \o rest /\ Stage(r) BY DEF DecoderInv
    <2>6. /\ field' = field /\ msg' = msg /\ side' = side /\ tuple' = tuple /\ left' = left
          /\ \A x : Marker(x)' = Marker(x)
          /\ HeaderLength' = HeaderLength
      BY <2>1 DEF Marker, HeaderLength
    <2>3. Stage(r)'
      <3>1. ControlStage(r)' BY <2>2, <2>6 DEF Stage, ControlStage
      <3>2. RelationStage(r)' BY <2>2, <2>6 DEF Stage, RelationStage
      <3>3. RowStage(r)' BY <2>2, <2>6 DEF Stage, RowStage
      <3>4. field' = "ok" => Accepted(r)' BY <2>2, <2>6 DEF Stage, Accepted
      <3> QED BY <3>1, <3>2, <3>3, <3>4 DEF Stage
    <2>4. wire' = r \o rest' BY <2>1, <2>2
    <2>5. wire' \in Bytes /\ rest' \in Bytes /\ left' \in Nat /\ side' \in {"old", "new"}
      BY <2>1 DEF DecoderInv
    <2> QED BY <2>3, <2>4, <2>5, Carried
  <1> QED BY <1>1, <1>2, <1>3, <1>4, <1>5, <1>6, <1>7, <1>8, <1>9, <1>10, <1>11, <1>12, <1>13,
             <1>14, <1>15, <1>16 DEF Decode

LEMMA DecoderInvImplies == DecoderInv => AcceptsItsBytes
  <1> SUFFICES ASSUME DecoderInv, field = "ok"
               PROVE  LET read == SubSeq(wire, 1, Len(wire) - Len(rest))
                      IN  IF msg.kind = "relation"
                          THEN \E e \in Encodings(msg) : Len(e) = Len(read)
                          ELSE read \in Encodings(msg)
    BY DEF AcceptsItsBytes
  <1>1. PICK r \in Bytes : wire = r \o rest /\ Stage(r) BY DEF DecoderInv
  <1>2. Accepted(r) BY <1>1 DEF Stage
  <1>3. wire \in Bytes /\ rest \in Bytes BY DEF DecoderInv
  <1> DEFINE n == Len(wire) - Len(rest)
             x == SubSeq(wire, 1, n)
  <1>4. Len(wire) = Len(r) + Len(rest) /\ Len(r) \in Nat /\ Len(rest) \in Nat
    BY <1>1, <1>3, ConcatProperties, LenProperties DEF Bytes
  <1>5. n = Len(r) /\ n \in Nat /\ n <= Len(wire) /\ Len(wire) \in Nat BY <1>4
  <1>6. \A i \in 1..n : wire[i] = r[i]
    <2>1. /\ \A i \in 1 .. Len(r) + Len(rest) :
               (r \o rest)[i] = IF i <= Len(r) THEN r[i] ELSE rest[i - Len(r)]
      BY <1>3, ConcatProperties DEF Bytes
    <2>2. \A i \in 1..n : i \in 1 .. Len(r) + Len(rest) /\ i <= Len(r) BY <1>4, <1>5
    <2> HIDE DEF n
    <2> QED BY <1>1, <2>1, <2>2
  <1> HIDE DEF n
  <1>7. x \in Seq(Byte) /\ Len(x) = n /\ \A i \in 1..n : x[i] = wire[i]
    <2>1. \A i \in 1..n : wire[i] \in Byte
      <3>1. \A i \in 1..n : i \in 1 .. Len(wire) BY <1>5
      <3> QED BY <1>3, <3>1, ElementOfSeq DEF Bytes
    <2>2. 1 \in Int /\ n \in Int BY <1>5
    <2>3. /\ SubSeq(wire, 1, n) \in Seq(Byte)
          /\ Len(SubSeq(wire, 1, n)) = IF 1 <= n THEN n - 1 + 1 ELSE 0
          /\ \A i \in 1 .. n - 1 + 1 : SubSeq(wire, 1, n)[i] = wire[1 + i - 1]
      BY <2>1, <2>2, SubSeqProperties
    <2>4. n - 1 + 1 = n /\ \A i \in 1..n : 1 + i - 1 = i BY <1>5
    <2>5. Len(x) = n BY <1>5, <2>3
    <2> QED BY <2>3, <2>4, <2>5
  <1> HIDE DEF x
  <1>8. x = r
    <2>1. r \in Seq(Byte) BY DEF Bytes
    <2>2. \A i \in 1 .. Len(x) : x[i] = r[i] BY <1>6, <1>7
    <2> QED BY <1>5, <1>7, <2>1, <2>2, SeqEqual
  <1> QED BY <1>2, <1>8 DEF Accepted, x, n

\* A message is accepted only if the bytes read for it are an encoding of it
\* (decode): for every sequence of bytes and every width of the integers.
THEOREM AcceptsOnlyEncodings == DecoderSpec => []AcceptsItsBytes
  <1>1. DecoderInit => DecoderInv BY DecoderStarts
  <1>2. DecoderInv /\ [Decode]_decoder => DecoderInv' BY DecoderKeeps
  <1>3. DecoderInv => AcceptsItsBytes BY DecoderInvImplies
  <1> QED BY <1>1, <1>2, <1>3, PTL DEF DecoderSpec

----------------------------------------------------------------------------
(* No read outruns its check: a Take checks for as many bytes as it reads.  *)

LEMMA ChecksCover ==
  /\ 2 * U64 + U32 = U64 + U64 + U32
  /\ 1 + 3 * U64 = 1 + U64 + U64 + U64
  /\ 2 * U32 = U32 + U32
  BY WidthsAssumption

\* bytes::Buf panics when it is read past its end: decode never does that,
\* whatever bytes arrive (the need() before each read covers the whole read).
THEOREM NeverReadsPastTheEnd == DecoderSpec => [](field # "panic")
  <1>1. DecoderInit => field # "panic" BY DEF DecoderInit
  <1>2. field # "panic" /\ [Decode]_decoder => (field # "panic")'
    <2> SUFFICES ASSUME field # "panic", [Decode]_decoder PROVE field' # "panic" OBVIOUS
    <2>1. CASE DecodeTag
      <3>1. \A t \in DOMAIN FieldOf : FieldOf[t] # "panic" BY FieldOfIs
      <3> QED BY <2>1, <3>1 DEF DecodeTag, Take, Finish, Goto
    <2>2. CASE DecodeBegin BY <2>2, ChecksCover DEF DecodeBegin, Take, Finish, Goto
    <2>3. CASE DecodeCommit BY <2>3, ChecksCover DEF DecodeCommit, Take, Finish, Goto
    <2>4. CASE DecodeTruncate BY <2>4 DEF DecodeTruncate, Take, Finish, Goto
    <2>5. CASE DecodeRelation BY <2>5 DEF DecodeRelation, Take, Finish, Goto
    <2>6. CASE DecodeNames BY <2>6 DEF DecodeNames, ReadCString, Take, Finish, Goto
    <2>7. CASE DecodeIdentity BY <2>7 DEF DecodeIdentity, Take, Finish, Goto
    <2>8. CASE DecodeColumnFlags BY <2>8 DEF DecodeColumnFlags, Take, Finish, Goto
    <2>9. CASE DecodeColumnName BY <2>9 DEF DecodeColumnName, ReadCString, Take, Finish, Goto
    <2>10. CASE DecodeColumnType BY <2>10, ChecksCover DEF DecodeColumnType, Take, Finish, Goto
    <2>11. CASE DecodeRow BY <2>11 DEF DecodeRow, ReadTuple, Take, Finish, Goto
    <2>12. CASE DecodeNewMarker BY <2>12 DEF DecodeNewMarker, ReadTuple, Take, Finish, Goto
    <2>13. CASE DecodeCount BY <2>13 DEF DecodeCount, Take, Finish, Goto
    <2>14. CASE DecodeValue BY <2>14 DEF DecodeValue, ColumnRead, Take, Finish
    <2>15. CASE TupleDone BY <2>15 DEF TupleDone, Goto
    <2>16. CASE UNCHANGED decoder BY <2>16 DEF decoder
    <2> QED BY <2>1, <2>2, <2>3, <2>4, <2>5, <2>6, <2>7, <2>8, <2>9, <2>10, <2>11, <2>12, <2>13,
               <2>14, <2>15, <2>16 DEF Decode
  <1> QED BY <1>1, <1>2, PTL DEF DecoderSpec

----------------------------------------------------------------------------
(* Numbers that fit their width are read back.                              *)

\* The powers of 256 up to the n-th.
Powers(p, n) == p \in [0..n -> Nat] /\ p[0] = 1 /\ \A i \in 1..n : p[i] = 256 * p[i - 1]

Iterates(f, V, n, base, step) ==
  f \in [0..n -> V] /\ f[0] = base /\ \A i \in 1..n : f[i] = step[<<f[i - 1], i>>]

LEMMA Iteration ==
  ASSUME NEW V, NEW n, NEW base, NEW step, StepsIn(V, n, base, step)
  PROVE  \E f : Iterates(f, V, n, base, step)
  <1>1. PICK f \in [0..n -> V] : f[0] = base /\ \A i \in 1..n : f[i] = step[<<f[i - 1], i>>]
    BY Recursion
  <1>2. Iterates(f, V, n, base, step) BY <1>1 DEF Iterates
  <1> QED BY <1>2

LEMMA PowersExist == ASSUME NEW w \in Nat PROVE \E p : Powers(p, w)
  <1> DEFINE times == [q \in Nat \X (1..w) |-> 256 * q[1]]
  <1>1. \A x \in Nat, i \in 1..w : times[<<x, i>>] = 256 * x /\ 256 * x \in Nat OBVIOUS
  <1> HIDE DEF times
  <1>2. StepsIn(Nat, w, 1, times) BY <1>1 DEF StepsIn
  <1>3. PICK f : Iterates(f, Nat, w, 1, times) BY <1>2, Iteration
  <1>5. f \in [0..w -> Nat] /\ f[0] = 1 /\ \A i \in 1..w : f[i] = times[<<f[i - 1], i>>]
    BY <1>3 DEF Iterates
  <1>7. ASSUME NEW i \in 1..w PROVE f[i] = 256 * f[i - 1]
    <2>1. i - 1 \in 0..w OBVIOUS
    <2>2. f[i - 1] \in Nat BY <1>5, <2>1
    <2>3. times[<<f[i - 1], i>>] = 256 * f[i - 1] BY <1>1, <2>2
    <2>4. f[i] = times[<<f[i - 1], i>>] BY <1>5
    <2> QED BY <2>3, <2>4
  <1>8. f \in [0..w -> Nat] /\ f[0] = 1 BY <1>5
  <1> HIDE <1>5
  <1> QED BY <1>7, <1>8 DEF Powers

LEMMA LimitIsPower ==
  ASSUME NEW n \in Nat, NEW p, Powers(p, n)
  PROVE  Limit(n) = p[n]
  <1> DEFINE Power(f) == f = [i \in 0..n |-> IF i = 0 THEN 1 ELSE 256 * f[i - 1]]
             q == CHOOSE f : Power(f)
  <1>1. Power(p)
    <2>1. \A i \in 0..n : i # 0 => i \in 1..n OBVIOUS
    <2>2. \A i \in 0..n : p[i] = IF i = 0 THEN 1 ELSE 256 * p[i - 1] BY <2>1 DEF Powers
    <2>3. p = [i \in 0..n |-> p[i]] BY DEF Powers
    <2> QED BY <2>2, <2>3
  <1> HIDE DEF Power
  <1>2. Power(q) BY <1>1
  <1> USE DEF Power
  <1>3. Limit(n) = q[n] BY DEF Limit
  <1> HIDE DEF q
  <1> DEFINE S == {k \in 0..n : q[k] = p[k]}
  <1>4. 0 \in S
    <2>1. 0 \in 0..n OBVIOUS
    <2>2. q[0] = 1 BY <1>2, <2>1
    <2> QED BY <2>1, <2>2 DEF Powers
  <1>5. ASSUME NEW k \in 0 .. n - 1, k \in S PROVE k + 1 \in S
    <2>1. k + 1 \in 1..n /\ k + 1 \in 0..n /\ k + 1 # 0 /\ (k + 1) - 1 = k OBVIOUS
    <2>2. q[k + 1] = 256 * q[k] BY <1>2, <2>1
    <2>3. p[k + 1] = 256 * p[k] BY <2>1 DEF Powers
    <2> QED BY <1>5, <2>1, <2>2, <2>3
  <1> HIDE DEF S
  <1>6. \A k \in 0..n : k \in S BY <1>4, <1>5, Climb
  <1>7. n \in 0..n OBVIOUS
  <1> QED BY <1>3, <1>6, <1>7 DEF S

LEMMA Limits ==
  /\ Limit(0) = 1
  /\ \A n \in Nat : Limit(n) \in Nat /\ Limit(n + 1) = 256 * Limit(n)
  <1>1. PICK o : Powers(o, 0) BY PowersExist
  <1>2. Limit(0) = 1
    <2>1. Limit(0) = o[0] BY <1>1, LimitIsPower
    <2> QED BY <1>1, <2>1 DEF Powers
  <1>3. ASSUME NEW n \in Nat PROVE Limit(n) \in Nat /\ Limit(n + 1) = 256 * Limit(n)
    <2>1. PICK p : Powers(p, n + 1) BY PowersExist
    <2> DEFINE q == [i \in 0..n |-> p[i]]
    <2>2. Powers(q, n)
      <3>1. \A i \in 0..n : i \in 0 .. n + 1 /\ q[i] = p[i] /\ p[i] \in Nat BY <2>1 DEF Powers
      <3>2. \A i \in 1..n : i \in 0..n /\ i - 1 \in 0..n /\ i \in 1 .. n + 1 OBVIOUS
      <3>3. \A i \in 1..n : q[i] = 256 * q[i - 1] BY <2>1, <3>1, <3>2 DEF Powers
      <3>4. 0 \in 0..n /\ q[0] = 1 BY <2>1, <3>1 DEF Powers
      <3>5. q \in [0..n -> Nat] BY <3>1
      <3> HIDE DEF q
      <3> QED BY <3>3, <3>4, <3>5 DEF Powers
    <2>3. q[n] = p[n] /\ p[n] \in Nat
      <3>1. n \in 0..n /\ n \in 0 .. n + 1 OBVIOUS
      <3> QED BY <2>1, <3>1 DEF Powers
    <2> HIDE DEF q
    <2>4. Limit(n) = q[n] BY <2>2, LimitIsPower
    <2>5. Limit(n + 1) = p[n + 1] BY <2>1, LimitIsPower
    <2>6. p[n + 1] = 256 * p[n]
      <3>1. n + 1 \in 1 .. n + 1 /\ (n + 1) - 1 = n OBVIOUS
      <3> QED BY <2>1, <3>1 DEF Powers
    <2> QED BY <2>3, <2>4, <2>5, <2>6
  <1> QED BY <1>2, <1>3

\* What is left when all digits went out is where they come in again.
LEMMA DigitsBack ==
  ASSUME NEW v \in Int, NEW w \in Nat, NEW g, DigitsOut(g, v, w)
  PROVE  Digits(g[w], BigEndian(v, w)) = v
  <1> DEFINE s == BigEndian(v, w)
             high == g[w]
  <1>1. /\ g \in [0..w -> Int] /\ g[0] = v /\ \A i \in 1..w : g[i] = g[i - 1] \div 256
        /\ s = [j \in 1..w |-> g[w - j] % 256]
    BY DEF DigitsOut
  <1>2. s \in Seq(Byte) /\ Len(s) = w BY BigEndianIsBytes
  <1>3. high \in Int
    <2>1. w \in 0..w OBVIOUS
    <2> QED BY <1>1, <2>1
  <1>4. \A j \in 1..w : s[j] = g[w - j] % 256 BY <1>1
  <1> HIDE DEF s
  <1>5. PICK h : DigitsIn(h, high, s) BY <1>2, <1>3, DigitsSteps
  <1>6. /\ h \in [0..w -> Int] /\ h[0] = high /\ \A k \in 1..w : h[k] = 256 * h[k - 1] + s[k]
        /\ Digits(high, s) = h[w]
    BY <1>2, <1>5 DEF DigitsIn
  <1> DEFINE S == {k \in 0..w : h[k] = g[w - k]}
  <1>7. 0 \in S
    <2>1. w - 0 = w /\ 0 \in 0..w OBVIOUS
    <2> QED BY <1>6, <2>1
  <1>8. ASSUME NEW k \in 0 .. w - 1, k \in S PROVE k + 1 \in S
    <2>1. /\ k + 1 \in 1..w /\ k + 1 \in 0..w /\ (k + 1) - 1 = k
          /\ w - k \in 1..w /\ (w - k) - 1 = w - (k + 1) /\ w - (k + 1) \in 0..w
      OBVIOUS
    <2>2. PICK x \in Int : x = g[w - (k + 1)] BY <1>1, <2>1
    <2>3. g[w - k] = x \div 256 BY <1>1, <2>1, <2>2
    <2>4. s[k + 1] = x % 256 BY <1>4, <2>1, <2>2
    <2>5. h[k + 1] = 256 * h[k] + s[k + 1] BY <1>6, <2>1
    <2>6. h[k] = x \div 256 BY <1>8, <2>3
    <2>7. 256 * (x \div 256) + (x % 256) = x OBVIOUS
    <2>8. h[k + 1] = x BY <2>4, <2>5, <2>6, <2>7
    <2> QED BY <2>1, <2>2, <2>8
  <1> HIDE DEF S
  <1>9. \A k \in 0..w : k \in S BY <1>7, <1>8, Climb
  <1>10. h[w] = g[w - w]
    <2>1. w \in 0..w OBVIOUS
    <2> QED BY <1>9, <2>1 DEF S
  <1>11. w - w = 0 OBVIOUS
  <1> QED BY <1>1, <1>6, <1>10, <1>11 DEF s

LEMMA UnsignedBack ==
  ASSUME NEW w \in Nat, NEW v, IsUnsigned(v, w)
  PROVE  v \in Nat /\ Digits(0, BigEndian(v, w)) = v
  <1>1. v \in Nat BY Limits DEF IsUnsigned
  <1>2. PICK g : DigitsOut(g, v, w) BY <1>1, BigEndianSteps
  <1>3. g \in [0..w -> Int] /\ g[0] = v /\ \A i \in 1..w : g[i] = g[i - 1] \div 256
    BY <1>2 DEF DigitsOut
  <1> DEFINE S == {i \in 0..w : g[i] \in 0 .. Limit(w - i) - 1}
  <1>4. 0 \in S
    <2>1. w - 0 = w /\ 0 \in 0..w OBVIOUS
    <2> QED BY <1>3, <2>1 DEF IsUnsigned
  <1>5. ASSUME NEW i \in 0 .. w - 1, i \in S PROVE i + 1 \in S
    <2>1. i + 1 \in 1..w /\ i + 1 \in 0..w /\ (i + 1) - 1 = i /\ w - (i + 1) \in Nat
          /\ (w - (i + 1)) + 1 = w - i
      OBVIOUS
    <2>2. PICK n : n = w - (i + 1) OBVIOUS
    <2>3. PICK p \in Nat : p = Limit(n) /\ Limit(w - i) = 256 * p BY <2>1, <2>2, Limits
    <2>4. PICK x : x = g[i] OBVIOUS
    <2>5. x \in 0 .. 256 * p - 1 BY <1>5, <2>3, <2>4
    <2>6. g[i + 1] = x \div 256 BY <1>3, <2>1, <2>4
    <2>7. x \div 256 \in 0 .. p - 1 BY <2>5
    <2> QED BY <2>1, <2>2, <2>3, <2>6, <2>7
  <1> HIDE DEF S
  <1>6. \A i \in 0..w : i \in S BY <1>4, <1>5, Climb
  <1>7. g[w] \in 0 .. Limit(w - w) - 1
    <2>1. w \in 0..w OBVIOUS
    <2> QED BY <1>6, <2>1 DEF S
  <1>8. w - w = 0 /\ 0 .. 1 - 1 = {0} OBVIOUS
  <1>9. g[w] = 0 BY <1>7, <1>8, Limits
  <1> QED BY <1>1, <1>2, <1>9, DigitsBack

LEMMA SignedBack ==
  ASSUME NEW w \in Nat, w > 0, NEW v, IsSigned(v, w)
  PROVE  /\ v \in Int
         /\ Digits(IF BigEndian(v, w)[1] < 128 THEN 0 ELSE -1, BigEndian(v, w)) = v
  <1>0. w - 1 \in Nat /\ Limit(w - 1) \in Nat BY Limits
  <1>1. v \in Int BY <1>0 DEF IsSigned
  <1>2. PICK g : DigitsOut(g, v, w) BY <1>1, BigEndianSteps
  <1>3. /\ g \in [0..w -> Int] /\ g[0] = v /\ \A i \in 1..w : g[i] = g[i - 1] \div 256
        /\ BigEndian(v, w) = [j \in 1..w |-> g[w - j] % 256]
    BY <1>2 DEF DigitsOut
  <1>10. PICK u \in Nat : u = w - 1 BY <1>0
  <1> DEFINE S == {i \in 0..u : g[i] \in -128 * Limit(u - i) .. 128 * Limit(u - i) - 1}
  <1>4. 0 \in S
    <2>1. u - 0 = u /\ 0 \in 0..u BY <1>10
    <2> QED BY <1>3, <1>10, <2>1 DEF IsSigned
  <1>5. ASSUME NEW i \in 0 .. u - 1, i \in S PROVE i + 1 \in S
    <2>1. i + 1 \in 1..w /\ i + 1 \in 0..u /\ (i + 1) - 1 = i /\ u - (i + 1) \in Nat
          /\ (u - (i + 1)) + 1 = u - i
      BY <1>10
    <2>2. PICK n : n = u - (i + 1) OBVIOUS
    <2>3. PICK p \in Nat : p = Limit(n) /\ Limit(u - i) = 256 * p BY <2>1, <2>2, Limits
    <2>4. PICK x : x = g[i] OBVIOUS
    <2>5. x \in -128 * (256 * p) .. 128 * (256 * p) - 1 BY <1>5, <2>3, <2>4
    <2>6. g[i + 1] = x \div 256 BY <1>3, <2>1, <2>4
    <2>7. x \div 256 \in -128 * p .. 128 * p - 1 BY <2>5
    <2> QED BY <2>1, <2>2, <2>3, <2>6, <2>7
  <1> HIDE DEF S
  <1>6. \A i \in 0..u : i \in S BY <1>4, <1>5, Climb
  <1>7. g[u] \in -128 * Limit(u - u) .. 128 * Limit(u - u) - 1
    <2>1. u \in 0..u OBVIOUS
    <2> QED BY <1>6, <2>1 DEF S
  <1>8. u - u = 0 OBVIOUS
  <1>9. PICK x : x = g[u] OBVIOUS
  <1>16. Limit(u - u) = 1 BY <1>8, Limits
  <1>11. x \in -128 .. 127
    <2>1. x \in -128 * 1 .. 128 * 1 - 1 BY <1>7, <1>9, <1>16
    <2> QED BY <2>1
  <1>12. g[w] = x \div 256
    <2>1. w \in 1..w /\ w - 1 = u BY <1>10
    <2> QED BY <1>3, <1>9, <2>1
  <1>13. BigEndian(v, w)[1] = x % 256
    <2>1. 1 \in 1..w /\ w - 1 = u BY <1>10
    <2> QED BY <1>3, <1>9, <2>1
  <1>14. g[w] = IF BigEndian(v, w)[1] < 128 THEN 0 ELSE -1
    <2>1. x < 0 => x \div 256 = -1 /\ x % 256 >= 128 BY <1>11
    <2>2. x >= 0 => x \div 256 = 0 /\ x % 256 < 128 BY <1>11
    <2>3. x \in Int /\ x % 256 \in Int BY <1>11
    <2> QED BY <1>12, <1>13, <2>1, <2>2, <2>3
  <1>15. Digits(g[w], BigEndian(v, w)) = v BY <1>1, <1>2, DigitsBack
  <1> QED BY <1>1, <1>14, <1>15

----------------------------------------------------------------------------
(* Where the parts of what is encoded are.                                  *)

\* p is in s from a + 1 to b, after x and before y.
Cut(s, x, p, y, a, b) ==
  /\ x \in Bytes /\ p \in Bytes /\ y \in Bytes /\ s = x \o (p \o y)
  /\ a = Len(x) /\ b = a + Len(p)

LEMMA CutIs ==
  ASSUME NEW s, NEW x, NEW p, NEW y, NEW a, NEW b, Cut(s, x, p, y, a, b)
  PROVE  /\ s \in Bytes /\ a \in Nat /\ b \in Nat /\ a <= b /\ b <= Len(s) /\ Len(s) \in Nat
         /\ SubSeq(s, a + 1, b) = p /\ SubSeq(s, b + 1, Len(s)) = y
         /\ \A i \in 1 .. Len(p) : s[a + i] = p[i]
  <1>0. /\ x \in Bytes /\ p \in Bytes /\ y \in Bytes /\ s = x \o (p \o y)
        /\ a = Len(x) /\ b = a + Len(p)
    BY DEF Cut
  <1>1. PICK q : q = p \o y OBVIOUS
  <1>2. q \in Bytes /\ Len(q) = Len(p) + Len(y)
        /\ \A i \in 1 .. Len(p) + Len(y) : q[i] = IF i <= Len(p) THEN p[i] ELSE y[i - Len(p)]
    BY <1>0, <1>1, ConcatProperties DEF Bytes
  <1>3. s \in Bytes /\ Len(s) = Len(x) + Len(q)
        /\ \A i \in 1 .. Len(x) + Len(q) : s[i] = IF i <= Len(x) THEN x[i] ELSE q[i - Len(x)]
    BY <1>0, <1>1, <1>2, ConcatProperties DEF Bytes
  <1>4. PICK l, k, n, j : l = Len(p) /\ k = Len(y) /\ n = Len(s) /\ j = Len(q) OBVIOUS
  <1>5. /\ l \in Nat /\ k \in Nat /\ a \in Nat /\ b = a + l /\ n = b + k /\ j = l + k
    <2>1. Len(p) \in Nat /\ Len(y) \in Nat /\ Len(x) \in Nat BY <1>0, LenProperties DEF Bytes
    <2> QED BY <1>0, <1>2, <1>3, <1>4, <2>1
  <1>6. \A i \in 1..l : s[a + i] = p[i]
    <2> SUFFICES ASSUME NEW i \in 1..l PROVE s[a + i] = p[i] OBVIOUS
    <2>1. a + i \in 1 .. a + j /\ ~(a + i <= a) /\ (a + i) - a = i /\ i \in 1 .. l + k /\ i <= l
      BY <1>5
    <2>2. s[a + i] = q[i] BY <1>0, <1>3, <1>4, <2>1
    <2> QED BY <1>2, <1>4, <2>1, <2>2
  <1>7. \A i \in 1..k : s[b + i] = y[i]
    <2> SUFFICES ASSUME NEW i \in 1..k PROVE s[b + i] = y[i] OBVIOUS
    <2>1. /\ b + i \in 1 .. a + j /\ ~(b + i <= a) /\ (b + i) - a = l + i
          /\ l + i \in 1 .. l + k /\ ~(l + i <= l) /\ (l + i) - l = i
      BY <1>5
    <2>2. s[b + i] = q[l + i] BY <1>0, <1>3, <1>4, <2>1
    <2> QED BY <1>2, <1>4, <2>1, <2>2
  <1>8. \A i \in 1..n : s[i] \in Byte BY <1>3, <1>4, ElementOfSeq DEF Bytes
  <1>9. SubSeq(s, a + 1, b) = p
    <2>1. PICK u : u = SubSeq(s, a + 1, b) OBVIOUS
    <2>2. a + 1 \in Nat \ {0} /\ b \in Nat /\ a + 1 <= b + 1 /\ b <= Len(s) /\ b - (a + 1) + 1 = l
      BY <1>4, <1>5
    <2>3. u \in Bytes /\ Len(u) = b - (a + 1) + 1 BY <1>3, <2>1, <2>2, SubSeqBytes
    <2>4. a + 1 \in Int /\ b \in Int /\ \A i \in a + 1 .. b : s[i] \in Byte BY <1>5, <1>8
    <2>5. \A i \in 1 .. b - (a + 1) + 1 : u[i] = s[a + 1 + i - 1] BY <2>1, <2>4, SubSeqProperties
    <2>6. \A i \in 1..l : a + 1 + i - 1 = a + i BY <1>5
    <2>7. \A i \in 1..l : u[i] = p[i] BY <1>6, <2>2, <2>5, <2>6
    <2>8. u \in Seq(Byte) /\ p \in Seq(Byte) /\ Len(u) = Len(p) /\ \A i \in 1 .. Len(u) : u[i] = p[i]
      BY <1>0, <1>4, <2>2, <2>3, <2>7 DEF Bytes
    <2>9. u = p BY <2>8, SeqEqual
    <2> QED BY <2>1, <2>9
  <1>10. SubSeq(s, b + 1, n) = y
    <2>1. PICK u : u = SubSeq(s, b + 1, n) OBVIOUS
    <2>2. b + 1 \in Nat \ {0} /\ n \in Nat /\ b + 1 <= n + 1 /\ n <= Len(s) /\ n - (b + 1) + 1 = k
      BY <1>4, <1>5
    <2>3. u \in Bytes /\ Len(u) = n - (b + 1) + 1 BY <1>3, <2>1, <2>2, SubSeqBytes
    <2>4. b + 1 \in Int /\ n \in Int /\ \A i \in b + 1 .. n : s[i] \in Byte BY <1>5, <1>8
    <2>5. \A i \in 1 .. n - (b + 1) + 1 : u[i] = s[b + 1 + i - 1] BY <2>1, <2>4, SubSeqProperties
    <2>6. \A i \in 1..k : b + 1 + i - 1 = b + i BY <1>5
    <2>7. \A i \in 1..k : u[i] = y[i] BY <1>7, <2>2, <2>5, <2>6
    <2>8. u \in Seq(Byte) /\ y \in Seq(Byte) /\ Len(u) = Len(y) /\ \A i \in 1 .. Len(u) : u[i] = y[i]
      BY <1>0, <1>4, <2>2, <2>3, <2>7 DEF Bytes
    <2>9. u = y BY <2>8, SeqEqual
    <2> QED BY <2>1, <2>9
  <1>11. s \in Bytes /\ a <= b /\ b <= Len(s) /\ Len(s) \in Nat
    <2>1. n \in Nat /\ a <= b /\ b <= n BY <1>5
    <2> QED BY <1>3, <1>4, <2>1
  <1>12. SubSeq(s, b + 1, Len(s)) = y BY <1>4, <1>10
  <1>13. \A i \in 1 .. Len(p) : s[a + i] = p[i] BY <1>4, <1>6
  <1>14. a \in Nat /\ b \in Nat BY <1>5
  <1> QED BY <1>9, <1>11, <1>12, <1>13, <1>14, Zenon

\* A number at its place in the buffer is read, and what follows it is next.
Number(x, v, w, y, a, b) ==
  /\ x \in Bytes /\ y \in Bytes /\ v \in Int /\ w \in Nat /\ rest = x \o (BigEndian(v, w) \o y)
  /\ a = Len(x) /\ b = a + w

LEMMA NumberIs ==
  ASSUME NEW x, NEW v, NEW w, NEW y, NEW a, NEW b, Number(x, v, w, y, a, b)
  PROVE  /\ a \in Nat /\ b \in Nat /\ a <= b /\ b <= Len(rest) /\ Fits(a) /\ Fits(b)
         /\ IsUnsigned(v, w) => Unsigned(a, w) = v
         /\ w > 0 /\ IsSigned(v, w) => Signed(a, w) = v
         /\ SubSeq(rest, b + 1, Len(rest)) = y
  <1>0. /\ x \in Bytes /\ y \in Bytes /\ v \in Int /\ w \in Nat /\ rest = x \o (BigEndian(v, w) \o y)
        /\ a = Len(x) /\ b = a + w
    BY DEF Number
  <1>1. PICK p : p = BigEndian(v, w) OBVIOUS
  <1>2. p \in Bytes /\ Len(p) = w BY <1>0, <1>1, BigEndianIsBytes DEF Bytes
  <1>3. Cut(rest, x, p, y, a, b) BY <1>0, <1>1, <1>2 DEF Cut
  <1>4. /\ a \in Nat /\ b \in Nat /\ a <= b /\ b <= Len(rest) /\ Len(rest) \in Nat
        /\ SubSeq(rest, a + 1, b) = p /\ SubSeq(rest, b + 1, Len(rest)) = y
        /\ \A i \in 1 .. Len(p) : rest[a + i] = p[i]
    BY <1>3, CutIs
  <1>5. IsUnsigned(v, w) => Unsigned(a, w) = v
    <2>1. Unsigned(a, w) = Digits(0, p) BY <1>0, <1>4 DEF Unsigned
    <2> QED BY <1>0, <1>1, <2>1, UnsignedBack
  <1>6. ASSUME w > 0, IsSigned(v, w) PROVE Signed(a, w) = v
    <2>1. 1 \in 1 .. Len(p) BY <1>0, <1>2, <1>6
    <2>2. rest[a + 1] = p[1] BY <1>4, <2>1
    <2>3. Signed(a, w) = Digits(IF p[1] < 128 THEN 0 ELSE -1, p) BY <1>0, <1>4, <2>2 DEF Signed
    <2> QED BY <1>0, <1>1, <1>6, <2>3, SignedBack
  <1>7. Fits(a) /\ Fits(b) BY <1>4 DEF Fits
  <1> QED BY <1>4, <1>5, <1>6, <1>7

\* A single byte.
Single(x, c, y, a) == x \in Bytes /\ c \in Byte /\ y \in Bytes /\ rest = x \o (<<c>> \o y) /\ a = Len(x)

LEMMA SingleIs ==
  ASSUME NEW x, NEW c, NEW y, NEW a, Single(x, c, y, a)
  PROVE  /\ a \in Nat /\ a + 1 <= Len(rest) /\ Fits(a + 1) /\ rest[a + 1] = c
         /\ SubSeq(rest, a + 1 + 1, Len(rest)) = y
  <1>0. x \in Bytes /\ c \in Byte /\ y \in Bytes /\ rest = x \o (<<c>> \o y) /\ a = Len(x)
    BY DEF Single
  <1>1. PICK p : p = <<c>> OBVIOUS
  <1>2. p \in Bytes /\ Len(p) = 1 /\ p[1] = c BY <1>0, <1>1, One
  <1>6. PICK b : b = a + 1 OBVIOUS
  <1>3. Cut(rest, x, p, y, a, b) BY <1>0, <1>1, <1>2, <1>6 DEF Cut
  <1>4. /\ a \in Nat /\ b \in Nat /\ b <= Len(rest) /\ Len(rest) \in Nat
        /\ SubSeq(rest, b + 1, Len(rest)) = y
        /\ \A i \in 1 .. Len(p) : rest[a + i] = p[i]
    BY <1>3, CutIs
  <1>5. rest[a + 1] = p[1]
    <2>1. 1 \in 1 .. Len(p) BY <1>2
    <2> QED BY <1>4, <2>1
  <1> QED BY <1>2, <1>4, <1>5, <1>6 DEF Fits

\* A name ends at its terminator, the first zero byte.
Named(name, y) == name \in Bytes /\ IsName(name) /\ y \in Bytes /\ rest = CString(name) \o y

LEMMA NameIs ==
  ASSUME NEW name, NEW y, Named(name, y)
  PROVE  /\ 0 \in Range(rest) /\ NameRead = name /\ IsUtf8(NameRead) /\ Fits(NameEnd)
         /\ SubSeq(rest, NameEnd + 1, Len(rest)) = y
  <1>0. /\ name \in Bytes /\ 0 \notin Range(name) /\ IsUtf8(name) /\ y \in Bytes
        /\ rest = CString(name) \o y
    BY DEF Named, IsName
  <1>1. 0 \in Byte BY DEF Byte
  <1>2. PICK o : o = <<0>> OBVIOUS
  <1>3. o \in Bytes /\ o \o y \in Bytes BY <1>0, <1>1, <1>2, One, Concat
  <1>4. CString(name) = name \o o
    <2>1. Append(name, 0) = name \o <<0>> BY <1>0, <1>1, AppendIsConcat DEF Bytes
    <2> QED BY <1>2, <2>1 DEF CString
  <1>5. rest = name \o (o \o y)
    <2>1. (name \o o) \o y = name \o (o \o y) BY <1>0, <1>3, Associative
    <2> QED BY <1>0, <1>4, <2>1
  <1>6. PICK n : n = Len(name) OBVIOUS
  <1>7. /\ n \in Nat /\ n + 1 <= Len(rest) /\ Fits(n + 1) /\ rest[n + 1] = 0
        /\ SubSeq(rest, n + 1 + 1, Len(rest)) = y
    <2>1. Single(name, 0, y, n) BY <1>0, <1>1, <1>2, <1>5, <1>6 DEF Single
    <2> QED BY <2>1, SingleIs
  <1>8. /\ rest \in Bytes /\ Len(rest) \in Nat /\ SubSeq(rest, 1, n) = name
        /\ \A i \in 1..n : rest[i] = name[i]
    <2>1. <<>> \in Bytes /\ Len(<<>>) = 0 BY Empty
    <2>2. PICK e : e = <<>> OBVIOUS
    <2>3. PICK q : q = o \o y OBVIOUS
    <2>4. name \o q \in Bytes /\ e \o (name \o q) = name \o q BY <1>0, <1>3, <2>2, <2>3, Concat, Empty
    <2>5. e \in Bytes /\ 0 = Len(e) /\ q \in Bytes /\ n = 0 + n BY <1>3, <1>7, <2>1, <2>2, <2>3
    <2>6. Cut(rest, e, name, q, 0, n) BY <1>0, <1>5, <1>6, <2>3, <2>4, <2>5 DEF Cut
    <2>7. PICK i0 : i0 = 0 OBVIOUS
    <2>8. Cut(rest, e, name, q, i0, n) BY <2>6, <2>7
    <2>9. /\ rest \in Bytes /\ Len(rest) \in Nat /\ SubSeq(rest, i0 + 1, n) = name
          /\ \A i \in 1 .. Len(name) : rest[i0 + i] = name[i]
      BY <2>8, CutIs
    <2>10. i0 + 1 = 1 /\ \A i \in 1..n : i0 + i = i BY <2>7
    <2> QED BY <1>6, <2>9, <2>10
  <1>9. \A i \in 1..n : rest[i] # 0
    <2>1. DOMAIN name = 1..n BY <1>0, <1>6, LenProperties DEF Bytes
    <2> QED BY <1>0, <1>8, <2>1 DEF Range
  <1> DEFINE I == {i \in 1 .. Len(rest) : rest[i] = 0}
  <1>10. DOMAIN rest = 1 .. Len(rest) BY <1>8, LenProperties DEF Bytes
  <1>11. n + 1 \in I BY <1>7, <1>8
  <1>12. 0 \in Range(rest) BY <1>10, <1>11 DEF Range
  <1>13. I # {} /\ I \in SUBSET Nat BY <1>11
  <1>14. NameEnd = Min(I) BY <1>11 DEF NameEnd, SelectInSeq
  <1>15. PICK m \in I : \A j \in I : m <= j BY <1>13, LeastNat
  <1>16. Min(I) \in I /\ \A j \in I : Min(I) <= j BY <1>15 DEF Min
  <1>17. NameEnd = n + 1
    <2>1. PICK e : e = Min(I) OBVIOUS
    <2>2. e \in 1 .. Len(rest) /\ rest[e] = 0 /\ e <= n + 1 BY <1>11, <1>16, <2>1
    <2>3. e \notin 1..n BY <1>9, <2>2
    <2>4. e = n + 1 BY <1>7, <1>8, <2>2, <2>3
    <2> QED BY <1>14, <2>1, <2>4
  <1>18. NameRead = name
    <2>1. NameEnd - 1 = n BY <1>7, <1>17
    <2> QED BY <1>8, <2>1 DEF NameRead
  <1> QED BY <1>0, <1>7, <1>12, <1>17, <1>18

----------------------------------------------------------------------------
(* Encodings one after the other: what follows the first k of them.         *)

Leading(s, k) == SubSeq(s, 1, k)

LEMMA LeadingIs ==
  ASSUME NEW D, NEW s \in Seq(D)
  PROVE  /\ Len(s) \in Nat /\ Leading(s, 0) = <<>> /\ Leading(s, Len(s)) = s
         /\ \A k \in 0 .. Len(s) : Leading(s, k) \in Seq(D) /\ Len(Leading(s, k)) = k
         /\ \A k \in 0 .. Len(s) - 1 :
              s[k + 1] \in D /\ Leading(s, k + 1) = Append(Leading(s, k), s[k + 1])
  <1>1. PICK n : n = Len(s) OBVIOUS
  <1>2. n \in Nat /\ \A i \in 1..n : s[i] \in D BY <1>1, LenProperties, ElementOfSeq
  <1>3. Leading(s, 0) = <<>> BY SubSeqEmpty DEF Leading
  <1>4. Leading(s, n) = s BY <1>1, SubSeqFull DEF Leading
  <1>5. ASSUME NEW k \in 0..n
        PROVE  /\ Leading(s, k) \in Seq(D) /\ Len(Leading(s, k)) = k
               /\ \A i \in 1..k : Leading(s, k)[i] = s[i]
    <2>1. 1 \in Int /\ k \in Int /\ \A i \in 1..k : s[i] \in D BY <1>2
    <2>2. PICK u : u = SubSeq(s, 1, k) OBVIOUS
    <2>3. /\ u \in Seq(D) /\ Len(u) = IF 1 <= k THEN k - 1 + 1 ELSE 0
          /\ \A i \in 1 .. k - 1 + 1 : u[i] = s[1 + i - 1]
      BY <2>1, <2>2, SubSeqProperties
    <2>4. k - 1 + 1 = k /\ (~(1 <= k) => k = 0) /\ \A i \in 1..k : 1 + i - 1 = i BY <1>2
    <2>5. Len(u) = k /\ \A i \in 1..k : u[i] = s[i] BY <2>3, <2>4
    <2> QED BY <2>2, <2>3, <2>5 DEF Leading
  <1>6. ASSUME NEW k \in 0 .. n - 1
        PROVE  s[k + 1] \in D /\ Leading(s, k + 1) = Append(Leading(s, k), s[k + 1])
    <2>1. k \in 0..n /\ k + 1 \in 0..n /\ k + 1 \in 1..n /\ k \in Nat BY <1>2
    <2>2. PICK u, v, c : u = Leading(s, k) /\ v = Leading(s, k + 1) /\ c = s[k + 1] OBVIOUS
    <2>3. /\ u \in Seq(D) /\ Len(u) = k /\ (\A i \in 1..k : u[i] = s[i])
          /\ v \in Seq(D) /\ Len(v) = k + 1 /\ (\A i \in 1 .. k + 1 : v[i] = s[i])
      BY <1>5, <2>1, <2>2
    <2>4. c \in D BY <1>2, <2>1, <2>2
    <2>5. PICK a : a = Append(u, c) OBVIOUS
    <2>6. a \in Seq(D) /\ Len(a) = k + 1 /\ a[k + 1] = c /\ \A i \in 1..k : a[i] = u[i]
      BY <2>3, <2>4, <2>5, AppendProperties
    <2>7. \A i \in 1 .. k + 1 : i \in 1..k \/ i = k + 1 BY <2>1
    <2>8. \A i \in 1 .. Len(v) : v[i] = a[i] BY <2>2, <2>3, <2>6, <2>7
    <2>9. v = a BY <2>3, <2>6, <2>8, SeqEqual
    <2> QED BY <2>2, <2>4, <2>5, <2>9
  <1> QED BY <1>1, <1>2, <1>3, <1>4, <1>5, <1>6

Encoder(D, E, s) == E \in [D -> Bytes] /\ s \in Seq(D)

Growing(D, E, s, k) == Encoder(D, E, s) /\ k \in 0 .. Len(s) - 1

LEMMA EachGrows ==
  ASSUME NEW D, NEW E, NEW s, NEW k, Growing(D, E, s, k)
  PROVE  /\ Each(E, Leading(s, k)) \in Bytes /\ Each(E, Leading(s, k + 1)) \in Bytes
         /\ E[s[k + 1]] \in Bytes
         /\ Each(E, Leading(s, k + 1)) = Each(E, Leading(s, k)) \o E[s[k + 1]]
  <1>1. E \in [D -> Bytes] /\ s \in Seq(D) /\ k \in 0 .. Len(s) - 1 BY DEF Growing, Encoder
  <1>2. Len(s) \in Nat BY <1>1, LenProperties
  <1>3. PICK t, c : t = Leading(s, k) /\ c = s[k + 1] OBVIOUS
  <1>4. t \in Seq(D) /\ c \in D /\ Leading(s, k + 1) = Append(t, c)
    <2>1. k \in 0 .. Len(s) BY <1>1, <1>2
    <2> QED BY <1>1, <1>3, <2>1, LeadingIs
  <1>5. /\ Each(E, t) \in Bytes /\ Each(E, Append(t, c)) = Each(E, t) \o E[c]
    <2>1. E \in [D -> Bytes] /\ t \in Seq(D) /\ c \in D BY <1>1, <1>4
    <2> QED BY <2>1, EachAppend
  <1>6. E[c] \in Bytes BY <1>1, <1>4
  <1> QED BY <1>3, <1>4, <1>5, <1>6, Concat

LEMMA EachNone == \A E : Each(E, <<>>) = <<>>
  <1> SUFFICES ASSUME NEW E PROVE Each(E, <<>>) = <<>> OBVIOUS
  <1>1. [i \in DOMAIN <<>> |-> E[<<>>[i]]] = <<>> OBVIOUS
  <1> QED BY <1>1, FlattenEmpty DEF Each

LEMMA EachIsBytes ==
  ASSUME NEW D, NEW E, NEW s, Encoder(D, E, s)
  PROVE  Each(E, s) \in Bytes
  <1>1. s \in Seq(D) BY DEF Encoder
  <1>2. Len(s) \in Nat /\ Leading(s, Len(s)) = s BY <1>1, LeadingIs
  <1>3. CASE Len(s) = 0
    <2>1. s = <<>> BY <1>1, <1>3, EmptySeq
    <2> QED BY <2>1, EachNone, Empty
  <1>4. CASE Len(s) # 0
    <2>1. PICK k : k = Len(s) - 1 OBVIOUS
    <2>2. k \in 0 .. Len(s) - 1 /\ k + 1 = Len(s) BY <1>2, <1>4, <2>1
    <2>4. Growing(D, E, s, k) BY <2>2 DEF Growing
    <2>3. Each(E, Leading(s, k + 1)) \in Bytes BY <2>4, EachGrows
    <2> QED BY <1>2, <2>2, <2>3
  <1> QED BY <1>3, <1>4

\* What is encoded is what the first k encode to, and something more.
LEMMA EachBegins ==
  ASSUME NEW D, NEW E, NEW s, Encoder(D, E, s), NEW k \in 0 .. Len(s)
  PROVE  \E u \in Bytes : Each(E, Leading(s, k)) \o u = Each(E, s)
  <1>1. s \in Seq(D) BY DEF Encoder
  <1>2. PICK n : n = Len(s) OBVIOUS
  <1>3. n \in Nat /\ Leading(s, n) = s BY <1>1, <1>2, LeadingIs
  <1> DEFINE S == {j \in 0..n : \E u \in Bytes : Each(E, Leading(s, n - j)) \o u = Each(E, s)}
  <1>4. 0 \in S
    <2>1. Each(E, s) \in Bytes BY EachIsBytes
    <2>2. Each(E, s) \o <<>> = Each(E, s) /\ <<>> \in Bytes BY <2>1, Empty
    <2>3. n - 0 = n /\ 0 \in 0..n BY <1>3
    <2> QED BY <1>3, <2>2, <2>3
  <1>5. ASSUME NEW j \in 0 .. n - 1, j \in S PROVE j + 1 \in S
    <2>1. PICK i : i = n - (j + 1) OBVIOUS
    <2>2. i \in 0 .. n - 1 /\ i + 1 = n - j /\ j + 1 \in 0..n BY <1>3, <2>1
    <2>3. PICK u \in Bytes : Each(E, Leading(s, i + 1)) \o u = Each(E, s) BY <1>5, <2>2
    <2>4. PICK x, e : x = Each(E, Leading(s, i)) /\ e = E[s[i + 1]] OBVIOUS
    <2>8. Growing(D, E, s, i) BY <1>2, <2>2 DEF Growing
    <2>9. /\ Each(E, Leading(s, i)) \in Bytes /\ E[s[i + 1]] \in Bytes
          /\ Each(E, Leading(s, i + 1)) = Each(E, Leading(s, i)) \o E[s[i + 1]]
      BY <2>8, EachGrows
    <2>5. x \in Bytes /\ e \in Bytes /\ Each(E, Leading(s, i + 1)) = x \o e
      BY <2>4, <2>9
    <2>6. e \o u \in Bytes /\ x \o (e \o u) = Each(E, s)
      <3>1. (x \o e) \o u = x \o (e \o u) BY <2>5, Associative
      <3> QED BY <2>3, <2>5, <3>1, Concat
    <2>7. \E v \in Bytes : Each(E, Leading(s, i)) \o v = Each(E, s) BY <2>4, <2>6
    <2> QED BY <2>1, <2>2, <2>7
  <1> HIDE DEF S
  <1>6. \A j \in 0..n : j \in S BY <1>3, <1>4, <1>5, Climb
  <1>7. n - k \in 0..n /\ n - (n - k) = k BY <1>2, <1>3
  <1>8. n - k \in S BY <1>6, <1>7
  <1> QED BY <1>7, <1>8 DEF S

\* z follows the encoding of the first k, in that of s and then y.
Follows(D, E, s, k, z, y) ==
  /\ Encoder(D, E, s) /\ k \in 0 .. Len(s) /\ z \in Bytes /\ y \in Bytes
  /\ Each(E, Leading(s, k)) \o z = Each(E, s) \o y

LEMMA Cancel ==
  ASSUME NEW x \in Bytes, NEW y \in Bytes, NEW z \in Bytes, x \o y = x \o z
  PROVE  y = z
  BY ConcatSimplifications DEF Bytes

LEMMA NextEncoded ==
  ASSUME NEW D, NEW E, NEW s, NEW k, NEW z, NEW y, Follows(D, E, s, k, z, y), k # Len(s)
  PROVE  /\ s[k + 1] \in D /\ E[s[k + 1]] \in Bytes
         /\ \E more \in Bytes : /\ z = E[s[k + 1]] \o more
                                /\ Follows(D, E, s, k + 1, more, y)
  <1>1. /\ Encoder(D, E, s) /\ k \in 0 .. Len(s) /\ z \in Bytes /\ y \in Bytes
        /\ Each(E, Leading(s, k)) \o z = Each(E, s) \o y
    BY DEF Follows
  <1>2. s \in Seq(D) BY <1>1 DEF Encoder
  <1>3. Len(s) \in Nat BY <1>2, LenProperties
  <1>4. k \in 0 .. Len(s) - 1 /\ k + 1 \in 0 .. Len(s) BY <1>1, <1>3
  <1>5. s[k + 1] \in D BY <1>2, <1>4, LeadingIs
  <1>6. PICK x, e, v : x = Each(E, Leading(s, k)) /\ e = E[s[k + 1]] /\ v = Each(E, Leading(s, k + 1))
    OBVIOUS
  <1>17. /\ Each(E, Leading(s, k)) \in Bytes /\ Each(E, Leading(s, k + 1)) \in Bytes
         /\ E[s[k + 1]] \in Bytes
         /\ Each(E, Leading(s, k + 1)) = Each(E, Leading(s, k)) \o E[s[k + 1]]
    <2>1. Growing(D, E, s, k) BY <1>1, <1>4 DEF Growing
    <2> QED BY <2>1, EachGrows
  <1>7. x \in Bytes /\ e \in Bytes /\ v \in Bytes /\ v = x \o e BY <1>6, <1>17
  <1>8. PICK u \in Bytes : v \o u = Each(E, s) BY <1>1, <1>4, <1>6, EachBegins
  <1>9. PICK more : more = u \o y OBVIOUS
  <1>10. more \in Bytes BY <1>1, <1>9, Concat
  <1>11. v \o more = Each(E, s) \o y
    <2>1. ThreeBytes(v, u, y) BY <1>1, <1>7 DEF ThreeBytes
    <2>2. (v \o u) \o y = v \o (u \o y) BY <2>1, AssociativeThree
    <2> QED BY <1>8, <1>9, <2>2
  <1>12. x \o (e \o more) = v \o more
    <2>1. ThreeBytes(x, e, more) BY <1>7, <1>10 DEF ThreeBytes
    <2>2. (x \o e) \o more = x \o (e \o more) BY <2>1, AssociativeThree
    <2> QED BY <1>7, <2>2
  <1>13. e \o more \in Bytes BY <1>7, <1>10, Concat
  <1>14. x \o z = x \o (e \o more) BY <1>1, <1>6, <1>11, <1>12
  <1>15. z = e \o more BY <1>1, <1>7, <1>13, <1>14, Cancel
  <1>16. Follows(D, E, s, k + 1, more, y) BY <1>1, <1>4, <1>6, <1>10, <1>11 DEF Follows
  <1> QED BY <1>5, <1>6, <1>7, <1>10, <1>15, <1>16

LEMMA LastEncoded ==
  ASSUME NEW D, NEW E, NEW s, NEW k, NEW z, NEW y, Follows(D, E, s, k, z, y), k = Len(s)
  PROVE  z = y
  <1>1. /\ Encoder(D, E, s) /\ z \in Bytes /\ y \in Bytes
        /\ Each(E, Leading(s, k)) \o z = Each(E, s) \o y
    BY DEF Follows
  <1>2. s \in Seq(D) BY <1>1 DEF Encoder
  <1>3. Leading(s, k) = s BY <1>2, LeadingIs
  <1>4. Each(E, s) \in Bytes BY <1>1, EachIsBytes
  <1> QED BY <1>1, <1>3, <1>4, Cancel

Entire(D, E, s, z, y) == Encoder(D, E, s) /\ y \in Bytes /\ z = Each(E, s) \o y

LEMMA FirstEncoded ==
  ASSUME NEW D, NEW E, NEW s, NEW z, NEW y, Entire(D, E, s, z, y)
  PROVE  Follows(D, E, s, 0, z, y)
  <1>0. Encoder(D, E, s) /\ y \in Bytes /\ z = Each(E, s) \o y BY DEF Entire
  <1>1. s \in Seq(D) BY <1>0 DEF Encoder
  <1>2. Len(s) \in Nat /\ Leading(s, 0) = <<>> BY <1>1, LeadingIs
  <1>3. Each(E, s) \in Bytes BY <1>0, EachIsBytes
  <1>5. z \in Bytes BY <1>0, <1>3, Concat
  <1>6. Each(E, Leading(s, 0)) = <<>> BY <1>2, EachNone
  <1>7. Each(E, Leading(s, 0)) \o z = Each(E, s) \o y BY <1>0, <1>5, <1>6, Empty
  <1>8. 0 \in 0 .. Len(s) BY <1>2
  <1>9. Encoder(D, E, s) /\ y \in Bytes BY <1>0
  <1> QED BY <1>5, <1>7, <1>8, <1>9 DEF Follows

----------------------------------------------------------------------------
(* The encoding of a message, as it is read.                                *)

ValueCode == [v \in ColumnValue |-> EncodedValue(v)]
ColumnCode == [c \in ColumnInfo |-> EncodedColumn(c)]
IdCode == [i \in Nat |-> EncodedId(i)]
IdsOf(ids) == EncodedEach(ids, EncodedId)

LEMMA Encoders ==
  /\ \A t \in Tuple : Encoder(ColumnValue, ValueCode, t) /\ ValuesOf(t) = Each(ValueCode, t)
  /\ \A s \in Seq(ColumnInfo) : Encoder(ColumnInfo, ColumnCode, s) /\ ColumnsOf(s) = Each(ColumnCode, s)
  /\ \A s \in Seq(Nat) : Encoder(Nat, IdCode, s) /\ IdsOf(s) = Each(IdCode, s)
  <1>1. ASSUME NEW t \in Tuple
        PROVE  Encoder(ColumnValue, ValueCode, t) /\ ValuesOf(t) = Each(ValueCode, t)
    <2>1. t \in Seq(ColumnValue) BY DEF Tuple
    <2>2. ValueCode \in [ColumnValue -> Bytes] BY ValueIsBytes DEF ValueCode
    <2>3. \A i \in DOMAIN t : t[i] \in ColumnValue BY <2>1, LenProperties, ElementOfSeq
    <2>4. [i \in DOMAIN t |-> EncodedValue(t[i])] = [i \in DOMAIN t |-> ValueCode[t[i]]]
      BY <2>3 DEF ValueCode
    <2> QED BY <2>1, <2>2, <2>4 DEF Encoder, ValuesOf, EncodedEach, Each
  <1>2. ASSUME NEW s \in Seq(ColumnInfo)
        PROVE  Encoder(ColumnInfo, ColumnCode, s) /\ ColumnsOf(s) = Each(ColumnCode, s)
    <2>1. ColumnCode \in [ColumnInfo -> Bytes] BY ColumnIsBytes DEF ColumnCode
    <2>2. \A i \in DOMAIN s : s[i] \in ColumnInfo BY LenProperties, ElementOfSeq
    <2>3. [i \in DOMAIN s |-> EncodedColumn(s[i])] = [i \in DOMAIN s |-> ColumnCode[s[i]]]
      BY <2>2 DEF ColumnCode
    <2> QED BY <2>1, <2>3 DEF Encoder, ColumnsOf, EncodedEach, Each
  <1>3. ASSUME NEW s \in Seq(Nat)
        PROVE  Encoder(Nat, IdCode, s) /\ IdsOf(s) = Each(IdCode, s)
    <2>1. \A i \in Nat : EncodedId(i) \in Bytes BY Widths, BigEndianIsBytes DEF EncodedId, Bytes
    <2>2. IdCode \in [Nat -> Bytes] BY <2>1 DEF IdCode
    <2>3. \A i \in DOMAIN s : s[i] \in Nat BY LenProperties, ElementOfSeq
    <2>4. [i \in DOMAIN s |-> EncodedId(s[i])] = [i \in DOMAIN s |-> IdCode[s[i]]]
      BY <2>3 DEF IdCode
    <2> QED BY <2>2, <2>4 DEF Encoder, IdsOf, EncodedEach, Each
  <1> QED BY <1>1, <1>2, <1>3

TagOf(m) ==
  CASE m.kind = "begin" -> Code.B
    [] m.kind = "commit" -> Code.C
    [] m.kind = "relation" -> Code.R
    [] m.kind = "truncate" -> Code.T
    [] m.kind = "other" -> m.tag
    [] OTHER -> RowTag[m.kind]

BeginBody(m) ==
  BigEndian(m.final_lsn, U64) \o (BigEndian(m.timestamp, U64) \o BigEndian(m.xid, U32))

CommitBody(m) ==
  <<m.flags>> \o (BigEndian(m.commit_lsn, U64)
    \o (BigEndian(m.end_lsn, U64) \o BigEndian(m.timestamp, U64)))

TruncateBody(m) ==
  BigEndian(Len(m.relation_ids), U32) \o (<<m.option_bits>> \o IdsOf(m.relation_ids))

\* A relation from its names on, from its identity on and from its columns on.
CountBody(m) == BigEndian(Len(m.columns), U16) \o ColumnsOf(m.columns)
IdentityBody(m) == <<m.identity>> \o CountBody(m)
NameBody(m) == CString(m.name) \o IdentityBody(m)
NamespaceBody(m) == CString(m.namespace) \o NameBody(m)
RelationBody(m) == EncodedId(m.id) \o NamespaceBody(m)

RowBody(m, mark) ==
  EncodedId(m.relation_id) \o (TuplesOf(mark, m.old) \o TuplesOf(Code.N, m.new))

\* What follows the tag.
BodyOf(m, mark) ==
  CASE m.kind = "begin" -> BeginBody(m)
    [] m.kind = "commit" -> CommitBody(m)
    [] m.kind = "relation" -> RelationBody(m)
    [] m.kind = "truncate" -> TruncateBody(m)
    [] m.kind = "other" -> <<>>
    [] OTHER -> RowBody(m, mark)

LEMMA KindsAre ==
  ASSUME NEW m, IsMessage(m)
  PROVE  /\ m.kind \in {"begin", "commit", "truncate", "other", "relation"} \cup RowKinds
         /\ m.kind = "relation" => IsRelationMessage(m)
         /\ m.kind \in RowKinds => IsRowMessage(m)
         /\ m.kind \in {"begin", "commit", "truncate", "other"} => IsControlMessage(m)
  BY DEF IsMessage, IsControlMessage, IsRelationMessage, RelationMessage, IsRowMessage, RowKinds

LEMMA BeginIs ==
  ASSUME NEW m, IsMessage(m), m.kind = "begin"
  PROVE  /\ m = [kind |-> "begin", final_lsn |-> m.final_lsn, timestamp |-> m.timestamp,
                 xid |-> m.xid]
         /\ m.final_lsn \in Nat /\ m.timestamp \in Int /\ m.xid \in Nat
         /\ IsUnsigned(m.final_lsn, U64) /\ IsSigned(m.timestamp, U64) /\ IsUnsigned(m.xid, U32)
  <1>1. IsControlMessage(m) BY KindsAre
  <1> QED BY <1>1 DEF IsControlMessage

LEMMA CommitIs ==
  ASSUME NEW m, IsMessage(m), m.kind = "commit"
  PROVE  /\ m = [kind |-> "commit", flags |-> m.flags, commit_lsn |-> m.commit_lsn,
                 end_lsn |-> m.end_lsn, timestamp |-> m.timestamp]
         /\ m.flags \in Byte /\ m.commit_lsn \in Nat /\ m.end_lsn \in Nat /\ m.timestamp \in Int
         /\ IsUnsigned(m.commit_lsn, U64) /\ IsUnsigned(m.end_lsn, U64)
         /\ IsSigned(m.timestamp, U64)
  <1>1. IsControlMessage(m) BY KindsAre
  <1> QED BY <1>1 DEF IsControlMessage

LEMMA TruncateIs ==
  ASSUME NEW m, IsMessage(m), m.kind = "truncate"
  PROVE  /\ m = [kind |-> "truncate", option_bits |-> m.option_bits,
                 relation_ids |-> m.relation_ids]
         /\ m.option_bits \in Byte /\ m.relation_ids \in Seq(Nat)
         /\ IsUnsigned(Len(m.relation_ids), U32)
         /\ \A i \in DOMAIN m.relation_ids : IsUnsigned(m.relation_ids[i], U32)
  <1>1. IsControlMessage(m) BY KindsAre
  <1> QED BY <1>1 DEF IsControlMessage

LEMMA OtherIs ==
  ASSUME NEW m, IsMessage(m), m.kind = "other"
  PROVE  m = [kind |-> "other", tag |-> m.tag] /\ m.tag \in Byte /\ m.tag \notin Tags
  <1>1. IsControlMessage(m) BY KindsAre
  <1> QED BY <1>1 DEF IsControlMessage

LEMMA RelationIs ==
  ASSUME NEW m, IsMessage(m), m.kind = "relation"
  PROVE  /\ m = [kind |-> "relation", id |-> m.id, namespace |-> m.namespace, name |-> m.name,
                 identity |-> m.identity, columns |-> m.columns]
         /\ m.id \in Nat /\ m.namespace \in Bytes /\ m.name \in Bytes
         /\ m.identity \in Byte /\ m.columns \in Seq(ColumnInfo)
         /\ IsUnsigned(m.id, U32) /\ IsName(m.namespace) /\ IsName(m.name)
         /\ m.identity \in Identities /\ IsUnsigned(Len(m.columns), U16)
         /\ \A i \in DOMAIN m.columns :
              /\ IsName(m.columns[i].name) /\ IsUnsigned(m.columns[i].type_oid, U32)
              /\ IsSigned(m.columns[i].type_modifier, U32)
  <1>1. IsRelationMessage(m) BY KindsAre
  <1>2. m \in RelationMessage BY <1>1 DEF IsRelationMessage
  <1> QED BY <1>1, <1>2 DEF IsRelationMessage, RelationMessage, Bytes

LEMMA RowIs ==
  ASSUME NEW m, IsMessage(m), m.kind \in RowKinds
  PROVE  /\ m = [kind |-> m.kind, relation_id |-> m.relation_id, old |-> m.old, new |-> m.new]
         /\ m.relation_id \in Nat /\ IsUnsigned(m.relation_id, U32)
         /\ m.old = <<>> \/ (m.old = <<m.old[1]>> /\ IsTuple(m.old[1]))
         /\ m.new = <<>> \/ (m.new = <<m.new[1]>> /\ IsTuple(m.new[1]))
         /\ m.kind = "insert" => m.old = <<>>
         /\ m.kind = "delete" => m.old # <<>>
         /\ m.new = <<>> <=> m.kind = "delete"
  <1>1. IsRowMessage(m) BY KindsAre
  <1>2. \A v, w : w \in Nat /\ IsUnsigned(v, w) => v \in Nat BY Limits DEF IsUnsigned
  <1>3. U32 \in Nat BY Widths
  <1> QED BY <1>1, <1>2, <1>3 DEF IsRowMessage

LEMMA RegroupFour ==
  ASSUME NEW x, NEW y, NEW z, NEW u, FourBytes(x, y, z, u)
  PROVE  ((x \o y) \o z) \o u = x \o (y \o (z \o u))
  <1>1. x \in Bytes /\ y \in Bytes /\ z \in Bytes /\ u \in Bytes BY DEF FourBytes
  <1>2. PICK a, b : a = x \o y /\ b = z \o u OBVIOUS
  <1>3. a \in Bytes /\ b \in Bytes BY <1>1, <1>2, Concat
  <1>4. ThreeBytes(a, z, u) /\ ThreeBytes(x, y, b) BY <1>1, <1>3 DEF ThreeBytes
  <1>5. (a \o z) \o u = a \o (z \o u) BY <1>4, AssociativeThree
  <1>6. (x \o y) \o b = x \o (y \o b) BY <1>4, AssociativeThree
  <1> QED BY <1>2, <1>5, <1>6

FiveBytes(x, y, z, u, v) == FourBytes(x, y, z, u) /\ v \in Bytes
FiveRegrouped(x, y, z, u, v) == (((x \o y) \o z) \o u) \o v = x \o (y \o (z \o (u \o v)))

LEMMA RegroupFive ==
  ASSUME NEW x, NEW y, NEW z, NEW u, NEW v, FiveBytes(x, y, z, u, v)
  PROVE  FiveRegrouped(x, y, z, u, v)
  <1>1. x \in Bytes /\ y \in Bytes /\ z \in Bytes /\ u \in Bytes /\ v \in Bytes
    BY DEF FiveBytes, FourBytes
  <1>2. PICK a, b : a = x \o y /\ b = z \o (u \o v) OBVIOUS
  <1>3. a \in Bytes /\ b \in Bytes
    <2>1. u \o v \in Bytes BY <1>1, Concat
    <2> QED BY <1>1, <1>2, <2>1, Concat
  <1>4. FourBytes(a, z, u, v) /\ ThreeBytes(x, y, b) BY <1>1, <1>3 DEF ThreeBytes, FourBytes
  <1>5. ((a \o z) \o u) \o v = a \o (z \o (u \o v)) BY <1>4, RegroupFour
  <1>6. ((a \o z) \o u) \o v = a \o b BY <1>2, <1>5
  <1>7. (x \o y) \o b = x \o (y \o b) BY <1>4, AssociativeThree
  <1>8. (((x \o y) \o z) \o u) \o v = x \o (y \o (z \o (u \o v))) BY <1>2, <1>6, <1>7
  <1> QED BY <1>8 DEF FiveRegrouped

SevenBytes(x, y, z, u, v, w, o) == FiveBytes(x, y, z, u, v) /\ w \in Bytes /\ o \in Bytes
SevenRegrouped(x, y, z, u, v, w, o) ==
  (((((x \o y) \o z) \o u) \o v) \o w) \o o = x \o (y \o (z \o (u \o (v \o (w \o o)))))

LEMMA RegroupSeven ==
  ASSUME NEW x, NEW y, NEW z, NEW u, NEW v, NEW w, NEW o, SevenBytes(x, y, z, u, v, w, o)
  PROVE  SevenRegrouped(x, y, z, u, v, w, o)
  <1>1. /\ x \in Bytes /\ y \in Bytes /\ z \in Bytes /\ u \in Bytes /\ v \in Bytes
        /\ w \in Bytes /\ o \in Bytes
    BY DEF SevenBytes, FiveBytes, FourBytes
  <1>2. PICK a, b : a = (x \o y) \o z /\ b = u \o (v \o (w \o o)) OBVIOUS
  <1>3. a \in Bytes /\ b \in Bytes
    <2>1. w \o o \in Bytes /\ x \o y \in Bytes BY <1>1, Concat
    <2>2. v \o (w \o o) \in Bytes BY <1>1, <2>1, Concat
    <2> QED BY <1>1, <1>2, <2>1, <2>2, Concat
  <1>4. FourBytes(x, y, z, b) BY <1>1, <1>3 DEF FourBytes
  <1>5. FiveBytes(a, u, v, w, o) BY <1>1, <1>3 DEF FiveBytes, FourBytes
  <1>6. FiveRegrouped(a, u, v, w, o) BY <1>5, RegroupFive
  <1>7. (((a \o u) \o v) \o w) \o o = a \o b BY <1>2, <1>6 DEF FiveRegrouped
  <1>8. ((x \o y) \o z) \o b = x \o (y \o (z \o b)) BY <1>4, RegroupFour
  <1>9. (((((x \o y) \o z) \o u) \o v) \o w) \o o = x \o (y \o (z \o b)) BY <1>2, <1>7, <1>8
  <1> QED BY <1>2, <1>9 DEF SevenRegrouped

LEMMA NumberBytes ==
  ASSUME NEW v \in Int, NEW w \in {U16, U32, U64}
  PROVE  BigEndian(v, w) \in Bytes /\ Len(BigEndian(v, w)) = w /\ w \in Nat /\ w > 0
  BY Widths, BigEndianIsBytes DEF Bytes

LEMMA NameBytes ==
  ASSUME NEW name \in Bytes
  PROVE  CString(name) \in Bytes
  <1>1. 0 \in Byte BY DEF Byte
  <1> QED BY <1>1, AppendProperties DEF CString, Bytes

LEMMA RelationParts ==
  ASSUME NEW m, IsMessage(m), m.kind = "relation"
  PROVE  /\ ColumnsOf(m.columns) \in Bytes /\ CountBody(m) \in Bytes /\ IdentityBody(m) \in Bytes
         /\ NameBody(m) \in Bytes /\ NamespaceBody(m) \in Bytes /\ RelationBody(m) \in Bytes
  <1>1. /\ m.id \in Nat /\ m.namespace \in Bytes /\ m.name \in Bytes
        /\ m.identity \in Byte /\ m.columns \in Seq(ColumnInfo)
    BY RelationIs
  <1>2. Len(m.columns) \in Nat BY <1>1, LenProperties
  <1>3. BigEndian(Len(m.columns), U16) \in Bytes /\ EncodedId(m.id) \in Bytes
    <2>1. BigEndian(Len(m.columns), U16) \in Bytes BY <1>2, NumberBytes
    <2>2. BigEndian(m.id, U32) \in Bytes BY <1>1, NumberBytes
    <2> QED BY <2>1, <2>2 DEF EncodedId
  <1>4. ColumnsOf(m.columns) \in Bytes BY <1>1, ColumnsAreBytes
  <1>5. CountBody(m) \in Bytes BY <1>3, <1>4, Concat DEF CountBody
  <1>6. IdentityBody(m) \in Bytes BY <1>1, <1>5, One, Concat DEF IdentityBody
  <1>7. NameBody(m) \in Bytes BY <1>1, <1>6, NameBytes, Concat DEF NameBody
  <1>8. NamespaceBody(m) \in Bytes BY <1>1, <1>7, NameBytes, Concat DEF NamespaceBody
  <1>9. RelationBody(m) \in Bytes BY <1>3, <1>8, Concat DEF RelationBody
  <1> QED BY <1>4, <1>5, <1>6, <1>7, <1>8, <1>9

LEMMA TruncateParts ==
  ASSUME NEW m, IsMessage(m), m.kind = "truncate"
  PROVE  /\ Len(m.relation_ids) \in Nat
         /\ BigEndian(Len(m.relation_ids), U32) \in Bytes /\ IdsOf(m.relation_ids) \in Bytes
         /\ <<m.option_bits>> \in Bytes
         /\ <<m.option_bits>> \o IdsOf(m.relation_ids) \in Bytes /\ TruncateBody(m) \in Bytes
  <1>1. m.option_bits \in Byte /\ m.relation_ids \in Seq(Nat) BY TruncateIs
  <1>2. Len(m.relation_ids) \in Nat BY <1>1, LenProperties
  <1>3. BigEndian(Len(m.relation_ids), U32) \in Bytes BY <1>2, NumberBytes
  <1>4. IdsOf(m.relation_ids) \in Bytes
    <2>1. /\ Encoder(Nat, IdCode, m.relation_ids)
          /\ IdsOf(m.relation_ids) = Each(IdCode, m.relation_ids)
      BY <1>1, Encoders
    <2> QED BY <2>1, EachIsBytes
  <1>5. <<m.option_bits>> \in Bytes BY <1>1, One
  <1>6. <<m.option_bits>> \o IdsOf(m.relation_ids) \in Bytes BY <1>4, <1>5, Concat
  <1>7. TruncateBody(m) \in Bytes BY <1>3, <1>6, Concat DEF TruncateBody
  <1> QED BY <1>2, <1>3, <1>4, <1>5, <1>6, <1>7

LEMMA RowParts ==
  ASSUME NEW m, IsMessage(m), m.kind \in RowKinds, NEW mark \in Byte
  PROVE  /\ EncodedId(m.relation_id) \in Bytes
         /\ TuplesOf(mark, m.old) \in Bytes /\ TuplesOf(Code.N, m.new) \in Bytes
         /\ TuplesOf(mark, m.old) \o TuplesOf(Code.N, m.new) \in Bytes
         /\ RowBody(m, mark) \in Bytes
  <1>1. /\ m.relation_id \in Nat
        /\ m.old = <<>> \/ (m.old = <<m.old[1]>> /\ IsTuple(m.old[1]))
        /\ m.new = <<>> \/ (m.new = <<m.new[1]>> /\ IsTuple(m.new[1]))
    BY RowIs
  <1>2. BigEndian(m.relation_id, U32) \in Bytes BY <1>1, NumberBytes
  <1>3. EncodedId(m.relation_id) \in Bytes BY <1>2 DEF EncodedId
  <1>4. ASSUME NEW x \in Byte, NEW s, s = <<>> \/ (s = <<s[1]>> /\ IsTuple(s[1]))
        PROVE  TuplesOf(x, s) \in Bytes
    <2>1. CASE s = <<>> BY <2>1, EachEmpty, Empty
    <2>2. CASE s = <<s[1]>> /\ IsTuple(s[1])
      <3>1. PICK t : t = s[1] OBVIOUS
      <3>2. t \in Tuple BY <2>2, <3>1 DEF IsTuple, Tuple
      <3>3. TuplesOf(x, <<t>>) \in Bytes BY <3>2, TuplesOne
      <3> QED BY <2>2, <3>1, <3>3
    <2> QED BY <1>4, <2>1, <2>2
  <1>5. TuplesOf(mark, m.old) \in Bytes BY <1>1, <1>4
  <1>6. TuplesOf(Code.N, m.new) \in Bytes BY <1>1, <1>4, Codes
  <1>7. TuplesOf(mark, m.old) \o TuplesOf(Code.N, m.new) \in Bytes BY <1>5, <1>6, Concat
  <1>8. RowBody(m, mark) \in Bytes BY <1>3, <1>7, Concat DEF RowBody
  <1> QED BY <1>3, <1>5, <1>6, <1>7, <1>8

\* An encoding is the tag and what follows it.
LEMMA EncodingIs ==
  ASSUME NEW m, IsMessage(m), NEW e \in Encodings(m)
  PROVE  \E mark \in Marks : e = <<TagOf(m)>> \o BodyOf(m, mark)
  <1>0. /\ Code.K \in Marks /\ \A t \in Byte : <<t>> \in Bytes
        /\ {Code.B, Code.C, Code.R, Code.T, Code.N} \subseteq Byte
        /\ \A kind \in RowKinds : RowTag[kind] \in Byte
    BY Codes, One DEF Marks
  <1>1. CASE m.kind = "begin"
    <2>1. PICK t, x, y, z : /\ t = <<Code.B>> /\ x = BigEndian(m.final_lsn, U64)
                            /\ y = BigEndian(m.timestamp, U64) /\ z = BigEndian(m.xid, U32)
      OBVIOUS
    <2>2. t \in Bytes /\ x \in Bytes /\ y \in Bytes /\ z \in Bytes
      <3>1. x \in Bytes BY <1>1, <2>1, BeginIs, NumberBytes
      <3>2. y \in Bytes BY <1>1, <2>1, BeginIs, NumberBytes
      <3>3. z \in Bytes BY <1>1, <2>1, BeginIs, NumberBytes
      <3> QED BY <1>0, <2>1, <3>1, <3>2, <3>3
    <2>3. e = ((t \o x) \o y) \o z BY <1>1, <2>1 DEF Encodings
    <2>4. FourBytes(t, x, y, z) BY <2>2 DEF FourBytes
    <2>5. ((t \o x) \o y) \o z = t \o (x \o (y \o z)) BY <2>4, RegroupFour
    <2>6. <<TagOf(m)>> = t /\ BodyOf(m, Code.K) = x \o (y \o z)
      BY <1>1, <2>1 DEF TagOf, BodyOf, BeginBody
    <2> QED BY <1>0, <2>3, <2>5, <2>6
  <1>2. CASE m.kind = "commit"
    <2>1. PICK t, f, x, y, z : /\ t = <<Code.C>> /\ f = <<m.flags>>
                               /\ x = BigEndian(m.commit_lsn, U64)
                               /\ y = BigEndian(m.end_lsn, U64)
                               /\ z = BigEndian(m.timestamp, U64)
      OBVIOUS
    <2>2. t \in Bytes /\ f \in Bytes /\ x \in Bytes /\ y \in Bytes /\ z \in Bytes
      <3>1. x \in Bytes BY <1>2, <2>1, CommitIs, NumberBytes
      <3>2. y \in Bytes BY <1>2, <2>1, CommitIs, NumberBytes
      <3>3. z \in Bytes BY <1>2, <2>1, CommitIs, NumberBytes
      <3>4. f \in Bytes BY <1>0, <1>2, <2>1, CommitIs
      <3> QED BY <1>0, <2>1, <3>1, <3>2, <3>3, <3>4
    <2>3. e = ((<<Code.C, m.flags>> \o x) \o y) \o z BY <1>2, <2>1 DEF Encodings
    <2>4. <<Code.C, m.flags>> = t \o f
      <3>1. Code.C \in Byte /\ m.flags \in Byte BY <1>0, <1>2, CommitIs
      <3>2. <<Code.C>> \o <<m.flags>> = <<Code.C, m.flags>> BY <3>1, Pair
      <3> QED BY <2>1, <3>2
    <2>5. FiveBytes(t, f, x, y, z) BY <2>2 DEF FiveBytes, FourBytes
    <2>8. FiveRegrouped(t, f, x, y, z) BY <2>5, RegroupFive
    <2>6. (((t \o f) \o x) \o y) \o z = t \o (f \o (x \o (y \o z))) BY <2>8 DEF FiveRegrouped
    <2>7. <<TagOf(m)>> = t /\ BodyOf(m, Code.K) = f \o (x \o (y \o z))
      BY <1>2, <2>1 DEF TagOf, BodyOf, CommitBody
    <2> QED BY <1>0, <2>3, <2>4, <2>6, <2>7
  <1>3. CASE m.kind = "truncate"
    <2>1. PICK t, x, y, z : /\ t = <<Code.T>> /\ x = BigEndian(Len(m.relation_ids), U32)
                            /\ y = <<m.option_bits>> /\ z = IdsOf(m.relation_ids)
      OBVIOUS
    <2>2. t \in Bytes /\ x \in Bytes /\ y \in Bytes /\ z \in Bytes
      BY <1>0, <1>3, <2>1, TruncateParts
    <2>3. e = ((t \o x) \o y) \o z BY <1>3, <2>1 DEF Encodings, IdsOf
    <2>4. FourBytes(t, x, y, z) BY <2>2 DEF FourBytes
    <2>5. ((t \o x) \o y) \o z = t \o (x \o (y \o z)) BY <2>4, RegroupFour
    <2>6. <<TagOf(m)>> = t /\ BodyOf(m, Code.K) = x \o (y \o z)
      BY <1>3, <2>1 DEF TagOf, BodyOf, TruncateBody
    <2> QED BY <1>0, <2>3, <2>5, <2>6
  <1>4. CASE m.kind = "other"
    <2>1. e = <<m.tag>> BY <1>4 DEF Encodings
    <2>2. <<m.tag>> \in Bytes BY <1>0, <1>4, OtherIs
    <2>3. TagOf(m) = m.tag /\ BodyOf(m, Code.K) = <<>> BY <1>4 DEF TagOf, BodyOf
    <2>4. <<m.tag>> \o <<>> = <<m.tag>> BY <2>2, Empty
    <2> QED BY <1>0, <2>1, <2>3, <2>4
  <1>5. CASE m.kind = "relation"
    <2>1. PICK t, i, s, n, y, k, c :
            /\ t = <<Code.R>> /\ i = EncodedId(m.id) /\ s = CString(m.namespace)
            /\ n = CString(m.name) /\ y = <<m.identity>> /\ k = BigEndian(Len(m.columns), U16)
            /\ c = ColumnsOf(m.columns)
      OBVIOUS
    <2>2. /\ t \in Bytes /\ i \in Bytes /\ s \in Bytes /\ n \in Bytes /\ y \in Bytes
          /\ k \in Bytes /\ c \in Bytes
      <3>1. /\ m.id \in Nat /\ m.namespace \in Bytes /\ m.name \in Bytes
            /\ m.identity \in Byte /\ m.columns \in Seq(ColumnInfo)
        BY <1>5, RelationIs
      <3>2. Len(m.columns) \in Nat BY <3>1, LenProperties
      <3>3. k \in Bytes BY <2>1, <3>2, NumberBytes
      <3>4. BigEndian(m.id, U32) \in Bytes BY <3>1, NumberBytes
      <3>5. i \in Bytes BY <2>1, <3>4 DEF EncodedId
      <3>6. s \in Bytes /\ n \in Bytes BY <2>1, <3>1, NameBytes
      <3>7. c \in Bytes BY <1>5, <2>1, RelationParts
      <3>8. t \in Bytes /\ y \in Bytes BY <1>0, <2>1, <3>1
      <3> QED BY <3>3, <3>5, <3>6, <3>7, <3>8
    <2>3. e = (((((t \o i) \o s) \o n) \o y) \o k) \o c BY <1>5, <2>1 DEF Encodings, ColumnsOf
    <2>4. SevenBytes(t, i, s, n, y, k, c) BY <2>2 DEF SevenBytes, FiveBytes, FourBytes
    <2>7. SevenRegrouped(t, i, s, n, y, k, c) BY <2>4, RegroupSeven
    <2>5. (((((t \o i) \o s) \o n) \o y) \o k) \o c = t \o (i \o (s \o (n \o (y \o (k \o c)))))
      BY <2>7 DEF SevenRegrouped
    <2>6. <<TagOf(m)>> = t /\ BodyOf(m, Code.K) = i \o (s \o (n \o (y \o (k \o c))))
      BY <1>5, <2>1
         DEF TagOf, BodyOf, RelationBody, NamespaceBody, NameBody, IdentityBody, CountBody
    <2> QED BY <1>0, <2>3, <2>5, <2>6
  <1>6. CASE m.kind \in RowKinds
    <2>1. PICK mark \in {Code.K, Code.O} :
            e = ((<<RowTag[m.kind]>> \o EncodedId(m.relation_id)) \o TuplesOf(mark, m.old))
                  \o TuplesOf(Code.N, m.new)
      <3>1. Encodings(m) = {<<RowTag[m.kind]>> \o EncodedId(m.relation_id)
                              \o EncodedEach(m.old, LAMBDA t : <<x>> \o EncodedTuple(t))
                              \o EncodedEach(m.new, LAMBDA t : <<Code.N>> \o EncodedTuple(t)) :
                              x \in {Code.K, Code.O}}
        BY <1>6 DEF Encodings, RowKinds
      <3>2. \A x \in {Code.K, Code.O} :
              <<RowTag[m.kind]>> \o EncodedId(m.relation_id)
                \o EncodedEach(m.old, LAMBDA t : <<x>> \o EncodedTuple(t))
                \o EncodedEach(m.new, LAMBDA t : <<Code.N>> \o EncodedTuple(t))
              = ((<<RowTag[m.kind]>> \o EncodedId(m.relation_id)) \o TuplesOf(x, m.old))
                  \o TuplesOf(Code.N, m.new)
        BY DEF TuplesOf
      <3> QED BY <3>1, <3>2, Zenon
    <2>2. mark \in Marks /\ mark \in Byte BY MarksAreBytes DEF Marks
    <2>3. PICK t, x, y, z : /\ t = <<RowTag[m.kind]>> /\ x = EncodedId(m.relation_id)
                            /\ y = TuplesOf(mark, m.old) /\ z = TuplesOf(Code.N, m.new)
      OBVIOUS
    <2>4. t \in Bytes /\ x \in Bytes /\ y \in Bytes /\ z \in Bytes
      <3>1. t \in Bytes BY <1>0, <1>6, <2>3
      <3>2. x \in Bytes /\ y \in Bytes /\ z \in Bytes BY <1>6, <2>2, <2>3, RowParts
      <3> QED BY <3>1, <3>2
    <2>5. e = ((t \o x) \o y) \o z BY <2>1, <2>3
    <2>6. FourBytes(t, x, y, z) BY <2>4 DEF FourBytes
    <2>7. ((t \o x) \o y) \o z = t \o (x \o (y \o z)) BY <2>6, RegroupFour
    <2>8. <<TagOf(m)>> = t /\ BodyOf(m, mark) = x \o (y \o z)
      BY <1>6, <2>3 DEF TagOf, BodyOf, RowBody, RowKinds
    <2> QED BY <2>2, <2>5, <2>7, <2>8
  <1> QED BY <1>1, <1>2, <1>3, <1>4, <1>5, <1>6, KindsAre

LEMMA BodyIsBytes ==
  ASSUME NEW m, IsMessage(m), NEW mark \in Marks
  PROVE  BodyOf(m, mark) \in Bytes /\ TagOf(m) \in Byte
  <1>0. mark \in Byte BY MarksAreBytes
  <1>7. TagOf(m) \in Byte
    <2>1. CASE m.kind \in {"begin", "commit", "truncate", "relation"} BY <2>1, Codes DEF TagOf
    <2>2. CASE m.kind = "other" BY <2>2, OtherIs DEF TagOf
    <2>3. CASE m.kind \in RowKinds BY <2>3, Codes DEF TagOf, RowKinds
    <2> QED BY <2>1, <2>2, <2>3, KindsAre
  <1>1. CASE m.kind = "begin"
    <2>1. PICK x, y, z : /\ x = BigEndian(m.final_lsn, U64)
                         /\ y = BigEndian(m.timestamp, U64) /\ z = BigEndian(m.xid, U32)
      OBVIOUS
    <2>2. x \in Bytes BY <1>1, <2>1, BeginIs, NumberBytes
    <2>3. y \in Bytes BY <1>1, <2>1, BeginIs, NumberBytes
    <2>4. z \in Bytes BY <1>1, <2>1, BeginIs, NumberBytes
    <2>5. y \o z \in Bytes BY <2>3, <2>4, Concat
    <2>6. x \o (y \o z) \in Bytes BY <2>2, <2>5, Concat
    <2>7. BodyOf(m, mark) = x \o (y \o z) BY <1>1, <2>1 DEF BodyOf, BeginBody
    <2> QED BY <1>7, <2>6, <2>7
  <1>2. CASE m.kind = "commit"
    <2>1. PICK f, x, y, z : /\ f = <<m.flags>> /\ x = BigEndian(m.commit_lsn, U64)
                            /\ y = BigEndian(m.end_lsn, U64) /\ z = BigEndian(m.timestamp, U64)
      OBVIOUS
    <2>2. x \in Bytes BY <1>2, <2>1, CommitIs, NumberBytes
    <2>3. y \in Bytes BY <1>2, <2>1, CommitIs, NumberBytes
    <2>4. z \in Bytes BY <1>2, <2>1, CommitIs, NumberBytes
    <2>8. f \in Bytes BY <1>2, <2>1, CommitIs, One
    <2>5. y \o z \in Bytes BY <2>3, <2>4, Concat
    <2>6. x \o (y \o z) \in Bytes BY <2>2, <2>5, Concat
    <2>9. f \o (x \o (y \o z)) \in Bytes BY <2>6, <2>8, Concat
    <2>7. BodyOf(m, mark) = f \o (x \o (y \o z)) BY <1>2, <2>1 DEF BodyOf, CommitBody
    <2> QED BY <1>7, <2>7, <2>9
  <1>3. CASE m.kind = "truncate" BY <1>3, <1>7, TruncateParts DEF BodyOf
  <1>4. CASE m.kind = "other" BY <1>4, <1>7, Empty DEF BodyOf
  <1>5. CASE m.kind = "relation" BY <1>5, <1>7, RelationParts DEF BodyOf
  <1>6. CASE m.kind \in RowKinds
    <2>1. BodyOf(m, mark) = RowBody(m, mark) BY <1>6 DEF BodyOf, RowKinds
    <2>2. RowBody(m, mark) \in Bytes BY <1>0, <1>6, RowParts
    <2> QED BY <1>7, <2>1, <2>2
  <1> QED BY <1>1, <1>2, <1>3, <1>4, <1>5, <1>6, KindsAre

----------------------------------------------------------------------------
(* Where the decoder is in the encoding of a message.                       *)

AtTag(m, mark) == field = "tag" /\ rest = <<TagOf(m)>> \o BodyOf(m, mark)

AtControl(m, mark) ==
  /\ field = m.kind /\ m.kind \in {"begin", "commit", "truncate", "relation"}
  /\ rest = BodyOf(m, mark)

AtRow(m, mark) ==
  /\ field = "row" /\ m.kind \in RowKinds /\ rest = RowBody(m, mark)
  /\ msg = [kind |-> m.kind, relation_id |-> 0, old |-> <<>>, new |-> <<>>]

\* A relation as far as its header is read.
Header(m, namespace, name) ==
  [kind |-> "relation", id |-> m.id, namespace |-> namespace, name |-> name,
   identity |-> Default, columns |-> <<>>]

AtNamespace(m) ==
  /\ field = "namespace" /\ m.kind = "relation"
  /\ msg = Header(m, <<>>, <<>>) /\ rest = NamespaceBody(m)

AtName(m) ==
  /\ field = "name" /\ m.kind = "relation"
  /\ msg = Header(m, m.namespace, <<>>) /\ rest = NameBody(m)

AtIdentity(m) ==
  /\ field = "identity" /\ m.kind = "relation"
  /\ msg = Header(m, m.namespace, m.name) /\ rest = IdentityBody(m)

\* A relation with these columns.
WithColumns(m, columns) ==
  [kind |-> "relation", id |-> m.id, namespace |-> m.namespace, name |-> m.name,
   identity |-> m.identity, columns |-> columns]

\* k columns are read, more is what follows them.
ColumnsRead(m, k, more) ==
  m.kind = "relation" /\ Follows(ColumnInfo, ColumnCode, m.columns, k, more, <<>>)

AtFlags(m) ==
  /\ field = "flags"
  /\ \E k \in 0 .. Len(m.columns) :
       /\ ColumnsRead(m, k, rest) /\ left = Len(m.columns) - k
       /\ msg = WithColumns(m, Leading(m.columns, k))

TypeBody(c, more) == BigEndian(c.type_oid, U32) \o (BigEndian(c.type_modifier, U32) \o more)

\* A column before its type is read.
Untyped(c, name) ==
  [part_of_key |-> c.part_of_key, name |-> name, type_oid |-> 0, type_modifier |-> 0]

\* Column k + 1 is being read, and its name is as far as it is known.
WithinColumn(m, k, name, more) ==
  /\ k \in 0 .. Len(m.columns) - 1 /\ ColumnsRead(m, k + 1, more)
  /\ left = Len(m.columns) - (k + 1)
  /\ msg = WithColumns(m, Append(Leading(m.columns, k), Untyped(m.columns[k + 1], name)))

AtColumn(m) ==
  /\ field = "column"
  /\ \E k \in 0 .. Len(m.columns) - 1, more \in Bytes :
       /\ WithinColumn(m, k, <<>>, more)
       /\ rest = CString(m.columns[k + 1].name) \o TypeBody(m.columns[k + 1], more)

AtType(m) ==
  /\ field = "type"
  /\ \E k \in 0 .. Len(m.columns) - 1, more \in Bytes :
       /\ WithinColumn(m, k, m.columns[k + 1].name, more)
       /\ rest = TypeBody(m.columns[k + 1], more)

\* The message as it is when its tuple on this side is about to be read, that
\* tuple, and what follows it.
Begun(m) ==
  /\ m.kind \in RowKinds /\ side \in {"old", "new"} /\ m[side] # <<>>
  /\ msg = [kind |-> m.kind, relation_id |-> m.relation_id,
            old |-> IF side = "old" THEN <<>> ELSE m.old, new |-> <<>>]
Reading(m) == m[side][1]
Beyond(m) == IF side = "old" THEN TuplesOf(Code.N, m.new) ELSE <<>>

AtCount(m) ==
  /\ field = "count" /\ Begun(m) /\ tuple = <<>>
  /\ rest = EncodedTuple(Reading(m)) \o Beyond(m)

AtValue(m) ==
  /\ field = "value" /\ Begun(m)
  /\ \E k \in 0 .. Len(Reading(m)) :
       /\ tuple = Leading(Reading(m), k) /\ left = Len(Reading(m)) - k
       /\ Follows(ColumnValue, ValueCode, Reading(m), k, rest, Beyond(m))

AtMarker(m) ==
  /\ field = "marker" /\ m.kind = "update" /\ rest = TuplesOf(Code.N, m.new)
  /\ msg = [kind |-> m.kind, relation_id |-> m.relation_id, old |-> m.old, new |-> <<>>]

AtEnd(m) == field = "ok" /\ msg = m

InRelation(m) ==
  AtNamespace(m) \/ AtName(m) \/ AtIdentity(m) \/ AtFlags(m) \/ AtColumn(m) \/ AtType(m)
InRow(m, mark) == AtRow(m, mark) \/ AtCount(m) \/ AtValue(m) \/ AtMarker(m)

Along(m, mark) ==
  AtTag(m, mark) \/ AtControl(m, mark) \/ InRelation(m) \/ InRow(m, mark) \/ AtEnd(m)

\* The first byte of the buffer, and the rest of it.
First(c, y) == c \in Byte /\ y \in Bytes /\ rest = <<c>> \o y

LEMMA FirstIs ==
  ASSUME NEW c, NEW y, First(c, y)
  PROVE  Fits(1) /\ rest[1] = c /\ SubSeq(rest, 1 + 1, Len(rest)) = y
  <1>1. c \in Byte /\ y \in Bytes /\ rest = <<c>> \o y BY DEF First
  <1>2. PICK x, z : x = <<>> /\ z = <<c>> \o y OBVIOUS
  <1>3. x \in Bytes /\ Len(x) = 0 BY <1>2, Empty
  <1>4. z \in Bytes BY <1>1, <1>2, One, Concat
  <1>5. x \o z = z BY <1>2, <1>4, Empty
  <1>6. Single(x, c, y, 0) BY <1>1, <1>2, <1>3, <1>5 DEF Single
  <1>7. /\ Fits(0 + 1) /\ rest[0 + 1] = c /\ SubSeq(rest, 0 + 1 + 1, Len(rest)) = y
    BY <1>6, SingleIs
  <1> QED BY <1>7

\* A number at the head of the buffer.
FirstOne(v, w, y) == v \in Int /\ w \in Nat /\ y \in Bytes /\ rest = BigEndian(v, w) \o y

LEMMA FirstOneIs ==
  ASSUME NEW v, NEW w, NEW y, FirstOne(v, w, y)
  PROVE  /\ Fits(w) /\ (IsUnsigned(v, w) => Unsigned(0, w) = v)
         /\ SubSeq(rest, w + 1, Len(rest)) = y
  <1>1. v \in Int /\ w \in Nat /\ y \in Bytes /\ rest = BigEndian(v, w) \o y BY DEF FirstOne
  <1>2. PICK x, z : x = <<>> /\ z = BigEndian(v, w) \o y OBVIOUS
  <1>3. x \in Bytes /\ Len(x) = 0 BY <1>2, Empty
  <1>7. BigEndian(v, w) \in Bytes BY <1>1, BigEndianIsBytes DEF Bytes
  <1>4. z \in Bytes BY <1>1, <1>2, <1>7, Concat
  <1>5. x \o z = z BY <1>2, <1>4, Empty
  <1>8. w = 0 + w BY <1>1
  <1>6. Number(x, v, w, y, 0, w) BY <1>1, <1>2, <1>3, <1>5, <1>8 DEF Number
  <1> QED BY <1>6, NumberIs

LEMMA TagsAre ==
  /\ {Code.B, Code.C, Code.R, Code.T} \subseteq Tags
  /\ \A k \in RowKinds : /\ RowTag[k] \in Range(RowTag) /\ RowKind(RowTag[k]) = k
                         /\ RowTag[k] \notin DOMAIN FieldOf
  /\ \A t : t \notin Tags => t \notin DOMAIN FieldOf /\ t \notin Range(RowTag)
  <1>1. DOMAIN RowTag = RowKinds BY DEF RowTag, RowKinds
  <1>2. \A k, l \in RowKinds : RowTag[k] = RowTag[l] => k = l BY DEF RowTag, RowKinds, Code
  <1>3. ASSUME NEW k \in RowKinds PROVE RowTag[k] \in Range(RowTag) /\ RowKind(RowTag[k]) = k
    <2>1. RowTag[k] \in Range(RowTag) BY <1>1 DEF Range
    <2>2. RowKind(RowTag[k]) \in RowKinds /\ RowTag[RowKind(RowTag[k])] = RowTag[k]
      BY <2>1, RowKindIs
    <2> QED BY <1>2, <2>1, <2>2
  <1>4. \A k \in RowKinds : RowTag[k] \notin DOMAIN FieldOf
    BY FieldOfIs DEF RowTag, RowKinds, Code
  <1> QED BY <1>3, <1>4, FieldOfIs DEF Tags

LEMMA TagGoesOn ==
  ASSUME NEW m, IsMessage(m), NEW mark \in Marks, AtTag(m, mark), DecodeTag
  PROVE  Along(m, mark)'
  <1>1. PICK c, y : c = TagOf(m) /\ y = BodyOf(m, mark) OBVIOUS
  <1>2. c \in Byte /\ y \in Bytes BY <1>1, BodyIsBytes
  <1>3. First(c, y) BY <1>1, <1>2 DEF First, AtTag
  <1>4. Fits(1) /\ rest[1] = c /\ SubSeq(rest, 1 + 1, Len(rest)) = y BY <1>3, FirstIs
  <1>5. /\ rest' = y
        /\ IF c \in DOMAIN FieldOf THEN field' = FieldOf[c]
           ELSE IF c \in Range(RowTag)
           THEN /\ field' = "row"
                /\ msg' = [kind |-> RowKind(c), relation_id |-> 0, old |-> <<>>, new |-> <<>>]
           ELSE field' = "ok" /\ msg' = [kind |-> "other", tag |-> c]
    BY <1>4 DEF DecodeTag, Take, Goto
  <1>6. CASE m.kind \in {"begin", "commit", "truncate", "relation"}
    <2>1. c \in DOMAIN FieldOf /\ FieldOf[c] = m.kind BY <1>1, <1>6, FieldOfIs DEF TagOf
    <2>2. field' = m.kind BY <1>5, <2>1
    <2>3. AtControl(m, mark)' BY <1>1, <1>5, <1>6, <2>2 DEF AtControl
    <2> QED BY <2>3 DEF Along
  <1>7. CASE m.kind = "other"
    <2>1. c = m.tag /\ m = [kind |-> "other", tag |-> m.tag] /\ m.tag \notin Tags
      BY <1>1, <1>7, OtherIs DEF TagOf
    <2>2. AtEnd(m)' BY <1>5, <2>1, TagsAre DEF AtEnd
    <2> QED BY <2>2 DEF Along
  <1>8. CASE m.kind \in RowKinds
    <2>1. c = RowTag[m.kind] /\ y = RowBody(m, mark) BY <1>1, <1>8 DEF TagOf, BodyOf, RowKinds
    <2>2. c \in Range(RowTag) /\ RowKind(c) = m.kind /\ c \notin DOMAIN FieldOf
      BY <1>8, <2>1, TagsAre
    <2>3. field' = "row" /\ msg' = [kind |-> m.kind, relation_id |-> 0, old |-> <<>>, new |-> <<>>]
      BY <1>5, <2>2
    <2>4. AtRow(m, mark)' BY <1>5, <1>8, <2>1, <2>3 DEF AtRow
    <2> QED BY <2>4 DEF Along, InRow
  <1> QED BY <1>6, <1>7, <1>8, KindsAre

LEMMA BeginGoesOn ==
  ASSUME NEW m, IsMessage(m), NEW mark \in Marks, AtControl(m, mark), DecodeBegin
  PROVE  Along(m, mark)'
  <1>1. m.kind = "begin" BY DEF AtControl, DecodeBegin
  <1>2. /\ m = [kind |-> "begin", final_lsn |-> m.final_lsn, timestamp |-> m.timestamp,
                xid |-> m.xid]
        /\ m.final_lsn \in Nat /\ m.timestamp \in Int /\ m.xid \in Nat
        /\ IsUnsigned(m.final_lsn, U64) /\ IsSigned(m.timestamp, U64) /\ IsUnsigned(m.xid, U32)
    BY <1>1, BeginIs
  <1>3. PICK x, y, z : /\ x = BigEndian(m.final_lsn, U64)
                       /\ y = BigEndian(m.timestamp, U64) /\ z = BigEndian(m.xid, U32)
    OBVIOUS
  <1>4. x \in Bytes /\ Len(x) = U64 /\ y \in Bytes /\ Len(y) = U64
    <2>1. m.final_lsn \in Int BY <1>2
    <2> QED BY <1>2, <1>3, <2>1, NumberBytes
  <1>5. z \in Bytes /\ Len(z) = U32
    <2>1. m.xid \in Int BY <1>2
    <2> QED BY <1>3, <2>1, NumberBytes
  <1>6. rest = x \o (y \o z) BY <1>1, <1>3 DEF AtControl, BodyOf, BeginBody
  <1>7. PICK p, a, b : p = y \o z /\ a = x \o y /\ b = 2 * U64 OBVIOUS
  <1>8. p \in Bytes /\ a \in Bytes /\ Len(a) = b /\ b = U64 + U64
    <2>1. x \o y \in Bytes /\ Len(x \o y) = Len(x) + Len(y) BY <1>4, Concat
    <2>2. y \o z \in Bytes BY <1>4, <1>5, Concat
    <2>3. Len(a) = U64 + U64 BY <1>4, <1>7, <2>1
    <2>4. U64 + U64 = 2 * U64 BY Widths
    <2> QED BY <1>7, <2>1, <2>2, <2>3, <2>4
  <1>9. rest = a \o (z \o <<>>)
    <2>1. ThreeBytes(x, y, z) BY <1>4, <1>5 DEF ThreeBytes
    <2>2. (x \o y) \o z = x \o (y \o z) BY <2>1, AssociativeThree
    <2>3. z \o <<>> = z BY <1>5, Empty
    <2> QED BY <1>6, <1>7, <2>2, <2>3
  <1>10. FirstOne(m.final_lsn, U64, p)
    BY <1>2, <1>3, <1>6, <1>7, <1>8, Widths DEF FirstOne
  <1>11. Number(x, m.timestamp, U64, z, U64, b)
    BY <1>2, <1>3, <1>4, <1>5, <1>6, <1>8, Widths DEF Number
  <1>12. PICK n : n = b + U32 OBVIOUS
  <1>13. Number(a, m.xid, U32, <<>>, b, n)
    BY <1>2, <1>3, <1>8, <1>9, <1>12, Widths, Empty DEF Number
  <1>14. Unsigned(0, U64) = m.final_lsn BY <1>2, <1>10, FirstOneIs
  <1>15. Signed(U64, U64) = m.timestamp BY <1>2, <1>11, NumberIs, Widths
  <1>16. Unsigned(b, U32) = m.xid /\ Fits(n) BY <1>2, <1>13, NumberIs
  <1>17. Fits(2 * U64 + U32) /\ Fits(U64 + U64 + U32)
    <2>1. U64 + U64 + U32 = b + U32 BY <1>8, Widths
    <2> QED BY <1>7, <1>12, <1>16, <2>1
  <1>18. /\ field' = "ok"
         /\ msg' = [kind |-> "begin", final_lsn |-> Unsigned(0, U64),
                    timestamp |-> Signed(U64, U64), xid |-> Unsigned(2 * U64, U32)]
    BY <1>17 DEF DecodeBegin, Take, Goto
  <1>19. msg' = m BY <1>2, <1>7, <1>14, <1>15, <1>16, <1>18
  <1> QED BY <1>18, <1>19 DEF Along, AtEnd

LEMMA CommitGoesOn ==
  ASSUME NEW m, IsMessage(m), NEW mark \in Marks, AtControl(m, mark), DecodeCommit
  PROVE  Along(m, mark)'
  <1>1. m.kind = "commit" BY DEF AtControl, DecodeCommit
  <1>2. /\ m = [kind |-> "commit", flags |-> m.flags, commit_lsn |-> m.commit_lsn,
                end_lsn |-> m.end_lsn, timestamp |-> m.timestamp]
        /\ m.flags \in Byte /\ m.commit_lsn \in Nat /\ m.end_lsn \in Nat /\ m.timestamp \in Int
        /\ IsUnsigned(m.commit_lsn, U64) /\ IsUnsigned(m.end_lsn, U64)
        /\ IsSigned(m.timestamp, U64)
    BY <1>1, CommitIs
  <1>3. PICK f, x, y, z : /\ f = <<m.flags>> /\ x = BigEndian(m.commit_lsn, U64)
                          /\ y = BigEndian(m.end_lsn, U64) /\ z = BigEndian(m.timestamp, U64)
    OBVIOUS
  <1>4. /\ f \in Bytes /\ Len(f) = 1 /\ x \in Bytes /\ Len(x) = U64
        /\ y \in Bytes /\ Len(y) = U64 /\ z \in Bytes /\ Len(z) = U64
    <2>1. m.commit_lsn \in Int /\ m.end_lsn \in Int /\ m.timestamp \in Int BY <1>2
    <2> QED BY <1>2, <1>3, <2>1, NumberBytes, One
  <1>6. rest = f \o (x \o (y \o z)) BY <1>1, <1>3 DEF AtControl, BodyOf, CommitBody
  <1>7. PICK p, q, a, b : p = x \o (y \o z) /\ q = y \o z /\ a = f \o x /\ b = (f \o x) \o y
    OBVIOUS
  <1>8. /\ p \in Bytes /\ q \in Bytes /\ a \in Bytes /\ Len(a) = 1 + U64
        /\ b \in Bytes /\ Len(b) = 1 + 2 * U64
    <2>1. f \o x \in Bytes /\ Len(f \o x) = Len(f) + Len(x) BY <1>4, Concat
    <2>2. y \o z \in Bytes BY <1>4, Concat
    <2>3. a \in Bytes /\ Len(a) = 1 + U64 BY <1>4, <1>7, <2>1
    <2>4. q \in Bytes BY <1>7, <2>2
    <2>5. a \o y \in Bytes /\ Len(a \o y) = Len(a) + Len(y) BY <1>4, <2>3, Concat
    <2>6. x \o q \in Bytes BY <1>4, <2>4, Concat
    <2>7. p \in Bytes /\ b \in Bytes BY <1>7, <2>5, <2>6
    <2>8. Len(b) = (1 + U64) + U64 BY <1>4, <1>7, <2>3, <2>5
    <2>9. (1 + U64) + U64 = 1 + 2 * U64 BY Widths
    <2> QED BY <2>3, <2>4, <2>7, <2>8, <2>9
  <1>9. rest = a \o (y \o z) /\ rest = b \o (z \o <<>>)
    <2>1. ThreeBytes(f, x, q) /\ FourBytes(f, x, y, z) BY <1>4, <1>8 DEF ThreeBytes, FourBytes
    <2>2. (f \o x) \o q = f \o (x \o q) BY <2>1, AssociativeThree
    <2>3. ((f \o x) \o y) \o z = f \o (x \o (y \o z)) BY <2>1, RegroupFour
    <2>4. z \o <<>> = z BY <1>4, Empty
    <2>5. rest = a \o (y \o z) BY <1>6, <1>7, <2>2
    <2>6. rest = b \o (z \o <<>>) BY <1>6, <1>7, <2>3, <2>4
    <2> QED BY <2>5, <2>6
  <1>10. First(m.flags, p) BY <1>2, <1>3, <1>6, <1>7, <1>8 DEF First
  <1>11. PICK i, j, n : i = 1 + U64 /\ j = 1 + 2 * U64 /\ n = j + U64 OBVIOUS
  <1>12. j = i + U64 BY <1>11, Widths
  <1>13. Number(f, m.commit_lsn, U64, q, 1, i)
    BY <1>2, <1>3, <1>4, <1>6, <1>7, <1>8, <1>11, Widths DEF Number
  <1>14. Number(a, m.end_lsn, U64, z, i, j)
    BY <1>2, <1>3, <1>4, <1>8, <1>9, <1>11, <1>12, Widths DEF Number
  <1>15. Number(b, m.timestamp, U64, <<>>, j, n)
    BY <1>2, <1>3, <1>8, <1>9, <1>11, Widths, Empty DEF Number
  <1>16. rest[1] = m.flags BY <1>10, FirstIs
  <1>17. Unsigned(1, U64) = m.commit_lsn BY <1>2, <1>13, NumberIs
  <1>18. Unsigned(i, U64) = m.end_lsn BY <1>2, <1>14, NumberIs
  <1>19. Signed(j, U64) = m.timestamp /\ Fits(n) BY <1>2, <1>15, NumberIs, Widths
  <1>20. Fits(1 + 3 * U64) /\ Fits(1 + U64 + U64 + U64)
    <2>1. n = 1 + 3 * U64 /\ n = 1 + U64 + U64 + U64 BY <1>11, Widths
    <2> QED BY <1>19, <2>1
  <1>21. /\ field' = "ok"
         /\ msg' = [kind |-> "commit", flags |-> rest[1], commit_lsn |-> Unsigned(1, U64),
                    end_lsn |-> Unsigned(1 + U64, U64), timestamp |-> Signed(1 + 2 * U64, U64)]
    BY <1>20 DEF DecodeCommit, Take, Goto
  <1>22. msg' = m BY <1>2, <1>11, <1>16, <1>17, <1>18, <1>19, <1>21
  <1> QED BY <1>21, <1>22 DEF Along, AtEnd

LEMMA IdsGrow ==
  ASSUME NEW ids, NEW j, Growing(Nat, IdCode, ids, j)
  PROVE  /\ Each(IdCode, Leading(ids, j)) \in Bytes /\ IdCode[ids[j + 1]] \in Bytes
         /\ Each(IdCode, Leading(ids, j + 1)) = Each(IdCode, Leading(ids, j)) \o IdCode[ids[j + 1]]
  <1>1. PICK D, E, k : D = Nat /\ E = IdCode /\ k = j OBVIOUS
  <1>2. Growing(D, E, ids, k) BY <1>1
  <1>3. /\ Each(E, Leading(ids, k)) \in Bytes /\ E[ids[k + 1]] \in Bytes
        /\ Each(E, Leading(ids, k + 1)) = Each(E, Leading(ids, k)) \o E[ids[k + 1]]
    BY <1>2, EachGrows
  <1> QED BY <1>1, <1>3

\* The identifiers of a truncate all have the same length.
LEMMA IdsLength ==
  ASSUME NEW ids \in Seq(Nat), NEW k \in 0 .. Len(ids)
  PROVE  Each(IdCode, Leading(ids, k)) \in Bytes /\ Len(Each(IdCode, Leading(ids, k))) = k * U32
  <1>1. PICK n : n = Len(ids) OBVIOUS
  <1>2. n \in Nat BY <1>1, LenProperties
  <1>3. Encoder(Nat, IdCode, ids) BY Encoders
  <1>7. U32 \in Nat BY Widths
  <1> DEFINE S == {j \in 0..n : /\ Each(IdCode, Leading(ids, j)) \in Bytes
                                /\ Len(Each(IdCode, Leading(ids, j))) = j * U32}
  <1>4. 0 \in S
    <2>1. Leading(ids, 0) = <<>> BY LeadingIs
    <2>2. Each(IdCode, Leading(ids, 0)) = <<>> BY <2>1, EachNone
    <2>3. 0 \in 0..n /\ 0 * U32 = 0 BY <1>2, <1>7
    <2> QED BY <2>2, <2>3, Empty
  <1>5. ASSUME NEW j \in 0 .. n - 1, j \in S PROVE j + 1 \in S
    <2>1. j \in 0 .. Len(ids) - 1 BY <1>1
    <2>2. /\ Each(IdCode, Leading(ids, j)) \in Bytes /\ IdCode[ids[j + 1]] \in Bytes
          /\ Each(IdCode, Leading(ids, j + 1)) = Each(IdCode, Leading(ids, j)) \o IdCode[ids[j + 1]]
      <3>1. Growing(Nat, IdCode, ids, j) BY <1>3, <2>1 DEF Growing
      <3> QED BY <3>1, IdsGrow
    <2>3. PICK x, y, z : /\ x = Each(IdCode, Leading(ids, j)) /\ y = IdCode[ids[j + 1]]
                         /\ z = Each(IdCode, Leading(ids, j + 1))
      OBVIOUS
    <2>4. x \in Bytes /\ y \in Bytes /\ z = x \o y /\ Len(x) = j * U32 BY <1>5, <2>2, <2>3
    <2>5. Len(y) = U32
      <3>1. ids[j + 1] \in Nat BY <2>1, LeadingIs
      <3>2. IdCode[ids[j + 1]] = BigEndian(ids[j + 1], U32) BY <3>1 DEF IdCode, EncodedId
      <3>3. ids[j + 1] \in Int BY <3>1
      <3> QED BY <2>3, <3>2, <3>3, NumberBytes
    <2>6. z \in Bytes /\ Len(z) = Len(x) + Len(y) BY <2>4, Concat
    <2>7. j * U32 + U32 = (j + 1) * U32 BY <1>2, <1>7
    <2>8. Len(z) = (j + 1) * U32 BY <2>4, <2>5, <2>6, <2>7
    <2>9. j + 1 \in 0..n BY <1>2
    <2> QED BY <2>3, <2>6, <2>8, <2>9
  <1> HIDE DEF S
  <1>6. \A j \in 0..n : j \in S BY <1>2, <1>4, <1>5, Climb
  <1>8. k \in S BY <1>1, <1>6
  <1> QED BY <1>8 DEF S

LEMMA TruncateGoesOn ==
  ASSUME NEW m, IsMessage(m), NEW mark \in Marks, AtControl(m, mark), DecodeTruncate
  PROVE  Along(m, mark)'
  <1>1. m.kind = "truncate" BY DEF AtControl, DecodeTruncate
  <1>2. PICK o, ids, n : o = m.option_bits /\ ids = m.relation_ids /\ n = Len(m.relation_ids)
    OBVIOUS
  <1>3. /\ m = [kind |-> "truncate", option_bits |-> o, relation_ids |-> ids]
        /\ o \in Byte /\ ids \in Seq(Nat) /\ n = Len(ids) /\ IsUnsigned(n, U32)
        /\ \A i \in DOMAIN ids : IsUnsigned(ids[i], U32)
    BY <1>1, <1>2, TruncateIs
  <1>4. n \in Nat /\ n \in Int /\ DOMAIN ids = 1..n BY <1>3, LenProperties
  <1>5. PICK x, y, z, u : /\ x = BigEndian(n, U32) /\ y = <<o>> /\ z = IdsOf(ids)
                          /\ u = <<o>> \o IdsOf(ids)
    OBVIOUS
  <1>6. Encoder(Nat, IdCode, ids) /\ z = Each(IdCode, ids) BY <1>3, <1>5, Encoders
  <1>7. /\ x \in Bytes /\ Len(x) = U32 /\ y \in Bytes /\ Len(y) = 1 /\ z \in Bytes
        /\ u = y \o z
    BY <1>3, <1>4, <1>5, <1>6, NumberBytes, One, EachIsBytes
  <1>8. u \in Bytes BY <1>7, Concat
  <1>9. rest = x \o u BY <1>1, <1>2, <1>5 DEF AtControl, BodyOf, TruncateBody
  <1>10. Unsigned(0, U32) = n
    <2>1. FirstOne(n, U32, u) BY <1>4, <1>5, <1>8, <1>9, Widths DEF FirstOne
    <2> QED BY <1>3, <2>1, FirstOneIs
  <1>11. rest[U32 + 1] = o /\ Fits(U32 + 1)
    <2>1. Single(x, o, z, U32) BY <1>3, <1>5, <1>7, <1>9 DEF Single
    <2> QED BY <2>1, SingleIs
  <1>12. PICK b : b = x \o y OBVIOUS
  <1>13. b \in Bytes /\ Len(b) = U32 + 1 /\ rest = b \o z
    <2>1. x \o y \in Bytes /\ Len(x \o y) = Len(x) + Len(y) BY <1>7, Concat
    <2>2. ThreeBytes(x, y, z) BY <1>7 DEF ThreeBytes
    <2>3. (x \o y) \o z = x \o (y \o z) BY <2>2, AssociativeThree
    <2> QED BY <1>7, <1>9, <1>12, <2>1, <2>3
  <1>14. PICK size : size = U32 + 1 + n * U32 OBVIOUS
  <1>15. Fits(size)
    <2>1. n \in 0 .. Len(ids) /\ Leading(ids, n) = ids BY <1>3, <1>4, LeadingIs
    <2>2. Len(z) = n * U32 BY <1>3, <1>6, <2>1, IdsLength
    <2>3. rest \in Bytes /\ Len(rest) = Len(b) + Len(z) BY <1>7, <1>13, Concat
    <2>4. Len(rest) = size BY <1>13, <1>14, <2>2, <2>3
    <2>5. Len(rest) \in Nat BY <2>3, LenProperties DEF Bytes
    <2> QED BY <2>4, <2>5 DEF Fits
  <1>16. ASSUME NEW i \in 1..n PROVE Unsigned(1 + i * U32, U32) = ids[i]
    <2>1. PICK k : k = i - 1 OBVIOUS
    <2>2. k \in 0 .. n /\ k \in 0 .. n - 1 /\ k + 1 = i /\ k # n BY <1>4, <2>1
    <2>3. PICK e : e = Each(IdCode, Leading(ids, k)) OBVIOUS
    <2>4. e \in Bytes /\ Len(e) = k * U32 BY <1>3, <2>2, <2>3, IdsLength
    <2>5. PICK v \in Bytes : e \o v = z BY <1>3, <1>6, <2>2, <2>3, EachBegins
    <2>6. Follows(Nat, IdCode, ids, k, v, <<>>)
      <3>1. z \o <<>> = z BY <1>7, Empty
      <3> QED BY <1>3, <1>6, <2>2, <2>3, <2>5, <3>1, Empty DEF Follows
    <2>7. PICK more \in Bytes : v = IdCode[ids[k + 1]] \o more
      <3>1. k # Len(ids) BY <1>3, <2>2
      <3>2. \E more \in Bytes : /\ v = IdCode[ids[k + 1]] \o more
                                /\ Follows(Nat, IdCode, ids, k + 1, more, <<>>)
        BY <2>6, <3>1, NextEncoded
      <3> QED BY <3>2
    <2>8. PICK c, d : c = ids[i] /\ d = BigEndian(ids[i], U32) OBVIOUS
    <2>9. c \in Nat /\ d \in Bytes /\ v = d \o more /\ IsUnsigned(c, U32)
      <3>1. k \in 0 .. Len(ids) - 1 BY <1>3, <2>2
      <3>2. ids[k + 1] \in Nat BY <1>3, <3>1, LeadingIs
      <3>3. IdCode[ids[k + 1]] = d BY <2>2, <2>8, <3>2 DEF IdCode, EncodedId
      <3>4. c \in Nat /\ c \in Int BY <2>2, <2>8, <3>2
      <3>5. d \in Bytes BY <2>8, <3>4, NumberBytes
      <3>6. IsUnsigned(c, U32) BY <1>3, <1>4, <2>8
      <3> QED BY <2>7, <3>3, <3>4, <3>5, <3>6
    <2>10. PICK a : a = b \o e OBVIOUS
    <2>11. a \in Bytes /\ Len(a) = (U32 + 1) + k * U32
      <3>1. b \o e \in Bytes /\ Len(b \o e) = Len(b) + Len(e) BY <1>13, <2>4, Concat
      <3> QED BY <1>13, <2>4, <2>10, <3>1
    <2>12. rest = a \o (d \o more)
      <3>1. ThreeBytes(b, e, v) BY <1>13, <2>4 DEF ThreeBytes
      <3>2. (b \o e) \o v = b \o (e \o v) BY <3>1, AssociativeThree
      <3> QED BY <1>13, <2>5, <2>9, <2>10, <3>2
    <2>13. Len(a) = 1 + i * U32
      <3>1. (k + 1) * U32 = k * U32 + U32 /\ k * U32 \in Nat /\ U32 \in Nat BY <2>2, Widths
      <3>2. (U32 + 1) + k * U32 = 1 + (k * U32 + U32) BY <3>1
      <3> QED BY <2>2, <2>11, <3>1, <3>2
    <2>14. PICK p, q : p = Len(a) /\ q = p + U32 OBVIOUS
    <2>15. c \in Int BY <2>9
    <2>16. Number(a, c, U32, more, p, q)
      BY <2>8, <2>9, <2>11, <2>12, <2>14, <2>15, Widths DEF Number
    <2>17. Unsigned(p, U32) = c BY <2>9, <2>16, NumberIs
    <2> QED BY <2>8, <2>13, <2>14, <2>17
  <1>17. /\ field' = "ok"
         /\ msg' = [kind |-> "truncate", option_bits |-> o,
                    relation_ids |-> [i \in 1..n |-> Unsigned(1 + i * U32, U32)]]
    <2>1. DecodeTruncate /\ Fits(U32 + 1) BY <1>11
    <2>2. Take(size, size,
            /\ msg' = [kind |-> "truncate", option_bits |-> rest[U32 + 1],
                       relation_ids |-> [i \in 1..n |-> Unsigned(1 + i * U32, U32)]]
            /\ Goto("ok") /\ Keep)
      BY <1>10, <1>14, <2>1 DEF DecodeTruncate
    <2> QED BY <1>11, <1>15, <2>2 DEF Take, Goto
  <1>18. [i \in 1..n |-> Unsigned(1 + i * U32, U32)] = ids
    <2>1. [i \in 1..n |-> Unsigned(1 + i * U32, U32)] = [i \in 1..n |-> ids[i]] BY <1>16
    <2>2. ids = [i \in 1..n |-> ids[i]] BY <1>3, <1>4, LenProperties
    <2> QED BY <2>1, <2>2
  <1>19. msg' = m BY <1>3, <1>17, <1>18
  <1> QED BY <1>17, <1>19 DEF Along, AtEnd

LEMMA RelationGoesOn ==
  ASSUME NEW m, IsMessage(m), NEW mark \in Marks, AtControl(m, mark), DecodeRelation
  PROVE  Along(m, mark)'
  <1>1. m.kind = "relation" BY DEF AtControl, DecodeRelation
  <1>2. m.id \in Nat /\ m.id \in Int /\ IsUnsigned(m.id, U32) BY <1>1, RelationIs
  <1>3. PICK y : y = NamespaceBody(m) OBVIOUS
  <1>4. y \in Bytes BY <1>1, <1>3, RelationParts
  <1>5. rest = BigEndian(m.id, U32) \o y
    BY <1>1, <1>3 DEF AtControl, BodyOf, RelationBody, EncodedId
  <1>6. FirstOne(m.id, U32, y) BY <1>2, <1>4, <1>5, Widths DEF FirstOne
  <1>7. Fits(U32) /\ Unsigned(0, U32) = m.id /\ SubSeq(rest, U32 + 1, Len(rest)) = y
    BY <1>2, <1>6, FirstOneIs
  <1>8. /\ field' = "namespace" /\ rest' = y
        /\ msg' = [kind |-> "relation", id |-> m.id, namespace |-> <<>>, name |-> <<>>,
                   identity |-> Default, columns |-> <<>>]
    BY <1>7 DEF DecodeRelation, Take, Goto
  <1>9. AtNamespace(m)' BY <1>1, <1>3, <1>8 DEF AtNamespace, Header
  <1> QED BY <1>9 DEF Along, InRelation

LEMMA NamesGoOn ==
  ASSUME NEW m, IsMessage(m), NEW mark \in Marks, InRelation(m), DecodeNames
  PROVE  Along(m, mark)'
  <1>1. CASE field = "namespace"
    <2>1. m.kind = "relation" /\ msg = Header(m, <<>>, <<>>) /\ rest = NamespaceBody(m)
      BY <1>1 DEF InRelation, AtNamespace, AtName, AtIdentity, AtFlags, AtColumn, AtType
    <2>2. m.namespace \in Bytes /\ IsName(m.namespace) BY <2>1, RelationIs
    <2>3. PICK y : y = NameBody(m) OBVIOUS
    <2>4. y \in Bytes BY <2>1, <2>3, RelationParts
    <2>5. rest = CString(m.namespace) \o y BY <2>1, <2>3 DEF NamespaceBody
    <2>6. Named(m.namespace, y) BY <2>2, <2>4, <2>5 DEF Named
    <2>7. /\ 0 \in Range(rest) /\ NameRead = m.namespace /\ IsUtf8(NameRead) /\ Fits(NameEnd)
          /\ SubSeq(rest, NameEnd + 1, Len(rest)) = y
      BY <2>6, NameIs
    <2>8. field' = "name" /\ rest' = y /\ msg' = [msg EXCEPT !.namespace = m.namespace]
      BY <1>1, <2>7 DEF DecodeNames, ReadCString, Take, Goto
    <2>9. msg' = Header(m, m.namespace, <<>>) BY <2>1, <2>8 DEF Header
    <2>10. AtName(m)' BY <2>1, <2>3, <2>8, <2>9 DEF AtName, Header
    <2> QED BY <2>10 DEF Along, InRelation
  <1>2. CASE field = "name"
    <2>1. m.kind = "relation" /\ msg = Header(m, m.namespace, <<>>) /\ rest = NameBody(m)
      BY <1>2 DEF InRelation, AtNamespace, AtName, AtIdentity, AtFlags, AtColumn, AtType
    <2>2. m.name \in Bytes /\ IsName(m.name) BY <2>1, RelationIs
    <2>3. PICK y : y = IdentityBody(m) OBVIOUS
    <2>4. y \in Bytes BY <2>1, <2>3, RelationParts
    <2>5. rest = CString(m.name) \o y BY <2>1, <2>3 DEF NameBody
    <2>6. Named(m.name, y) BY <2>2, <2>4, <2>5 DEF Named
    <2>7. /\ 0 \in Range(rest) /\ NameRead = m.name /\ IsUtf8(NameRead) /\ Fits(NameEnd)
          /\ SubSeq(rest, NameEnd + 1, Len(rest)) = y
      BY <2>6, NameIs
    <2>8. field' = "identity" /\ rest' = y /\ msg' = [msg EXCEPT !.name = m.name]
      BY <1>2, <2>7 DEF DecodeNames, ReadCString, Take, Goto
    <2>9. msg' = Header(m, m.namespace, m.name) BY <2>1, <2>8 DEF Header
    <2>10. AtIdentity(m)' BY <2>1, <2>3, <2>8, <2>9 DEF AtIdentity, Header
    <2> QED BY <2>10 DEF Along, InRelation
  <1> QED BY <1>1, <1>2 DEF DecodeNames

LEMMA IdentityGoesOn ==
  ASSUME NEW m, IsMessage(m), NEW mark \in Marks, InRelation(m), DecodeIdentity
  PROVE  Along(m, mark)'
  <1>1. field = "identity" BY DEF DecodeIdentity
  <1>2. m.kind = "relation" /\ msg = Header(m, m.namespace, m.name) /\ rest = IdentityBody(m)
    BY <1>1 DEF InRelation, AtNamespace, AtName, AtIdentity, AtFlags, AtColumn, AtType
  <1>3. PICK d, cols, n : d = m.identity /\ cols = m.columns /\ n = Len(m.columns) OBVIOUS
  <1>4. d \in Byte /\ d \in Identities /\ cols \in Seq(ColumnInfo) /\ IsUnsigned(n, U16)
    BY <1>2, <1>3, RelationIs
  <1>5. n \in Nat /\ n \in Int BY <1>3, <1>4, LenProperties
  <1>6. PICK x, y, z, u : /\ x = <<d>> /\ y = BigEndian(n, U16) /\ z = ColumnsOf(cols)
                          /\ u = CountBody(m)
    OBVIOUS
  <1>7. /\ x \in Bytes /\ Len(x) = 1 /\ y \in Bytes /\ Len(y) = U16 /\ z \in Bytes /\ u \in Bytes
        /\ u = y \o z /\ rest = x \o u
    BY <1>2, <1>3, <1>4, <1>5, <1>6, NumberBytes, One, RelationParts DEF CountBody, IdentityBody
  <1>8. rest[1] = d
    <2>1. First(d, u) BY <1>4, <1>6, <1>7 DEF First
    <2> QED BY <2>1, FirstIs
  <1>9. PICK i : i = 1 + U16 OBVIOUS
  <1>10. Number(x, n, U16, z, 1, i) BY <1>5, <1>6, <1>7, <1>9, Widths DEF Number
  <1>11. Fits(i) /\ Unsigned(1, U16) = n /\ SubSeq(rest, i + 1, Len(rest)) = z
    BY <1>4, <1>10, NumberIs
  <1>12. /\ field' = "flags" /\ rest' = z /\ left' = n
         /\ msg' = [msg EXCEPT !.identity = IF rest[1] \in Identities THEN rest[1] ELSE Default]
    BY <1>9, <1>11 DEF DecodeIdentity, Take, Goto
  <1>13. msg' = [Header(m, m.namespace, m.name) EXCEPT !.identity = m.identity]
    BY <1>2, <1>3, <1>4, <1>8, <1>12
  <1>14. Leading(cols, 0) = <<>> BY <1>4, LeadingIs
  <1>15. msg' = WithColumns(m, Leading(cols, 0)) BY <1>13, <1>14 DEF Header, WithColumns
  <1>16. Follows(ColumnInfo, ColumnCode, cols, 0, z, <<>>)
    <2>1. Encoder(ColumnInfo, ColumnCode, cols) /\ z = Each(ColumnCode, cols)
      BY <1>4, <1>6, Encoders
    <2>2. z \o <<>> = z /\ <<>> \in Bytes BY <1>7, Empty
    <2>3. Entire(ColumnInfo, ColumnCode, cols, z, <<>>) BY <2>1, <2>2 DEF Entire
    <2> QED BY <2>3, FirstEncoded
  <1>17. 0 \in 0 .. Len(cols) /\ left' = Len(cols) - 0 BY <1>3, <1>5, <1>12
  <1>18. ColumnsRead(m, 0, z) BY <1>2, <1>3, <1>16 DEF ColumnsRead
  <1>19. AtFlags(m)' BY <1>3, <1>12, <1>15, <1>17, <1>18 DEF AtFlags, ColumnsRead, WithColumns
  <1> QED BY <1>19 DEF Along, InRelation

\* A column at the head of the buffer, and more behind it.
LEMMA ColumnIs ==
  ASSUME NEW c \in ColumnInfo, NEW more \in Bytes, rest = ColumnCode[c] \o more
  PROVE  /\ Fits(1) /\ (rest[1] % 2 = 1) = c.part_of_key
         /\ SubSeq(rest, 1 + 1, Len(rest)) = CString(c.name) \o TypeBody(c, more)
  <1>1. PICK f : f = IF c.part_of_key THEN 1 ELSE 0 OBVIOUS
  <1>2. f \in Byte /\ (f % 2 = 1) = c.part_of_key
    <2>1. c.part_of_key \in BOOLEAN BY DEF ColumnInfo
    <2>2. 0 \in Byte /\ 1 \in Byte BY DEF Byte
    <2> QED BY <1>1, <2>1, <2>2
  <1>3. PICK x, y, z, u : /\ x = <<f>> /\ y = CString(c.name) /\ z = BigEndian(c.type_oid, U32)
                          /\ u = BigEndian(c.type_modifier, U32)
    OBVIOUS
  <1>4. x \in Bytes /\ y \in Bytes /\ z \in Bytes /\ u \in Bytes
    <2>1. c.name \in Bytes /\ c.type_oid \in Int /\ c.type_modifier \in Int BY DEF ColumnInfo, Bytes
    <2> QED BY <1>2, <1>3, <2>1, One, NameBytes, NumberBytes
  <1>5. ColumnCode[c] = ((x \o y) \o z) \o u BY <1>1, <1>3 DEF ColumnCode, EncodedColumn
  <1>6. FiveBytes(x, y, z, u, more) BY <1>4 DEF FiveBytes, FourBytes
  <1>7. FiveRegrouped(x, y, z, u, more) BY <1>6, RegroupFive
  <1>8. PICK p, q : p = z \o (u \o more) /\ q = y \o (z \o (u \o more)) OBVIOUS
  <1>9. rest = x \o q
    <2>1. (((x \o y) \o z) \o u) \o more = x \o (y \o (z \o (u \o more))) BY <1>7 DEF FiveRegrouped
    <2> QED BY <1>5, <1>8, <2>1
  <1>10. q \in Bytes
    <2>1. u \o more \in Bytes BY <1>4, Concat
    <2>2. p \in Bytes BY <1>4, <1>8, <2>1, Concat
    <2>3. q = y \o p BY <1>8
    <2> QED BY <1>4, <2>2, <2>3, Concat
  <1>11. First(f, q) BY <1>2, <1>3, <1>9, <1>10 DEF First
  <1>12. Fits(1) /\ rest[1] = f /\ SubSeq(rest, 1 + 1, Len(rest)) = q BY <1>11, FirstIs
  <1>13. q = CString(c.name) \o TypeBody(c, more) BY <1>3, <1>8 DEF TypeBody
  <1> QED BY <1>2, <1>12, <1>13

LEMMA TypeBodyIsBytes ==
  ASSUME NEW c \in ColumnInfo, NEW more \in Bytes
  PROVE  TypeBody(c, more) \in Bytes
  <1>1. c.type_oid \in Int /\ c.type_modifier \in Int BY DEF ColumnInfo
  <1>2. PICK z, u : z = BigEndian(c.type_oid, U32) /\ u = BigEndian(c.type_modifier, U32) OBVIOUS
  <1>3. z \in Bytes /\ u \in Bytes BY <1>1, <1>2, NumberBytes
  <1>4. u \o more \in Bytes BY <1>3, Concat
  <1>5. z \o (u \o more) \in Bytes BY <1>3, <1>4, Concat
  <1> QED BY <1>2, <1>5 DEF TypeBody

LEMMA FlagsGoOn ==
  ASSUME NEW m, IsMessage(m), NEW mark \in Marks, InRelation(m), DecodeColumnFlags
  PROVE  Along(m, mark)'
  <1>1. field = "flags" BY DEF DecodeColumnFlags
  <1>2. PICK k \in 0 .. Len(m.columns) :
          /\ ColumnsRead(m, k, rest) /\ left = Len(m.columns) - k
          /\ msg = WithColumns(m, Leading(m.columns, k))
    BY <1>1 DEF InRelation, AtNamespace, AtName, AtIdentity, AtFlags, AtColumn, AtType
  <1>3. m.kind = "relation" /\ Follows(ColumnInfo, ColumnCode, m.columns, k, rest, <<>>)
    BY <1>2 DEF ColumnsRead
  <1>4. PICK cols, n : cols = m.columns /\ n = Len(m.columns) OBVIOUS
  <1>5. cols \in Seq(ColumnInfo) BY <1>3, <1>4, RelationIs
  <1>6. n \in Nat /\ n = Len(cols) /\ k \in 0..n /\ left = n - k
    BY <1>2, <1>4, <1>5, LenProperties
  <1>7. CASE left = 0
    <2>1. k = n BY <1>6, <1>7
    <2>2. Leading(cols, k) = cols BY <1>5, <1>6, <2>1, LeadingIs
    <2>3. msg = m
      <3>1. m = WithColumns(m, m.columns) BY <1>3, RelationIs DEF WithColumns
      <3> QED BY <1>2, <1>4, <2>2, <3>1
    <2>4. field' = "ok" /\ msg' = msg BY <1>7 DEF DecodeColumnFlags, Finish
    <2> QED BY <2>3, <2>4 DEF Along, AtEnd
  <1>8. CASE left # 0
    <2>1. k # Len(cols) /\ k \in 0 .. n - 1 /\ left > 0 BY <1>6, <1>8
    <2>2. PICK c : c = cols[k + 1] OBVIOUS
    <2>3. Follows(ColumnInfo, ColumnCode, cols, k, rest, <<>>) BY <1>3, <1>4
    <2>4. c \in ColumnInfo BY <2>1, <2>2, <2>3, NextEncoded
    <2>5. \E more \in Bytes : /\ rest = ColumnCode[cols[k + 1]] \o more
                              /\ Follows(ColumnInfo, ColumnCode, cols, k + 1, more, <<>>)
      BY <2>1, <2>3, NextEncoded
    <2>6. PICK more \in Bytes : /\ rest = ColumnCode[c] \o more
                                /\ Follows(ColumnInfo, ColumnCode, cols, k + 1, more, <<>>)
      BY <2>2, <2>5
    <2>7. /\ Fits(1) /\ (rest[1] % 2 = 1) = c.part_of_key
          /\ SubSeq(rest, 1 + 1, Len(rest)) = CString(c.name) \o TypeBody(c, more)
      BY <2>4, <2>6, ColumnIs
    <2>8. /\ field' = "column" /\ left' = left - 1
          /\ rest' = CString(c.name) \o TypeBody(c, more)
          /\ msg' = [msg EXCEPT !.columns = Append(msg.columns, Untyped(c, <<>>))]
      <3>1. ~(left = 0) /\ left > 0 BY <1>8, <2>1
      <3>2. Take(1, 1,
             /\ msg' = [msg EXCEPT !.columns =
                          Append(@, [part_of_key |-> rest[1] % 2 = 1,
                                     name |-> <<>>, type_oid |-> 0,
                                     type_modifier |-> 0])]
             /\ left' = left - 1
             /\ Goto("column") /\ UNCHANGED <<side, tuple>>)
        BY <3>1 DEF DecodeColumnFlags
      <3> QED BY <2>7, <3>2 DEF Take, Goto, Untyped
    <2>9. PICK s, d : s = Leading(cols, k) /\ d = Untyped(c, <<>>) OBVIOUS
    <2>10. msg = WithColumns(m, s) /\ msg' = [msg EXCEPT !.columns = Append(msg.columns, d)]
      BY <1>2, <1>4, <2>8, <2>9
    <2>11. msg' = WithColumns(m, Append(s, d)) BY <2>10 DEF WithColumns
    <2>12. left' = Len(m.columns) - (k + 1) BY <1>4, <1>6, <2>8
    <2>13. k \in 0 .. Len(m.columns) - 1 /\ c = m.columns[k + 1] BY <1>4, <2>1, <2>2
    <2>14. ColumnsRead(m, k + 1, more) BY <1>3, <1>4, <2>6 DEF ColumnsRead
    <2>15. WithinColumn(m, k, <<>>, more)'
      BY <1>4, <2>9, <2>11, <2>12, <2>13, <2>14
         DEF WithinColumn, ColumnsRead, WithColumns, Untyped
    <2>16. AtColumn(m)'
      <3>1. rest' = CString(m.columns[k + 1].name) \o TypeBody(m.columns[k + 1], more)
        BY <2>8, <2>13
      <3> QED BY <2>8, <2>13, <2>15, <3>1 DEF AtColumn, TypeBody
    <2> QED BY <2>16 DEF Along, InRelation
  <1> QED BY <1>7, <1>8

LEMMA ColumnNameGoesOn ==
  ASSUME NEW m, IsMessage(m), NEW mark \in Marks, InRelation(m), DecodeColumnName
  PROVE  Along(m, mark)'
  <1>1. field = "column" BY DEF DecodeColumnName
  <1>2. PICK k \in 0 .. Len(m.columns) - 1, more \in Bytes :
          /\ WithinColumn(m, k, <<>>, more)
          /\ rest = CString(m.columns[k + 1].name) \o TypeBody(m.columns[k + 1], more)
    BY <1>1 DEF InRelation, AtNamespace, AtName, AtIdentity, AtFlags, AtColumn, AtType
  <1>3. PICK cols, c, s : cols = m.columns /\ c = m.columns[k + 1] /\ s = Leading(m.columns, k)
    OBVIOUS
  <1>4. /\ m.kind = "relation" /\ left = Len(m.columns) - (k + 1)
        /\ msg = WithColumns(m, Append(s, Untyped(c, <<>>))) /\ ColumnsRead(m, k + 1, more)
    BY <1>2, <1>3 DEF WithinColumn, ColumnsRead
  <1>5. /\ cols \in Seq(ColumnInfo) /\ IsName(m.columns[k + 1].name)
    <2>1. /\ m.columns \in Seq(ColumnInfo)
          /\ \A i \in DOMAIN m.columns : IsName(m.columns[i].name)
      BY <1>4, RelationIs
    <2>2. k + 1 \in DOMAIN m.columns BY <1>2, <2>1, LenProperties
    <2> QED BY <1>3, <2>1, <2>2
  <1>6. c \in ColumnInfo /\ s \in Seq(ColumnInfo)
    <2>1. k \in 0 .. Len(cols) - 1 /\ k \in 0 .. Len(cols) BY <1>2, <1>3, <1>5, LenProperties
    <2> QED BY <1>3, <1>5, <2>1, LeadingIs
  <1>7. PICK y : y = TypeBody(c, more) OBVIOUS
  <1>8. Named(c.name, y)
    <2>1. y \in Bytes BY <1>2, <1>6, <1>7, TypeBodyIsBytes
    <2>2. c.name \in Bytes BY <1>6 DEF ColumnInfo, Bytes
    <2> QED BY <1>2, <1>3, <1>5, <1>7, <2>1, <2>2 DEF Named
  <1>9. /\ 0 \in Range(rest) /\ NameRead = c.name /\ IsUtf8(NameRead) /\ Fits(NameEnd)
        /\ SubSeq(rest, NameEnd + 1, Len(rest)) = y
    BY <1>8, NameIs
  <1>10. /\ field' = "type" /\ rest' = y /\ left' = left
         /\ msg' = [msg EXCEPT !.columns[Len(msg.columns)].name = c.name]
    BY <1>9 DEF DecodeColumnName, ReadCString, Take, Goto, Keep
  <1>11. PICK a, d, e : a = msg.columns /\ d = Untyped(c, <<>>) /\ e = Untyped(c, c.name) OBVIOUS
  <1>12. d \in ColumnInfo /\ e \in ColumnInfo /\ e = [d EXCEPT !.name = c.name]
    <2>1. <<>> \in Seq(Byte) BY EmptySeq
    <2> QED BY <1>6, <1>11, <2>1 DEF ColumnInfo, Untyped
  <1>13. a = Append(s, d) BY <1>4, <1>11 DEF WithColumns
  <1>14. a[Len(a)] = d /\ [a EXCEPT ![Len(a)] = e] = Append(s, e) BY <1>6, <1>12, <1>13, ExceptLast
  <1>15. msg' = [msg EXCEPT !.columns = [a EXCEPT ![Len(a)] = [a[Len(a)] EXCEPT !.name = c.name]]]
    BY <1>10, <1>11
  <1>16. msg' = [msg EXCEPT !.columns = Append(s, e)] BY <1>12, <1>14, <1>15
  <1>17. msg' = WithColumns(m, Append(s, e)) BY <1>4, <1>16 DEF WithColumns
  <1>18. WithinColumn(m, k, c.name, more)'
    BY <1>2, <1>3, <1>4, <1>10, <1>11, <1>17
       DEF WithinColumn, ColumnsRead, WithColumns, Untyped
  <1>19. rest' = TypeBody(m.columns[k + 1], more) BY <1>3, <1>7, <1>10
  <1>20. AtType(m)' BY <1>2, <1>3, <1>10, <1>18, <1>19 DEF AtType, TypeBody
  <1> QED BY <1>20 DEF Along, InRelation

LEMMA ColumnTypeGoesOn ==
  ASSUME NEW m, IsMessage(m), NEW mark \in Marks, InRelation(m), DecodeColumnType
  PROVE  Along(m, mark)'
  <1>1. field = "type" BY DEF DecodeColumnType
  <1>2. PICK k \in 0 .. Len(m.columns) - 1, more \in Bytes :
          /\ WithinColumn(m, k, m.columns[k + 1].name, more)
          /\ rest = TypeBody(m.columns[k + 1], more)
    BY <1>1 DEF InRelation, AtNamespace, AtName, AtIdentity, AtFlags, AtColumn, AtType
  <1>3. PICK cols, c, s : cols = m.columns /\ c = m.columns[k + 1] /\ s = Leading(m.columns, k)
    OBVIOUS
  <1>4. /\ m.kind = "relation" /\ left = Len(m.columns) - (k + 1)
        /\ msg = WithColumns(m, Append(s, Untyped(c, c.name))) /\ ColumnsRead(m, k + 1, more)
    BY <1>2, <1>3 DEF WithinColumn, ColumnsRead
  <1>5. /\ cols \in Seq(ColumnInfo) /\ IsUnsigned(c.type_oid, U32) /\ IsSigned(c.type_modifier, U32)
    <2>1. /\ m.columns \in Seq(ColumnInfo)
          /\ \A i \in DOMAIN m.columns : /\ IsUnsigned(m.columns[i].type_oid, U32)
                                         /\ IsSigned(m.columns[i].type_modifier, U32)
      BY <1>4, RelationIs
    <2>2. k + 1 \in DOMAIN m.columns BY <1>2, <2>1, LenProperties
    <2> QED BY <1>3, <2>1, <2>2
  <1>6. /\ c \in ColumnInfo /\ s \in Seq(ColumnInfo) /\ Leading(cols, k + 1) = Append(s, c)
        /\ k + 1 \in 0 .. Len(cols)
    <2>1. k \in 0 .. Len(cols) - 1 /\ k \in 0 .. Len(cols) /\ k + 1 \in 0 .. Len(cols)
      BY <1>2, <1>3, <1>5, LenProperties
    <2>2. s \in Seq(ColumnInfo) BY <1>3, <1>5, <2>1, LeadingIs
    <2>3. \A j \in 0 .. Len(cols) - 1 :
            cols[j + 1] \in ColumnInfo /\ Leading(cols, j + 1) = Append(Leading(cols, j), cols[j + 1])
      BY <1>5, LeadingIs
    <2>4. c = cols[k + 1] /\ s = Leading(cols, k) BY <1>3
    <2>5. c \in ColumnInfo /\ Leading(cols, k + 1) = Append(s, c) BY <2>1, <2>3, <2>4
    <2> QED BY <2>1, <2>2, <2>5
  <1>7. PICK o, t : o = c.type_oid /\ t = c.type_modifier OBVIOUS
  <1>8. o \in Nat /\ o \in Int /\ t \in Int BY <1>6, <1>7 DEF ColumnInfo
  <1>9. PICK x, z, u : x = BigEndian(o, U32) /\ z = BigEndian(t, U32) /\ u = z \o more OBVIOUS
  <1>10. x \in Bytes /\ Len(x) = U32 /\ z \in Bytes /\ u \in Bytes
    <2>1. x \in Bytes /\ Len(x) = U32 /\ z \in Bytes BY <1>8, <1>9, NumberBytes
    <2> QED BY <1>9, <2>1, Concat
  <1>11. rest = x \o u BY <1>2, <1>3, <1>7, <1>9 DEF TypeBody
  <1>12. Unsigned(0, U32) = o
    <2>1. FirstOne(o, U32, u) BY <1>8, <1>9, <1>10, <1>11, Widths DEF FirstOne
    <2> QED BY <1>5, <1>7, <2>1, FirstOneIs
  <1>13. PICK n : n = U32 + U32 OBVIOUS
  <1>14. Number(x, t, U32, more, U32, n)
    BY <1>2, <1>8, <1>9, <1>10, <1>11, <1>13, Widths DEF Number
  <1>15. Fits(n) /\ Signed(U32, U32) = t /\ SubSeq(rest, n + 1, Len(rest)) = more
    BY <1>5, <1>7, <1>14, NumberIs, Widths
  <1>16. PICK a, d : a = msg.columns /\ d = Untyped(c, c.name) OBVIOUS
  <1>17. 2 * U32 = n BY <1>13, Widths
  <1>18. /\ field' = "flags" /\ rest' = more /\ left' = left
         /\ msg' = [msg EXCEPT !.columns =
                      [a EXCEPT ![Len(a)] = [a[Len(a)] EXCEPT !.type_oid = o, !.type_modifier = t]]]
    BY <1>12, <1>13, <1>15, <1>16, <1>17 DEF DecodeColumnType, Take, Goto, Keep
  <1>19. d \in ColumnInfo /\ c = [d EXCEPT !.type_oid = o, !.type_modifier = t]
    <2>1. c = [part_of_key |-> c.part_of_key, name |-> c.name, type_oid |-> o, type_modifier |-> t]
      BY <1>6, <1>7 DEF ColumnInfo
    <2>2. d = [part_of_key |-> c.part_of_key, name |-> c.name, type_oid |-> 0, type_modifier |-> 0]
      BY <1>16 DEF Untyped
    <2>3. d \in ColumnInfo BY <1>6, <2>2 DEF ColumnInfo
    <2>4. [d EXCEPT !.type_oid = o, !.type_modifier = t]
            = [part_of_key |-> c.part_of_key, name |-> c.name, type_oid |-> o, type_modifier |-> t]
      <3>1. PICK p, q : p = c.part_of_key /\ q = c.name OBVIOUS
      <3>2. d = [part_of_key |-> p, name |-> q, type_oid |-> 0, type_modifier |-> 0] BY <2>2, <3>1
      <3>3. PICK e : e = [part_of_key |-> p, name |-> q, type_oid |-> o, type_modifier |-> 0] OBVIOUS
      <3>4. [d EXCEPT !.type_oid = o] = e BY <3>2, <3>3
      <3>5. [e EXCEPT !.type_modifier = t]
              = [part_of_key |-> p, name |-> q, type_oid |-> o, type_modifier |-> t]
        BY <3>3
      <3> QED BY <3>1, <3>4, <3>5
    <2> QED BY <2>1, <2>3, <2>4
  <1>20. a = Append(s, d) BY <1>4, <1>16 DEF WithColumns
  <1>21. a[Len(a)] = d /\ [a EXCEPT ![Len(a)] = c] = Append(s, c)
    <2>1. s \in Seq(ColumnInfo) /\ c \in ColumnInfo /\ d \in ColumnInfo BY <1>6, <1>19
    <2> QED BY <2>1, <1>20, ExceptLast
  <1>22. msg' = [msg EXCEPT !.columns = Append(s, c)] BY <1>18, <1>19, <1>21
  <1>23. msg' = WithColumns(m, Append(s, c)) BY <1>4, <1>22 DEF WithColumns
  <1>24. msg' = WithColumns(m, Leading(m.columns, k + 1)) BY <1>3, <1>6, <1>23
  <1>25. k + 1 \in 0 .. Len(m.columns) BY <1>3, <1>6
  <1>26. ColumnsRead(m, k + 1, rest)' BY <1>4, <1>18 DEF ColumnsRead
  <1>27. AtFlags(m)'
    BY <1>4, <1>18, <1>24, <1>25, <1>26 DEF AtFlags, ColumnsRead, WithColumns
  <1> QED BY <1>27 DEF Along, InRelation

\* The tuples of a row message.
LEMMA TuplesAre ==
  ASSUME NEW m, IsMessage(m), m.kind \in RowKinds
  PROVE  /\ m.old # <<>> => m.old[1] \in Tuple /\ IsTuple(m.old[1]) /\ m.old = <<m.old[1]>>
         /\ m.new # <<>> => m.new[1] \in Tuple /\ IsTuple(m.new[1]) /\ m.new = <<m.new[1]>>
  <1>1. /\ m.old = <<>> \/ (m.old = <<m.old[1]>> /\ IsTuple(m.old[1]))
        /\ m.new = <<>> \/ (m.new = <<m.new[1]>> /\ IsTuple(m.new[1]))
    BY RowIs
  <1>2. \A t : IsTuple(t) => t \in Tuple BY DEF IsTuple, Tuple
  <1> QED BY <1>1, <1>2

\* A marker at its place, and the tuple it marks behind it.
LEMMA MarkedTuple ==
  ASSUME NEW mark \in Byte, NEW t \in Tuple, NEW z \in Bytes
  PROVE  /\ EncodedTuple(t) \o z \in Bytes
         /\ TuplesOf(mark, <<t>>) \o z = <<mark>> \o (EncodedTuple(t) \o z)
  <1>1. PICK x, y : x = <<mark>> /\ y = EncodedTuple(t) OBVIOUS
  <1>2. x \in Bytes /\ y \in Bytes BY <1>1, One, TupleIsBytes
  <1>3. ThreeBytes(x, y, z) BY <1>2 DEF ThreeBytes
  <1>4. (x \o y) \o z = x \o (y \o z) BY <1>3, AssociativeThree
  <1>5. TuplesOf(mark, <<t>>) = x \o y BY <1>1, TuplesOne
  <1>6. y \o z \in Bytes BY <1>2, Concat
  <1> QED BY <1>1, <1>4, <1>5, <1>6

LEMMA RowGoesOn ==
  ASSUME NEW m, IsMessage(m), NEW mark \in Marks, AtRow(m, mark), DecodeRow
  PROVE  Along(m, mark)'
  <1>1. /\ m.kind \in RowKinds /\ rest = RowBody(m, mark)
        /\ msg = [kind |-> m.kind, relation_id |-> 0, old |-> <<>>, new |-> <<>>]
    BY DEF AtRow
  <1>2. /\ m.relation_id \in Nat /\ m.relation_id \in Int /\ IsUnsigned(m.relation_id, U32)
        /\ m.kind = "insert" => m.old = <<>>
        /\ m.kind = "delete" => m.old # <<>>
        /\ m.new = <<>> <=> m.kind = "delete"
    BY <1>1, RowIs
  <1>3. mark \in Byte /\ Code.N \in Byte BY MarksAreBytes, Codes
  <1>4. PICK x, y, z : /\ x = BigEndian(m.relation_id, U32) /\ y = TuplesOf(mark, m.old)
                       /\ z = TuplesOf(Code.N, m.new)
    OBVIOUS
  <1>5. x \in Bytes /\ Len(x) = U32 /\ y \in Bytes /\ z \in Bytes /\ y \o z \in Bytes
    BY <1>1, <1>2, <1>3, <1>4, NumberBytes, RowParts
  <1>6. rest = x \o (y \o z) BY <1>1, <1>4 DEF RowBody, EncodedId
  <1>7. Unsigned(0, U32) = m.relation_id
    <2>1. PICK u : u = y \o z OBVIOUS
    <2>2. FirstOne(m.relation_id, U32, u) BY <1>2, <1>4, <1>5, <1>6, <2>1, Widths DEF FirstOne
    <2> QED BY <1>2, <2>2, FirstOneIs
  <1>8. CASE m.old # <<>>
    <2>1. PICK t : t = m.old[1] OBVIOUS
    <2>2. t \in Tuple /\ m.old = <<t>> BY <1>1, <1>8, <2>1, TuplesAre
    <2>3. PICK u : u = EncodedTuple(t) \o z OBVIOUS
    <2>4. u \in Bytes /\ y \o z = <<mark>> \o u
      <3>1. y = TuplesOf(mark, <<t>>) BY <1>4, <2>2
      <3>2. /\ EncodedTuple(t) \o z \in Bytes
            /\ TuplesOf(mark, <<t>>) \o z = <<mark>> \o (EncodedTuple(t) \o z)
        BY <1>3, <1>5, <2>2, MarkedTuple
      <3> QED BY <2>3, <3>1, <3>2
    <2>5. Single(x, mark, u, U32) BY <1>3, <1>5, <1>6, <2>4 DEF Single
    <2>6. Fits(U32 + 1) /\ rest[U32 + 1] = mark /\ SubSeq(rest, U32 + 1 + 1, Len(rest)) = u
      BY <2>5, SingleIs
    <2>7. /\ msg' = [msg EXCEPT !.relation_id = m.relation_id] /\ rest' = u
          /\ side' = "old" /\ tuple' = <<>> /\ field' = "count"
      <3>1. mark \in {Code.K, Code.O} /\ m.kind # "insert" BY <1>2, <1>8 DEF Marks
      <3>2. msg.kind = m.kind BY <1>1
      <3> QED BY <1>7, <2>6, <3>1, <3>2 DEF DecodeRow, Take, ReadTuple, Goto
    <2>8. msg' = [kind |-> m.kind, relation_id |-> m.relation_id, old |-> <<>>, new |-> <<>>]
      BY <1>1, <2>7
    <2>9. Begun(m)' BY <1>1, <1>8, <2>7, <2>8 DEF Begun
    <2>10. rest' = (EncodedTuple(Reading(m)) \o Beyond(m))'
      BY <1>4, <2>1, <2>3, <2>7 DEF Reading, Beyond
    <2>11. AtCount(m)' BY <2>7, <2>9, <2>10 DEF AtCount
    <2> QED BY <2>11 DEF Along, InRow
  <1>9. CASE m.old = <<>>
    <2>1. PICK t : t = m.new[1] OBVIOUS
    <2>2. m.kind # "delete" /\ m.new # <<>> BY <1>2, <1>9
    <2>3. t \in Tuple /\ m.new = <<t>> BY <1>1, <2>1, <2>2, TuplesAre
    <2>4. PICK u : u = EncodedTuple(t) \o <<>> OBVIOUS
    <2>5. u \in Bytes /\ z = <<Code.N>> \o u
      <3>1. z \o <<>> = z /\ <<>> \in Bytes BY <1>5, Empty
      <3>2. z = TuplesOf(Code.N, <<t>>) BY <1>4, <2>3
      <3>3. /\ EncodedTuple(t) \o <<>> \in Bytes
            /\ TuplesOf(Code.N, <<t>>) \o <<>> = <<Code.N>> \o (EncodedTuple(t) \o <<>>)
        BY <1>3, <2>3, <3>1, MarkedTuple
      <3> QED BY <2>4, <3>1, <3>2, <3>3
    <2>6. y \o z = z
      <3>1. y = <<>> BY <1>3, <1>4, <1>9, EachEmpty
      <3> QED BY <1>5, <3>1, Empty
    <2>7. Single(x, Code.N, u, U32) BY <1>3, <1>5, <1>6, <2>5, <2>6 DEF Single
    <2>8. Fits(U32 + 1) /\ rest[U32 + 1] = Code.N /\ SubSeq(rest, U32 + 1 + 1, Len(rest)) = u
      BY <2>7, SingleIs
    <2>9. /\ msg' = [msg EXCEPT !.relation_id = m.relation_id] /\ rest' = u
          /\ side' = "new" /\ tuple' = <<>> /\ field' = "count"
      <3>1. Code.N \notin {Code.K, Code.O} BY DEF Code
      <3>2. msg.kind = m.kind BY <1>1
      <3> QED BY <1>7, <2>2, <2>8, <3>1, <3>2 DEF DecodeRow, Take, ReadTuple, Goto
    <2>10. msg' = [kind |-> m.kind, relation_id |-> m.relation_id, old |-> <<>>, new |-> <<>>]
      BY <1>1, <2>9
    <2>11. Begun(m)' BY <1>1, <1>9, <2>2, <2>9, <2>10 DEF Begun
    <2>12. rest' = (EncodedTuple(Reading(m)) \o Beyond(m))'
      BY <2>1, <2>4, <2>9 DEF Reading, Beyond
    <2>13. AtCount(m)' BY <2>9, <2>11, <2>12 DEF AtCount
    <2> QED BY <2>13 DEF Along, InRow
  <1> QED BY <1>8, <1>9

LEMMA NewMarkerGoesOn ==
  ASSUME NEW m, IsMessage(m), NEW mark \in Marks, InRow(m, mark), DecodeNewMarker
  PROVE  Along(m, mark)'
  <1>1. field = "marker" BY DEF DecodeNewMarker
  <1>2. /\ m.kind = "update" /\ rest = TuplesOf(Code.N, m.new)
        /\ msg = [kind |-> m.kind, relation_id |-> m.relation_id, old |-> m.old, new |-> <<>>]
    BY <1>1 DEF InRow, AtRow, AtCount, AtValue, AtMarker
  <1>3. m.kind \in RowKinds BY <1>2 DEF RowKinds
  <1>4. m.new # <<>> BY <1>2, <1>3, RowIs
  <1>5. PICK t : t = m.new[1] OBVIOUS
  <1>6. t \in Tuple /\ m.new = <<t>> BY <1>3, <1>4, <1>5, TuplesAre
  <1>7. Code.N \in Byte BY Codes
  <1>8. PICK u : u = EncodedTuple(t) \o <<>> OBVIOUS
  <1>9. u \in Bytes /\ rest = <<Code.N>> \o u
    <2>1. rest \in Bytes BY <1>2, <1>6, <1>7, TuplesOne
    <2>2. rest \o <<>> = rest /\ <<>> \in Bytes BY <2>1, Empty
    <2> QED BY <1>2, <1>6, <1>7, <1>8, <2>2, MarkedTuple
  <1>10. First(Code.N, u) BY <1>7, <1>9 DEF First
  <1>11. Fits(1) /\ rest[1] = Code.N /\ SubSeq(rest, 1 + 1, Len(rest)) = u BY <1>10, FirstIs
  <1>12. /\ msg' = msg /\ rest' = u /\ side' = "new" /\ tuple' = <<>> /\ field' = "count"
    BY <1>11 DEF DecodeNewMarker, Take, ReadTuple, Goto
  <1>13. Begun(m)' BY <1>2, <1>3, <1>4, <1>12 DEF Begun
  <1>14. rest' = (EncodedTuple(Reading(m)) \o Beyond(m))'
    BY <1>5, <1>8, <1>12 DEF Reading, Beyond
  <1>15. AtCount(m)' BY <1>12, <1>13, <1>14 DEF AtCount
  <1> QED BY <1>15 DEF Along, InRow

\* What is known while a tuple is read.
LEMMA ReadingIs ==
  ASSUME NEW m, IsMessage(m), Begun(m)
  PROVE  /\ Reading(m) \in Tuple /\ IsTuple(Reading(m)) /\ m[side] = <<Reading(m)>>
         /\ Beyond(m) \in Bytes
  <1>1. m.kind \in RowKinds /\ side \in {"old", "new"} /\ m[side] # <<>> BY DEF Begun
  <1>2. Beyond(m) \in Bytes
    <2>1. Code.N \in Byte BY Codes
    <2>2. TuplesOf(Code.N, m.new) \in Bytes BY <1>1, <2>1, RowParts
    <2> QED BY <2>2, Empty DEF Beyond
  <1>3. CASE side = "old" BY <1>1, <1>2, <1>3, TuplesAre DEF Reading
  <1>4. CASE side = "new" BY <1>1, <1>2, <1>4, TuplesAre DEF Reading
  <1> QED BY <1>1, <1>3, <1>4

LEMMA CountGoesOn ==
  ASSUME NEW m, IsMessage(m), NEW mark \in Marks, InRow(m, mark), DecodeCount
  PROVE  Along(m, mark)'
  <1>1. field = "count" BY DEF DecodeCount
  <1>2. Begun(m) /\ tuple = <<>> /\ rest = EncodedTuple(Reading(m)) \o Beyond(m)
    BY <1>1 DEF InRow, AtRow, AtCount, AtValue, AtMarker
  <1>3. PICK t, n, z : t = Reading(m) /\ n = Len(t) /\ z = Beyond(m) OBVIOUS
  <1>4. t \in Tuple /\ IsTuple(t) /\ z \in Bytes BY <1>2, <1>3, ReadingIs
  <1>5. n \in Nat /\ n \in Int /\ IsUnsigned(n, U16)
    BY <1>3, <1>4, LenProperties DEF Tuple, IsTuple
  <1>6. PICK x, y, u : x = BigEndian(n, U16) /\ y = ValuesOf(t) /\ u = y \o z OBVIOUS
  <1>7. /\ x \in Bytes /\ y \in Bytes /\ EncodedTuple(t) = x \o y
    BY <1>3, <1>4, <1>6, TupleIsBytes
  <1>8. u \in Bytes BY <1>4, <1>6, <1>7, Concat
  <1>9. rest = x \o u
    <2>1. ThreeBytes(x, y, z) BY <1>4, <1>7 DEF ThreeBytes
    <2>2. (x \o y) \o z = x \o (y \o z) BY <2>1, AssociativeThree
    <2> QED BY <1>2, <1>3, <1>6, <1>7, <2>2
  <1>10. FirstOne(n, U16, u) BY <1>5, <1>6, <1>8, <1>9, Widths DEF FirstOne
  <1>11. Fits(U16) /\ Unsigned(0, U16) = n /\ SubSeq(rest, U16 + 1, Len(rest)) = u
    BY <1>5, <1>10, FirstOneIs
  <1>12. field' = "value" /\ rest' = u /\ left' = n /\ UNCHANGED <<msg, side, tuple>>
    BY <1>11 DEF DecodeCount, Take, Goto
  <1>13. Follows(ColumnValue, ValueCode, t, 0, u, z)
    <2>1. Encoder(ColumnValue, ValueCode, t) /\ y = Each(ValueCode, t) BY <1>4, <1>6, Encoders
    <2>2. Entire(ColumnValue, ValueCode, t, u, z) BY <1>4, <1>6, <2>1 DEF Entire
    <2> QED BY <2>2, FirstEncoded
  <1>14. 0 \in 0 .. Len(t) /\ left' = Len(t) - 0 BY <1>3, <1>5, <1>12
  <1>15. tuple' = Leading(t, 0)
    <2>1. Leading(t, 0) = <<>> BY <1>4, LeadingIs DEF Tuple
    <2> QED BY <1>2, <1>12, <2>1
  <1>16. Begun(m)' /\ Reading(m)' = t /\ Beyond(m)' = z
    BY <1>2, <1>3, <1>12 DEF Begun, Reading, Beyond
  <1>17. Follows(ColumnValue, ValueCode, Reading(m), 0, rest, Beyond(m))'
    BY <1>12, <1>13, <1>16
  <1>18. AtValue(m)' BY <1>12, <1>14, <1>15, <1>16, <1>17 DEF AtValue
  <1> QED BY <1>18 DEF Along, InRow

\* The column that is read is the next one of the tuple.
NextColumn(m, k, v, more) ==
  /\ field = "value" /\ Begun(m) /\ k \in 0 .. Len(Reading(m)) /\ k # Len(Reading(m))
  /\ v = Reading(m)[k + 1] /\ tuple = Leading(Reading(m), k) /\ left = Len(Reading(m)) - k
  /\ Follows(ColumnValue, ValueCode, Reading(m), k + 1, more, Beyond(m))

LEMMA ColumnGoesOn ==
  ASSUME NEW m, IsMessage(m), NEW k, NEW v, NEW more, NextColumn(m, k, v, more),
         ColumnRead(v), rest' = more
  PROVE  AtValue(m)'
  <1>1. /\ field = "value" /\ Begun(m) /\ k \in 0 .. Len(Reading(m)) /\ k # Len(Reading(m))
        /\ v = Reading(m)[k + 1] /\ tuple = Leading(Reading(m), k) /\ left = Len(Reading(m)) - k
        /\ Follows(ColumnValue, ValueCode, Reading(m), k + 1, more, Beyond(m))
    BY DEF NextColumn
  <1>2. tuple' = Append(tuple, v) /\ left' = left - 1 /\ UNCHANGED <<field, msg, side>>
    BY DEF ColumnRead
  <1>3. PICK t, n : t = Reading(m) /\ n = Len(t) OBVIOUS
  <1>4. t \in Seq(ColumnValue)
    <2>1. t \in Tuple BY <1>1, <1>3, ReadingIs
    <2> QED BY <2>1 DEF Tuple
  <1>5. n \in Nat /\ k \in 0 .. n - 1 /\ k + 1 \in 0..n /\ left' = n - (k + 1)
    <2>1. n \in Nat /\ k \in 0..n /\ k # n /\ left = n - k BY <1>1, <1>3, <1>4, LenProperties
    <2> QED BY <1>2, <2>1
  <1>6. Leading(t, k + 1) = Append(Leading(t, k), t[k + 1])
    <2>1. k \in 0 .. Len(t) - 1 BY <1>3, <1>5
    <2> QED BY <1>4, <2>1, LeadingIs
  <1>7. tuple' = Leading(t, k + 1) BY <1>1, <1>2, <1>3, <1>6
  <1>8. Begun(m)' /\ Reading(m)' = t /\ Beyond(m)' = Beyond(m)
    BY <1>1, <1>2, <1>3 DEF Begun, Reading, Beyond
  <1>9. Follows(ColumnValue, ValueCode, Reading(m), k + 1, rest, Beyond(m))'
    BY <1>1, <1>3, <1>8
  <1>10. k + 1 \in 0 .. Len(t) /\ left' = Len(t) - (k + 1) BY <1>3, <1>5
  <1> QED BY <1>1, <1>2, <1>7, <1>8, <1>9, <1>10 DEF AtValue

\* A column without bytes.
LEMMA MarkIs ==
  ASSUME NEW v \in ColumnValue, v.kind \in {"null", "unchanged"}, NEW more \in Bytes,
         rest = ValueCode[v] \o more
  PROVE  /\ v = [kind |-> v.kind] /\ Fits(1) /\ rest[1] = Code[v.kind]
         /\ SubSeq(rest, 1 + 1, Len(rest)) = more
  <1>1. v = [kind |-> v.kind] BY DEF ColumnValue
  <1>2. Code[v.kind] \in Byte BY Codes
  <1>3. ValueCode[v] = <<Code[v.kind]>> BY DEF ValueCode, EncodedValue
  <1>4. First(Code[v.kind], more) BY <1>2, <1>3 DEF First
  <1> QED BY <1>1, <1>4, FirstIs

\* A column with bytes: their number, then the bytes.
Text(v, more) ==
  /\ v \in ColumnValue /\ v.kind \in {"text", "binary"} /\ more \in Bytes
  /\ IsUnsigned(Len(v.bytes), U32) /\ rest = ValueCode[v] \o more

LEMMA TextIs ==
  ASSUME NEW v, NEW more, Text(v, more)
  PROVE  /\ v = [kind |-> v.kind, bytes |-> v.bytes]
         /\ Fits(1) /\ rest[1] = Code[v.kind] /\ Fits(1 + U32)
         /\ Unsigned(1, U32) = Len(v.bytes)
         /\ Fits(1 + U32 + Len(v.bytes))
         /\ SubSeq(rest, 2 + U32, 1 + U32 + Len(v.bytes)) = v.bytes
         /\ SubSeq(rest, 1 + U32 + Len(v.bytes) + 1, Len(rest)) = more
  <1>0. /\ v \in ColumnValue /\ v.kind \in {"text", "binary"} /\ more \in Bytes
        /\ IsUnsigned(Len(v.bytes), U32) /\ rest = ValueCode[v] \o more
    BY DEF Text
  <1>1. v = [kind |-> v.kind, bytes |-> v.bytes] /\ v.bytes \in Bytes BY <1>0 DEF ColumnValue, Bytes
  <1>2. PICK c, p, n : c = Code[v.kind] /\ p = v.bytes /\ n = Len(v.bytes) OBVIOUS
  <1>3. c \in Byte /\ p \in Bytes /\ n = Len(p) /\ n \in Nat /\ n \in Int /\ IsUnsigned(n, U32)
    BY <1>0, <1>1, <1>2, Codes, LenProperties DEF Bytes
  <1>4. PICK x, y, q : x = <<c>> /\ y = BigEndian(n, U32) /\ q = p \o more OBVIOUS
  <1>5. x \in Bytes /\ Len(x) = 1 /\ y \in Bytes /\ Len(y) = U32 /\ q \in Bytes
    BY <1>0, <1>3, <1>4, One, NumberBytes, Concat
  <1>6. ValueCode[v] = (x \o y) \o p BY <1>0, <1>2, <1>4 DEF ValueCode, EncodedValue
  <1>7. FourBytes(x, y, p, more) BY <1>0, <1>3, <1>5 DEF FourBytes
  <1>8. ((x \o y) \o p) \o more = x \o (y \o (p \o more)) BY <1>7, RegroupFour
  <1>9. PICK u : u = y \o q OBVIOUS
  <1>10. u \in Bytes /\ rest = x \o u
    <2>1. u \in Bytes BY <1>5, <1>9, Concat
    <2> QED BY <1>0, <1>4, <1>6, <1>8, <1>9, <2>1
  <1>11. First(c, u) BY <1>3, <1>4, <1>10 DEF First
  <1>12. Fits(1) /\ rest[1] = c BY <1>11, FirstIs
  <1>13. PICK a, b : a = 1 + U32 /\ b = a + n OBVIOUS
  <1>14. Number(x, n, U32, q, 1, a)
    BY <1>3, <1>4, <1>5, <1>9, <1>10, <1>13, Widths DEF Number
  <1>15. Fits(a) /\ Unsigned(1, U32) = n BY <1>3, <1>14, NumberIs
  <1>16. PICK h : h = x \o y OBVIOUS
  <1>17. h \in Bytes /\ Len(h) = a
    <2>1. x \o y \in Bytes /\ Len(x \o y) = Len(x) + Len(y) BY <1>5, Concat
    <2> QED BY <1>5, <1>13, <1>16, <2>1
  <1>18. rest = h \o (p \o more)
    <2>1. ThreeBytes(x, y, q) BY <1>5 DEF ThreeBytes
    <2>2. (x \o y) \o q = x \o (y \o q) BY <2>1, AssociativeThree
    <2> QED BY <1>4, <1>9, <1>10, <1>16, <2>2
  <1>19. Cut(rest, h, p, more, a, b) BY <1>0, <1>3, <1>13, <1>17, <1>18 DEF Cut
  <1>20. /\ rest \in Bytes /\ b \in Nat /\ b <= Len(rest) /\ Len(rest) \in Nat
         /\ SubSeq(rest, a + 1, b) = p /\ SubSeq(rest, b + 1, Len(rest)) = more
    BY <1>19, CutIs
  <1>21. Fits(b) BY <1>20 DEF Fits
  <1>22. 2 + U32 = a + 1 BY <1>13, Widths
  <1> QED BY <1>1, <1>2, <1>12, <1>13, <1>15, <1>20, <1>21, <1>22

\* The kinds of a column are told apart by their first byte.
LEMMA KindsDiffer ==
  \A j, k \in {"null", "unchanged", "text", "binary"} : Code[j] = Code[k] => j = k
  BY DEF Code

LEMMA ValueGoesOn ==
  ASSUME NEW m, IsMessage(m), NEW mark \in Marks, InRow(m, mark), DecodeValue
  PROVE  Along(m, mark)'
  <1>1. field = "value" /\ left > 0 BY DEF DecodeValue
  <1>2. Begun(m) BY <1>1 DEF InRow, AtRow, AtCount, AtValue, AtMarker
  <1>3. PICK k \in 0 .. Len(Reading(m)) :
          /\ tuple = Leading(Reading(m), k) /\ left = Len(Reading(m)) - k
          /\ Follows(ColumnValue, ValueCode, Reading(m), k, rest, Beyond(m))
    BY <1>1 DEF InRow, AtRow, AtCount, AtValue, AtMarker
  <1>4. PICK t, n, z : t = Reading(m) /\ n = Len(t) /\ z = Beyond(m) OBVIOUS
  <1>5. t \in Tuple /\ IsTuple(t) BY <1>2, <1>4, ReadingIs
  <1>6. n \in Nat /\ k \in 0 .. n - 1 /\ k # Len(t)
    <2>1. n \in Nat /\ k \in 0..n /\ left = n - k
      BY <1>3, <1>4, <1>5, LenProperties DEF Tuple
    <2>2. k # n /\ k \in 0 .. n - 1 BY <1>1, <2>1
    <2> QED BY <1>4, <2>1, <2>2
  <1>7. PICK v : v = t[k + 1] OBVIOUS
  <1>8. Follows(ColumnValue, ValueCode, t, k, rest, z) BY <1>3, <1>4
  <1>9. v \in ColumnValue BY <1>6, <1>7, <1>8, NextEncoded
  <1>10. \E more \in Bytes : /\ rest = ValueCode[t[k + 1]] \o more
                             /\ Follows(ColumnValue, ValueCode, t, k + 1, more, z)
    BY <1>6, <1>8, NextEncoded
  <1>11. PICK more \in Bytes : /\ rest = ValueCode[v] \o more
                               /\ Follows(ColumnValue, ValueCode, t, k + 1, more, z)
    BY <1>7, <1>10
  <1>12. NextColumn(m, k, v, more)
    BY <1>1, <1>2, <1>3, <1>4, <1>6, <1>7, <1>11 DEF NextColumn
  <1>13. v.kind \in {"text", "binary"} => IsUnsigned(Len(v.bytes), U32)
    <2>1. k + 1 \in DOMAIN t BY <1>4, <1>5, <1>6, LenProperties DEF Tuple
    <2>2. \A i \in DOMAIN t : t[i].kind \in {"text", "binary"} => IsUnsigned(Len(t[i].bytes), U32)
      BY <1>5 DEF IsTuple
    <2> QED BY <1>7, <2>1, <2>2
  <1>14. CASE v.kind \in {"null", "unchanged"}
    <2>1. /\ v = [kind |-> v.kind] /\ Fits(1) /\ rest[1] = Code[v.kind]
          /\ SubSeq(rest, 1 + 1, Len(rest)) = more
      BY <1>9, <1>11, <1>14, MarkIs
    <2>2. \A kind \in {"null", "unchanged", "text", "binary"} : rest[1] = Code[kind] => kind = v.kind
      BY <1>14, <2>1, KindsDiffer
    <2>3. Take(1, 1, ColumnRead([kind |-> v.kind])) BY <1>14, <2>1, <2>2 DEF DecodeValue
    <2>4. ColumnRead(v) /\ rest' = more BY <2>1, <2>3 DEF Take
    <2>5. AtValue(m)' BY <1>12, <2>4, ColumnGoesOn
    <2> QED BY <2>5 DEF Along, InRow
  <1>15. CASE v.kind \in {"text", "binary"}
    <2>1. /\ v = [kind |-> v.kind, bytes |-> v.bytes]
          /\ Fits(1) /\ rest[1] = Code[v.kind] /\ Fits(1 + U32)
          /\ Unsigned(1, U32) = Len(v.bytes)
          /\ Fits(1 + U32 + Len(v.bytes))
          /\ SubSeq(rest, 2 + U32, 1 + U32 + Len(v.bytes)) = v.bytes
          /\ SubSeq(rest, 1 + U32 + Len(v.bytes) + 1, Len(rest)) = more
      <3>1. Text(v, more) BY <1>9, <1>11, <1>13, <1>15 DEF Text
      <3> QED BY <3>1, TextIs
    <2>2. \A kind \in {"null", "unchanged", "text", "binary"} : rest[1] = Code[kind] => kind = v.kind
      BY <1>15, <2>1, KindsDiffer
    <2>3. PICK size : size = 1 + U32 + Len(v.bytes) OBVIOUS
    <2>4. Take(size, size,
            ColumnRead([kind |-> v.kind, bytes |-> SubSeq(rest, 2 + U32, size)]))
      BY <1>15, <2>1, <2>2, <2>3 DEF DecodeValue
    <2>5. ColumnRead(v) /\ rest' = more BY <2>1, <2>3, <2>4 DEF Take
    <2>6. AtValue(m)' BY <1>12, <2>5, ColumnGoesOn
    <2> QED BY <2>6 DEF Along, InRow
  <1>16. v.kind \in {"null", "unchanged", "text", "binary"} BY <1>9 DEF ColumnValue
  <1> QED BY <1>14, <1>15, <1>16

LEMMA TupleGoesOn ==
  ASSUME NEW m, IsMessage(m), NEW mark \in Marks, InRow(m, mark), TupleDone
  PROVE  Along(m, mark)'
  <1>1. /\ field = "value" /\ left = 0 /\ rest' = rest
        /\ field' = IF msg.kind = "update" /\ side = "old" THEN "marker" ELSE "ok"
        /\ msg' = [msg EXCEPT ![side] = <<tuple>>]
    BY DEF TupleDone, Goto
  <1>2. Begun(m) BY <1>1 DEF InRow, AtRow, AtCount, AtValue, AtMarker
  <1>3. PICK k \in 0 .. Len(Reading(m)) :
          /\ tuple = Leading(Reading(m), k) /\ left = Len(Reading(m)) - k
          /\ Follows(ColumnValue, ValueCode, Reading(m), k, rest, Beyond(m))
    BY <1>1 DEF InRow, AtRow, AtCount, AtValue, AtMarker
  <1>4. PICK t, n : t = Reading(m) /\ n = Len(t) OBVIOUS
  <1>5. t \in Seq(ColumnValue) /\ m[side] = <<t>>
    <2>1. t \in Tuple /\ m[side] = <<t>> BY <1>2, <1>4, ReadingIs
    <2> QED BY <2>1 DEF Tuple
  <1>6. k = n
    <2>1. n \in Nat /\ k \in 0..n /\ left = n - k BY <1>3, <1>4, <1>5, LenProperties
    <2> QED BY <1>1, <2>1
  <1>7. tuple = t BY <1>3, <1>4, <1>5, <1>6, LeadingIs
  <1>8. rest = Beyond(m) BY <1>3, <1>4, <1>6, LastEncoded
  <1>9. /\ m.kind \in RowKinds /\ side \in {"old", "new"} /\ m[side] # <<>>
        /\ msg = [kind |-> m.kind, relation_id |-> m.relation_id,
                  old |-> IF side = "old" THEN <<>> ELSE m.old, new |-> <<>>]
    BY <1>2 DEF Begun
  <1>10. /\ m = [kind |-> m.kind, relation_id |-> m.relation_id, old |-> m.old, new |-> m.new]
         /\ m.kind = "insert" => m.old = <<>>
         /\ m.new = <<>> <=> m.kind = "delete"
    BY <1>9, RowIs
  <1>11. CASE side = "new"
    <2>1. field' = "ok" BY <1>1, <1>11
    <2>2. msg' = [msg EXCEPT !.new = m.new] BY <1>1, <1>5, <1>7, <1>11
    <2>3. msg = [kind |-> m.kind, relation_id |-> m.relation_id, old |-> m.old, new |-> <<>>]
      BY <1>9, <1>11
    <2>4. msg' = [kind |-> m.kind, relation_id |-> m.relation_id, old |-> m.old, new |-> m.new]
      BY <2>2, <2>3
    <2> QED BY <1>10, <2>1, <2>4 DEF Along, AtEnd
  <1>12. CASE side = "old"
    <2>1. msg' = [msg EXCEPT !.old = m.old] BY <1>1, <1>5, <1>7, <1>12
    <2>2. msg = [kind |-> m.kind, relation_id |-> m.relation_id, old |-> <<>>, new |-> <<>>]
      BY <1>9, <1>12
    <2>3. msg' = [kind |-> m.kind, relation_id |-> m.relation_id, old |-> m.old, new |-> <<>>]
      BY <2>1, <2>2
    <2>4. msg.kind = m.kind BY <2>2
    <2>5. CASE m.kind = "update"
      <3>1. field' = "marker" BY <1>1, <1>12, <2>4, <2>5
      <3>2. rest' = TuplesOf(Code.N, m.new) BY <1>1, <1>8, <1>12 DEF Beyond
      <3>3. AtMarker(m)' BY <2>3, <2>5, <3>1, <3>2 DEF AtMarker
      <3> QED BY <3>3 DEF Along, InRow
    <2>6. CASE m.kind = "delete"
      <3>1. field' = "ok" BY <1>1, <2>4, <2>6
      <3>2. msg' = m BY <1>10, <2>3, <2>6
      <3> QED BY <3>1, <3>2 DEF Along, AtEnd
    <2>7. m.kind # "insert" BY <1>9, <1>10, <1>12
    <2> QED BY <1>9, <2>5, <2>6, <2>7 DEF RowKinds
  <1> QED BY <1>9, <1>11, <1>12

LEMMA FieldsAlong ==
  ASSUME NEW m, NEW mark, Along(m, mark)
  PROVE  /\ field = "tag" => AtTag(m, mark)
         /\ field \in {"begin", "commit", "truncate", "relation"} => AtControl(m, mark)
         /\ field \in RelationFields => InRelation(m)
         /\ field = "row" => AtRow(m, mark)
         /\ field \in RowFields => InRow(m, mark)
         /\ field = "ok" => msg = m
         /\ field # "err"
  <1>1. CASE AtTag(m, mark) BY <1>1 DEF AtTag, RelationFields, RowFields
  <1>2. CASE AtControl(m, mark) BY <1>2 DEF AtControl, RelationFields, RowFields
  <1>3. CASE InRelation(m)
    <2>1. field \in RelationFields
      BY <1>3 DEF InRelation, RelationFields, AtNamespace, AtName, AtIdentity, AtFlags, AtColumn,
                  AtType
    <2> QED BY <1>3, <2>1 DEF RelationFields, RowFields
  <1>4. CASE InRow(m, mark)
    <2>1. field \in RowFields BY <1>4 DEF InRow, RowFields, AtRow, AtCount, AtValue, AtMarker
    <2>2. field = "row" => AtRow(m, mark) BY <1>4 DEF InRow, AtRow, AtCount, AtValue, AtMarker
    <2> QED BY <1>4, <2>1, <2>2 DEF RelationFields, RowFields
  <1>5. CASE AtEnd(m) BY <1>5 DEF AtEnd, RelationFields, RowFields
  <1> QED BY <1>1, <1>2, <1>3, <1>4, <1>5 DEF Along

\* While it reads an encoding of a message, the decoder stays in it.
LEMMA GoesAlong ==
  ASSUME NEW m, IsMessage(m), NEW mark \in Marks, Along(m, mark), [Decode]_decoder
  PROVE  Along(m, mark)' /\ wire' = wire
  <1>1. CASE DecodeTag
    <2>1. AtTag(m, mark) BY <1>1, FieldsAlong DEF DecodeTag
    <2>2. Along(m, mark)' BY <1>1, <2>1, TagGoesOn
    <2> QED BY <1>1, <2>2 DEF DecodeTag, Take, Finish
  <1>2. CASE DecodeBegin
    <2>1. AtControl(m, mark) BY <1>2, FieldsAlong DEF DecodeBegin
    <2>2. Along(m, mark)' BY <1>2, <2>1, BeginGoesOn
    <2> QED BY <1>2, <2>2 DEF DecodeBegin, Take, Finish
  <1>3. CASE DecodeCommit
    <2>1. AtControl(m, mark) BY <1>3, FieldsAlong DEF DecodeCommit
    <2>2. Along(m, mark)' BY <1>3, <2>1, CommitGoesOn
    <2> QED BY <1>3, <2>2 DEF DecodeCommit, Take, Finish
  <1>4. CASE DecodeTruncate
    <2>1. AtControl(m, mark) BY <1>4, FieldsAlong DEF DecodeTruncate
    <2>2. Along(m, mark)' BY <1>4, <2>1, TruncateGoesOn
    <2> QED BY <1>4, <2>2 DEF DecodeTruncate, Take, Finish
  <1>5. CASE DecodeRelation
    <2>1. AtControl(m, mark) BY <1>5, FieldsAlong DEF DecodeRelation
    <2>2. Along(m, mark)' BY <1>5, <2>1, RelationGoesOn
    <2> QED BY <1>5, <2>2 DEF DecodeRelation, Take, Finish
  <1>6. CASE DecodeNames
    <2>1. InRelation(m) BY <1>6, FieldsAlong DEF DecodeNames, RelationFields
    <2>2. Along(m, mark)' BY <1>6, <2>1, NamesGoOn
    <2> QED BY <1>6, <2>2 DEF DecodeNames, ReadCString, Take, Finish
  <1>7. CASE DecodeIdentity
    <2>1. InRelation(m) BY <1>7, FieldsAlong DEF DecodeIdentity, RelationFields
    <2>2. Along(m, mark)' BY <1>7, <2>1, IdentityGoesOn
    <2> QED BY <1>7, <2>2 DEF DecodeIdentity, Take, Finish
  <1>8. CASE DecodeColumnFlags
    <2>1. InRelation(m) BY <1>8, FieldsAlong DEF DecodeColumnFlags, RelationFields
    <2>2. Along(m, mark)' BY <1>8, <2>1, FlagsGoOn
    <2> QED BY <1>8, <2>2 DEF DecodeColumnFlags, Take, Finish
  <1>9. CASE DecodeColumnName
    <2>1. InRelation(m) BY <1>9, FieldsAlong DEF DecodeColumnName, RelationFields
    <2>2. Along(m, mark)' BY <1>9, <2>1, ColumnNameGoesOn
    <2> QED BY <1>9, <2>2 DEF DecodeColumnName, ReadCString, Take, Finish
  <1>10. CASE DecodeColumnType
    <2>1. InRelation(m) BY <1>10, FieldsAlong DEF DecodeColumnType, RelationFields
    <2>2. Along(m, mark)' BY <1>10, <2>1, ColumnTypeGoesOn
    <2> QED BY <1>10, <2>2 DEF DecodeColumnType, Take, Finish
  <1>11. CASE DecodeRow
    <2>1. AtRow(m, mark) BY <1>11, FieldsAlong DEF DecodeRow
    <2>2. Along(m, mark)' BY <1>11, <2>1, RowGoesOn
    <2> QED BY <1>11, <2>2 DEF DecodeRow, Take, Finish
  <1>12. CASE DecodeNewMarker
    <2>1. InRow(m, mark) BY <1>12, FieldsAlong DEF DecodeNewMarker, RowFields
    <2>2. Along(m, mark)' BY <1>12, <2>1, NewMarkerGoesOn
    <2> QED BY <1>12, <2>2 DEF DecodeNewMarker, Take, Finish
  <1>13. CASE DecodeCount
    <2>1. InRow(m, mark) BY <1>13, FieldsAlong DEF DecodeCount, RowFields
    <2>2. Along(m, mark)' BY <1>13, <2>1, CountGoesOn
    <2> QED BY <1>13, <2>2 DEF DecodeCount, Take, Finish
  <1>14. CASE DecodeValue
    <2>1. InRow(m, mark) BY <1>14, FieldsAlong DEF DecodeValue, RowFields
    <2>2. Along(m, mark)' BY <1>14, <2>1, ValueGoesOn
    <2> QED BY <1>14, <2>2 DEF DecodeValue, Take, Finish
  <1>15. CASE TupleDone
    <2>1. InRow(m, mark) BY <1>15, FieldsAlong DEF TupleDone, RowFields
    <2>2. Along(m, mark)' BY <1>15, <2>1, TupleGoesOn
    <2> QED BY <1>15, <2>2 DEF TupleDone
  <1>16. CASE UNCHANGED decoder
    <2>1. UNCHANGED <<wire, rest, field, msg, side, tuple, left>> BY <1>16 DEF decoder
    <2>2. CASE AtTag(m, mark) BY <2>1, <2>2 DEF AtTag, Along
    <2>3. CASE AtControl(m, mark) BY <2>1, <2>3 DEF AtControl, Along
    <2>4. CASE InRelation(m)
      <3>1. CASE AtNamespace(m) BY <2>1, <3>1 DEF AtNamespace, InRelation, Along
      <3>2. CASE AtName(m) BY <2>1, <3>2 DEF AtName, InRelation, Along
      <3>3. CASE AtIdentity(m) BY <2>1, <3>3 DEF AtIdentity, InRelation, Along
      <3>4. CASE AtFlags(m) BY <2>1, <3>4 DEF AtFlags, InRelation, Along
      <3>5. CASE AtColumn(m) BY <2>1, <3>5 DEF AtColumn, WithinColumn, InRelation, Along
      <3>6. CASE AtType(m) BY <2>1, <3>6 DEF AtType, WithinColumn, InRelation, Along
      <3> QED BY <2>4, <3>1, <3>2, <3>3, <3>4, <3>5, <3>6 DEF InRelation
    <2>5. CASE InRow(m, mark)
      <3>1. Begun(m)' = Begun(m) /\ Reading(m)' = Reading(m) /\ Beyond(m)' = Beyond(m)
        BY <2>1 DEF Begun, Reading, Beyond
      <3>2. CASE AtRow(m, mark) BY <2>1, <3>2 DEF AtRow, InRow, Along
      <3>3. CASE AtCount(m) BY <2>1, <3>1, <3>3 DEF AtCount, InRow, Along
      <3>4. CASE AtValue(m) BY <2>1, <3>1, <3>4 DEF AtValue, InRow, Along
      <3>5. CASE AtMarker(m) BY <2>1, <3>5 DEF AtMarker, InRow, Along
      <3> QED BY <2>5, <3>2, <3>3, <3>4, <3>5 DEF InRow
    <2>6. CASE AtEnd(m) BY <2>1, <2>6 DEF AtEnd, Along
    <2> QED BY <2>1, <2>2, <2>3, <2>4, <2>5, <2>6 DEF Along
  <1> QED BY <1>1, <1>2, <1>3, <1>4, <1>5, <1>6, <1>7, <1>8, <1>9, <1>10, <1>11, <1>12, <1>13,
             <1>14, <1>15, <1>16 DEF Decode

\* The decoder is in the encoding of every message it may have been sent.
SentInv == \A m \in Sent : wire \in Encodings(m) => \E mark \in Marks : Along(m, mark)

\* What Postgres wrote is what is decoded (decode): a message whose numbers fit
\* their widths and whose names are readable is never refused or taken for
\* another, whatever the widths are and however many names, columns and bytes
\* there are.
THEOREM DecodesEveryMessage == DecoderSpec => []DecodesWhatWasSent
  <1>1. DecoderInit => SentInv
    <2> SUFFICES ASSUME DecoderInit, NEW m \in Sent, wire \in Encodings(m)
                 PROVE  \E mark \in Marks : Along(m, mark)
      BY DEF SentInv
    <2>1. IsMessage(m) BY SentAssumption
    <2>2. PICK mark \in Marks : wire = <<TagOf(m)>> \o BodyOf(m, mark) BY <2>1, EncodingIs
    <2>3. field = "tag" /\ rest = wire BY DEF DecoderInit
    <2> QED BY <2>2, <2>3 DEF Along, AtTag
  <1>2. SentInv /\ [Decode]_decoder => SentInv'
    <2> SUFFICES ASSUME SentInv, [Decode]_decoder, NEW m \in Sent, wire' \in Encodings(m)
                 PROVE  \E mark \in Marks : Along(m, mark)'
      BY DEF SentInv
    <2>1. IsMessage(m) BY SentAssumption
    <2>2. wire' = wire
      BY DEF Decode, decoder, DecodeTag, DecodeBegin, DecodeCommit, DecodeTruncate, DecodeRelation,
             DecodeNames, DecodeIdentity, DecodeColumnFlags, DecodeColumnName, DecodeColumnType,
             DecodeRow, DecodeNewMarker, DecodeCount, DecodeValue, TupleDone, ReadCString, Take,
             Finish
    <2>3. PICK mark \in Marks : Along(m, mark) BY <2>2 DEF SentInv
    <2>4. Along(m, mark)' BY <2>1, <2>3, GoesAlong
    <2> QED BY <2>4
  <1>3. SentInv => DecodesWhatWasSent
    <2> SUFFICES ASSUME SentInv, NEW m \in Sent, wire \in Encodings(m)
                 PROVE  field # "err" /\ (field = "ok" => msg = m)
      BY DEF DecodesWhatWasSent
    <2>1. PICK mark \in Marks : Along(m, mark) BY DEF SentInv
    <2> QED BY <2>1, FieldsAlong
  <1> QED BY <1>1, <1>2, <1>3, PTL DEF DecoderSpec

=============================================================================
