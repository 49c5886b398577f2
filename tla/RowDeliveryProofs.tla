-------------------------- MODULE RowDeliveryProofs --------------------------
(* Theorems about RowDelivery, for every value of its constants: any table  *)
(* and list of columns, any number of rows, writes and dead letters.        *)
EXTENDS RowDelivery, SequenceTheorems, WellFoundedInduction, TLAPS

\* The ids of a change, in the tuple's own layout.
IdAt(tuple, names) == tuple[PositionOf("id", names)].val
OldId(ch) == IdAt(ch.old, ch.layout)
NewId(ch) == IdAt(ch.new, ch.layout)

Touches(ch, i) == (ch.old # None /\ OldId(ch) = i) \/ (ch.new # None /\ NewId(ch) = i)

\* What change ch, the last one of id i, says of the row with that id.
Removes(ch, i) == ch.op = "delete" /\ OldId(ch) = i
MovesAway(ch, i) == ch.op = "update" /\ OldId(ch) = i /\ NewId(ch) # i
Writes(ch, i, row) ==
  /\ ch.op # "delete" /\ NewId(ch) = i
  /\ \A p \in DOMAIN ch.layout : ch.new[p] = Unchanged \/ ch.new[p] = Cell(i, row, ch.layout[p])

Tells(ch, i, row) ==
  IF row = None THEN Removes(ch, i) \/ MovesAway(ch, i) ELSE Writes(ch, i, row)

Changes == [op : Ops, layout : Seq(Columns), old : Tuples \cup {None}, new : Tuples \cup {None}]

\* A tuple of the layout names: a value or the marker under each of its columns.
Fits(tuple, names) ==
  /\ tuple \in Tuples /\ DOMAIN tuple = DOMAIN names /\ IdAt(tuple, names) \in Ids
  /\ \A p \in DOMAIN names : tuple[p] = Unchanged \/ tuple[p].col = names[p]

Shape(ch) ==
  /\ ch \in Changes /\ "id" \in Range(ch.layout)
  /\ IF ch.op = "insert" THEN ch.old = None ELSE Fits(ch.old, ch.layout)
  /\ IF ch.op = "delete" THEN ch.new = None ELSE Fits(ch.new, ch.layout)

RowsType == [Ids -> [Kept -> Nat] \cup {None}]

TypeOK ==
  /\ layout \in Seq(Columns) /\ "id" \in Range(layout)
  /\ rows \in RowsType /\ wal \in Seq(Seq(Changes)) /\ writes \in Nat
  /\ pc \in {"down", "backfill", "stream"} /\ covered \in BOOLEAN /\ moved \in BOOLEAN
  /\ dlq \subseteq [id : Ids, op : Ops] /\ docs \in [Ids -> Docs \cup {None}] /\ excused \subseteq Ids

\* Every transaction is one of well-formed changes in one layout.
Transactions ==
  \A t \in DOMAIN wal :
    /\ wal[t] # <<>>
    /\ \A k \in DOMAIN wal[t] : Shape(wal[t][k]) /\ wal[t][k].layout = wal[t][1].layout

Touching(txn, i) == {k \in DOMAIN txn : Touches(txn[k], i)}
Pending(i) == \E t \in DOMAIN wal : Touching(wal[t], i) # {}

\* The last change of a row in the WAL tells what the row is.
Latest ==
  \A i \in Ids : \A t \in DOMAIN wal : \A k \in Touching(wal[t], i) :
    (\A u \in DOMAIN wal : u > t => Touching(wal[u], i) = {}) /\ (\A j \in Touching(wal[t], i) : j <= k)
      => Tells(wal[t][k], i, rows[i])

\* While no column is dropped, a column keeps its position in every layout.
Extends(names) == names \in {Layout, Append(Layout, Added)}

Positions ==
  ~moved =>
    /\ Extends(layout) /\ \A t \in DOMAIN wal : \A k \in DOMAIN wal[t] : Extends(wal[t][k].layout)
    /\ pc # "down" => \A k \in DOMAIN ConfigColumns :
         reindex[k] \in DOMAIN Layout /\ Layout[reindex[k]] = ConfigColumns[k]

Stages ==
  /\ (pc = "stream" => covered) /\ (pc = "backfill" => ~covered)
  /\ ~covered => dlq = {} /\ docs = [i \in Ids |-> None]

\* What a document shows of its row.
Shows(i) ==
  /\ (docs[i] # None) <=> (rows[i] # None)
  /\ ~moved /\ docs[i] # None /\ docs[i].by # "backfill" =>
       \A k \in DOMAIN ConfigColumns :
         docs[i].cells[k] # Null => docs[i].cells[k] = Cell(i, rows[i], ConfigColumns[k])

\* An id nothing is on its way for has the document of its row.
Settled ==
  covered => \A i \in Ids \ (excused \cup Unparsable) :
    ~Pending(i) /\ (\A e \in dlq : e.id # i) => Shows(i)

IInv == TypeOK /\ Transactions /\ Latest /\ Positions /\ Stages /\ OwnColumns /\ Settled

----------------------------------------------------------------------------
(* Lemmas on the data.                                                      *)

\* A table's layout names its columns; the id is not among the values told apart.
LEMMA Constants ==
  /\ Layout \in Seq(Columns) /\ Append(Layout, Added) \in Seq(Columns)
  /\ "id" \in Range(Layout) /\ Range(ConfigColumns) \subseteq Range(Layout)
  /\ "id" \notin Kept /\ "id" \notin Toasted /\ Added \notin Range(Layout)
  /\ DOMAIN ConfigColumns = 1 .. Len(ConfigColumns)
  <1>1. Layout \in Seq(STRING) /\ ConfigColumns \in Seq(STRING) BY ConstantsAssumption
  <1>2. \A p \in 1 .. Len(Layout) : Layout[p] \in Columns BY <1>1 DEF Columns, Range
  <1>3. Layout \in Seq(Columns)
    <2>1. Len(Layout) \in Nat /\ DOMAIN Layout = 1 .. Len(Layout) BY <1>1
    <2>2. Layout = [p \in 1 .. Len(Layout) |-> Layout[p]] BY <1>1
    <2>3. Layout \in [1 .. Len(Layout) -> Columns] BY <1>2, <2>2
    <2> QED BY <2>1, <2>3, SeqDef
  <1>4. Added \in Columns BY DEF Columns
  <1> QED BY <1>1, <1>3, <1>4, ConstantsAssumption DEF Kept

\* Where the id is in a layout.
LEMMA PositionOfId ==
  ASSUME NEW names, "id" \in Range(names)
  PROVE  PositionOf("id", names) \in DOMAIN names /\ names[PositionOf("id", names)] = "id"
  <1>1. \E p \in DOMAIN names : names[p] = "id" BY DEF Range
  <1> QED BY <1>1 DEF PositionOf

\* A row as pgoutput sends it.
LEMMA TupleFits ==
  ASSUME TypeOK, NEW i \in Ids, NEW row \in [Kept -> Nat], NEW U \in SUBSET Toasted
  PROVE  /\ Fits(Tuple(i, row, U), layout) /\ IdAt(Tuple(i, row, U), layout) = i
         /\ \A p \in DOMAIN layout :
              Tuple(i, row, U)[p] = Unchanged \/ Tuple(i, row, U)[p] = Cell(i, row, layout[p])
  <1> DEFINE t == Tuple(i, row, U)
  <1>1. layout \in Seq(Columns) /\ "id" \in Range(layout) BY DEF TypeOK
  <1>2. /\ DOMAIN t = DOMAIN layout
        /\ \A p \in DOMAIN layout :
             t[p] = IF layout[p] \in U THEN Unchanged ELSE Cell(i, row, layout[p])
    BY DEF Tuple
  <1>3. ASSUME NEW c \in Columns PROVE Cell(i, row, c) \in Cells /\ Cell(i, row, c).col = c
    BY <1>3 DEF Cell, Cells
  <1>4. \A p \in DOMAIN layout : layout[p] \in Columns BY <1>1, ElementOfSeq
  <1>5. t \in Tuples
    <2>1. DOMAIN layout = 1 .. Len(layout) /\ Len(layout) \in Nat BY <1>1
    <2>2. \A p \in DOMAIN layout : t[p] \in Cells \cup {Unchanged} BY <1>2, <1>3, <1>4
    <2>3. t \in [1 .. Len(layout) -> Cells \cup {Unchanged}] BY <2>1, <2>2 DEF Tuple
    <2> QED BY <2>1, <2>3, SeqDef DEF Tuples
  <1>6. IdAt(t, layout) = i
    <2> DEFINE p == PositionOf("id", layout)
    <2>1. p \in DOMAIN layout /\ layout[p] = "id" BY <1>1, PositionOfId
    <2>2. t[p] = Cell(i, row, "id") BY <1>2, <2>1, Constants
    <2>3. t[p].val = i BY <2>2, Constants DEF Cell
    <2> QED BY <2>3 DEF IdAt
  <1>7. \A p \in DOMAIN layout : t[p] = Unchanged \/ t[p].col = layout[p] BY <1>2, <1>3, <1>4
  <1> HIDE DEF t
  <1>8. Fits(t, layout) BY <1>2, <1>5, <1>6, <1>7 DEF Fits
  <1> QED BY <1>2, <1>6, <1>8 DEF t

\* What one statement does: the change tells it of the rows it touches, and of
\* no other.
LEMMA ChangeTells ==
  ASSUME TypeOK, NEW r \in RowsType, NEW n \in Nat, NEW o \in Outcomes(r, n)
  PROVE  /\ o.rows \in RowsType /\ Shape(o.change) /\ o.change.layout = layout
         /\ \A i \in Ids : IF Touches(o.change, i) THEN Tells(o.change, i, o.rows[i])
                                                   ELSE o.rows[i] = r[i]
  <1>0. layout \in Seq(Columns) /\ "id" \in Range(layout) BY DEF TypeOK
  <1>1. CASE o \in Inserts(r, n)
    <2> DEFINE row == [c \in Kept |-> n]
    <2>1. PICK j \in {i \in Ids : r[i] = None} :
            o = [rows |-> [r EXCEPT ![j] = row], change |-> Change("insert", None, Tuple(j, row, {}))]
      BY <1>1 DEF Inserts
    <2>2. row \in [Kept -> Nat] /\ row # None BY NoneAssumption
    <2> HIDE DEF row
    <2> DEFINE t == Tuple(j, row, {})
    <2>3. /\ Fits(t, layout) /\ IdAt(t, layout) = j
          /\ \A p \in DOMAIN layout : t[p] = Unchanged \/ t[p] = Cell(j, row, layout[p])
      BY <2>1, <2>2, TupleFits
    <2>4. t # None /\ t \in Tuples BY <2>3, NoneAssumption DEF Fits
    <2> HIDE DEF t
    <2>5. o.rows = [r EXCEPT ![j] = row] /\ o.change = [op |-> "insert", layout |-> layout, old |-> None, new |-> t]
      BY <2>1 DEF Change, t
    <2> PICK ch : ch = o.change OBVIOUS
    <2>6. ch.op = "insert" /\ ch.layout = layout /\ ch.old = None /\ ch.new = t BY <2>5
    <2>7. Shape(ch) BY <1>0, <2>3, <2>4, <2>5, <2>6 DEF Shape, Changes, Ops
    <2>8. \A i \in Ids : Touches(ch, i) <=> i = j BY <2>3, <2>4, <2>6 DEF Touches, NewId
    <2>9. o.rows \in RowsType /\ o.rows[j] = row /\ \A i \in Ids : i # j => o.rows[i] = r[i]
      BY <2>1, <2>2, <2>5 DEF RowsType
    <2>10. Tells(ch, j, row) BY <2>2, <2>3, <2>6 DEF Tells, Writes, NewId
    <2> QED BY <2>6, <2>7, <2>8, <2>9, <2>10
  <1>2. CASE o \in Deletes(r)
    <2>1. PICK j \in {i \in Ids : r[i] # None} :
            o = [rows |-> [r EXCEPT ![j] = None], change |-> Change("delete", Tuple(j, r[j], {}), None)]
      BY <1>2 DEF Deletes
    <2>2. r[j] \in [Kept -> Nat] BY <2>1 DEF RowsType
    <2> DEFINE t == Tuple(j, r[j], {})
    <2>3. Fits(t, layout) /\ IdAt(t, layout) = j BY <2>1, <2>2, TupleFits
    <2>4. t # None /\ t \in Tuples BY <2>3, NoneAssumption DEF Fits
    <2> HIDE DEF t
    <2>5. o.rows = [r EXCEPT ![j] = None] /\ o.change = [op |-> "delete", layout |-> layout, old |-> t, new |-> None]
      BY <2>1 DEF Change, t
    <2> PICK ch : ch = o.change OBVIOUS
    <2>6. ch.op = "delete" /\ ch.layout = layout /\ ch.old = t /\ ch.new = None BY <2>5
    <2>7. Shape(ch) BY <1>0, <2>3, <2>4, <2>5, <2>6 DEF Shape, Changes, Ops
    <2>8. \A i \in Ids : Touches(ch, i) <=> i = j BY <2>3, <2>4, <2>6 DEF Touches, OldId
    <2>9. o.rows \in RowsType /\ o.rows[j] = None /\ \A i \in Ids : i # j => o.rows[i] = r[i]
      BY <2>1, <2>5 DEF RowsType
    <2>10. Tells(ch, j, None) BY <2>3, <2>6 DEF Tells, Removes, OldId
    <2> QED BY <2>6, <2>7, <2>8, <2>9, <2>10
  <1>3. CASE o \in Updates(r, n)
    <2>1. PICK u \in {v \in Ids \X Ids \X (Range(layout) \ {"id"}) \X SUBSET Toasted :
                        r[v[1]] # None /\ (v[2] = v[1] \/ r[v[2]] = None)} :
            o = [rows |-> [r EXCEPT ![u[1]] = None, ![u[2]] = Written(r[u[1]], u[3], n)],
                 change |-> Change("update", Tuple(u[1], r[u[1]], {}),
                                   Tuple(u[2], Written(r[u[1]], u[3], n), u[4] \ {u[3]}))]
      BY <1>3 DEF Updates
    <2> PICK i0, j, c, U : i0 = u[1] /\ j = u[2] /\ c = u[3] /\ U = u[4] \ {u[3]} OBVIOUS
    <2>2. i0 \in Ids /\ j \in Ids /\ U \in SUBSET Toasted /\ r[i0] # None BY <2>1
    <2> DEFINE row == Written(r[i0], c, n)  s == Tuple(i0, r[i0], {})  t == Tuple(j, row, U)
    <2>3. r[i0] \in [Kept -> Nat] BY <2>2 DEF RowsType
    <2>4. row \in [Kept -> Nat] /\ row # None BY <2>3, NoneAssumption DEF Written
    <2>5. Fits(s, layout) /\ IdAt(s, layout) = i0 BY <2>2, <2>3, TupleFits
    <2> HIDE DEF row
    <2>6. /\ Fits(t, layout) /\ IdAt(t, layout) = j
          /\ \A p \in DOMAIN layout : t[p] = Unchanged \/ t[p] = Cell(j, row, layout[p])
      BY <2>2, <2>4, TupleFits
    <2>7. s # None /\ s \in Tuples /\ t # None /\ t \in Tuples BY <2>5, <2>6, NoneAssumption DEF Fits
    <2>8. o = [rows |-> [r EXCEPT ![i0] = None, ![j] = row], change |-> Change("update", s, t)]
      BY <2>1 DEF row
    <2> HIDE DEF s, t
    <2>9. /\ o.rows = [r EXCEPT ![i0] = None, ![j] = row]
          /\ o.change = [op |-> "update", layout |-> layout, old |-> s, new |-> t]
      BY <2>8 DEF Change
    <2> PICK ch : ch = o.change OBVIOUS
    <2>10. ch.op = "update" /\ ch.layout = layout /\ ch.old = s /\ ch.new = t BY <2>9
    <2>11. Shape(ch) BY <1>0, <2>5, <2>6, <2>7, <2>9, <2>10 DEF Shape, Changes, Ops
    <2>12. OldId(ch) = i0 /\ NewId(ch) = j BY <2>5, <2>6, <2>10 DEF OldId, NewId
    <2>13. \A i \in Ids : Touches(ch, i) <=> i \in {i0, j} BY <2>7, <2>10, <2>12 DEF Touches
    <2>14. /\ o.rows \in RowsType /\ o.rows[j] = row /\ (i0 # j => o.rows[i0] = None)
           /\ \A i \in Ids : i \notin {i0, j} => o.rows[i] = r[i]
      BY <2>2, <2>4, <2>9 DEF RowsType
    <2>15. Tells(ch, j, row) BY <2>4, <2>6, <2>10, <2>12 DEF Tells, Writes
    <2>16. i0 # j => Tells(ch, i0, None) BY <2>10, <2>12 DEF Tells, MovesAway
    <2> QED BY <2>10, <2>11, <2>13, <2>14, <2>15, <2>16
  <1> QED BY <1>1, <1>2, <1>3 DEF Outcomes

\* A nonempty set of positions has a last one.
LEMMA MaxOf ==
  ASSUME NEW n \in Nat, NEW S \in SUBSET (1 .. n), S # {}
  PROVE  Max(S) \in S /\ \A k \in S : k <= Max(S)
  <1> DEFINE M == {n - k : k \in S}
  <1>1. M \in SUBSET Nat /\ M # {}
    <2>1. \A k \in S : n - k \in Nat OBVIOUS
    <2> QED BY <2>1
  <1> HIDE DEF M
  <1>2. IsWellFoundedOn(OpToRel(<, Nat), Nat) BY NatLessThanWellFounded
  <1>3. PICK m \in M : \A k \in M : ~(<<k, m>> \in OpToRel(<, Nat)) BY <1>1, <1>2, WFMin
  <1>4. \A k \in M : ~(k < m) BY <1>1, <1>3 DEF OpToRel
  <1>5. PICK x \in S : m = n - x BY DEF M
  <1>6. \A k \in S : x >= k
    <2> SUFFICES ASSUME NEW k \in S PROVE x >= k OBVIOUS
    <2>1. n - k \in M BY DEF M
    <2>2. ~(n - k < n - x) BY <1>4, <1>5, <2>1
    <2>3. k \in Int /\ x \in Int BY <1>5
    <2> QED BY <2>2, <2>3
  <1>7. Max(S) \in S /\ \A k \in S : Max(S) >= k BY <1>5, <1>6 DEF Max
  <1> QED BY <1>7

----------------------------------------------------------------------------
(* The initial states.                                                      *)

\* At first there are rows, and nothing else.
LEMMA InitInv == Init => IInv
  <1> SUFFICES ASSUME Init PROVE IInv OBVIOUS
  <1>1. TypeOK
    <2>1. rows \in RowsType
      <3>1. PICK S \in SUBSET Ids : rows = [i \in Ids |-> IF i \in S THEN [c \in Kept |-> 0] ELSE None]
        BY DEF Init
      <3>2. [c \in Kept |-> 0] \in [Kept -> Nat] OBVIOUS
      <3> QED BY <3>1, <3>2 DEF RowsType
    <2>2. layout = Layout /\ Layout \in Seq(Columns) /\ "id" \in Range(Layout) BY Constants DEF Init
    <2>3. wal = <<>> /\ <<>> \in Seq(Seq(Changes)) BY DEF Init
    <2> QED BY <2>1, <2>2, <2>3 DEF Init, TypeOK
  <1>2. wal = <<>> /\ DOMAIN wal = {} BY DEF Init
  <1>3. Transactions /\ Latest BY <1>2 DEF Transactions, Latest
  <1>4. Positions BY <1>2 DEF Init, Positions, Extends
  <1>5. Stages /\ OwnColumns /\ Settled BY DEF Init, Stages, OwnColumns, Settled
  <1> QED BY <1>1, <1>3, <1>4, <1>5 DEF IInv

----------------------------------------------------------------------------
(* The application and its DBA.                                             *)

\* A transaction of changes that tell what its rows became.
LEMMA AppendTxn ==
  ASSUME IInv, NEW txn \in Seq(Changes), txn # <<>>,
         \A k \in DOMAIN txn : Shape(txn[k]) /\ txn[k].layout = layout,
         wal' = Append(wal, txn), rows' \in RowsType, writes' \in Nat,
         \A i \in Ids : Touching(txn, i) = {} => rows'[i] = rows[i],
         \A i \in Ids : \A k \in Touching(txn, i) :
           (\A j \in Touching(txn, i) : j <= k) => Tells(txn[k], i, rows'[i]),
         UNCHANGED <<layout, moved, run, covered, dlq, docs, excused>>
  PROVE  IInv'
  <1> DEFINE N == Len(wal)
  <1>1. wal \in Seq(Seq(Changes)) /\ N \in Nat /\ DOMAIN wal = 1 .. N BY DEF IInv, TypeOK
  <1>2. /\ wal' \in Seq(Seq(Changes)) /\ Len(wal') = N + 1 /\ DOMAIN wal' = 1 .. N + 1
        /\ \A t \in 1 .. N : wal'[t] = wal[t]
        /\ wal'[N + 1] = txn
    <2>1. Len(Append(wal, txn)) = N + 1 /\ Append(wal, txn) \in Seq(Seq(Changes)) BY <1>1, AppendProperties
    <2>2. DOMAIN Append(wal, txn) = 1 .. N + 1 BY <2>1
    <2> QED BY <1>1, <2>1, <2>2, AppendProperties
  <1> HIDE DEF N
  <1>3. \A t \in DOMAIN wal' : t = N + 1 \/ (t \in DOMAIN wal /\ t <= N) BY <1>1, <1>2
  <1>4. N + 1 \in DOMAIN wal' /\ \A t \in DOMAIN wal : t \in DOMAIN wal' /\ N + 1 > t BY <1>1, <1>2
  <1>5. TypeOK' BY <1>2 DEF IInv, TypeOK, run
  <1>6. Transactions'
    <2> SUFFICES ASSUME NEW t \in DOMAIN wal'
                 PROVE  /\ wal'[t] # <<>>
                        /\ \A k \in DOMAIN wal'[t] : Shape(wal'[t][k]) /\ wal'[t][k].layout = wal'[t][1].layout
      BY DEF Transactions
    <2>1. CASE t = N + 1
      <3>1. 1 \in DOMAIN txn BY EmptySeq
      <3> QED BY <1>2, <2>1, <3>1
    <2>2. CASE t \in DOMAIN wal BY <1>1, <1>2, <2>2 DEF IInv, Transactions
    <2> QED BY <1>3, <2>1, <2>2
  <1>7. Latest'
    <2> SUFFICES ASSUME NEW i \in Ids, NEW t \in DOMAIN wal', NEW k \in Touching(wal'[t], i),
                        \A u \in DOMAIN wal' : u > t => Touching(wal'[u], i) = {},
                        \A j \in Touching(wal'[t], i) : j <= k
                 PROVE  Tells(wal'[t][k], i, rows'[i])
      BY DEF Latest
    <2>1. CASE t = N + 1 BY <1>2, <2>1
    <2>2. CASE t \in DOMAIN wal
      <3>1. Touching(txn, i) = {} /\ rows'[i] = rows[i] BY <1>2, <1>4, <2>2
      <3>2. wal'[t] = wal[t] BY <1>1, <1>2, <2>2
      <3>3. \A u \in DOMAIN wal : u > t => Touching(wal[u], i) = {} BY <1>1, <1>2, <1>4
      <3> QED BY <2>2, <3>1, <3>2, <3>3 DEF IInv, Latest
    <2> QED BY <1>3, <2>1, <2>2
  <1>8. Positions'
    <2> SUFFICES ASSUME ~moved PROVE Positions' BY DEF Positions
    <2>1. Extends(layout) /\ \A t \in DOMAIN wal : \A k \in DOMAIN wal[t] : Extends(wal[t][k].layout)
      BY DEF IInv, Positions
    <2>2. \A t \in DOMAIN wal' : \A k \in DOMAIN wal'[t] : Extends(wal'[t][k].layout)
      BY <1>1, <1>2, <1>3, <2>1
    <2> QED BY <2>1, <2>2 DEF IInv, Positions, run
  <1>9. Stages' BY DEF IInv, Stages, run
  <1>10. OwnColumns' BY DEF IInv, OwnColumns, Misplaced
  <1>11. Settled'
    <2> SUFFICES ASSUME covered, NEW i \in Ids \ (excused \cup Unparsable),
                        \A t \in DOMAIN wal' : Touching(wal'[t], i) = {}, \A e \in dlq : e.id # i
                 PROVE  Shows(i)'
      BY DEF Settled, Pending
    <2>1. rows'[i] = rows[i] BY <1>2, <1>4
    <2>2. ~Pending(i) BY <1>1, <1>2, <1>4 DEF Pending
    <2>3. Shows(i) BY <2>2 DEF IInv, Settled
    <2> QED BY <2>1, <2>3 DEF Shows
  <1> QED BY <1>5, <1>6, <1>7, <1>8, <1>9, <1>10, <1>11 DEF IInv

LEMMA CommitInv == IInv /\ Commit => IInv'
  <1> SUFFICES ASSUME IInv, Commit PROVE IInv' OBVIOUS
  <1>0. TypeOK /\ rows \in RowsType /\ writes \in Nat BY DEF IInv, TypeOK
  <1>1. UNCHANGED <<layout, moved, run, covered, dlq, docs, excused>> BY DEF Commit
  <1>2. PICK one \in Outcomes(rows, writes + 1) :
          \/ rows' = one.rows /\ wal' = Append(wal, <<one.change>>) /\ writes' = writes + 1
          \/ /\ \E two \in Outcomes(one.rows, writes + 2) :
                  rows' = two.rows /\ wal' = Append(wal, <<one.change, two.change>>)
             /\ writes' = writes + 2
    BY DEF Commit
  <1>3. /\ one.rows \in RowsType /\ Shape(one.change) /\ one.change.layout = layout
        /\ \A i \in Ids : IF Touches(one.change, i) THEN Tells(one.change, i, one.rows[i])
                                                    ELSE one.rows[i] = rows[i]
    BY <1>0, ChangeTells
  <1> PICK c1 : c1 = one.change OBVIOUS
  <1>4. CASE rows' = one.rows /\ wal' = Append(wal, <<one.change>>) /\ writes' = writes + 1
    <2> DEFINE txn == <<c1>>
    <2>1. c1 \in Changes /\ txn \in Seq(Changes) /\ txn # <<>> BY <1>3 DEF Shape
    <2>2. DOMAIN txn = {1} /\ txn[1] = c1 OBVIOUS
    <2>3. wal' = Append(wal, txn) BY <1>4
    <2> HIDE DEF txn
    <2>4. \A i \in Ids : Touching(txn, i) = IF Touches(c1, i) THEN {1} ELSE {} BY <2>2 DEF Touching
    <2>5. \A k \in DOMAIN txn : Shape(txn[k]) /\ txn[k].layout = layout BY <1>3, <2>2
    <2>6. \A i \in Ids : Touching(txn, i) = {} => rows'[i] = rows[i] BY <1>3, <1>4, <2>4
    <2>7. \A i \in Ids : \A k \in Touching(txn, i) : Tells(txn[k], i, rows'[i]) BY <1>3, <1>4, <2>2, <2>4
    <2>8. rows' \in RowsType /\ writes' \in Nat BY <1>0, <1>3, <1>4
    <2> QED BY <1>1, <2>1, <2>3, <2>5, <2>6, <2>7, <2>8, AppendTxn
  <1>5. CASE /\ \E two \in Outcomes(one.rows, writes + 2) :
                  rows' = two.rows /\ wal' = Append(wal, <<one.change, two.change>>)
             /\ writes' = writes + 2
    <2>1. PICK two \in Outcomes(one.rows, writes + 2) :
            rows' = two.rows /\ wal' = Append(wal, <<one.change, two.change>>)
      BY <1>5
    <2>2. writes + 2 \in Nat BY <1>0
    <2>3. /\ two.rows \in RowsType /\ Shape(two.change) /\ two.change.layout = layout
          /\ \A i \in Ids : IF Touches(two.change, i) THEN Tells(two.change, i, two.rows[i])
                                                      ELSE two.rows[i] = one.rows[i]
      BY <1>0, <1>3, <2>2, ChangeTells
    <2> PICK c2 : c2 = two.change OBVIOUS
    <2> DEFINE txn == <<c1, c2>>
    <2>4. c1 \in Changes /\ c2 \in Changes BY <1>3, <2>3 DEF Shape
    <2>5. txn \in Seq(Changes) /\ txn # <<>> BY <2>4
    <2>6. DOMAIN txn = {1, 2} /\ txn[1] = c1 /\ txn[2] = c2 OBVIOUS
    <2>7. wal' = Append(wal, txn) BY <2>1
    <2> HIDE DEF txn
    <2>8. \A i \in Ids : Touching(txn, i) =
            (IF Touches(c1, i) THEN {1} ELSE {}) \cup (IF Touches(c2, i) THEN {2} ELSE {})
      BY <2>6 DEF Touching
    <2>9. \A k \in DOMAIN txn : Shape(txn[k]) /\ txn[k].layout = layout BY <1>3, <2>3, <2>6
    <2>10. \A i \in Ids : Touching(txn, i) = {} => rows'[i] = rows[i] BY <1>3, <2>1, <2>3, <2>8
    <2>11. \A i \in Ids : \A k \in Touching(txn, i) :
             (\A j \in Touching(txn, i) : j <= k) => Tells(txn[k], i, rows'[i])
      <3> SUFFICES ASSUME NEW i \in Ids, NEW k \in Touching(txn, i), \A j \in Touching(txn, i) : j <= k
                   PROVE  Tells(txn[k], i, rows'[i])
        OBVIOUS
      <3>1. CASE Touches(c2, i)
        <4>1. k = 2 BY <2>8, <3>1
        <4> QED BY <2>1, <2>3, <2>6, <3>1, <4>1
      <3>2. CASE ~Touches(c2, i)
        <4>1. k = 1 /\ Touches(c1, i) BY <2>8, <3>2
        <4>2. rows'[i] = one.rows[i] BY <2>1, <2>3, <3>2
        <4> QED BY <1>3, <2>6, <4>1, <4>2
      <3> QED BY <3>1, <3>2
    <2>12. rows' \in RowsType /\ writes' \in Nat BY <1>5, <2>1, <2>2, <2>3
    <2> QED BY <1>1, <2>5, <2>7, <2>9, <2>10, <2>11, <2>12, AppendTxn
  <1> QED BY <1>2, <1>4, <1>5

\* What a step that only touches the table's columns keeps.
LEMMA SameRows ==
  ASSUME IInv, UNCHANGED <<rows, wal, writes, run, covered, dlq, docs, excused>>,
         layout' \in Seq(Columns), "id" \in Range(layout)', moved' \in BOOLEAN, moved => moved',
         ~moved' => Extends(layout')
  PROVE  IInv'
  <1>1. TypeOK' BY DEF IInv, TypeOK, run
  <1>2. Transactions' BY DEF IInv, Transactions
  <1>3. Latest' BY DEF IInv, Latest
  <1>4. Positions' BY DEF IInv, Positions, run
  <1>5. Stages' BY DEF IInv, Stages, run
  <1>6. OwnColumns' BY DEF IInv, OwnColumns, Misplaced
  <1>7. Settled'
    <2> SUFFICES ASSUME covered, NEW i \in Ids \ (excused \cup Unparsable),
                        \A t \in DOMAIN wal : Touching(wal[t], i) = {}, \A e \in dlq : e.id # i
                 PROVE  Shows(i)'
      BY DEF Settled, Pending
    <2>1. Shows(i) BY DEF IInv, Settled, Pending
    <2> QED BY <2>1 DEF Shows
  <1> QED BY <1>1, <1>2, <1>3, <1>4, <1>5, <1>6, <1>7 DEF IInv

LEMMA AddColumnInv == IInv /\ AddColumn => IInv'
  <1> SUFFICES ASSUME IInv, AddColumn PROVE IInv' OBVIOUS
  <1>0. layout \in Seq(Columns) /\ "id" \in Range(layout) BY DEF IInv, TypeOK
  <1>1. Added \in Columns BY DEF Columns
  <1>2. /\ UNCHANGED <<rows, wal, writes, run, covered, dlq, docs, excused>> /\ moved' = moved
        /\ layout' = Append(layout, Added) /\ Added \notin Range(layout)
    BY DEF AddColumn
  <1>3. layout' \in Seq(Columns) BY <1>0, <1>1, <1>2
  <1>4. "id" \in Range(layout)'
    <2>1. PICK p \in DOMAIN layout : layout[p] = "id" BY <1>0 DEF Range
    <2>2. p \in DOMAIN layout' /\ layout'[p] = "id" BY <1>0, <1>1, <1>2, <2>1
    <2> QED BY <2>2 DEF Range
  <1>5. ~moved' => Extends(layout')
    <2> SUFFICES ASSUME ~moved PROVE Extends(layout') BY <1>2
    <2>1. Extends(layout) BY DEF IInv, Positions
    <2>2. Added \in Range(Append(Layout, Added))
      <3>1. Len(Layout) + 1 \in DOMAIN Append(Layout, Added) /\ Append(Layout, Added)[Len(Layout) + 1] = Added
        BY Constants
      <3> QED BY <3>1 DEF Range
    <2>3. layout = Layout BY <1>2, <2>1, <2>2 DEF Extends
    <2> QED BY <1>2, <2>3 DEF Extends
  <1>6. moved' \in BOOLEAN BY <1>2 DEF IInv, TypeOK
  <1> QED BY <1>2, <1>3, <1>4, <1>5, <1>6, SameRows

LEMMA DropColumnInv == IInv /\ DropColumn => IInv'
  <1> SUFFICES ASSUME IInv, DropColumn PROVE IInv' OBVIOUS
  <1>0. layout \in Seq(Columns) /\ "id" \in Range(layout) BY DEF IInv, TypeOK
  <1>1. PICK p \in DOMAIN layout : layout[p] # "id" /\ layout' = RemoveAt(layout, p) BY DEF DropColumn
  <1>2. UNCHANGED <<rows, wal, writes, run, covered, dlq, docs, excused>> /\ moved' = TRUE
    BY DEF DropColumn
  <1> DEFINE n == Len(layout)  a == SubSeq(layout, 1, p - 1)  b == SubSeq(layout, p + 1, n)
  <1>3. n \in Nat /\ DOMAIN layout = 1 .. n /\ p \in 1 .. n BY <1>0, <1>1
  <1>4. \A i \in 1 .. n : layout[i] \in Columns BY <1>0, ElementOfSeq
  <1>5. /\ a \in Seq(Columns) /\ Len(a) = p - 1 /\ \A i \in 1 .. p - 1 : a[i] = layout[i]
    <2>1. \A i \in 1 .. p - 1 : layout[i] \in Columns BY <1>3, <1>4
    <2>2. 1 \in Int /\ p - 1 \in Int /\ p - 1 - 1 + 1 = p - 1 BY <1>3
    <2>3. /\ a \in Seq(Columns) /\ Len(a) = IF 1 <= p - 1 THEN p - 1 - 1 + 1 ELSE 0
          /\ \A i \in 1 .. p - 1 - 1 + 1 : a[i] = layout[1 + i - 1]
      BY <2>1, <2>2, SubSeqProperties
    <2>4. \A i \in 1 .. p - 1 : 1 + i - 1 = i BY <1>3
    <2> HIDE DEF a
    <2> QED BY <1>3, <2>2, <2>3, <2>4
  <1>6. /\ b \in Seq(Columns) /\ Len(b) = n - p /\ \A i \in 1 .. n - p : b[i] = layout[p + i]
    <2>1. \A i \in p + 1 .. n : layout[i] \in Columns BY <1>3, <1>4
    <2>2. n \in Int /\ p + 1 \in Int /\ n - (p + 1) + 1 = n - p BY <1>3
    <2>3. /\ b \in Seq(Columns) /\ Len(b) = IF p + 1 <= n THEN n - (p + 1) + 1 ELSE 0
          /\ \A i \in 1 .. n - (p + 1) + 1 : b[i] = layout[p + 1 + i - 1]
      BY <2>1, <2>2, SubSeqProperties
    <2>4. \A i \in 1 .. n - p : p + 1 + i - 1 = p + i BY <1>3
    <2> HIDE DEF b
    <2> QED BY <1>3, <2>2, <2>3, <2>4
  <1>7. layout' = a \o b BY <1>1 DEF RemoveAt
  <1> HIDE DEF a, b
  <1>8. /\ a \o b \in Seq(Columns) /\ Len(a \o b) = n - 1
        /\ \A i \in 1 .. n - 1 : (a \o b)[i] = IF i <= p - 1 THEN a[i] ELSE b[i - (p - 1)]
    <2>1. Len(a) + Len(b) = n - 1 BY <1>3, <1>5, <1>6
    <2>2. /\ a \o b \in Seq(Columns) /\ Len(a \o b) = Len(a) + Len(b)
          /\ \A i \in 1 .. Len(a) + Len(b) : (a \o b)[i] = IF i <= Len(a) THEN a[i] ELSE b[i - Len(a)]
      BY <1>5, <1>6, ConcatProperties
    <2> HIDE DEF n
    <2> QED BY <1>5, <2>1, <2>2
  <1>9. "id" \in Range(layout)'
    <2>1. PICK q \in 1 .. n : layout[q] = "id" BY <1>0, <1>3 DEF Range
    <2>2. DOMAIN layout' = 1 .. n - 1
      <3>1. layout' \in Seq(Columns) /\ Len(layout') = n - 1 BY <1>7, <1>8
      <3> QED BY <3>1
    <2>3. CASE q < p
      <3>1. q \in 1 .. n - 1 /\ q <= p - 1 /\ q \in 1 .. p - 1 BY <1>3, <2>3
      <3>2. layout'[q] = "id" BY <1>5, <1>7, <1>8, <2>1, <3>1
      <3> QED BY <2>2, <3>1, <3>2 DEF Range
    <2>4. CASE q > p
      <3>1. q - 1 \in 1 .. n - 1 /\ ~(q - 1 <= p - 1) /\ q - 1 - (p - 1) \in 1 .. n - p
        BY <1>3, <2>4
      <3>2. layout'[q - 1] = b[q - 1 - (p - 1)] BY <1>7, <1>8, <3>1
      <3>3. b[q - 1 - (p - 1)] = layout[p + (q - 1 - (p - 1))] BY <1>6, <3>1
      <3>4. p + (q - 1 - (p - 1)) = q BY <1>3, <2>1
      <3>5. layout'[q - 1] = "id" BY <2>1, <3>2, <3>3, <3>4
      <3> QED BY <2>2, <3>1, <3>5 DEF Range
    <2>5. q # p BY <1>1, <2>1
    <2> QED BY <1>3, <2>1, <2>3, <2>4, <2>5
  <1>10. layout' \in Seq(Columns) BY <1>7, <1>8
  <1> QED BY <1>2, <1>9, <1>10, SameRows

----------------------------------------------------------------------------
(* The run.                                                                 *)

\* A step that only starts or stops the run, or reads its relation.
LEMMA RunStep ==
  ASSUME IInv, UNCHANGED <<table, covered, dlq, docs, excused>>, pc' \in {"down", "backfill", "stream"},
         pc' = "stream" => covered, pc' = "backfill" => ~covered,
         ~moved /\ pc' # "down" => \A k \in DOMAIN ConfigColumns :
           reindex'[k] \in DOMAIN Layout /\ Layout[reindex'[k]] = ConfigColumns[k]
  PROVE  IInv'
  <1>1. TypeOK' BY DEF IInv, TypeOK, table, source
  <1>2. Transactions' BY DEF IInv, Transactions, table
  <1>3. Latest' BY DEF IInv, Latest, table, source
  <1>4. Positions' BY DEF IInv, Positions, table, source
  <1>5. Stages' BY DEF IInv, Stages
  <1>6. OwnColumns' BY DEF IInv, OwnColumns, Misplaced, table, source
  <1>7. Settled' 
    <2>1. UNCHANGED <<rows, wal, moved>> BY DEF table, source
    <2> SUFFICES ASSUME covered, NEW i \in Ids \ (excused \cup Unparsable),
                        \A t \in DOMAIN wal : Touching(wal[t], i) = {}, \A e \in dlq : e.id # i
                 PROVE  Shows(i)'
      BY <2>1 DEF Settled, Pending
    <2>2. Shows(i) BY DEF IInv, Settled, Pending
    <2> QED BY <2>1, <2>2 DEF Shows
  <1> QED BY <1>1, <1>2, <1>3, <1>4, <1>5, <1>6, <1>7 DEF IInv

LEMMA SetUpInv == IInv /\ SetUp => IInv'
  <1> SUFFICES ASSUME IInv, SetUp PROVE IInv' OBVIOUS
  <1>1. /\ Range(ConfigColumns) \subseteq Range(layout)
        /\ reindex' = [k \in DOMAIN ConfigColumns |-> PositionOf(ConfigColumns[k], layout)]
        /\ pc' = IF covered THEN "stream" ELSE "backfill"
        /\ UNCHANGED <<table, covered, dlq, docs, excused>>
    BY DEF SetUp
  <1>2. ASSUME ~moved, NEW k \in DOMAIN ConfigColumns
        PROVE  reindex'[k] \in DOMAIN Layout /\ Layout[reindex'[k]] = ConfigColumns[k]
    <2>1. Extends(layout) BY <1>2 DEF IInv, Positions
    <2> PICK c : c = ConfigColumns[k] OBVIOUS
    <2> DEFINE p == PositionOf(c, layout)
    <2>2. c \in Range(layout) /\ c \in Range(Layout) BY <1>1, Constants DEF Range
    <2>3. p \in DOMAIN layout /\ layout[p] = c
      <3>1. \E q \in DOMAIN layout : layout[q] = c BY <2>2 DEF Range
      <3> QED BY <3>1 DEF PositionOf
    <2>4. reindex'[k] = p BY <1>1, <1>2
    <2> HIDE DEF p
    <2>5. c # Added BY <2>2, Constants
    <2>6. p \in DOMAIN Layout /\ Layout[p] = c
      <3>1. CASE layout = Layout BY <2>3, <3>1
      <3>2. CASE layout = Append(Layout, Added)
        <4>1. /\ Len(Layout) \in Nat /\ DOMAIN Layout = 1 .. Len(Layout)
              /\ DOMAIN layout = 1 .. Len(Layout) + 1 /\ layout[Len(Layout) + 1] = Added
              /\ \A q \in 1 .. Len(Layout) : layout[q] = Layout[q]
          BY <3>2, Constants
        <4>2. p # Len(Layout) + 1 BY <2>3, <2>5, <4>1
        <4>3. p \in 1 .. Len(Layout) BY <2>3, <4>1, <4>2
        <4> QED BY <2>3, <4>1, <4>3
      <3> QED BY <2>1, <3>1, <3>2 DEF Extends
    <2> QED BY <2>4, <2>6
  <1>3. covered \in BOOLEAN BY DEF IInv, TypeOK
  <1> QED BY <1>1, <1>2, <1>3, RunStep

LEMMA RelationInv == IInv /\ Relation => IInv'
  <1> SUFFICES ASSUME IInv, Relation PROVE IInv' OBVIOUS
  <1>1. pc = "stream" /\ UNCHANGED <<table, pc, reindex, covered, dlq, docs, excused>> BY DEF Relation
  <1>2. covered BY <1>1 DEF IInv, Stages
  <1> QED BY <1>1, <1>2, RunStep DEF IInv, Positions

LEMMA CrashInv == IInv /\ Crash => IInv'
  <1> SUFFICES ASSUME IInv, Crash PROVE IInv' OBVIOUS
  <1> QED BY RunStep DEF Crash, Down

\* A cell of a row is one of its column.
LEMMA CellType ==
  ASSUME NEW i \in Ids, NEW row \in [Kept -> Nat], NEW c \in Columns
  PROVE  Cell(i, row, c) \in Cells /\ Cell(i, row, c).col = c
  <1> QED BY DEF Cell, Cells

\* What a transform gets are cells and nulls.
LEMMA ExtractType ==
  ASSUME NEW tuple \in Tuples
  PROVE  Extract(tuple) \in [DOMAIN ConfigColumns -> Cells \cup {Null}]
  <1>1. ASSUME NEW k \in DOMAIN ConfigColumns, reindex[k] \in DOMAIN tuple, tuple[reindex[k]] # Unchanged
        PROVE  tuple[reindex[k]] \in Cells
    <2>1. tuple \in Seq(Cells \cup {Unchanged}) BY DEF Tuples
    <2>2. reindex[k] \in 1 .. Len(tuple) BY <1>1, <2>1
    <2>3. tuple[reindex[k]] \in Cells \cup {Unchanged} BY <2>1, <2>2, ElementOfSeq
    <2> QED BY <1>1, <2>3
  <1> QED BY <1>1 DEF Extract

\* While no column is dropped, each value comes from under its own column.
LEMMA ExtractOwn ==
  ASSUME IInv, pc # "down", ~moved, NEW names, Extends(names), NEW tuple, DOMAIN tuple = DOMAIN names,
         NEW k \in DOMAIN ConfigColumns, Extract(tuple)[k] # Null
  PROVE  \E p \in DOMAIN names :
           names[p] = ConfigColumns[k] /\ tuple[p] # Unchanged /\ Extract(tuple)[k] = tuple[p]
  <1> PICK p : p = reindex[k] OBVIOUS
  <1>1. p \in DOMAIN Layout /\ Layout[p] = ConfigColumns[k] BY DEF IInv, Positions
  <1>2. p \in DOMAIN names /\ names[p] = ConfigColumns[k]
    <2>1. CASE names = Layout BY <1>1, <2>1
    <2>2. CASE names = Append(Layout, Added)
      <3>1. /\ Len(Layout) \in Nat /\ DOMAIN Layout = 1 .. Len(Layout)
            /\ DOMAIN names = 1 .. Len(Layout) + 1 /\ \A q \in 1 .. Len(Layout) : names[q] = Layout[q]
        BY <2>2, Constants
      <3> QED BY <1>1, <3>1
    <2> QED BY <2>1, <2>2 DEF Extends
  <1>3. tuple[p] # Unchanged /\ Extract(tuple)[k] = tuple[p] BY DEF Extract
  <1> QED BY <1>2, <1>3

LEMMA BackfillInv == IInv /\ Backfill => IInv'
  <1> SUFFICES ASSUME IInv, Backfill PROVE IInv' OBVIOUS
  <1>0. pc = "backfill" /\ UNCHANGED <<source, dlq, excused>> /\ UNCHANGED <<layout, rows, writes, moved>>
    BY DEF Backfill, source
  <1>1. CASE Present \cap Unparsable # {}
    <2>1. pc' = "down" /\ UNCHANGED <<table, covered, dlq, docs, excused>> BY <1>0, <1>1 DEF Backfill, Down, table
    <2> QED BY <2>1, RunStep
  <1>2. CASE Present \cap Unparsable = {}
    <2>1. /\ docs' = [i \in Ids |-> IF i \in Present
                        THEN [by |-> "backfill", cells |-> Extract(Selected(i))] ELSE docs[i]]
          /\ wal' = <<>> /\ covered' = TRUE /\ pc' = "stream" /\ UNCHANGED <<reindex, cache>>
      BY <1>2 DEF Backfill
    <2>2. dlq = {} /\ docs = [i \in Ids |-> None] BY <1>0 DEF IInv, Stages
    <2>3. \A i \in Present : [by |-> "backfill", cells |-> Extract(Selected(i))] \in Docs
      <3> SUFFICES ASSUME NEW i \in Present PROVE Extract(Selected(i)) \in [DOMAIN ConfigColumns -> Cells \cup {Null}]
        BY DEF Docs
      <3> DEFINE ids == IF "id" \in Range(ConfigColumns) THEN <<>> ELSE <<"id">>
                 names == ConfigColumns \o ids \o <<"id">>
      <3>1. ConfigColumns \in Seq(Columns)
        <4>1. ConfigColumns \in Seq(STRING) /\ Len(ConfigColumns) \in Nat BY ConstantsAssumption
        <4>2. \A k \in 1 .. Len(ConfigColumns) : ConfigColumns[k] \in Columns BY Constants DEF Range, Columns
        <4>3. ConfigColumns \in [1 .. Len(ConfigColumns) -> Columns] BY <4>1, <4>2
        <4> QED BY <4>1, <4>3, SeqDef
      <3>2. "id" \in Columns BY Constants DEF Columns
      <3>3. ids \in Seq(Columns) /\ <<"id">> \in Seq(Columns) BY <3>2
      <3> HIDE DEF ids
      <3>4. names \in Seq(Columns) BY <3>1, <3>3, ConcatProperties
      <3>5. Selected(i) = [p \in DOMAIN names |-> Cell(i, rows[i], names[p])] BY DEF Selected, ids
      <3> HIDE DEF names
      <3>6. i \in Ids /\ rows[i] \in [Kept -> Nat] BY DEF IInv, TypeOK, RowsType, Present
      <3>7. \A p \in DOMAIN names : Cell(i, rows[i], names[p]) \in Cells BY <3>4, <3>6, CellType
      <3>8. Selected(i) \in Tuples
        <4>1. Len(names) \in Nat /\ DOMAIN names = 1 .. Len(names) BY <3>4
        <4>2. Selected(i) \in [1 .. Len(names) -> Cells \cup {Unchanged}] BY <3>5, <3>7, <4>1
        <4> QED BY <4>1, <4>2, SeqDef DEF Tuples
      <3> QED BY <3>8, ExtractType
    <2>4. docs' \in [Ids -> Docs \cup {None}] BY <2>1, <2>2, <2>3
    <2>5. \A i \in Ids : IF rows[i] # None THEN docs'[i] # None /\ docs'[i].by = "backfill" ELSE docs'[i] = None
      BY <2>1, <2>2, <2>3, NoneAssumption DEF Present
    <2>6. DOMAIN wal' = {} /\ wal' \in Seq(Seq(Changes)) BY <2>1
    <2>7. TypeOK' BY <1>0, <2>1, <2>4, <2>6 DEF IInv, TypeOK
    <2>8. Transactions' /\ Latest' BY <2>6 DEF Transactions, Latest
    <2>9. Positions' BY <1>0, <2>1, <2>6 DEF IInv, Positions
    <2>10. Stages' BY <2>1 DEF Stages
    <2>11. OwnColumns' BY <2>5 DEF OwnColumns
    <2>12. Settled'
      <3>1. \A i \in Ids : Shows(i)' BY <1>0, <2>5 DEF Shows
      <3> QED BY <1>0, <3>1 DEF Settled
    <2> QED BY <2>7, <2>8, <2>9, <2>10, <2>11, <2>12 DEF IInv
  <1> QED BY <1>1, <1>2

\* What a step of the stream keeps whatever it writes: it may take the first
\* transaction off, and may be the run's last.
LEMMA StreamStep ==
  ASSUME IInv, pc = "stream", UNCHANGED <<source, covered>>,
         wal' = wal \/ (wal # <<>> /\ wal' = Tail(wal)), UNCHANGED run \/ pc' = "down",
         docs' \in [Ids -> Docs \cup {None}], dlq' \subseteq [id : Ids, op : Ops], excused' \subseteq Ids
  PROVE  /\ TypeOK' /\ Transactions' /\ Latest' /\ Positions' /\ Stages'
         /\ covered /\ (wal' = wal \/ (wal # <<>> /\ \A t \in DOMAIN wal : t = 1 \/ \E u \in DOMAIN wal' : wal'[u] = wal[t]))
  <1>0. UNCHANGED <<layout, rows, writes, moved>> BY DEF source
  <1>1. wal \in Seq(Seq(Changes)) BY DEF IInv, TypeOK
  <1>2. covered /\ covered' BY DEF IInv, Stages
  <1>3. \E d \in {0, 1} : /\ d \in Nat /\ (d = 0 => wal' = wal) /\ (d = 1 => wal # <<>>)
                         /\ wal' \in Seq(Seq(Changes))
                         /\ \A u \in DOMAIN wal' : u + d \in DOMAIN wal /\ wal'[u] = wal[u + d]
                         /\ \A t \in DOMAIN wal : t > d => t - d \in DOMAIN wal' /\ wal'[t - d] = wal[t]
    <2>1. CASE wal' = wal
      <3>1. \A t \in DOMAIN wal : t + 0 = t /\ t - 0 = t BY <1>1
      <3> QED BY <1>1, <2>1, <3>1
    <2>2. CASE wal # <<>> /\ wal' = Tail(wal)
      <3>1. /\ wal' \in Seq(Seq(Changes)) /\ Len(wal') = Len(wal) - 1
            /\ \A i \in 1 .. Len(wal') : wal'[i] = wal[i + 1]
        BY <1>1, <2>2, HeadTailProperties
      <3>2. Len(wal) \in Nat /\ DOMAIN wal = 1 .. Len(wal) BY <1>1
      <3>3. DOMAIN wal' = 1 .. Len(wal')
        <4>1. Len(wal') \in Nat BY <3>1
        <4> QED BY <3>1
      <3>4. \A u \in DOMAIN wal' : u + 1 \in DOMAIN wal /\ wal'[u] = wal[u + 1] BY <3>1, <3>2, <3>3
      <3>5. \A t \in DOMAIN wal : t > 1 => t - 1 \in DOMAIN wal' /\ t - 1 + 1 = t BY <3>1, <3>2, <3>3
      <3>6. \A t \in DOMAIN wal : t > 1 => wal'[t - 1] = wal[t] BY <3>4, <3>5
      <3>7. 1 \in Nat /\ wal # <<>> /\ (1 = 0 => wal' = wal) BY <2>2
      <3> WITNESS 1 \in {0, 1}
      <3> QED BY <3>1, <3>4, <3>5, <3>6, <3>7
    <2> QED BY <2>1, <2>2
  <1>4. PICK d \in {0, 1} :
          /\ d \in Nat /\ (d = 0 => wal' = wal) /\ (d = 1 => wal # <<>>)
          /\ wal' \in Seq(Seq(Changes))
          /\ \A u \in DOMAIN wal' : u + d \in DOMAIN wal /\ wal'[u] = wal[u + d]
          /\ \A t \in DOMAIN wal : t > d => t - d \in DOMAIN wal' /\ wal'[t - d] = wal[t]
    BY <1>3
  <1>5. \A u \in DOMAIN wal' : \E t \in DOMAIN wal : wal'[u] = wal[t] BY <1>4
  <1>6. TypeOK' BY <1>0, <1>2, <1>4 DEF IInv, TypeOK, run
  <1>7. Transactions' BY <1>5 DEF IInv, Transactions
  <1>8. Latest'
    <2> SUFFICES ASSUME NEW i \in Ids, NEW u \in DOMAIN wal', NEW k \in Touching(wal'[u], i),
                        \A v \in DOMAIN wal' : v > u => Touching(wal'[v], i) = {},
                        \A j \in Touching(wal'[u], i) : j <= k
                 PROVE  Tells(wal'[u][k], i, rows'[i])
      BY DEF Latest
    <2>1. u + d \in DOMAIN wal /\ wal'[u] = wal[u + d] BY <1>4
    <2>2. ASSUME NEW t \in DOMAIN wal, t > u + d PROVE Touching(wal[t], i) = {}
      <3>1. u \in Int /\ t \in Int /\ u > 0
        <4>1. DOMAIN wal = 1 .. Len(wal) /\ Len(wal) \in Nat BY <1>1
        <4>2. wal' \in Seq(Seq(Changes)) BY <1>4
        <4>3. DOMAIN wal' = 1 .. Len(wal') /\ Len(wal') \in Nat BY <4>2
        <4>4. t \in Int BY <4>1
        <4>5. u \in Int /\ u > 0 BY <4>3
        <4> QED BY <4>4, <4>5
      <3>2. t > d /\ t - d > u BY <2>2, <3>1
      <3> QED BY <1>4, <3>2
    <2> QED BY <1>0, <2>1, <2>2 DEF IInv, Latest
  <1>9. Positions' BY <1>0, <1>5 DEF IInv, Positions, run
  <1>10. Stages' BY <1>2 DEF IInv, Stages, run
  <1>11. wal' = wal \/ (wal # <<>> /\ \A t \in DOMAIN wal : t = 1 \/ \E u \in DOMAIN wal' : wal'[u] = wal[t])
    <2>1. \A t \in DOMAIN wal : t = 1 \/ t > 1 BY <1>1
    <2> QED BY <1>4, <2>1
  <1> QED BY <1>2, <1>6, <1>7, <1>8, <1>9, <1>10, <1>11

\* A dead letter replayed or given up on: its row's document is the row's, or the
\* id is excused.
LEMMA ReplayInv == IInv /\ ReplayDlq => IInv'
  <1> SUFFICES ASSUME IInv, ReplayDlq PROVE IInv' OBVIOUS
  <1>0. pc = "stream" /\ UNCHANGED <<table, covered>> BY DEF ReplayDlq
  <1>1. UNCHANGED <<source, layout, rows, writes, moved, wal>> BY <1>0 DEF table, source
  <1>2. PICK e \in dlq : /\ Replay(e) \/ GiveUp(e)
                         /\ \/ dlq' = dlq \ {e} /\ UNCHANGED run
                            \/ dlq' = dlq /\ Down
    BY DEF ReplayDlq
  <1>3. e \in [id : Ids, op : Ops] /\ e.id \in Ids BY DEF IInv, TypeOK
  <1>4. dlq' = dlq \ {e} \/ dlq' = dlq BY <1>2
  <1>5. UNCHANGED run \/ pc' = "down" BY <1>2 DEF Down
  <1> DEFINE doc == [by |-> "replay", cells |-> Extract(ReadAgain(e.id))]
  <1>6. /\ layout \in Seq(Columns) /\ rows \in RowsType /\ docs \in [Ids -> Docs \cup {None}] /\ excused \subseteq Ids
        /\ dlq \subseteq [id : Ids, op : Ops]
    BY DEF IInv, TypeOK
  <1>7. CASE GiveUp(e)
    <2>1. docs' = docs /\ excused' = excused \cup {e.id} BY <1>7 DEF GiveUp
    <2>2. TypeOK' /\ Transactions' /\ Latest' /\ Positions' /\ Stages' /\ covered
      BY <1>0, <1>1, <1>3, <1>4, <1>5, <1>6, <2>1, StreamStep
    <2>3. OwnColumns' BY <1>1, <2>1 DEF IInv, OwnColumns, Misplaced
    <2>4. Settled'
      <3> SUFFICES ASSUME NEW i \in Ids \ (excused' \cup Unparsable),
                          \A t \in DOMAIN wal : Touching(wal[t], i) = {}, \A f \in dlq' : f.id # i
                   PROVE  Shows(i)'
        BY <1>1 DEF Settled, Pending
      <3>1. i \in Ids \ (excused \cup Unparsable) /\ \A f \in dlq : f.id # i BY <1>4, <2>1
      <3>2. Shows(i) BY <2>2, <3>1 DEF IInv, Settled, Pending
      <3> QED BY <1>1, <2>1, <3>2 DEF Shows
    <2> QED BY <2>2, <2>3, <2>4 DEF IInv
  <1>8. CASE Replay(e)
    <2> DEFINE gone == e.op = "delete" \/ rows[e.id] = None
    <2>1. /\ docs' = [docs EXCEPT ![e.id] = IF gone THEN None ELSE doc]
          /\ excused' = IF e.op = "delete" /\ rows[e.id] # None THEN excused \cup {e.id} ELSE excused
      BY <1>8 DEF Replay
    <2>2. ASSUME rows[e.id] # None
          PROVE  /\ doc \in Docs
                 /\ DOMAIN ReadAgain(e.id) = DOMAIN layout
                 /\ \A p \in DOMAIN layout : /\ ReadAgain(e.id)[p] = Cell(e.id, rows[e.id], layout[p])
                                             /\ ReadAgain(e.id)[p].col = layout[p]
      <3>1. rows[e.id] \in [Kept -> Nat] BY <1>3, <1>6, <2>2 DEF RowsType
      <3>2. Len(layout) \in Nat /\ DOMAIN layout = 1 .. Len(layout) /\ \A p \in DOMAIN layout : layout[p] \in Columns
        BY <1>6, ElementOfSeq
      <3>3. \A p \in DOMAIN layout : /\ Cell(e.id, rows[e.id], layout[p]) \in Cells
                                     /\ Cell(e.id, rows[e.id], layout[p]).col = layout[p]
        BY <1>3, <3>1, <3>2, CellType
      <3>4. ReadAgain(e.id) = [p \in DOMAIN layout |-> Cell(e.id, rows[e.id], layout[p])] BY DEF ReadAgain
      <3>5. ReadAgain(e.id) \in Tuples
        <4>1. ReadAgain(e.id) \in [1 .. Len(layout) -> Cells \cup {Unchanged}] BY <3>2, <3>3, <3>4
        <4> QED BY <3>2, <4>1, SeqDef DEF Tuples
      <3>6. Extract(ReadAgain(e.id)) \in [DOMAIN ConfigColumns -> Cells \cup {Null}] BY <3>5, ExtractType
      <3> QED BY <3>3, <3>4, <3>6 DEF Docs
    <2>3. docs' \in [Ids -> Docs \cup {None}] /\ excused' \subseteq Ids BY <1>3, <1>6, <2>1, <2>2
    <2>4. TypeOK' /\ Transactions' /\ Latest' /\ Positions' /\ Stages' /\ covered
      BY <1>0, <1>1, <1>4, <1>5, <1>6, <2>3, StreamStep
    <2>5. ASSUME rows[e.id] # None, ~moved, NEW k \in DOMAIN ConfigColumns, doc.cells[k] # Null
          PROVE  doc.cells[k] = Cell(e.id, rows[e.id], ConfigColumns[k]) /\ doc.cells[k].col = ConfigColumns[k]
      <3>1. Extends(layout) BY <2>5 DEF IInv, Positions
      <3> PICK tuple : tuple = ReadAgain(e.id) OBVIOUS
      <3>2. DOMAIN tuple = DOMAIN layout BY <2>2, <2>5
      <3>3. doc.cells = Extract(tuple) OBVIOUS
      <3>4. PICK p \in DOMAIN layout : layout[p] = ConfigColumns[k] /\ Extract(tuple)[k] = tuple[p]
        BY <1>0, <2>5, <3>1, <3>2, <3>3, ExtractOwn
      <3> QED BY <2>2, <2>5, <3>3, <3>4
    <2>6. rows[e.id] # None => doc # None /\ doc.by = "replay" BY <2>2, NoneAssumption
    <2> HIDE DEF doc
    <2>7. OwnColumns'
      <3> SUFFICES ASSUME ~moved, NEW i \in Ids, docs'[i] # None, docs'[i].by # "backfill",
                          NEW k \in DOMAIN ConfigColumns, docs'[i].cells[k] # Null
                   PROVE  docs'[i].cells[k].col = ConfigColumns[k]
        BY <1>1 DEF OwnColumns, Misplaced
      <3>1. CASE i = e.id
        <4>1. docs'[i] = doc /\ rows[e.id] # None BY <1>6, <2>1, <3>1
        <4> QED BY <2>5, <4>1
      <3>2. CASE i # e.id
        <4>1. docs'[i] = docs[i] BY <1>6, <2>1, <3>2
        <4> QED BY <4>1 DEF IInv, OwnColumns, Misplaced
      <3> QED BY <3>1, <3>2
    <2>8. Settled'
      <3> SUFFICES ASSUME NEW i \in Ids \ (excused' \cup Unparsable),
                          \A t \in DOMAIN wal : Touching(wal[t], i) = {}, \A f \in dlq' : f.id # i
                   PROVE  Shows(i)'
        BY <1>1 DEF Settled, Pending
      <3>1. CASE i = e.id
        <4>1. e.op = "delete" => rows[e.id] = None BY <2>1, <3>1
        <4>2. docs'[i] = IF rows[i] = None THEN None ELSE doc BY <1>3, <1>6, <2>1, <3>1, <4>1
        <4>3. CASE rows[i] = None BY <1>1, <4>2, <4>3 DEF Shows
        <4>4. CASE rows[i] # None
          <5>1. docs'[i] = doc /\ doc # None BY <2>6, <3>1, <4>2, <4>4
          <5>2. ~moved => \A k \in DOMAIN ConfigColumns :
                  doc.cells[k] # Null => doc.cells[k] = Cell(i, rows[i], ConfigColumns[k])
            BY <2>5, <3>1, <4>4
          <5> QED BY <1>1, <4>4, <5>1, <5>2 DEF Shows
        <4> QED BY <4>3, <4>4
      <3>2. CASE i # e.id
        <4>1. i \in Ids \ (excused \cup Unparsable) /\ \A f \in dlq : f.id # i BY <1>4, <2>1, <3>2
        <4>2. Shows(i) BY <2>4, <4>1 DEF IInv, Settled, Pending
        <4>3. docs'[i] = docs[i] BY <1>6, <2>1, <3>2
        <4> QED BY <1>1, <4>2, <4>3 DEF Shows
      <3> QED BY <3>1, <3>2
    <2> QED BY <2>4, <2>7, <2>8 DEF IInv
  <1> QED BY <1>2, <1>7, <1>8

----------------------------------------------------------------------------
(* A delivery.                                                              *)

\* What the first transaction's events become.
LEMMA ActionFacts ==
  ASSUME IInv, wal # <<>>, cache = Announced,
         NEW actions, actions = Actions(Upcoming), NEW txn, txn = Upcoming
  PROVE  /\ txn \in Seq(Changes) /\ DOMAIN actions \subseteq DOMAIN txn
         /\ \A k \in DOMAIN txn :
              /\ Shape(txn[k]) /\ (~moved => Extends(txn[k].layout))
              /\ IF txn[k].op # "delete" THEN IdIn(txn[k].new) = NewId(txn[k]) ELSE TRUE
              /\ IF txn[k].op # "insert" THEN IdIn(txn[k].old) = OldId(txn[k]) ELSE TRUE
              /\ IdOf(txn[k]) = IF txn[k].op # "delete" THEN NewId(txn[k]) ELSE OldId(txn[k])
              /\ IdOf(txn[k]) \in Ids /\ Touches(txn[k], IdOf(txn[k]))
              /\ IdOf(txn[k]) \notin Unparsable => k \in DOMAIN actions
         /\ \A k \in DOMAIN actions :
              /\ actions[k].id = IdOf(txn[k]) /\ actions[k].op = txn[k].op /\ txn[k].op \in Ops
              /\ txn[k].op # "delete" =>
                   /\ actions[k].doc \in Docs /\ actions[k].doc # None
                   /\ actions[k].doc.cells = Extract(txn[k].new) /\ Fits(txn[k].new, txn[k].layout)
  <1>0. wal \in Seq(Seq(Changes)) /\ 1 \in DOMAIN wal /\ txn = wal[1]
    <2>1. wal \in Seq(Seq(Changes)) BY DEF IInv, TypeOK
    <2>2. 1 \in DOMAIN wal BY <2>1, EmptySeq
    <2> QED BY <2>1, <2>2 DEF Upcoming
  <1>1. txn \in Seq(Changes)
    <2>1. 1 \in 1 .. Len(wal) BY <1>0
    <2> QED BY <1>0, <2>1, ElementOfSeq
  <1>2. txn # <<>> /\ \A k \in DOMAIN txn : Shape(txn[k]) /\ txn[k].layout = txn[1].layout
    BY <1>0 DEF IInv, Transactions
  <1>3. cache = txn[1].layout BY DEF Announced
  <1>4. 1 \in DOMAIN txn BY <1>1, <1>2, EmptySeq
  <1>5. "id" \in Range(cache) BY <1>2, <1>3, <1>4 DEF Shape
  <1>6. /\ actions = [k \in Routed(txn) |-> Action(txn[k], "stream")] /\ DOMAIN actions = Routed(txn)
        /\ Routed(txn) \subseteq DOMAIN txn
    BY DEF Actions, Routed
  <1>7. ASSUME NEW k \in DOMAIN txn
        PROVE  /\ Shape(txn[k]) /\ (~moved => Extends(txn[k].layout))
               /\ IF txn[k].op # "delete" THEN IdIn(txn[k].new) = NewId(txn[k]) ELSE TRUE
               /\ IF txn[k].op # "insert" THEN IdIn(txn[k].old) = OldId(txn[k]) ELSE TRUE
               /\ IdOf(txn[k]) = IF txn[k].op # "delete" THEN NewId(txn[k]) ELSE OldId(txn[k])
               /\ IdOf(txn[k]) \in Ids /\ Touches(txn[k], IdOf(txn[k]))
               /\ IdOf(txn[k]) \notin Unparsable => k \in DOMAIN actions
    <2> PICK ch : ch = txn[k] OBVIOUS
    <2>1. Shape(ch) /\ ch.layout = cache BY <1>2, <1>3
    <2>2. ~moved => Extends(ch.layout) BY <1>0, <1>7 DEF IInv, Positions
    <2>3. \A t : IdIn(t) = IdAt(t, cache) BY DEF IdIn, IdAt
    <2>4. IdIn(ch.new) = NewId(ch) /\ IdIn(ch.old) = OldId(ch) BY <2>1, <2>3 DEF NewId, OldId
    <2>5. CASE ch.op = "delete"
      <3>1. ch.new = None /\ Fits(ch.old, ch.layout) BY <2>1, <2>5 DEF Shape
      <3>2. IdOf(ch) = OldId(ch) BY <2>4, <3>1 DEF IdOf
      <3>3. OldId(ch) \in Ids /\ ch.old # None BY <3>1, NoneAssumption DEF Fits, OldId
      <3>4. Touches(ch, IdOf(ch)) BY <3>2, <3>3 DEF Touches
      <3>5. IdOf(ch) \notin Unparsable => k \in DOMAIN actions BY <1>5, <1>6, <1>7 DEF Routed, Parses
      <3> QED BY <2>1, <2>2, <2>4, <2>5, <3>2, <3>3, <3>4, <3>5
    <2>6. CASE ch.op # "delete"
      <3>1. Fits(ch.new, ch.layout) BY <2>1, <2>6 DEF Shape
      <3>2. ch.new # None /\ NewId(ch) \in Ids BY <3>1, NoneAssumption DEF Fits, NewId
      <3>3. IdOf(ch) = NewId(ch) BY <2>4, <3>2 DEF IdOf
      <3>4. Touches(ch, IdOf(ch)) BY <3>2, <3>3 DEF Touches
      <3>5. IdOf(ch) \notin Unparsable => k \in DOMAIN actions BY <1>5, <1>6, <1>7 DEF Routed, Parses
      <3> QED BY <2>1, <2>2, <2>4, <2>6, <3>2, <3>3, <3>4, <3>5
    <2> QED BY <2>5, <2>6
  <1>8. ASSUME NEW k \in DOMAIN actions
        PROVE  /\ actions[k].id = IdOf(txn[k]) /\ actions[k].op = txn[k].op /\ txn[k].op \in Ops
               /\ txn[k].op # "delete" =>
                    /\ actions[k].doc \in Docs /\ actions[k].doc # None
                    /\ actions[k].doc.cells = Extract(txn[k].new) /\ Fits(txn[k].new, txn[k].layout)
    <2> PICK ch : ch = txn[k] OBVIOUS
    <2>1. k \in DOMAIN txn /\ Shape(ch) /\ ch \in Changes BY <1>2, <1>6 DEF Shape
    <2>2. actions[k] = Action(ch, "stream") BY <1>6
    <2>3. actions[k].id = IdOf(ch) /\ actions[k].op = ch.op BY <2>2 DEF Action
    <2>4. ASSUME ch.op # "delete"
          PROVE  /\ actions[k].doc \in Docs /\ actions[k].doc # None
                 /\ actions[k].doc.cells = Extract(ch.new) /\ Fits(ch.new, ch.layout)
      <3>1. Fits(ch.new, ch.layout) BY <2>1, <2>4 DEF Shape
      <3>2. Extract(ch.new) \in [DOMAIN ConfigColumns -> Cells \cup {Null}] BY <3>1, ExtractType DEF Fits
      <3>3. actions[k].doc = [by |-> "stream", cells |-> Extract(ch.new)] BY <2>2, <2>4 DEF Action
      <3> QED BY <3>1, <3>2, <3>3, NoneAssumption DEF Docs
    <2> QED BY <2>1, <2>3, <2>4 DEF Changes
  <1> QED BY <1>1, <1>6, <1>7, <1>8

\* The last upsert of an id in a batch, if it has one.
LEMMA LastUpsert ==
  ASSUME NEW n \in Nat, NEW actions, DOMAIN actions \subseteq 1 .. n, NEW i, Upserted(actions, i) # {}
  PROVE  /\ Max(Upserted(actions, i)) \in DOMAIN actions
         /\ actions[Max(Upserted(actions, i))].id = i /\ actions[Max(Upserted(actions, i))].op # "delete"
         /\ \A k \in DOMAIN actions : actions[k].id = i /\ actions[k].op # "delete" => k <= Max(Upserted(actions, i))
  <1> DEFINE U == Upserted(actions, i)
  <1>1. U \in SUBSET (1 .. n) BY DEF Upserted
  <1>2. Max(U) \in U /\ \A k \in U : k <= Max(U) BY <1>1, MaxOf
  <1> QED BY <1>2 DEF Upserted

\* The documents one write leaves: each is gone, as it was, or an event's own.
LEMMA SentFacts ==
  ASSUME IInv, wal # <<>>, cache = Announced, NEW actions, actions = Actions(Upcoming),
         NEW deletesWin \in BOOLEAN, docs' = Sent(actions, deletesWin), NEW i \in Ids
  PROVE  /\ Deleted(actions) \subseteq Ids
         /\ Upserted(actions, i) = {} => docs'[i] = IF i \in Deleted(actions) THEN None ELSE docs[i]
         /\ Upserted(actions, i) # {} /\ i \notin Deleted(actions) =>
              docs'[i] = actions[Max(Upserted(actions, i))].doc
         /\ \/ docs'[i] \in {None, docs[i]}
            \/ \E k \in DOMAIN actions : actions[k].op # "delete" /\ docs'[i] = actions[k].doc
  <1> PICK txn : txn = Upcoming OBVIOUS
  <1>1. /\ txn \in Seq(Changes) /\ DOMAIN actions \subseteq DOMAIN txn
        /\ \A k \in DOMAIN actions : actions[k].id \in Ids
    BY ActionFacts
  <1>2. Len(txn) \in Nat /\ DOMAIN txn = 1 .. Len(txn) BY <1>1
  <1>3. docs'[i] = IF i \in Deleted(actions) /\ (deletesWin \/ Upserted(actions, i) = {}) THEN None
                   ELSE IF Upserted(actions, i) # {} THEN actions[Max(Upserted(actions, i))].doc
                   ELSE docs[i]
    BY DEF Sent
  <1>4. Deleted(actions) \subseteq Ids BY <1>1 DEF Deleted
  <1>5. Upserted(actions, i) # {} =>
          Max(Upserted(actions, i)) \in DOMAIN actions /\ actions[Max(Upserted(actions, i))].op # "delete"
    BY <1>1, <1>2, LastUpsert
  <1> QED BY <1>3, <1>4, <1>5

\* What a delivery writes is in each column's own place.
LEMMA DeliverKeepsColumns ==
  ASSUME IInv, wal # <<>>, cache = Announced, pc # "down", moved' = moved,
         NEW actions, actions = Actions(Upcoming),
         docs' = docs \/ \E deletesWin \in BOOLEAN : docs' = Sent(actions, deletesWin)
  PROVE  OwnColumns'
  <1> SUFFICES ASSUME ~moved, NEW i \in Ids, docs'[i] # None, docs'[i].by # "backfill",
                      NEW k \in DOMAIN ConfigColumns, docs'[i].cells[k] # Null
               PROVE  docs'[i].cells[k].col = ConfigColumns[k]
    BY DEF OwnColumns, Misplaced
  <1> PICK txn : txn = Upcoming OBVIOUS
  <1>1. CASE docs'[i] = docs[i] BY <1>1 DEF IInv, OwnColumns, Misplaced
  <1>2. CASE \E j \in DOMAIN actions : actions[j].op # "delete" /\ docs'[i] = actions[j].doc
    <2>1. PICK j \in DOMAIN actions : actions[j].op # "delete" /\ docs'[i] = actions[j].doc BY <1>2
    <2> PICK ch : ch = txn[j] OBVIOUS
    <2>2. j \in DOMAIN txn BY ActionFacts
    <2>3. /\ Extends(ch.layout) /\ docs'[i].cells = Extract(ch.new)
          /\ Fits(ch.new, ch.layout)
      BY <2>1, <2>2, ActionFacts
    <2> PICK tuple, names : tuple = ch.new /\ names = ch.layout OBVIOUS
    <2>4. DOMAIN tuple = DOMAIN names /\ \A p \in DOMAIN names : tuple[p] = Unchanged \/ tuple[p].col = names[p]
      BY <2>3 DEF Fits
    <2>5. PICK p \in DOMAIN names :
            names[p] = ConfigColumns[k] /\ tuple[p] # Unchanged /\ Extract(tuple)[k] = tuple[p]
      BY <2>3, <2>4, ExtractOwn
    <2> QED BY <2>3, <2>4, <2>5
  <1>3. docs'[i] = docs[i] \/ \E j \in DOMAIN actions : actions[j].op # "delete" /\ docs'[i] = actions[j].doc
    <2>1. CASE docs' = docs BY <2>1
    <2>2. CASE \E deletesWin \in BOOLEAN : docs' = Sent(actions, deletesWin) BY <2>2, SentFacts
    <2> QED BY <2>1, <2>2
  <1> QED BY <1>1, <1>2, <1>3

\* The last change of an id in the first transaction, when nothing later touches it.
LEMMA LastTouch ==
  ASSUME IInv, wal # <<>>, NEW i \in Ids, Touching(Upcoming, i) # {},
         \A t \in DOMAIN wal : t = 1 \/ Touching(wal[t], i) = {}
  PROVE  \E m \in Touching(Upcoming, i) :
           Tells(Upcoming[m], i, rows[i]) /\ \A j \in Touching(Upcoming, i) : j <= m
  <1>1. wal \in Seq(Seq(Changes)) /\ 1 \in DOMAIN wal /\ Upcoming = wal[1]
    <2>1. wal \in Seq(Seq(Changes)) BY DEF IInv, TypeOK
    <2>2. 1 \in DOMAIN wal BY <2>1, EmptySeq
    <2> QED BY <2>1, <2>2 DEF Upcoming
  <1> PICK txn : txn = wal[1] OBVIOUS
  <1>2. txn \in Seq(Changes)
    <2>1. 1 \in 1 .. Len(wal) BY <1>1
    <2> QED BY <1>1, <2>1, ElementOfSeq
  <1>3. Len(txn) \in Nat /\ Touching(txn, i) \in SUBSET (1 .. Len(txn)) BY <1>2 DEF Touching
  <1> DEFINE m == Max(Touching(txn, i))
  <1>4. m \in Touching(txn, i) /\ \A j \in Touching(txn, i) : j <= m BY <1>1, <1>3, MaxOf
  <1> HIDE DEF m
  <1>5. \A u \in DOMAIN wal : u > 1 => Touching(wal[u], i) = {} OBVIOUS
  <1>6. Tells(txn[m], i, rows[i]) BY <1>1, <1>4, <1>5 DEF IInv, Latest
  <1> QED BY <1>1, <1>4, <1>6

\* An id that only the delivered transaction touched shows its row.
LEMMA DeliverShows ==
  ASSUME IInv, wal # <<>>, cache = Announced, pc # "down", UNCHANGED <<rows, moved>>,
         NEW actions, actions = Actions(Upcoming),
         NEW deletesWin \in BOOLEAN, docs' = Sent(actions, deletesWin),
         NEW i \in Ids \ Unparsable, i \notin Both(actions), i \notin LeftBehind(Upcoming),
         Touching(Upcoming, i) # {}, \A t \in DOMAIN wal : t = 1 \/ Touching(wal[t], i) = {}
  PROVE  Shows(i)'
  <1> PICK txn : txn = Upcoming OBVIOUS
  <1>1. PICK m \in Touching(txn, i) : Tells(txn[m], i, rows[i]) /\ \A j \in Touching(txn, i) : j <= m
    BY LastTouch
  <1> PICK ch : ch = txn[m] OBVIOUS
  <1>2. m \in DOMAIN txn BY DEF Touching
  <1>3. Shape(ch) /\ ch.op \in Ops BY <1>2, ActionFacts DEF Shape, Changes
  <1>4. ~MovesAway(ch, i)
    <2> SUFFICES ASSUME MovesAway(ch, i) PROVE FALSE OBVIOUS
    <2>1. ch.op = "update" /\ OldId(ch) = i /\ NewId(ch) # i BY DEF MovesAway
    <2>2. IdIn(ch.old) = OldId(ch) /\ IdIn(ch.new) = NewId(ch) BY <1>2, <2>1, ActionFacts
    <2> QED BY <1>2, <2>1, <2>2 DEF LeftBehind
  <1>5. CASE rows[i] = None
    <2>1. Removes(ch, i) BY <1>1, <1>4, <1>5 DEF Tells
    <2>2. ch.op = "delete" /\ IdOf(ch) = i BY <1>2, <2>1, ActionFacts DEF Removes
    <2>3. m \in DOMAIN actions /\ actions[m].id = i /\ actions[m].op = "delete" BY <1>2, <2>2, ActionFacts
    <2>4. i \in Deleted(actions) BY <2>3 DEF Deleted
    <2>5. Upserted(actions, i) = {} BY <2>4 DEF Both
    <2>6. docs'[i] = None BY <2>4, <2>5, SentFacts
    <2> QED BY <1>5, <2>6 DEF Shows
  <1>6. CASE rows[i] # None
    <2>1. /\ ch.op # "delete" /\ NewId(ch) = i
          /\ \A p \in DOMAIN ch.layout : ch.new[p] = Unchanged \/ ch.new[p] = Cell(i, rows[i], ch.layout[p])
      BY <1>1, <1>6 DEF Tells, Writes
    <2>2. IdOf(ch) = i BY <1>2, <2>1, ActionFacts
    <2>3. m \in DOMAIN actions /\ actions[m].id = i /\ actions[m].op # "delete" BY <1>2, <2>1, <2>2, ActionFacts
    <2>4. m \in Upserted(actions, i) /\ i \notin Deleted(actions) BY <2>3 DEF Upserted, Both
    <2>5. Max(Upserted(actions, i)) = m
      <3> DEFINE x == Max(Upserted(actions, i))
      <3>1. txn \in Seq(Changes) /\ DOMAIN actions \subseteq DOMAIN txn BY ActionFacts
      <3>2. Len(txn) \in Nat /\ DOMAIN txn = 1 .. Len(txn) BY <3>1
      <3>3. x \in DOMAIN actions /\ actions[x].id = i /\ m <= x BY <2>3, <2>4, <3>1, <3>2, LastUpsert
      <3> HIDE DEF x
      <3>4. x \in DOMAIN txn /\ Touches(txn[x], i) BY <3>1, <3>3, ActionFacts
      <3>5. x <= m BY <1>1, <3>4 DEF Touching
      <3>6. x = m BY <1>2, <3>2, <3>3, <3>4, <3>5
      <3> QED BY <3>6 DEF x
    <2>6. docs'[i] = actions[m].doc BY <2>4, <2>5, SentFacts
    <2>7. docs'[i] # None /\ docs'[i].cells = Extract(ch.new) /\ Fits(ch.new, ch.layout)
      BY <2>1, <2>3, <2>6, ActionFacts
    <2>8. ASSUME ~moved, NEW k \in DOMAIN ConfigColumns, docs'[i].cells[k] # Null
          PROVE  docs'[i].cells[k] = Cell(i, rows[i], ConfigColumns[k])
      <3> PICK tuple, names : tuple = ch.new /\ names = ch.layout OBVIOUS
      <3>1. Extends(names) /\ DOMAIN tuple = DOMAIN names BY <1>2, <2>7, <2>8, ActionFacts DEF Fits
      <3>2. PICK p \in DOMAIN names :
              names[p] = ConfigColumns[k] /\ tuple[p] # Unchanged /\ Extract(tuple)[k] = tuple[p]
        BY <2>7, <2>8, <3>1, ExtractOwn
      <3> QED BY <2>1, <2>7, <3>2
    <2> QED BY <1>6, <2>7, <2>8 DEF Shows
  <1> QED BY <1>5, <1>6

LEMMA DeliverInv == IInv /\ Deliver => IInv'
  <1> SUFFICES ASSUME IInv, Deliver PROVE IInv' OBVIOUS
  <1> PICK actions : actions = Actions(Upcoming) OBVIOUS
  <1>0. pc = "stream" /\ wal # <<>> /\ cache = Announced /\ UNCHANGED <<source, covered>> BY DEF Deliver
  <1>1. UNCHANGED <<layout, rows, writes, moved>> BY <1>0 DEF source
  <1> DEFINE Sends == /\ \E deletesWin \in BOOLEAN : docs' = Sent(actions, deletesWin)
                      /\ excused' = (excused \ {actions[k].id : k \in DOMAIN actions})
                                       \cup Both(actions) \cup LeftBehind(Upcoming)
                      /\ dlq' = dlq
             Buries == /\ dlq' = dlq \cup NewEntries(actions)
                       /\ excused' = excused \cup LeftBehind(Upcoming)
                       /\ docs' = docs
  <1>2. Sends \/ Buries BY DEF Deliver
  <1>3. wal' = wal \/ (wal # <<>> /\ wal' = Tail(wal)) BY <1>0 DEF Deliver
  <1>4. UNCHANGED run \/ pc' = "down" BY DEF Deliver, Down
  <1>5. /\ docs \in [Ids -> Docs \cup {None}] /\ excused \subseteq Ids
        /\ dlq \subseteq [id : Ids, op : Ops]
    BY DEF IInv, TypeOK
  <1>6. \A k \in DOMAIN actions : actions[k].id \in Ids /\ actions[k].op \in Ops BY <1>0, ActionFacts
  <1>7. dlq' \subseteq [id : Ids, op : Ops] /\ dlq \subseteq dlq' BY <1>2, <1>5, <1>6 DEF NewEntries
  <1>8. LeftBehind(Upcoming) \subseteq Ids
    <2> PICK txn : txn = Upcoming OBVIOUS
    <2>1. ASSUME NEW k \in DOMAIN txn, txn[k].op = "update" PROVE IdIn(txn[k].old) \in Ids
      <3>1. IdIn(txn[k].old) = OldId(txn[k]) /\ Shape(txn[k]) BY <1>0, <2>1, ActionFacts
      <3>2. Fits(txn[k].old, txn[k].layout) BY <2>1, <3>1 DEF Shape
      <3> QED BY <3>1, <3>2 DEF Fits, OldId
    <2> QED BY <2>1 DEF LeftBehind
  <1>9. excused' \subseteq Ids
    <2>1. Both(actions) \subseteq Ids BY <1>6 DEF Both, Deleted
    <2> QED BY <1>2, <1>5, <1>8, <2>1
  <1>10. docs' \in [Ids -> Docs \cup {None}]
    <2>1. CASE Buries BY <1>5, <2>1
    <2>2. CASE Sends
      <3>1. PICK deletesWin \in BOOLEAN : docs' = Sent(actions, deletesWin) BY <2>2
      <3>2. \A k \in DOMAIN actions : actions[k].op # "delete" => actions[k].doc \in Docs
        BY <1>0, ActionFacts
      <3>3. \A i \in Ids : docs'[i] \in Docs \cup {None} BY <1>0, <1>5, <3>1, <3>2, SentFacts
      <3> QED BY <3>1, <3>3 DEF Sent
    <2> QED BY <1>2, <2>1, <2>2
  <1>11. /\ TypeOK' /\ Transactions' /\ Latest' /\ Positions' /\ Stages' /\ covered
         /\ (wal' = wal \/ \A t \in DOMAIN wal : t = 1 \/ \E u \in DOMAIN wal' : wal'[u] = wal[t])
    BY <1>0, <1>3, <1>4, <1>7, <1>9, <1>10, StreamStep
  <1>12. OwnColumns'
    <2>1. docs' = docs \/ \E deletesWin \in BOOLEAN : docs' = Sent(actions, deletesWin) BY <1>2
    <2> QED BY <1>0, <1>1, <2>1, DeliverKeepsColumns
  <1>13. Settled'
    <2> SUFFICES ASSUME NEW i \in Ids \ (excused' \cup Unparsable),
                        \A t \in DOMAIN wal' : Touching(wal'[t], i) = {}, \A e \in dlq' : e.id # i
                 PROVE  Shows(i)'
      BY <1>1 DEF Settled, Pending
    <2>1. i \notin LeftBehind(Upcoming) BY <1>2
    <2>2. \A t \in DOMAIN wal : t = 1 \/ Touching(wal[t], i) = {} BY <1>11
    <2>3. 1 \in DOMAIN wal /\ Upcoming = wal[1]
      <3>1. wal \in Seq(Seq(Changes)) BY DEF IInv, TypeOK
      <3>2. 1 \in DOMAIN wal BY <1>0, <3>1, EmptySeq
      <3> QED BY <3>1, <3>2 DEF Upcoming
    <2> PICK txn : txn = Upcoming OBVIOUS
    <2>4. CASE Touching(txn, i) # {}
      <3>1. PICK m \in Touching(txn, i) : Tells(txn[m], i, rows[i])
        BY <1>0, <2>2, <2>4, LastTouch
      <3>2. CASE Sends
        <4>1. i \notin Both(actions) BY <3>2
        <4>2. PICK deletesWin \in BOOLEAN : docs' = Sent(actions, deletesWin) BY <3>2
        <4> QED BY <1>0, <1>1, <2>1, <2>2, <2>4, <4>1, <4>2, DeliverShows
      <3>3. CASE Buries   \* its dead letter is left
        <4> PICK ch : ch = txn[m] OBVIOUS
        <4>1. m \in DOMAIN txn BY DEF Touching
        <4>2. ~MovesAway(ch, i)
          <5> SUFFICES ASSUME MovesAway(ch, i) PROVE FALSE OBVIOUS
          <5>1. ch.op = "update" /\ OldId(ch) = i /\ NewId(ch) # i BY DEF MovesAway
          <5>2. IdIn(ch.old) = OldId(ch) /\ IdIn(ch.new) = NewId(ch) BY <1>0, <4>1, <5>1, ActionFacts
          <5> QED BY <2>1, <4>1, <5>1, <5>2 DEF LeftBehind
        <4>3. IdOf(ch) = i
          <5>1. Removes(ch, i) \/ Writes(ch, i, rows[i]) BY <3>1, <4>2 DEF Tells
          <5> QED BY <1>0, <4>1, <5>1, ActionFacts DEF Removes, Writes
        <4>4. m \in DOMAIN actions /\ actions[m].id = i BY <1>0, <4>1, <4>3, ActionFacts
        <4>5. [id |-> actions[m].id, op |-> actions[m].op] \in dlq' BY <3>3, <4>4 DEF NewEntries
        <4> QED BY <4>4, <4>5
      <3> QED BY <1>2, <3>2, <3>3
    <2>5. CASE Touching(txn, i) = {}
      <3>1. \A k \in DOMAIN actions : actions[k].id # i
        <4>1. \A k \in DOMAIN actions : k \in DOMAIN txn /\ Touches(txn[k], actions[k].id) BY <1>0, ActionFacts
        <4> QED BY <2>5, <4>1 DEF Touching
      <3>2. i \notin excused BY <1>2, <3>1
      <3>3. ~Pending(i) BY <2>2, <2>3, <2>5 DEF Pending
      <3>4. Shows(i) BY <1>7, <1>11, <3>2, <3>3 DEF IInv, Settled
      <3>5. docs'[i] = docs[i]
        <4>1. Upserted(actions, i) = {} /\ i \notin Deleted(actions) BY <3>1 DEF Upserted, Deleted
        <4>2. CASE Sends
          <5>1. PICK deletesWin \in BOOLEAN : docs' = Sent(actions, deletesWin) BY <4>2
          <5> QED BY <1>0, <4>1, <5>1, SentFacts
        <4> QED BY <1>2, <4>2
      <3> QED BY <1>1, <3>4, <3>5 DEF Shows
    <2> QED BY <2>4, <2>5
  <1> QED BY <1>11, <1>12, <1>13 DEF IInv

----------------------------------------------------------------------------
(* The theorems.                                                            *)

LEMMA NextInv == IInv /\ [Next]_vars => IInv'
  <1> SUFFICES ASSUME IInv, [Next]_vars PROVE IInv' OBVIOUS
  <1>1. CASE UNCHANGED vars
    <2>1. UNCHANGED <<table, covered, dlq, docs, excused>> /\ UNCHANGED <<pc, reindex>>
      BY <1>1 DEF vars, run
    <2> QED BY <2>1, RunStep DEF IInv, TypeOK, Stages, Positions
  <1>2. CASE Next
    BY <1>2, CommitInv, AddColumnInv, DropColumnInv, SetUpInv, BackfillInv, RelationInv, DeliverInv,
       ReplayInv, CrashInv DEF Next
  <1> QED BY <1>1, <1>2

\* Types, well-formed transactions, the newest change of every row in the WAL, stable
\* positions and settled ids hold in every state (streaming.rs, process_config_events).
THEOREM Inductive == Spec => []IInv
  <1> QED BY InitInv, NextInv, PTL DEF Spec

\* No document the stream or a replay wrote shows another column's value, for any
\* table, list of columns, rows, writes and columns added (extract_columns).
THEOREM ColumnsAreOwn == Spec => []OwnColumns
  <1>1. IInv => OwnColumns BY DEF IInv
  <1> QED BY Inductive, <1>1, PTL

\* Whenever everything committed is handled and no dead letter is left, the documents
\* are the rows, but for the excused (process_config_events, dlq replay).
THEOREM MirrorsOnceSettled == Spec => []SettledMirrors
  <1>1. IInv => SettledMirrors
    <2> SUFFICES ASSUME IInv, pc = "stream", wal = <<>>, dlq = {}, NEW i \in Ids \ (excused \cup Unparsable)
                 PROVE  Shows(i)
      BY DEF SettledMirrors, Shows
    <2>1. covered BY DEF IInv, Stages
    <2>2. ~Pending(i) BY DEF Pending
    <2> QED BY <2>1, <2>2 DEF IInv, Settled
  <1> QED BY Inductive, <1>1, PTL
=============================================================================
