------------------------- MODULE SlotHandoverProofs -------------------------
(* Theorems about SlotHandover, for every number of processes and configs.  *)
EXTENDS SlotHandover, SequenceTheorems, WellFoundedInduction, TLAPS

Places == {"down", "setup", "add", "drop", "backfill", "terminate", "poll", "load",
           "connect", "recv", "save"}
Connected(i) == pc[i] \in {"recv", "save"}
Lsns == Nat \cup {NoLsn}

Elems(s)     == {s[p] : p \in 1 .. Len(s)}
Ascending(s) == \A p, q \in 1 .. Len(s) : p < q => s[p] < s[q]

TypeOK ==
  /\ wal \in Seq([of : Configs, published : BOOLEAN])
  /\ publication \subseteq Configs /\ confirmed \in Nat
  /\ holder \in Instances \cup {Nobody} /\ dying \in BOOLEAN
  /\ watermark \in [Configs -> Lsns] /\ cp \in [Configs -> Lsns]
  /\ doc \in [Configs -> Nat] /\ delivered \in [Configs -> SUBSET Nat] /\ overlapped \subseteq Configs
  /\ pc \in [Instances -> Places]
  /\ missing \in [Instances -> SUBSET Configs] /\ stale \in [Instances -> SUBSET Configs]
  /\ mem \in [Instances -> [Configs -> Lsns]] /\ start \in [Instances -> Nat]
  /\ buffer \in [Instances -> Seq(Nat)] /\ pos \in [Instances -> Nat]
  /\ hand \in [Instances -> Nat] /\ applied \in [Instances -> Nat]
  /\ cut \in [Instances -> BOOLEAN]

\* Every position is within the WAL.
Bounds ==
  /\ confirmed <= Len(wal)
  /\ \A c \in Configs : watermark[c] <= Len(wal) /\ cp[c] <= Len(wal)
  /\ \A i \in Instances :
       /\ pos[i] <= Len(wal) /\ hand[i] <= Len(wal) /\ applied[i] <= Len(wal)
       /\ start[i] <= Len(wal)
       /\ \A c \in Configs : mem[i][c] <= Len(wal)

\* No process takes the table of a shared config out of the publication, so
\* that Postgres sends every change of it.
Members ==
  /\ Shared \subseteq publication /\ \A i \in Instances : stale[i] \cap Shared = {}
  /\ \A n \in 1 .. Len(wal) : wal[n].of \in Shared => wal[n].published

\* A shared config is not backfilled again, nor does a process ask for less
\* than the slot still has.
Registered ==
  /\ \A c \in Shared : watermark[c] = 0 /\ cp[c] # NoLsn
  /\ Shared # {} => \A i \in Instances : start[i] = 0

\* What a client has received and not yet handled.
Buffers ==
  \A i \in Instances :
    /\ ~Connected(i) => buffer[i] = <<>>
    /\ Ascending(buffer[i]) /\ \A x \in Elems(buffer[i]) : x >= 1 /\ x <= pos[i]
    /\ pc[i] = "save" => hand[i] <= pos[i] /\ \A x \in Elems(buffer[i]) : hand[i] < x
    /\ Connected(i) /\ holder # i => cut[i]

\* Everything of c up to l has reached its namespace.
Safe(c, l) == \A n \in ChangesOf(c) : n <= l => n \in delivered[c]

\* Process i is past change n.
Passed(i, n) == n <= pos[i] /\ n \notin Elems(buffer[i])

\* A connected process has passed nothing that was not delivered, by it or by
\* another, and it passes changes in order.
InOrder ==
  \A i \in Instances : Connected(i) => \A c \in Shared : \A n \in ChangesOf(c) : Passed(i, n) =>
    /\ n \in delivered[c]
    /\ \A x \in Elems(buffer[i]) : n < x

\* Nothing anybody may acknowledge or resume from is past an undelivered change.
NothingLost ==
  \A c \in Shared :
    /\ Safe(c, confirmed) /\ Safe(c, cp[c])
    /\ \A i \in Instances :
         /\ Safe(c, applied[i]) /\ Safe(c, mem[i][c])
         /\ pc[i] = "save" => Safe(c, hand[i])

\* The document of c is not older than any change of c up to l.
Shown(c, l) == \A n \in ChangesOf(c) : n <= l => n <= doc[c]

\* As long as nobody has written a config for another to undo, its checkpoint
\* bounds what is remembered and acknowledged anywhere, and its document shows
\* all the checkpoint and the process on the slot have passed.
Fresh ==
  \A c \in Shared \ overlapped :
    /\ doc[c] \in ChangesOf(c) \cup {0}
    /\ confirmed <= cp[c] /\ Shown(c, cp[c])
    /\ \A i \in Instances :
         /\ applied[i] <= cp[c] /\ mem[i][c] <= cp[c]
         /\ Attached(i) => \A n \in ChangesOf(c) : Passed(i, n) => n <= doc[c]

Frame == TypeOK /\ Bounds /\ Members /\ Registered /\ Buffers
IInv  == Frame /\ InOrder /\ NothingLost /\ Fresh

----------------------------------------------------------------------------
(* Lemmas on the operators.                                                *)

LEMMA AppendElems ==
  ASSUME NEW s \in Seq(Nat), NEW n \in Nat
  PROVE  /\ Append(s, n) \in Seq(Nat)
         /\ Elems(Append(s, n)) = Elems(s) \cup {n}
         /\ Ascending(s) /\ (\A x \in Elems(s) : x < n) => Ascending(Append(s, n))
  <1> DEFINE t == Append(s, n)
  <1>1. /\ t \in Seq(Nat) /\ Len(s) \in Nat /\ Len(t) = Len(s) + 1 /\ t[Len(s) + 1] = n
        /\ \A p \in 1 .. Len(s) : t[p] = s[p]
    OBVIOUS
  <1> HIDE DEF t
  <1>2. Elems(t) = Elems(s) \cup {n}
    <2>1. \A p \in 1 .. Len(t) : p = Len(s) + 1 \/ p \in 1 .. Len(s) BY <1>1
    <2>2. \A p \in 1 .. Len(s) : p \in 1 .. Len(t) BY <1>1
    <2>3. Len(s) + 1 \in 1 .. Len(t) BY <1>1
    <2>4. Elems(t) \subseteq Elems(s) \cup {n} BY <1>1, <2>1 DEF Elems
    <2>5. Elems(s) \subseteq Elems(t) BY <1>1, <2>2 DEF Elems
    <2>6. n \in Elems(t) BY <1>1, <2>3 DEF Elems
    <2> QED BY <2>4, <2>5, <2>6
  <1>3. ASSUME Ascending(s), \A x \in Elems(s) : x < n PROVE Ascending(t)
    <2>0. \A q \in 1 .. Len(t) : q = Len(s) + 1 \/ q \in 1 .. Len(s) BY <1>1
    <2>1. \A p \in 1 .. Len(s) : s[p] < n BY <1>3 DEF Elems
    <2> SUFFICES ASSUME NEW p \in 1 .. Len(t), NEW q \in 1 .. Len(t), p < q PROVE t[p] < t[q]
      BY DEF Ascending
    <2>2. p \in 1 .. Len(s) BY <1>1
    <2>3. CASE q = Len(s) + 1 BY <1>1, <2>1, <2>2, <2>3
    <2>4. CASE q \in 1 .. Len(s) BY <1>1, <1>3, <2>2, <2>4 DEF Ascending
    <2> QED BY <2>0, <2>3, <2>4
  <1> QED BY <1>1, <1>2, <1>3 DEF t

LEMMA TailElems ==
  ASSUME NEW s \in Seq(Nat), s # <<>>, Ascending(s)
  PROVE  /\ Head(s) \in Nat /\ Tail(s) \in Seq(Nat)
         /\ Elems(s) = Elems(Tail(s)) \cup {Head(s)}
         /\ \A x \in Elems(Tail(s)) : Head(s) < x
         /\ Ascending(Tail(s))
  <1> DEFINE t == Tail(s)
  <1>1. /\ Head(s) = s[1] /\ Head(s) \in Nat /\ t \in Seq(Nat)
        /\ Len(s) \in Nat /\ Len(s) > 0 /\ Len(t) = Len(s) - 1
        /\ \A p \in 1 .. Len(t) : t[p] = s[p + 1]
    OBVIOUS
  <1> HIDE DEF t
  <1>2. Elems(s) = Elems(t) \cup {Head(s)}
    <2>1. \A p \in 1 .. Len(s) : p = 1 \/ (p - 1 \in 1 .. Len(t) /\ t[p - 1] = s[p]) BY <1>1
    <2>2. \A p \in 1 .. Len(t) : p + 1 \in 1 .. Len(s) BY <1>1
    <2>3. 1 \in 1 .. Len(s) BY <1>1
    <2>4. Elems(s) \subseteq Elems(t) \cup {Head(s)} BY <1>1, <2>1 DEF Elems
    <2>5. Elems(t) \subseteq Elems(s)
      <3>1. \A p \in 1 .. Len(t) : t[p] \in {s[q] : q \in 1 .. Len(s)} BY <1>1, <2>2
      <3> QED BY <3>1 DEF Elems
    <2>6. Head(s) \in Elems(s) BY <1>1, <2>3 DEF Elems
    <2> QED BY <2>4, <2>5, <2>6
  <1>3. \A x \in Elems(t) : Head(s) < x
    <2>1. \A p \in 1 .. Len(t) : 1 < p + 1 /\ p + 1 \in 1 .. Len(s) /\ 1 \in 1 .. Len(s) BY <1>1
    <2> QED BY <1>1, <2>1 DEF Elems, Ascending
  <1>4. Ascending(t)
    <2> SUFFICES ASSUME NEW p \in 1 .. Len(t), NEW q \in 1 .. Len(t), p < q PROVE t[p] < t[q]
      BY DEF Ascending
    <2>1. p + 1 \in 1 .. Len(s) /\ q + 1 \in 1 .. Len(s) /\ p + 1 < q + 1 BY <1>1
    <2> QED BY <1>1, <2>1 DEF Ascending
  <1> QED BY <1>1, <1>2, <1>3, <1>4 DEF t

LEMMA EmptyElems == Elems(<<>>) = {} /\ Ascending(<<>>) /\ <<>> \in Seq(Nat)
  BY DEF Elems, Ascending

\* What is shared is known to every process.
LEMMA SharedConfigs ==
  /\ Shared \subseteq Configs
  /\ \A c \in Shared, i \in Instances : c \in ConfigsOf[i]
  BY DEF Shared

LEMMA ChangesType ==
  ASSUME TypeOK
  PROVE  /\ Len(wal) \in Nat
         /\ \A c : ChangesOf(c) \subseteq 1 .. Len(wal) /\ ChangesOf(c) \subseteq Nat
         /\ \A n \in 1 .. Len(wal) : n \in Nat /\ wal[n] \in [of : Configs, published : BOOLEAN]
  <1>1. wal \in Seq([of : Configs, published : BOOLEAN]) BY DEF TypeOK
  <1>2. Len(wal) \in Nat BY <1>1
  <1>3. \A n \in 1 .. Len(wal) : wal[n] \in [of : Configs, published : BOOLEAN]
    BY <1>1, ElementOfSeq
  <1> QED BY <1>2, <1>3 DEF ChangesOf

\* There is a newest change of every config that has one.
LEMMA NewestType ==
  ASSUME TypeOK, NEW c
  PROVE  Newest(ChangesOf(c)) \in Nat
  <1> DEFINE S == ChangesOf(c)
             M == {Len(wal) - n : n \in S}
  <1>1. Len(wal) \in Nat /\ S \subseteq 1 .. Len(wal) BY ChangesType
  <1> HIDE DEF S
  <1>2. CASE S = {} BY <1>2 DEF Newest, S
  <1>3. CASE S # {}
    <2>1. \A n \in S : Len(wal) - n \in Nat BY <1>1
    <2>2. M \subseteq Nat /\ M # {} BY <1>3, <2>1
    <2> HIDE DEF M
    <2>3. IsWellFoundedOn(OpToRel(<, Nat), Nat) BY NatLessThanWellFounded
    <2>4. PICK m \in M : \A k \in M : ~(<<k, m>> \in OpToRel(<, Nat)) BY <2>2, <2>3, WFMin
    <2>5. \A k \in M : m <= k
      <3>1. \A k \in M : ~(k < m) BY <2>2, <2>4 DEF OpToRel
      <3> QED BY <2>2, <3>1
    <2>6. PICK n \in S : m = Len(wal) - n BY DEF M
    <2>7. \A k \in S : Len(wal) - n <= Len(wal) - k BY <2>5, <2>6 DEF M
    <2>8. \A k \in S : k <= n BY <1>1, <2>7
    <2>9. Newest(S) \in S BY <1>3, <2>8 DEF Newest
    <2> QED BY <1>1, <2>9 DEF S
  <1> QED BY <1>2, <1>3

\* A change that is shared was sent to whoever has gone past it.
LEMMA SharedIsSent ==
  ASSUME Frame, NEW c \in Shared, NEW n \in ChangesOf(c), NEW i \in Instances, n > pos[i]
  PROVE  n \in Unsent(i)
  <1>1. n \in 1 .. Len(wal) /\ wal[n].of = c BY DEF ChangesOf
  <1> QED BY <1>1 DEF Frame, Members, Unsent

----------------------------------------------------------------------------
(* Steps that only move a process, or take its memory.                     *)

\* The part of the state the properties are about.
Kept == UNCHANGED <<wal, confirmed, holder, doc, delivered, overlapped, watermark, cp>>

LEMMA InitIInv == Init => IInv
  <1> SUFFICES ASSUME Init PROVE IInv OBVIOUS
  <1>1. Shared \subseteq Configs /\ NoLsn \in Lsns /\ 0 \in Lsns /\ "down" \in Places
    BY SharedConfigs DEF Lsns, Places
  <1>2. wal = <<>> /\ Len(wal) = 0 BY DEF Init
  <1>3. \A c : ChangesOf(c) = {} BY <1>2 DEF ChangesOf
  <1>4. TypeOK
    <2>1. wal \in Seq([of : Configs, published : BOOLEAN]) BY <1>2
    <2>2. /\ watermark \in [Configs -> Lsns] /\ cp \in [Configs -> Lsns]
          /\ mem \in [Instances -> [Configs -> Lsns]]
      BY <1>1 DEF Init
    <2>3. /\ doc \in [Configs -> Nat] /\ delivered \in [Configs -> SUBSET Nat]
          /\ missing \in [Instances -> SUBSET Configs] /\ stale \in [Instances -> SUBSET Configs]
      BY DEF Init
    <2>4. /\ start \in [Instances -> Nat] /\ pos \in [Instances -> Nat] /\ hand \in [Instances -> Nat]
          /\ applied \in [Instances -> Nat] /\ cut \in [Instances -> BOOLEAN]
          /\ buffer \in [Instances -> Seq(Nat)] /\ pc \in [Instances -> Places]
      BY <1>1, EmptyElems DEF Init
    <2> QED BY <1>1, <2>1, <2>2, <2>3, <2>4 DEF Init, TypeOK
  <1>5. Bounds BY <1>2 DEF Init, Bounds, NoLsn
  <1>6. Members BY <1>2 DEF Init, Members
  <1>7. Registered BY <1>1 DEF Init, Registered, NoLsn
  <1>8. Buffers BY EmptyElems DEF Init, Buffers, Connected
  <1>9. InOrder /\ NothingLost BY <1>3 DEF InOrder, NothingLost, Safe
  <1>10. Fresh BY <1>1, <1>3 DEF Init, Fresh, Shown, NoLsn
  <1> QED BY <1>4, <1>5, <1>6, <1>7, <1>8, <1>9, <1>10 DEF IInv, Frame

\* A run that ends remembers nothing.
LEMMA LeaveStep ==
  ASSUME IInv, NEW i \in Instances, NEW where \in {"setup", "down"}, Leave(i, where),
         Kept, publication' = publication, dying' \in BOOLEAN
  PROVE  IInv'
  <1> USE DEF IInv, Frame
  <1>1. /\ wal' = wal /\ confirmed' = confirmed /\ holder' = holder /\ doc' = doc
        /\ delivered' = delivered /\ overlapped' = overlapped /\ watermark' = watermark /\ cp' = cp
    BY DEF Kept
  <1>2. /\ pc' = [pc EXCEPT ![i] = where]
        /\ missing' = [missing EXCEPT ![i] = {}] /\ stale' = [stale EXCEPT ![i] = {}]
        /\ mem' = [mem EXCEPT ![i] = [c \in Configs |-> NoLsn]]
        /\ start' = [start EXCEPT ![i] = 0]
        /\ buffer' = [buffer EXCEPT ![i] = <<>>] /\ pos' = [pos EXCEPT ![i] = 0]
        /\ hand' = [hand EXCEPT ![i] = 0] /\ applied' = [applied EXCEPT ![i] = 0]
        /\ cut' = [cut EXCEPT ![i] = FALSE]
    BY DEF Leave, Goto
  <1>3. where \in Places /\ NoLsn \in Lsns /\ NoLsn \in Int /\ NoLsn < 0 BY DEF Places, Lsns, NoLsn
  <1>4. TypeOK' BY <1>1, <1>2, <1>3, EmptyElems DEF TypeOK
  <1>13. /\ \A j \in Instances, c \in Configs : mem'[j][c] = IF j = i THEN NoLsn ELSE mem[j][c]
         /\ \A j \in Instances : applied'[j] = IF j = i THEN 0 ELSE applied[j]
    <2>1. \A j \in Instances : mem'[j] = IF j = i THEN [c \in Configs |-> NoLsn] ELSE mem[j]
      BY <1>2 DEF TypeOK
    <2> QED BY <1>2, <2>1 DEF TypeOK
  <1>5. \A c : ChangesOf(c)' = ChangesOf(c) BY <1>1 DEF ChangesOf
  <1>6. \A c : ChangesOf(c) \subseteq 1 .. Len(wal) /\ Len(wal) \in Nat BY ChangesType
  <1>7. Bounds'
    <2>1. Len(wal) \in Nat /\ NoLsn <= Len(wal) BY <1>3, <1>6
    <2>2. \A j \in Instances : pos'[j] <= Len(wal) /\ hand'[j] <= Len(wal)
                              /\ applied'[j] <= Len(wal) /\ start'[j] <= Len(wal)
      BY <1>2, <2>1 DEF Bounds, TypeOK
    <2>3. \A j \in Instances, c \in Configs : mem'[j][c] <= Len(wal)
      BY <1>13, <2>1 DEF Bounds
    <2> QED BY <1>1, <2>2, <2>3 DEF Bounds
  <1>8. Members' /\ Registered' BY <1>1, <1>2 DEF Members, Registered, TypeOK
  <1>9. Buffers' BY <1>1, <1>2, EmptyElems DEF Buffers, TypeOK, Connected
  <1>10. InOrder' BY <1>1, <1>2, <1>5 DEF InOrder, Passed, TypeOK, Connected
  <1>11. NothingLost'
    <2>1. \A c \in Shared : \A n \in ChangesOf(c) : n \in Nat /\ n >= 1 BY <1>6
    <2>2. \A c \in Shared, j \in Instances : Safe(c, applied[j])' /\ Safe(c, mem[j][c])'
      BY <1>1, <1>3, <1>5, <1>13, <2>1, SharedConfigs DEF NothingLost, Safe
    <2>3. \A j \in Instances : pc'[j] = "save" => pc[j] = "save" /\ hand'[j] = hand[j]
      BY <1>2 DEF TypeOK
    <2> QED BY <1>1, <1>5, <2>2, <2>3 DEF NothingLost, Safe
  <1>12. Fresh'
    <2>1. \A c \in Shared : cp[c] \in Nat BY SharedConfigs DEF TypeOK, Registered, Lsns
    <2>2. \A j \in Instances : \A n : Attached(j)' => Attached(j) /\ (Passed(j, n)' <=> Passed(j, n))
      BY <1>1, <1>2 DEF Attached, Passed, TypeOK
    <2>3. \A c \in Shared \ overlapped, j \in Instances : applied'[j] <= cp[c] /\ mem'[j][c] <= cp[c]
      BY <1>3, <1>13, <2>1, SharedConfigs DEF Fresh
    <2> QED BY <1>1, <1>5, <2>2, <2>3 DEF Fresh, Shown
  <1> QED BY <1>4, <1>7, <1>8, <1>9, <1>10, <1>11, <1>12

\* A process that is not connected goes on with its set-up.
LEMMA SetUpStep ==
  ASSUME IInv, NEW i \in Instances, ~Connected(i), NEW where \in Places \ {"recv", "save"},
         pc' = [pc EXCEPT ![i] = where],
         Kept, UNCHANGED <<buffer, pos, hand, applied, cut, mem, start>>, dying' \in BOOLEAN,
         missing' \in [Instances -> SUBSET Configs], stale' \in [Instances -> SUBSET Configs],
         publication' \subseteq Configs, Shared \subseteq publication',
         \A j \in Instances : stale'[j] \cap Shared = {}
  PROVE  IInv'
  <1> USE DEF IInv, Frame
  <1>1. /\ wal' = wal /\ confirmed' = confirmed /\ holder' = holder /\ doc' = doc
        /\ delivered' = delivered /\ overlapped' = overlapped /\ watermark' = watermark /\ cp' = cp
        /\ buffer' = buffer /\ pos' = pos /\ hand' = hand /\ applied' = applied /\ cut' = cut
        /\ mem' = mem /\ start' = start
    BY DEF Kept
  <1>2. TypeOK' BY <1>1 DEF TypeOK
  <1>3. \A c : ChangesOf(c)' = ChangesOf(c) BY <1>1 DEF ChangesOf
  <1>4. \A j \in Instances : pc'[j] \in {"recv", "save"} => pc'[j] = pc[j] BY DEF TypeOK
  <1>5. \A j \in Instances : (Connected(j)' <=> Connected(j)) /\ (Attached(j)' <=> Attached(j))
    BY <1>1 DEF Connected, Attached, TypeOK
  <1>6. Bounds' /\ Members' /\ Registered' BY <1>1 DEF Bounds, Members, Registered
  <1>7. Buffers' BY <1>1, <1>4, <1>5 DEF Buffers
  <1>8. InOrder' BY <1>1, <1>3, <1>5 DEF InOrder, Passed
  <1>9. NothingLost' BY <1>1, <1>3, <1>4 DEF NothingLost, Safe
  <1>10. Fresh' BY <1>1, <1>3, <1>5 DEF Fresh, Shown, Passed
  <1> QED BY <1>2, <1>6, <1>7, <1>8, <1>9, <1>10

LEMMA BootStep ==
  ASSUME IInv, NEW i \in Instances, Boot(i) PROVE IInv'
  <1>1. "setup" \in Places \ {"recv", "save"} BY DEF Places
  <1>2. ~Connected(i) BY DEF Boot, Connected
  <1>3. pc' = [pc EXCEPT ![i] = "setup"] BY DEF Boot, Goto
  <1>4. UNCHANGED <<pgVars, docs, stored, run>> BY DEF Boot
  <1>5. Kept /\ UNCHANGED <<buffer, pos, hand, applied, cut, mem, start, missing, stale, publication, dying>>
    BY <1>4 DEF Kept, pgVars, docs, stored, run, conn, planned
  <1> QED BY <1>1, <1>2, <1>3, <1>5, SetUpStep DEF IInv, Frame, TypeOK, Members

\* The tables to drop are those of no config the process applies.
LEMMA ReadPublicationStep ==
  ASSUME IInv, NEW i \in Instances, ReadPublication(i) PROVE IInv'
  <1>1. "add" \in Places \ {"recv", "save"} BY DEF Places
  <1>2. ~Connected(i) BY DEF ReadPublication, Connected
  <1>3. pc' = [pc EXCEPT ![i] = "add"] BY DEF ReadPublication, Goto
  <1>4. /\ missing' = [missing EXCEPT ![i] = ConfigsOf[i] \ publication]
        /\ stale' = [stale EXCEPT ![i] = publication \ ConfigsOf[i]]
    BY DEF ReadPublication, ComparePublication
  <1>5. Kept /\ UNCHANGED <<buffer, pos, hand, applied, cut, mem, start, publication, dying>>
    BY DEF ReadPublication, Kept, pgVars, docs, stored, conn
  <1>6. ConfigsOf[i] \subseteq Configs BY ConstantsAssumption
  <1>7. /\ missing' \in [Instances -> SUBSET Configs] /\ stale' \in [Instances -> SUBSET Configs]
        /\ \A j \in Instances : stale'[j] \cap Shared = {}
    BY <1>4, <1>6, SharedConfigs DEF IInv, Frame, TypeOK, Members
  <1> QED BY <1>1, <1>2, <1>3, <1>5, <1>7, SetUpStep DEF IInv, Frame, TypeOK, Members

LEMMA AddTablesStep ==
  ASSUME IInv, NEW i \in Instances, AddTables(i) PROVE IInv'
  <1>1. CASE missing[i] \cap publication = {}
    <2>1. "drop" \in Places \ {"recv", "save"} BY DEF Places
    <2>2. ~Connected(i) BY DEF AddTables, Connected
    <2>3. /\ pc' = [pc EXCEPT ![i] = "drop"] /\ publication' = publication \cup missing[i]
          /\ missing' = [missing EXCEPT ![i] = {}] /\ UNCHANGED <<conn, stale, mem, start>>
      BY <1>1 DEF AddTables, Goto
    <2>4. Kept /\ UNCHANGED <<buffer, pos, hand, applied, cut, mem, start, stale, dying>>
      BY <2>3 DEF AddTables, Kept, docs, stored, conn
    <2>5. /\ missing' \in [Instances -> SUBSET Configs] /\ publication' \subseteq Configs
          /\ Shared \subseteq publication' /\ \A j \in Instances : stale'[j] \cap Shared = {}
          /\ stale' \in [Instances -> SUBSET Configs] /\ dying' \in BOOLEAN
      BY <2>3, <2>4 DEF IInv, Frame, TypeOK, Members
    <2> QED BY <2>1, <2>2, <2>3, <2>4, <2>5, SetUpStep
  <1>2. CASE missing[i] \cap publication # {}
    <2>1. Leave(i, "setup") /\ publication' = publication BY <1>2 DEF AddTables, Retry
    <2>2. Kept /\ dying' = dying BY DEF AddTables, Kept, docs, stored
    <2> QED BY <2>1, <2>2, LeaveStep DEF IInv, Frame, TypeOK
  <1> QED BY <1>1, <1>2

LEMMA DropTablesStep ==
  ASSUME IInv, NEW i \in Instances, DropTables(i) PROVE IInv'
  <1>1. CASE stale[i] \subseteq publication
    <2>1. "backfill" \in Places \ {"recv", "save"} BY DEF Places
    <2>2. ~Connected(i) BY DEF DropTables, Connected
    <2>3. /\ pc' = [pc EXCEPT ![i] = "backfill"] /\ publication' = publication \ stale[i]
          /\ stale' = [stale EXCEPT ![i] = {}] /\ UNCHANGED <<conn, missing, mem, start>>
      BY <1>1 DEF DropTables, Goto
    <2>4. Kept /\ UNCHANGED <<buffer, pos, hand, applied, cut, mem, start, missing, dying>>
      BY <2>3 DEF DropTables, Kept, docs, stored, conn
    <2>5. /\ stale' \in [Instances -> SUBSET Configs] /\ publication' \subseteq Configs
          /\ Shared \subseteq publication' /\ \A j \in Instances : stale'[j] \cap Shared = {}
          /\ missing' \in [Instances -> SUBSET Configs] /\ dying' \in BOOLEAN
      BY <2>3, <2>4 DEF IInv, Frame, TypeOK, Members
    <2> QED BY <2>1, <2>2, <2>3, <2>4, <2>5, SetUpStep
  <1>2. CASE ~(stale[i] \subseteq publication)
    <2>1. Leave(i, "setup") /\ publication' = publication BY <1>2 DEF DropTables, Retry
    <2>2. Kept /\ dying' = dying BY DEF DropTables, Kept, docs, stored
    <2> QED BY <2>1, <2>2, LeaveStep DEF IInv, Frame, TypeOK
  <1> QED BY <1>1, <1>2

LEMMA TerminateStep ==
  ASSUME IInv, NEW i \in Instances, Terminate(i) PROVE IInv'
  <1>1. "poll" \in Places \ {"recv", "save"} BY DEF Places
  <1>2. ~Connected(i) BY DEF Terminate, Connected
  <1>3. pc' = [pc EXCEPT ![i] = "poll"] /\ dying' \in BOOLEAN BY DEF Terminate, Goto
  <1>4. Kept /\ UNCHANGED <<buffer, pos, hand, applied, cut, mem, start, missing, stale, publication>>
    BY DEF Terminate, Kept, docs, stored, conn, planned
  <1> QED BY <1>1, <1>2, <1>3, <1>4, SetUpStep DEF IInv, Frame, TypeOK, Members

\* The order to terminate is all that changes.
LEMMA DyingStep ==
  ASSUME IInv, Kept, dying' \in BOOLEAN,
         UNCHANGED <<pc, publication, missing, stale, buffer, pos, hand, applied, cut, mem, start>>
  PROVE  IInv'
  BY DEF IInv, Frame, TypeOK, Bounds, Members, Registered, Buffers, Connected, InOrder, Passed,
         NothingLost, Safe, Fresh, Shown, Attached, ChangesOf, Kept

LEMMA PollStep ==
  ASSUME IInv, NEW i \in Instances, Poll(i) PROVE IInv'
  <1>0. Kept /\ publication' = publication BY DEF Poll, Kept, docs, stored
  <1>1. CASE Goto(i, "load") /\ UNCHANGED <<dying, run>>
    <2>1. "load" \in Places \ {"recv", "save"} BY DEF Places
    <2>2. ~Connected(i) BY DEF Poll, Connected
    <2>3. UNCHANGED <<buffer, pos, hand, applied, cut, mem, start, missing, stale>>
      BY <1>1 DEF run, conn, planned
    <2>4. pc' = [pc EXCEPT ![i] = "load"] BY <1>1 DEF Goto
    <2> QED BY <1>0, <1>1, <2>1, <2>2, <2>3, <2>4, SetUpStep DEF IInv, Frame, TypeOK, Members
  <1>2. CASE dying' = TRUE /\ UNCHANGED <<run, pc>>
    <2>1. UNCHANGED <<buffer, pos, hand, applied, cut, mem, start, missing, stale, pc>>
      BY <1>2 DEF run, conn, planned
    <2> QED BY <1>0, <1>2, <2>1, DyingStep
  <1>3. CASE Retry(i) /\ UNCHANGED dying
    BY <1>0, <1>3, LeaveStep DEF Retry, IInv, Frame, TypeOK
  <1> QED BY <1>1, <1>2, <1>3 DEF Poll

----------------------------------------------------------------------------
(* Postgres.                                                               *)

\* A new change is behind every position.
LEMMA CommitStep ==
  ASSUME IInv, NEW c0 \in Configs, Commit(c0) PROVE IInv'
  <1> USE DEF IInv, Frame
  <1> DEFINE e == [of |-> c0, published |-> c0 \in publication]
             N == Len(wal) + 1
  <1>1. /\ publication' = publication /\ confirmed' = confirmed /\ holder' = holder
        /\ dying' = dying /\ doc' = doc
        /\ delivered' = delivered /\ overlapped' = overlapped /\ watermark' = watermark /\ cp' = cp
        /\ buffer' = buffer /\ pos' = pos /\ hand' = hand /\ applied' = applied /\ cut' = cut
        /\ mem' = mem /\ start' = start /\ missing' = missing /\ stale' = stale /\ pc' = pc
    BY DEF Commit, docs, stored, conn, planned
  <1>2. wal' = Append(wal, e) BY DEF Commit
  <1>3. /\ e \in [of : Configs, published : BOOLEAN] /\ e.of = c0
        /\ (c0 \in Shared => e.published)
    <2>1. e.of = c0 /\ e.published = (c0 \in publication) OBVIOUS
    <2>2. c0 \in Shared => c0 \in publication BY DEF Members
    <2>3. e \in [of : Configs, published : BOOLEAN] OBVIOUS
    <2> HIDE DEF e
    <2> QED BY <2>1, <2>2, <2>3
  <1>4. /\ wal \in Seq([of : Configs, published : BOOLEAN])
        /\ Len(wal) \in Nat
    BY ChangesType DEF TypeOK
  <1> HIDE DEF e
  <1>5. /\ wal' \in Seq([of : Configs, published : BOOLEAN]) /\ Len(wal') = N
        /\ \A n \in 1 .. Len(wal) : wal'[n] = wal[n]
        /\ wal'[N] = e
    BY <1>2, <1>3, <1>4
  <1>6. \A n \in 1 .. N : n = N \/ n \in 1 .. Len(wal) BY <1>4
  <1>7. \A c : \A n \in ChangesOf(c)' : n = N \/ n \in ChangesOf(c) BY <1>5, <1>6 DEF ChangesOf
  <1>8. \A c : ChangesOf(c) \subseteq ChangesOf(c)'
    <2>1. \A n \in 1 .. Len(wal) : n \in 1 .. Len(wal') BY <1>4, <1>5
    <2> QED BY <1>5, <2>1 DEF ChangesOf
  <1>9. TypeOK' BY <1>1, <1>5 DEF TypeOK
  <1>20. /\ confirmed \in Int /\ \A c \in Configs : watermark[c] \in Int /\ cp[c] \in Int
         /\ \A i \in Instances : pos[i] \in Int /\ hand[i] \in Int /\ applied[i] \in Int
                                   /\ start[i] \in Int
         /\ \A i \in Instances, c \in Configs : mem[i][c] \in Int
    <2>1. Lsns \subseteq Int BY DEF Lsns, NoLsn
    <2>2. \A c \in Configs : watermark[c] \in Lsns /\ cp[c] \in Lsns BY DEF TypeOK
    <2>3. confirmed \in Int /\ \A i \in Instances : pos[i] \in Int /\ hand[i] \in Int /\ applied[i] \in Int
                                   /\ start[i] \in Int
      BY DEF TypeOK
    <2>4. \A i \in Instances, c \in Configs : mem[i][c] \in Lsns
      <3>1. \A i \in Instances : mem[i] \in [Configs -> Lsns] BY DEF TypeOK
      <3> QED BY <3>1
    <2> QED BY <2>1, <2>2, <2>3, <2>4
  <1>10. Bounds' BY <1>1, <1>4, <1>5, <1>20 DEF Bounds
  <1>11. Members' BY <1>1, <1>3, <1>5, <1>6 DEF Members
  <1>12. Registered' /\ Buffers' BY <1>1 DEF Registered, Buffers, Connected
  <1>15. \A i \in Instances : ~(N <= pos[i]) /\ ~(N <= applied[i]) /\ ~(N <= hand[i])
                              /\ \A c \in Configs : ~(N <= mem[i][c])
    BY <1>4, <1>20 DEF Bounds
  <1>16. ~(N <= confirmed) /\ \A c \in Configs : ~(N <= cp[c])
    BY <1>4, <1>20 DEF Bounds
  <1> HIDE DEF N
  <1>17. InOrder' BY <1>1, <1>7, <1>15 DEF InOrder, Passed, Connected
  <1>18. NothingLost' BY <1>1, <1>7, <1>15, <1>16, SharedConfigs DEF NothingLost, Safe
  <1>19. Fresh' BY <1>1, <1>7, <1>8, <1>15, <1>16, SharedConfigs DEF Fresh, Shown, Passed, Attached
  <1> QED BY <1>9, <1>10, <1>11, <1>12, <1>17, <1>18, <1>19

\* The next change sent is the first one not yet sent, so none is skipped.
LEMMA SendStep ==
  ASSUME IInv, NEW i \in Instances, Send(i) PROVE IInv'
  <1> USE DEF IInv, Frame
  <1>1. Attached(i) /\ Connected(i) BY DEF Send, Attached, Connected
  <1>2. PICK n \in Unsent(i) : /\ \A m \in Unsent(i) : n <= m
                               /\ buffer' = [buffer EXCEPT ![i] = Append(@, n)]
                               /\ pos' = [pos EXCEPT ![i] = n]
    BY DEF Send
  <1>3. /\ wal' = wal /\ publication' = publication /\ confirmed' = confirmed /\ holder' = holder
        /\ dying' = dying /\ doc' = doc
        /\ delivered' = delivered /\ overlapped' = overlapped /\ watermark' = watermark /\ cp' = cp
        /\ hand' = hand /\ applied' = applied /\ cut' = cut
        /\ mem' = mem /\ start' = start /\ missing' = missing /\ stale' = stale /\ pc' = pc
    BY DEF Send, pgVars, docs, stored, planned
  <1>4. n \in Nat /\ n >= 1 /\ n <= Len(wal) /\ Len(wal) \in Nat /\ n > pos[i] /\ pos[i] \in Nat
    BY ChangesType DEF Unsent, TypeOK
  <1>5. \A c : ChangesOf(c)' = ChangesOf(c) /\ ChangesOf(c) \subseteq Nat BY <1>3, ChangesType DEF ChangesOf
  <1>6. buffer[i] \in Seq(Nat) /\ Ascending(buffer[i]) /\ \A x \in Elems(buffer[i]) : x >= 1 /\ x <= pos[i]
    BY DEF TypeOK, Buffers
  <1>7. \A x \in Elems(buffer[i]) : x \in Nat /\ x < n
    <2>1. Elems(buffer[i]) \subseteq Nat BY <1>6, ElementOfSeq DEF Elems
    <2> QED BY <1>4, <1>6, <2>1
  <1>8. /\ buffer'[i] \in Seq(Nat) /\ Elems(buffer'[i]) = Elems(buffer[i]) \cup {n} /\ Ascending(buffer'[i])
    <2>1. buffer'[i] = Append(buffer[i], n) BY <1>2 DEF TypeOK
    <2> QED BY <1>4, <1>6, <1>7, <2>1, AppendElems
  <1>9. pos'[i] = n /\ \A j \in Instances : j # i => buffer'[j] = buffer[j] /\ pos'[j] = pos[j]
    BY <1>2 DEF TypeOK
  <1>10. TypeOK'
    <2>1. Append(buffer[i], n) \in Seq(Nat) BY <1>4, <1>6, AppendElems
    <2>2. buffer' \in [Instances -> Seq(Nat)] BY <1>2, <2>1 DEF TypeOK
    <2>3. pos' \in [Instances -> Nat] BY <1>2, <1>4 DEF TypeOK
    <2> QED BY <1>3, <2>2, <2>3 DEF TypeOK
  <1>11. Bounds' BY <1>3, <1>4, <1>9 DEF Bounds
  <1>12. Members' /\ Registered' BY <1>3 DEF Members, Registered
  <1>13. Buffers'
    <2>1. pc[i] = "save" => hand[i] <= n /\ \A x \in Elems(buffer'[i]) : hand[i] < x
      BY <1>4, <1>7, <1>8 DEF Buffers, TypeOK
    <2>2. \A x \in Elems(buffer'[i]) : x >= 1 /\ x <= n BY <1>4, <1>6, <1>7, <1>8
    <2> QED BY <1>1, <1>3, <1>8, <1>9, <2>1, <2>2 DEF Buffers, Connected
  <1>14. ASSUME NEW c \in Shared, NEW m \in ChangesOf(c), Passed(i, m)'
         PROVE  Passed(i, m) /\ m < n
    <2>1. m <= n /\ m \notin Elems(buffer[i]) /\ m # n BY <1>8, <1>9, <1>14 DEF Passed
    <2>2. m \in Nat BY <1>5
    <2>3. CASE m > pos[i] BY <1>2, <1>4, <2>1, <2>2, <2>3, SharedIsSent
    <2>4. CASE m <= pos[i] BY <1>4, <2>1, <2>2, <2>4 DEF Passed
    <2> QED BY <1>4, <2>2, <2>3, <2>4
  <1>15. \A j \in Instances : \A m : j # i => (Passed(j, m)' <=> Passed(j, m)) BY <1>9 DEF Passed
  <1>16. InOrder'
    <2> SUFFICES ASSUME NEW j \in Instances, Connected(j)', NEW c \in Shared, NEW m \in ChangesOf(c)',
                        Passed(j, m)'
                 PROVE  m \in delivered'[c] /\ \A x \in Elems(buffer'[j]) : m < x
      BY DEF InOrder
    <2>0. m \in ChangesOf(c) /\ Connected(j) BY <1>3, <1>5 DEF Connected
    <2>1. CASE j = i BY <1>3, <1>8, <1>14, <2>0, <2>1 DEF InOrder
    <2>2. CASE j # i BY <1>3, <1>9, <1>15, <2>0, <2>2 DEF InOrder
    <2> QED BY <2>1, <2>2
  <1>17. NothingLost' BY <1>3, <1>5 DEF NothingLost, Safe
  <1>18. Fresh'
    <2>1. \A c \in Shared \ overlapped, j \in Instances :
            Attached(j) => \A m \in ChangesOf(c) : Passed(j, m)' => m <= doc[c]
      BY <1>14, <1>15 DEF Fresh
    <2> QED BY <1>3, <1>5, <2>1 DEF Fresh, Shown, Attached
  <1> QED BY <1>10, <1>11, <1>12, <1>13, <1>16, <1>17, <1>18

LEMMA FlushSlotStep ==
  ASSUME IInv, NEW i \in Instances, FlushSlot(i) PROVE IInv'
  <1> USE DEF IInv, Frame
  <1>1. confirmed' = applied[i] BY DEF FlushSlot
  <1>2. /\ wal' = wal /\ publication' = publication /\ holder' = holder
        /\ dying' = dying /\ doc' = doc
        /\ delivered' = delivered /\ overlapped' = overlapped /\ watermark' = watermark /\ cp' = cp
        /\ buffer' = buffer /\ pos' = pos /\ hand' = hand /\ applied' = applied /\ cut' = cut
        /\ mem' = mem /\ start' = start /\ missing' = missing /\ stale' = stale /\ pc' = pc
    BY DEF FlushSlot, docs, stored, conn, planned
  <1>3. \A c : ChangesOf(c)' = ChangesOf(c) BY <1>2 DEF ChangesOf
  <1>4. TypeOK' /\ Bounds' BY <1>1, <1>2 DEF TypeOK, Bounds
  <1>5. Members' /\ Registered' /\ Buffers' BY <1>2 DEF Members, Registered, Buffers, Connected
  <1>6. InOrder' BY <1>2, <1>3 DEF InOrder, Passed, Connected
  <1>7. NothingLost' BY <1>1, <1>2, <1>3 DEF NothingLost, Safe
  <1>8. Fresh' BY <1>1, <1>2, <1>3 DEF Fresh, Shown, Passed, Attached
  <1> QED BY <1>4, <1>5, <1>6, <1>7, <1>8

\* A connection that ends leaves its process with what it had received.
LEMMA ReleaseStep ==
  ASSUME IInv, NEW i \in Instances, NEW b \in BOOLEAN,
         holder = i, Connected(i) => b,
         holder' = Nobody, dying' = FALSE, cut' = [cut EXCEPT ![i] = b],
         UNCHANGED <<wal, publication, confirmed, doc, delivered, overlapped, watermark, cp, buffer, pos,
                     hand, applied, mem, start, missing, stale, pc>>
  PROVE  IInv'
  <1> USE DEF IInv, Frame
  <1>1. TypeOK' /\ Bounds' BY DEF TypeOK, Bounds
  <1>2. Members' /\ Registered' BY DEF Members, Registered
  <1>3. \A c : ChangesOf(c)' = ChangesOf(c) BY DEF ChangesOf
  <1>4. Buffers' BY DEF Buffers, Connected, TypeOK
  <1>5. InOrder' BY <1>3 DEF InOrder, Passed, Connected
  <1>6. NothingLost' BY <1>3 DEF NothingLost, Safe
  <1>7. \A j \in Instances : ~Attached(j)' BY ConstantsAssumption DEF Attached
  <1>8. Fresh' BY <1>3, <1>7 DEF Fresh, Shown
  <1> QED BY <1>1, <1>2, <1>4, <1>5, <1>6, <1>8

LEMMA BackendExitsStep ==
  ASSUME IInv, NEW i \in Instances, BackendExits(i) PROVE IInv'
  <1>1. /\ holder = i /\ holder' = Nobody /\ dying' = FALSE
        /\ cut' = [cut EXCEPT ![i] = Connected(i)] /\ Connected(i) \in BOOLEAN
    BY DEF BackendExits, Connected
  <1>2. UNCHANGED <<wal, publication, confirmed, doc, delivered, overlapped, watermark, cp, buffer, pos,
                    hand, applied, mem, start, missing, stale, pc>>
    BY DEF BackendExits, docs, stored, planned
  <1> QED BY <1>1, <1>2, ReleaseStep

LEMMA LoseConnectionStep ==
  ASSUME IInv, NEW i \in Instances, LoseConnection(i) PROVE IInv'
  <1>1. CASE Retry(i) /\ UNCHANGED <<holder, dying>>
    <2>1. Kept /\ publication' = publication BY <1>1 DEF LoseConnection, Kept, docs, stored
    <2> QED BY <1>1, <2>1, LeaveStep DEF Retry, IInv, Frame, TypeOK
  <1>2. CASE /\ Attached(i) /\ holder' = Nobody /\ dying' = FALSE /\ cut' = [cut EXCEPT ![i] = TRUE]
             /\ UNCHANGED <<pc, buffer, pos, hand, applied, planned, mem, start>>
    <2>1. UNCHANGED <<wal, publication, confirmed, doc, delivered, overlapped, watermark, cp, buffer, pos,
                      hand, applied, mem, start, missing, stale, pc>>
      BY <1>2 DEF LoseConnection, docs, stored, planned
    <2>2. holder = i BY <1>2 DEF Attached
    <2> QED BY <1>2, <2>1, <2>2, ReleaseStep
  <1> QED BY <1>1, <1>2 DEF LoseConnection

LEMMA ExitStep ==
  ASSUME IInv, NEW i \in Instances, Exit(i) PROVE IInv'
  <1>1. Leave(i, "down") /\ UNCHANGED <<pgVars, docs, stored>> BY DEF Exit
  <1>2. Kept /\ publication' = publication /\ dying' = dying BY <1>1 DEF Kept, pgVars, docs, stored
  <1> QED BY <1>1, <1>2, LeaveStep DEF IInv, Frame, TypeOK

LEMMA ConnectionGoneStep ==
  ASSUME IInv, NEW i \in Instances, ConnectionGone(i) PROVE IInv'
  <1>1. (Leave(i, "setup") \/ Leave(i, "down")) /\ UNCHANGED <<pgVars, docs, stored>>
    BY DEF ConnectionGone, Retry
  <1>2. Kept /\ publication' = publication /\ dying' = dying BY <1>1 DEF Kept, pgVars, docs, stored
  <1> QED BY <1>1, <1>2, LeaveStep DEF IInv, Frame, TypeOK

----------------------------------------------------------------------------
(* Backfills, checkpoints and the slot.                                    *)

\* A shared config is not new to anybody, and its watermark is the first LSN.
LEMMA BackfillStep ==
  ASSUME IInv, NEW i \in Instances, Backfill(i) PROVE IInv'
  <1> USE DEF IInv, Frame
  <1>1. /\ watermark' = [c \in Configs |-> IF c \in New(i) THEN Len(wal) ELSE watermark[c]]
        /\ doc' = [c \in Configs |-> IF c \in New(i) THEN Newest(ChangesOf(c)) ELSE doc[c]]
        /\ delivered' = [c \in Configs |->
                           delivered[c] \cup (IF c \in New(i) THEN ChangesOf(c) ELSE {})]
        /\ pc[i] = "backfill" /\ pc' = [pc EXCEPT ![i] = "terminate"]
    BY DEF Backfill, Goto
  <1>2. PICK s \in Candidates(i) :
          (\A x \in Candidates(i) : s <= x) /\ start' = [start EXCEPT ![i] = s]
    BY DEF Backfill
  <1>3. /\ wal' = wal /\ publication' = publication /\ confirmed' = confirmed /\ holder' = holder
        /\ dying' = dying /\ overlapped' = overlapped /\ cp' = cp
        /\ buffer' = buffer /\ pos' = pos /\ hand' = hand /\ applied' = applied /\ cut' = cut
        /\ mem' = mem /\ missing' = missing /\ stale' = stale
    BY DEF Backfill, pgVars, conn, planned
  <1>4. \A c \in Shared : c \in Configs /\ c \notin New(i)
    BY SharedConfigs DEF Registered, New, NoLsn
  <1>5. \A c \in Shared : watermark'[c] = 0 /\ doc'[c] = doc[c] /\ delivered'[c] = delivered[c]
    BY <1>1, <1>4 DEF Registered
  <1>6. Len(wal) \in Nat /\ \A c : ChangesOf(c) \subseteq Nat BY ChangesType
  <1>7. ConfigsOf[i] \subseteq Configs BY ConstantsAssumption
  <1>8. \A c \in ConfigsOf[i] : watermark'[c] \in Nat
    BY <1>1, <1>6, <1>7 DEF New, TypeOK, Lsns
  <1>9. Candidates(i) \subseteq Nat BY <1>7, <1>8 DEF Candidates, TypeOK, Lsns
  <1>10. Shared # {} => s = 0
    <2> SUFFICES ASSUME NEW c \in Shared PROVE s = 0 OBVIOUS
    <2>1. 0 \in Candidates(i) BY <1>5, SharedConfigs DEF Candidates
    <2> QED BY <1>2, <1>9, <2>1
  <1>12. TypeOK'
    <2>1. watermark' \in [Configs -> Lsns] BY <1>1, <1>6 DEF TypeOK, Lsns
    <2>2. doc' \in [Configs -> Nat]
      <3>1. \A c : Newest(ChangesOf(c)) \in Nat BY NewestType
      <3> QED BY <1>1, <3>1 DEF TypeOK
    <2>3. delivered' \in [Configs -> SUBSET Nat]
      <3>1. \A c \in Configs : delivered[c] \subseteq Nat BY DEF TypeOK
      <3> QED BY <1>1, <1>6, <3>1
    <2>4. start' \in [Instances -> Nat] BY <1>2, <1>9 DEF TypeOK
    <2>5. pc' \in [Instances -> Places] BY <1>1 DEF TypeOK, Places
    <2> QED BY <1>3, <2>1, <2>2, <2>3, <2>4, <2>5 DEF TypeOK
  <1>13. \A c : ChangesOf(c)' = ChangesOf(c) BY <1>3 DEF ChangesOf
  <1>14. Bounds'
    <2>1. \A c \in Configs : watermark'[c] <= Len(wal) /\ cp[c] <= Len(wal)
      BY <1>1, <1>6 DEF Bounds
    <2>2. s <= Len(wal) BY <1>7, <2>1 DEF Candidates
    <2>3. \A j \in Instances : start'[j] <= Len(wal) BY <1>2, <2>2 DEF Bounds, TypeOK
    <2> QED BY <1>3, <2>1, <2>3 DEF Bounds
  <1>15. Members' BY <1>3 DEF Members
  <1>16. Registered' BY <1>2, <1>3, <1>5, <1>10 DEF Registered, TypeOK
  <1>17. \A j \in Instances : /\ Connected(j)' <=> Connected(j)
                              /\ Attached(j)' <=> Attached(j)
                              /\ pc'[j] = "save" <=> pc[j] = "save"
    BY <1>1, <1>3 DEF Connected, Attached, TypeOK
  <1>18. Buffers' BY <1>3, <1>17 DEF Buffers
  <1>19. InOrder' BY <1>3, <1>5, <1>13, <1>17 DEF InOrder, Passed
  <1>20. NothingLost' BY <1>3, <1>5, <1>13, <1>17 DEF NothingLost, Safe
  <1>21. Fresh' BY <1>3, <1>5, <1>13, <1>17 DEF Fresh, Shown, Passed
  <1> QED BY <1>12, <1>14, <1>15, <1>16, <1>18, <1>19, <1>20, <1>21

\* What a process remembers is what is stored.
LEMMA LoadCheckpointsStep ==
  ASSUME IInv, NEW i \in Instances, LoadCheckpoints(i) PROVE IInv'
  <1> USE DEF IInv, Frame
  <1> DEFINE new == [c \in Configs |-> IF c \in ConfigsOf[i] THEN Resume(c) ELSE NoLsn]
  <1>1. /\ mem' = [mem EXCEPT ![i] = new]
        /\ pc[i] = "load" /\ pc' = [pc EXCEPT ![i] = "connect"]
    BY DEF LoadCheckpoints, Goto
  <1>2. /\ wal' = wal /\ publication' = publication /\ confirmed' = confirmed /\ holder' = holder
        /\ dying' = dying /\ overlapped' = overlapped /\ cp' = cp /\ watermark' = watermark
        /\ doc' = doc /\ delivered' = delivered
        /\ buffer' = buffer /\ pos' = pos /\ hand' = hand /\ applied' = applied /\ cut' = cut
        /\ missing' = missing /\ stale' = stale /\ start' = start
    BY DEF LoadCheckpoints, pgVars, docs, stored, conn, planned
  <1>3. NoLsn \in Lsns /\ NoLsn <= Len(wal) BY ChangesType DEF Lsns, NoLsn
  <1>4. \A c \in Configs : Resume(c) \in Lsns /\ Resume(c) <= Len(wal)
    BY DEF Resume, TypeOK, Bounds
  <1>5. new \in [Configs -> Lsns] /\ \A c \in Configs : new[c] <= Len(wal) BY <1>3, <1>4
  <1>6. \A c \in Shared : c \in Configs /\ new[c] = cp[c] BY SharedConfigs DEF Resume, Registered
  <1> HIDE DEF new
  <1>7. \A j \in Instances : mem'[j] = IF j = i THEN new ELSE mem[j] BY <1>1 DEF TypeOK
  <1>8. TypeOK'
    <2>1. mem' \in [Instances -> [Configs -> Lsns]] BY <1>1, <1>5 DEF TypeOK
    <2>2. pc' \in [Instances -> Places] BY <1>1 DEF TypeOK, Places
    <2> QED BY <1>2, <2>1, <2>2 DEF TypeOK
  <1>9. \A c : ChangesOf(c)' = ChangesOf(c) BY <1>2 DEF ChangesOf
  <1>10. Bounds'
    <2>1. \A j \in Instances, c \in Configs : mem'[j][c] <= Len(wal) BY <1>5, <1>7 DEF Bounds
    <2> QED BY <1>2, <2>1 DEF Bounds
  <1>11. Members' /\ Registered' BY <1>2 DEF Members, Registered
  <1>12. \A j \in Instances : /\ Connected(j)' <=> Connected(j)
                              /\ Attached(j)' <=> Attached(j)
                              /\ pc'[j] = "save" <=> pc[j] = "save"
    BY <1>1, <1>2 DEF Connected, Attached, TypeOK
  <1>13. Buffers' BY <1>2, <1>12 DEF Buffers
  <1>14. InOrder' BY <1>2, <1>9, <1>12 DEF InOrder, Passed
  <1>15. NothingLost'
    <2>1. \A c \in Shared, j \in Instances : Safe(c, mem'[j][c])
      BY <1>6, <1>7 DEF NothingLost
    <2> QED BY <1>2, <1>9, <1>12, <2>1 DEF NothingLost, Safe
  <1>16. Fresh'
    <2>1. \A c \in Shared \ overlapped, j \in Instances : mem'[j][c] <= cp[c]
      <3>1. \A c \in Shared : cp[c] \in Nat BY SharedConfigs DEF TypeOK, Lsns, Registered
      <3> QED BY <1>6, <1>7, <3>1 DEF Fresh
    <2> QED BY <1>2, <1>9, <1>12, <2>1 DEF Fresh, Shown, Passed
  <1> QED BY <1>8, <1>10, <1>11, <1>13, <1>14, <1>15, <1>16

\* A connection starts where the slot is: nothing before it is sent again.
LEMMA ConnectStep ==
  ASSUME IInv, NEW i \in Instances, Connect(i) PROVE IInv'
  <1> USE DEF IInv, Frame
  <1>1. CASE holder # Nobody
    <2>1. Leave(i, "setup") /\ holder' = holder BY <1>1 DEF Connect, Retry
    <2>2. Kept /\ publication' = publication /\ dying' = dying
      BY <2>1 DEF Connect, Kept, docs, stored
    <2> QED BY <2>1, <2>2, LeaveStep DEF TypeOK
  <1>2. CASE holder = Nobody
    <2>1. /\ holder' = i /\ pc[i] = "connect" /\ pc' = [pc EXCEPT ![i] = "recv"]
          /\ pos' = [pos EXCEPT ![i] = ResumeAt(i)]
          /\ UNCHANGED <<buffer, hand, applied, cut, planned, mem, start>>
      BY <1>2 DEF Connect, Goto
    <2>2. /\ wal' = wal /\ publication' = publication /\ confirmed' = confirmed
          /\ dying' = dying /\ overlapped' = overlapped /\ cp' = cp /\ watermark' = watermark
          /\ doc' = doc /\ delivered' = delivered
          /\ buffer' = buffer /\ hand' = hand /\ applied' = applied /\ cut' = cut
          /\ missing' = missing /\ stale' = stale /\ start' = start /\ mem' = mem
      BY <2>1 DEF Connect, docs, stored, planned
    <2>3. ResumeAt(i) \in Nat BY DEF ResumeAt, TypeOK
    <2>4. Shared # {} => ResumeAt(i) = confirmed BY DEF ResumeAt, TypeOK, Registered
    <2>5. pos'[i] = ResumeAt(i) /\ \A j \in Instances : j # i => pos'[j] = pos[j]
      BY <2>1 DEF TypeOK
    <2>6. buffer[i] = <<>> BY <2>1 DEF Buffers, Connected
    <2>7. \A c : ChangesOf(c)' = ChangesOf(c) BY <2>2 DEF ChangesOf
    <2>8. i # Nobody BY ConstantsAssumption
    <2>9. /\ Connected(i)' /\ pc'[i] # "save"
          /\ \A j \in Instances : j # i => /\ Connected(j)' <=> Connected(j)
                                           /\ ~Attached(j)' /\ holder # j
                                           /\ pc'[j] = pc[j]
      BY <1>2, <2>1, ConstantsAssumption DEF Connected, Attached, TypeOK
    <2>10. TypeOK'
      <3>1. pc' \in [Instances -> Places] BY <2>1 DEF TypeOK, Places
      <3> QED BY <2>1, <2>2, <2>3, <3>1 DEF TypeOK
    <2>11. Bounds'
      <3>1. ResumeAt(i) <= Len(wal) BY DEF ResumeAt, Bounds
      <3> QED BY <2>2, <2>5, <3>1 DEF Bounds
    <2>12. Members' /\ Registered' BY <2>2 DEF Members, Registered
    <2>13. Buffers' BY <2>1, <2>2, <2>5, <2>6, <2>9, EmptyElems DEF Buffers
    <2>14. \A n : Passed(i, n)' => n <= ResumeAt(i) BY <2>5 DEF Passed
    <2>15. \A j \in Instances : \A n : j # i => (Passed(j, n)' <=> Passed(j, n)) BY <2>2, <2>5 DEF Passed
    <2>16. InOrder'
      <3> SUFFICES ASSUME NEW j \in Instances, Connected(j)', NEW c \in Shared, NEW m \in ChangesOf(c)',
                          Passed(j, m)'
                   PROVE  m \in delivered'[c] /\ \A x \in Elems(buffer'[j]) : m < x
        BY DEF InOrder
      <3>1. m \in ChangesOf(c) BY <2>7
      <3>2. CASE j = i
        <4>1. m \in delivered[c] BY <2>4, <2>14, <3>1, <3>2 DEF NothingLost, Safe
        <4> QED BY <2>2, <2>6, <3>2, <4>1, EmptyElems
      <3>3. CASE j # i BY <2>2, <2>9, <2>15, <3>1, <3>3 DEF InOrder
      <3> QED BY <3>2, <3>3
    <2>17. NothingLost' BY <2>2, <2>7, <2>9 DEF NothingLost, Safe
    <2>18. Fresh'
      <3> SUFFICES ASSUME NEW c \in Shared \ overlapped
                   PROVE \A j \in Instances : Attached(j)' =>
                           \A n \in ChangesOf(c) : Passed(j, n)' => n <= doc[c]
        BY <2>2, <2>7 DEF Fresh, Shown
      <3>1. confirmed <= cp[c] /\ Shown(c, cp[c]) BY DEF Fresh
      <3>2. \A n \in ChangesOf(c) : n <= confirmed => n <= cp[c]
        <4>1. cp[c] \in Nat /\ confirmed \in Nat BY SharedConfigs DEF TypeOK, Registered, Lsns
        <4>2. ChangesOf(c) \subseteq Nat BY ChangesType
        <4> QED BY <3>1, <4>1, <4>2
      <3> QED BY <2>4, <2>9, <2>14, <3>1, <3>2 DEF Shown
    <2> QED BY <2>10, <2>11, <2>12, <2>13, <2>16, <2>17, <2>18
  <1> QED BY <1>1, <1>2

----------------------------------------------------------------------------
(* Streaming.                                                              *)

\* A batch in hand is delivered, or of a config that has it already.  Only the
\* process on the slot, if nobody went ahead of it, keeps a config out of
\* overlapped: its change is newer than all the checkpoint has passed.
LEMMA DeliverStep ==
  ASSUME IInv, NEW i \in Instances, Deliver(i) PROVE IInv'
  <1> USE DEF IInv, Frame
  <1>a. PICK n : n = Head(buffer[i]) OBVIOUS
  <1>b. PICK c0 : c0 = wal[n].of OBVIOUS
  <1>1. /\ pc[i] = "recv" /\ buffer[i] # <<>> /\ pc' = [pc EXCEPT ![i] = "save"]
        /\ hand' = [hand EXCEPT ![i] = n] /\ buffer' = [buffer EXCEPT ![i] = Tail(@)]
    BY <1>a DEF Deliver, Goto
  <1>2. /\ wal' = wal /\ publication' = publication /\ confirmed' = confirmed /\ holder' = holder
        /\ dying' = dying /\ cp' = cp /\ watermark' = watermark
        /\ pos' = pos /\ applied' = applied /\ cut' = cut
        /\ missing' = missing /\ stale' = stale /\ start' = start /\ mem' = mem
    BY DEF Deliver, pgVars, stored, planned
  <1>3. \/ /\ c0 \in Behind(i, n)
           /\ doc' = [doc EXCEPT ![c0] = n] /\ delivered' = [delivered EXCEPT ![c0] = @ \cup {n}]
           /\ overlapped' = overlapped \cup ({c0} \cap Overtaken(i))
        \/ c0 \notin Behind(i, n) /\ doc' = doc /\ delivered' = delivered /\ overlapped' = overlapped
    BY <1>a, <1>b DEF Deliver, docs
  <1>4. buffer[i] \in Seq(Nat) /\ Ascending(buffer[i]) BY DEF TypeOK, Buffers
  <1>5. /\ n \in Nat /\ Tail(buffer[i]) \in Seq(Nat) /\ Ascending(Tail(buffer[i]))
        /\ Elems(buffer[i]) = Elems(Tail(buffer[i])) \cup {n}
        /\ \A x \in Elems(Tail(buffer[i])) : n < x
    BY <1>a, <1>1, <1>4, TailElems
  <1>6. n >= 1 /\ n <= pos[i] /\ pos[i] \in Nat /\ pos[i] <= Len(wal) BY <1>5 DEF Buffers, TypeOK, Bounds
  <1>7. Len(wal) \in Nat /\ n \in 1 .. Len(wal) BY <1>5, <1>6, ChangesType
  <1>8. c0 \in Configs /\ n \in ChangesOf(c0) BY <1>b, <1>7, ChangesType DEF ChangesOf
  <1>9. buffer'[i] = Tail(buffer[i]) /\ \A j \in Instances : j # i => buffer'[j] = buffer[j]
    BY <1>1 DEF TypeOK
  <1>10. \A c, m : m \in ChangesOf(c) => m \in Nat /\ (m = n => c = c0)
    BY <1>8, ChangesType DEF ChangesOf
  <1>11. hand'[i] = n /\ \A j \in Instances : j # i => hand'[j] = hand[j] /\ pc'[j] = pc[j]
    BY <1>1 DEF TypeOK
  <1>12. /\ pc'[i] = "save" /\ Connected(i)
         /\ \A j \in Instances : (Connected(j)' <=> Connected(j)) /\ (Attached(j)' <=> Attached(j))
    BY <1>1, <1>2 DEF Connected, Attached, TypeOK
  <1>13. \A c : ChangesOf(c)' = ChangesOf(c) BY <1>2 DEF ChangesOf
  <1>14. /\ \A c \in Configs : delivered[c] \subseteq delivered'[c]
         /\ c0 \in Behind(i, n) => n \in delivered'[c0]
    <2>1. delivered \in [Configs -> SUBSET Nat] BY DEF TypeOK
    <2>2. CASE c0 \notin Behind(i, n) BY <1>3, <2>2
    <2>3. CASE c0 \in Behind(i, n)
      <3>1. \A c \in Configs : delivered'[c] = IF c = c0 THEN delivered[c] \cup {n} ELSE delivered[c]
        BY <1>3, <2>1, <2>3
      <3> QED BY <1>8, <3>1
    <2> QED BY <2>2, <2>3
  <1>15. TypeOK'
    <2>1. buffer' \in [Instances -> Seq(Nat)] BY <1>1, <1>5 DEF TypeOK
    <2>2. hand' \in [Instances -> Nat] /\ pc' \in [Instances -> Places] BY <1>1, <1>5 DEF TypeOK, Places
    <2>3. /\ doc' \in [Configs -> Nat] /\ delivered' \in [Configs -> SUBSET Nat] /\ overlapped' \subseteq Configs
      <3>1. /\ doc \in [Configs -> Nat] /\ delivered \in [Configs -> SUBSET Nat] /\ overlapped \subseteq Configs
        BY DEF TypeOK
      <3>2. delivered[c0] \cup {n} \in SUBSET Nat BY <1>5, <1>8, <3>1
      <3>3. overlapped' \subseteq Configs BY <1>3, <1>8, <3>1
      <3>4. doc' \in [Configs -> Nat] BY <1>3, <1>5, <3>1
      <3>5. delivered' \in [Configs -> SUBSET Nat] BY <1>3, <3>1, <3>2
      <3> QED BY <3>3, <3>4, <3>5
    <2> QED BY <1>2, <2>1, <2>2, <2>3 DEF TypeOK
  <1>16. Bounds' BY <1>2, <1>7, <1>11 DEF Bounds
  <1>17. Members' /\ Registered' BY <1>2 DEF Members, Registered
  <1>18. Buffers'
    <2>1. \A x \in Elems(buffer'[i]) : x \in Elems(buffer[i]) /\ n < x BY <1>5, <1>9
    <2>2. Ascending(buffer'[i]) /\ pos'[i] = pos[i] BY <1>2, <1>5, <1>9
    <2> SUFFICES ASSUME NEW j \in Instances
                 PROVE  /\ ~Connected(j) => buffer'[j] = <<>>
                        /\ Ascending(buffer'[j]) /\ \A x \in Elems(buffer'[j]) : x >= 1 /\ x <= pos[j]
                        /\ pc'[j] = "save" => hand'[j] <= pos[j] /\ \A x \in Elems(buffer'[j]) : hand'[j] < x
                        /\ Connected(j) /\ holder # j => cut[j]
      BY <1>2, <1>12 DEF Buffers
    <2>3. CASE j = i BY <1>6, <1>11, <1>12, <2>1, <2>2, <2>3 DEF Buffers
    <2>4. CASE j # i BY <1>9, <1>11, <2>4 DEF Buffers
    <2> QED BY <2>3, <2>4
  \* The change in hand has arrived.
  <1>19. ASSUME NEW c \in Shared, n \in ChangesOf(c) PROVE n \in delivered'[c]
    <2>1. c = c0 /\ c \in ConfigsOf[i] /\ c \in Configs BY <1>10, <1>19, SharedConfigs
    <2>2. CASE c0 \in Behind(i, n) BY <1>14, <2>1, <2>2
    <2>3. CASE c0 \notin Behind(i, n)
      <3>1. ~(n > mem[i][c]) BY <2>1, <2>3 DEF Behind
      <3>2. mem[i][c] \in Int BY <2>1 DEF TypeOK, Lsns, NoLsn
      <3>3. n <= mem[i][c] BY <1>5, <3>1, <3>2
      <3> QED BY <1>14, <1>19, <2>1, <3>3 DEF NothingLost, Safe
    <2> QED BY <2>2, <2>3
  <1>20. \A m : Passed(i, m)' => m = n \/ Passed(i, m) BY <1>2, <1>5, <1>9 DEF Passed
  <1>21. \A j \in Instances : \A m : j # i => (Passed(j, m)' <=> Passed(j, m)) BY <1>2, <1>9 DEF Passed
  <1>22. InOrder'
    <2> SUFFICES ASSUME NEW j \in Instances, Connected(j)', NEW c \in Shared, NEW m \in ChangesOf(c)',
                        Passed(j, m)'
                 PROVE  m \in delivered'[c] /\ \A x \in Elems(buffer'[j]) : m < x
      BY DEF InOrder
    <2>1. m \in ChangesOf(c) /\ Connected(j) /\ c \in Configs
      <3>1. Connected(j)' <=> Connected(j) BY <1>12
      <3> QED BY <1>13, <3>1, SharedConfigs
    <2>2. CASE j = i /\ m = n BY <1>5, <1>9, <1>19, <2>1, <2>2
    <2>3. CASE j = i /\ m # n
      <3>1. Passed(i, m) BY <1>20, <2>3
      <3> QED BY <1>5, <1>9, <1>14, <2>1, <2>3, <3>1 DEF InOrder
    <2>4. CASE j # i BY <1>9, <1>14, <1>21, <2>1, <2>4 DEF InOrder
    <2> QED BY <2>2, <2>3, <2>4
  <1> DEFINE SafeNow(c, l) == \A m \in ChangesOf(c) : m <= l => m \in delivered'[c]
  <1>23. ASSUME NEW c \in Shared PROVE SafeNow(c, n)
    <2> SUFFICES ASSUME NEW m \in ChangesOf(c), m <= n PROVE m \in delivered'[c]
      OBVIOUS
    <2>1. c \in Configs /\ m \in Nat BY <1>10, SharedConfigs
    <2>2. CASE m = n BY <1>19, <2>2
    <2>3. CASE m # n
      <3>1. m < n /\ m <= pos[i] BY <1>5, <1>6, <2>1, <2>3
      <3>2. \A x \in Elems(buffer[i]) : m # x
        <4>1. \A x \in Elems(Tail(buffer[i])) : x \in Nat BY <1>5, ElementOfSeq DEF Elems
        <4> QED BY <1>5, <2>1, <3>1, <4>1
      <3>3. Passed(i, m) BY <3>1, <3>2 DEF Passed
      <3> QED BY <1>12, <1>14, <2>1, <3>3 DEF InOrder
    <2> QED BY <2>2, <2>3
  <1>24. NothingLost'
    <2>1. \A c \in Shared : \A l : Safe(c, l) => SafeNow(c, l) BY <1>14, SharedConfigs DEF Safe
    <2>2. \A c \in Shared, j \in Instances : pc'[j] = "save" => SafeNow(c, hand'[j])
      <3> HIDE DEF SafeNow
      <3> QED BY <1>11, <1>23, <2>1 DEF NothingLost
    <2>3. \A c \in Shared : /\ SafeNow(c, confirmed) /\ SafeNow(c, cp[c])
                           /\ \A j \in Instances : SafeNow(c, applied[j]) /\ SafeNow(c, mem[j][c])
      <3> HIDE DEF SafeNow
      <3> QED BY <2>1 DEF NothingLost
    <2> QED BY <1>2, <1>13, <2>2, <2>3 DEF NothingLost, Safe
  <1>25. Fresh'
    <2> SUFFICES ASSUME NEW c \in Shared, c \notin overlapped'
                 PROVE  /\ doc'[c] \in ChangesOf(c) \cup {0} /\ Shown(c, cp[c])'
                        /\ \A j \in Instances : Attached(j) =>
                             \A m \in ChangesOf(c) : Passed(j, m)' => m <= doc'[c]
      <3>1. \A c \in Shared \ overlapped' : c \notin overlapped BY <1>3
      <3> QED BY <1>2, <1>12, <1>13, <3>1 DEF Fresh, Shown
    <2>1. c \notin overlapped /\ c \in Configs /\ c \in ConfigsOf[i] BY <1>3, SharedConfigs
    <2>2. cp[c] \in Nat /\ mem[i][c] \in Int BY <2>1 DEF TypeOK, Registered, Lsns, NoLsn
    <2>3. Shown(c, cp[c]) /\ mem[i][c] <= cp[c] BY <2>1 DEF Fresh
    <2>4. CASE c = c0 /\ c0 \in Behind(i, n)
      <3>1. c \notin Overtaken(i) /\ doc'[c] = n BY <1>3, <1>8, <2>4 DEF TypeOK
      <3>2. ~cut[i] /\ ~(mem[i][c] < cp[c]) BY <2>1, <3>1 DEF Overtaken
      <3>3. holder = i BY <1>12, <3>2 DEF Buffers
      <3>4. n > mem[i][c] BY <2>4 DEF Behind
      <3>5. cp[c] < n BY <1>5, <2>2, <3>2, <3>4
      <3>6. Shown(c, cp[c])'
        <4>1. \A m \in ChangesOf(c) : m <= cp[c] => m <= n BY <1>5, <1>10, <2>2, <3>5
        <4> QED BY <1>2, <1>13, <3>1, <4>1 DEF Shown
      <3>7. ASSUME NEW m \in ChangesOf(c), Passed(i, m)' PROVE m <= n
        <4>1. CASE m = n BY <1>5, <4>1
        <4>2. CASE m # n
          <5>1. Passed(i, m) BY <1>20, <3>7, <4>2
          <5>2. m < n BY <1>5, <1>12, <5>1 DEF InOrder
          <5> QED BY <1>5, <1>10, <5>2
        <4> QED BY <4>1, <4>2
      <3>8. \A j \in Instances : Attached(j) => j = i BY <3>3 DEF Attached
      <3> QED BY <1>8, <2>4, <3>1, <3>6, <3>7, <3>8
    <2>5. CASE ~(c = c0 /\ c0 \in Behind(i, n))
      <3>1. doc'[c] = doc[c] BY <1>3, <1>8, <2>1, <2>5 DEF TypeOK
      <3>2. doc[c] \in ChangesOf(c) \cup {0} BY <2>1 DEF Fresh
      <3>3. Shown(c, cp[c])' BY <1>2, <1>13, <2>3, <3>1 DEF Shown
      <3>4. ASSUME NEW m \in ChangesOf(c), Attached(i), Passed(i, m)' PROVE m <= doc[c]
        <4>1. CASE m = n
          <5>1. c = c0 BY <1>10, <4>1
          <5>2. ~(n > mem[i][c]) BY <2>1, <2>5, <5>1 DEF Behind
          <5>3. n <= cp[c] BY <1>5, <2>2, <2>3, <5>2
          <5> QED BY <2>3, <4>1, <5>3 DEF Shown
        <4>2. CASE m # n
          <5>1. Passed(i, m) BY <1>20, <3>4, <4>2
          <5> QED BY <2>1, <3>4, <5>1 DEF Fresh
        <4> QED BY <4>1, <4>2
      <3>5. \A j \in Instances : Attached(j) => \A m \in ChangesOf(c) : Passed(j, m)' => m <= doc[c]
        BY <1>21, <2>1, <3>4 DEF Fresh
      <3> QED BY <3>1, <3>2, <3>3, <3>5
    <2> QED BY <2>4, <2>5
  <1> QED BY <1>15, <1>16, <1>17, <1>18, <1>22, <1>24, <1>25

\* The batch in hand becomes the checkpoint of what was behind it, and what
\* is acknowledged; of a config kept out of overlapped no checkpoint goes back.
LEMMA SaveAndAckStep ==
  ASSUME IInv, NEW i \in Instances, SaveAndAck(i) PROVE IInv'
  <1> USE DEF IInv, Frame
  <1> DEFINE h == hand[i]
             new == [c \in Configs |-> IF c \in Behind(i, h) THEN h ELSE mem[i][c]]
  <1>1. /\ pc[i] = "save" /\ pc' = [pc EXCEPT ![i] = "recv"]
        /\ cp' = [c \in Configs |-> IF c \in Behind(i, h) THEN h ELSE cp[c]]
        /\ applied' = [applied EXCEPT ![i] = h] /\ hand' = [hand EXCEPT ![i] = 0]
        /\ overlapped' = overlapped \cup (Behind(i, h) \cap Overtaken(i))
    BY DEF SaveAndAck, SaveCheckpoints, Goto
  <1>2. mem' = [mem EXCEPT ![i] = new] BY DEF SaveAndAck, SaveCheckpoints, TypeOK
  <1>3. /\ wal' = wal /\ publication' = publication /\ confirmed' = confirmed /\ holder' = holder
        /\ dying' = dying /\ watermark' = watermark /\ doc' = doc /\ delivered' = delivered
        /\ pos' = pos /\ buffer' = buffer /\ cut' = cut
        /\ missing' = missing /\ stale' = stale /\ start' = start
    BY DEF SaveAndAck, pgVars, planned
  <1>4. h \in Nat /\ h <= Len(wal) /\ Len(wal) \in Nat BY ChangesType DEF TypeOK, Bounds
  <1>5. h <= pos[i] /\ \A x \in Elems(buffer[i]) : h < x BY <1>1 DEF Buffers
  <1>6. mem[i] \in [Configs -> Lsns] BY DEF TypeOK
  <1>7. new \in [Configs -> Lsns] /\ \A c \in Configs : new[c] = IF c \in Behind(i, h) THEN h ELSE mem[i][c]
    BY <1>4, <1>6 DEF Lsns
  <1> HIDE DEF h, new
  <1>8. \A j \in Instances : mem'[j] = IF j = i THEN new ELSE mem[j] BY <1>2 DEF TypeOK
  <1>9. \A j \in Instances : applied'[j] = IF j = i THEN h ELSE applied[j] BY <1>1 DEF TypeOK
  <1>10. \A c \in Configs : cp'[c] = IF c \in Behind(i, h) THEN h ELSE cp[c] BY <1>1
  <1>11. Connected(i) /\ pc'[i] # "save"
         /\ \A j \in Instances : /\ Connected(j)' <=> Connected(j)
                                 /\ Attached(j)' <=> Attached(j)
                                 /\ j # i => pc'[j] = pc[j] /\ hand'[j] = hand[j]
    BY <1>1, <1>3 DEF Connected, Attached, TypeOK
  <1>12. TypeOK'
    <2>1. cp' \in [Configs -> Lsns] BY <1>1, <1>4 DEF TypeOK, Lsns
    <2>2. mem' \in [Instances -> [Configs -> Lsns]] BY <1>2, <1>7 DEF TypeOK
    <2>3. applied' \in [Instances -> Nat] /\ hand' \in [Instances -> Nat] /\ pc' \in [Instances -> Places]
      BY <1>1, <1>4 DEF TypeOK, Places
    <2>4. overlapped' \subseteq Configs
      <3>1. Behind(i, h) \subseteq Configs BY ConstantsAssumption DEF Behind
      <3> QED BY <1>1, <3>1 DEF TypeOK
    <2> QED BY <1>3, <2>1, <2>2, <2>3, <2>4 DEF TypeOK
  <1>13. \A c : ChangesOf(c)' = ChangesOf(c) BY <1>3 DEF ChangesOf
  <1>14. Bounds'
    <2>1. \A c \in Configs : cp'[c] <= Len(wal) BY <1>4, <1>10 DEF Bounds
    <2>2. \A j \in Instances, c \in Configs : mem'[j][c] <= Len(wal) BY <1>4, <1>7, <1>8 DEF Bounds
    <2>3. \A j \in Instances : hand'[j] <= Len(wal) /\ applied'[j] <= Len(wal)
      BY <1>1, <1>4, <1>9 DEF Bounds, TypeOK
    <2> QED BY <1>3, <2>1, <2>2, <2>3 DEF Bounds
  <1>15. Members' BY <1>3 DEF Members
  <1>16. Registered'
    <2>1. h # NoLsn BY <1>4 DEF NoLsn
    <2>2. \A c \in Shared : cp'[c] # NoLsn BY <1>10, <2>1, SharedConfigs DEF Registered
    <2> QED BY <1>3, <2>2 DEF Registered
  <1>17. Buffers' BY <1>3, <1>11 DEF Buffers
  <1>18. InOrder' BY <1>3, <1>11, <1>13 DEF InOrder, Passed
  <1>19. NothingLost'
    <2>1. \A c \in Shared : Safe(c, h) BY <1>1 DEF NothingLost, h
    <2>2. \A c, l : Safe(c, l)' <=> Safe(c, l') BY <1>3, <1>13 DEF Safe
    <2>3. \A c \in Shared : Safe(c, cp'[c]) BY <1>10, <2>1, SharedConfigs DEF NothingLost
    <2>4. \A c \in Shared, j \in Instances : Safe(c, applied'[j]) /\ Safe(c, mem'[j][c])
      BY <1>7, <1>8, <1>9, <2>1, SharedConfigs DEF NothingLost
    <2>5. \A c \in Shared, j \in Instances : pc'[j] = "save" => Safe(c, hand'[j])
      BY <1>11 DEF NothingLost
    <2> QED BY <1>3, <1>13, <2>3, <2>4, <2>5 DEF NothingLost, Safe
  <1>20. Fresh'
    <2> SUFFICES ASSUME NEW c \in Shared, c \notin overlapped'
                 PROVE  /\ confirmed <= cp'[c] /\ Shown(c, cp'[c])
                        /\ \A j \in Instances : applied'[j] <= cp'[c] /\ mem'[j][c] <= cp'[c]
      <3>1. \A c \in Shared \ overlapped' : c \in Shared \ overlapped BY <1>1
      <3> QED BY <1>3, <1>11, <1>13, <3>1 DEF Fresh, Shown, Passed
    <2>1. c \notin overlapped /\ c \in Configs /\ c \in ConfigsOf[i] BY <1>1, SharedConfigs
    <2>2. cp[c] \in Nat /\ confirmed \in Nat /\ mem[i][c] \in Int
      <3>1. mem[i][c] \in Lsns BY <1>6, <2>1
      <3> QED BY <2>1, <3>1 DEF TypeOK, Registered, Lsns, NoLsn
    <2>3. /\ confirmed <= cp[c] /\ Shown(c, cp[c])
          /\ \A j \in Instances : applied[j] <= cp[c] /\ mem[j][c] <= cp[c]
      BY <2>1 DEF Fresh
    <2>4. \A j \in Instances : applied[j] \in Int /\ mem[j][c] \in Int
      <3>1. \A j \in Instances : applied[j] \in Nat /\ mem[j] \in [Configs -> Lsns] BY DEF TypeOK
      <3>2. \A j \in Instances : mem[j][c] \in Lsns BY <2>1, <3>1
      <3> QED BY <3>1, <3>2 DEF Lsns, NoLsn
    <2>5. CASE c \in Behind(i, h)
      <3>1. ~cut[i] /\ ~(mem[i][c] < cp[c]) BY <1>1, <2>1, <2>5 DEF Overtaken
      <3>2. Attached(i) BY <1>11, <3>1 DEF Buffers, Attached, Connected
      <3>3. h > mem[i][c] /\ cp'[c] = h BY <1>10, <2>1, <2>5 DEF Behind
      <3>4. cp[c] <= h BY <1>4, <2>2, <3>1, <3>3
      <3>5. Shown(c, h)
        <4> SUFFICES ASSUME NEW m \in ChangesOf(c), m <= h PROVE m <= doc[c] BY DEF Shown
        <4>1. m \in Nat /\ pos[i] \in Nat BY ChangesType DEF TypeOK
        <4>2. \A x \in Elems(buffer[i]) : x \in Nat BY ElementOfSeq DEF Elems, TypeOK
        <4>3. m <= pos[i] /\ m \notin Elems(buffer[i]) BY <1>4, <1>5, <4>1, <4>2
        <4>4. Passed(i, m) BY <4>3 DEF Passed
        <4> QED BY <2>1, <3>2, <4>4 DEF Fresh
      <3>6. \A j \in Instances : applied'[j] <= h /\ mem'[j][c] <= h
        <4>1. \A j \in Instances : applied[j] <= h /\ mem[j][c] <= h BY <1>4, <2>2, <2>3, <2>4, <3>4
        <4>2. new[c] = h BY <1>7, <2>1, <2>5
        <4> QED BY <1>4, <1>8, <1>9, <4>1, <4>2
      <3> QED BY <1>4, <2>2, <2>3, <3>3, <3>4, <3>5, <3>6
    <2>6. CASE c \notin Behind(i, h)
      <3>1. cp'[c] = cp[c] /\ new[c] = mem[i][c] BY <1>7, <1>10, <2>1, <2>6
      <3>2. ~(h > mem[i][c]) BY <2>1, <2>6 DEF Behind
      <3>3. h <= cp[c] BY <1>4, <2>2, <2>3, <3>2
      <3> QED BY <1>8, <1>9, <2>3, <3>1, <3>3
    <2> QED BY <2>5, <2>6
  <1> QED BY <1>12, <1>14, <1>15, <1>16, <1>17, <1>18, <1>19, <1>20

----------------------------------------------------------------------------
LEMMA NextIInv == ASSUME IInv, [Next]_vars PROVE IInv'
  <1>1. CASE \E c \in Configs : Commit(c) BY <1>1, CommitStep
  <1>2. CASE \E i \in Instances : SetUp(i)
    <2> SUFFICES ASSUME NEW i \in Instances, SetUp(i) PROVE IInv' BY <1>2
    <2> QED
      BY ReadPublicationStep, AddTablesStep, DropTablesStep, BackfillStep, TerminateStep, PollStep,
         LoadCheckpointsStep, ConnectStep DEF SetUp
  <1>3. CASE \E i \in Instances : Streaming(i)
    BY <1>3, DeliverStep, SaveAndAckStep, ConnectionGoneStep DEF Streaming
  <1>4. CASE \E i \in Instances : Postgres(i)
    BY <1>4, SendStep, FlushSlotStep, BackendExitsStep DEF Postgres
  <1>5. CASE \E i \in Instances : Boot(i) \/ Exit(i) \/ LoseConnection(i)
    BY <1>5, BootStep, ExitStep, LoseConnectionStep
  <1>6. CASE UNCHANGED vars
    <2>1. Kept /\ UNCHANGED <<pc, publication, missing, stale, buffer, pos, hand, applied, cut, mem, start, dying>>
      BY <1>6 DEF Kept, vars, pgVars, docs, stored, conn, planned
    <2> QED BY <2>1, DyingStep DEF IInv, Frame, TypeOK
  <1> QED BY <1>1, <1>2, <1>3, <1>4, <1>5, <1>6 DEF Next

(* The inductive invariant: nothing that is or may become the slot's        *)
(* position is past an undelivered change of a shared config, and outside   *)
(* overlapped no checkpoint is behind what anybody acknowledged.            *)
THEOREM Inductive == Spec => []IInv
  <1>1. Init => IInv BY InitIInv
  <1>2. IInv /\ [Next]_vars => IInv' BY NextIInv
  <1> QED BY <1>1, <1>2, PTL DEF Spec

(* Any number of processes may fight over the slot, stop and come back at   *)
(* any point: it never moves past a change of a config they all apply       *)
(* before that change reached the namespace.                                *)
THEOREM LosesNothingShared == Spec => []SharedLosesNothing
  <1>1. IInv => SharedLosesNothing BY DEF IInv, NothingLost, Safe, SharedLosesNothing
  <1> QED BY <1>1, Inductive, PTL

(* When the process on the slot has handled all there is, each document of  *)
(* a shared config is the newest change, unless a process wrote the config  *)
(* after another had taken the slot or gone ahead.                          *)
THEOREM CaughtUpIsNewest == Spec => []CaughtUpShowsNewest
  <1>1. ASSUME IInv, NEW i \in Instances, Current(i), NEW c \in Shared \ overlapped
        PROVE  Mirrored(c)
    <2> USE DEF IInv, Frame
    <2>1. Attached(i) /\ buffer[i] = <<>> /\ Unsent(i) = {} BY <1>1 DEF Current
    <2>2. ChangesOf(c) \subseteq Nat /\ pos[i] \in Nat /\ c \in Configs
      BY <1>1, ChangesType, SharedConfigs DEF TypeOK
    <2>3. \A n \in ChangesOf(c) : n <= pos[i] BY <1>1, <2>1, <2>2, SharedIsSent
    <2>4. \A n \in ChangesOf(c) : Passed(i, n) BY <2>1, <2>3, EmptyElems DEF Passed
    <2>5. (\A n \in ChangesOf(c) : n <= doc[c]) /\ doc[c] \in ChangesOf(c) \cup {0}
      BY <1>1, <2>1, <2>4 DEF Fresh
    <2>6. CASE ChangesOf(c) = {} BY <2>5, <2>6 DEF Mirrored, Newest
    <2>7. CASE ChangesOf(c) # {}
      <3>1. \A n \in ChangesOf(c) : n # 0 BY <1>1, ChangesType
      <3>2. doc[c] \in ChangesOf(c) BY <2>2, <2>5, <2>7, <3>1
      <3>3. \A n \in ChangesOf(c) : (\A m \in ChangesOf(c) : m <= n) => n = doc[c]
        BY <2>2, <2>5, <3>2
      <3>4. Newest(ChangesOf(c)) = doc[c] BY <2>5, <2>7, <3>2, <3>3 DEF Newest
      <3> QED BY <3>4 DEF Mirrored
    <2> QED BY <2>6, <2>7
  <1>2. IInv => CaughtUpShowsNewest BY <1>1 DEF CaughtUpShowsNewest
  <1> QED BY <1>2, Inductive, PTL
=============================================================================
