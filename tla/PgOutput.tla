------------------------------ MODULE PgOutput ------------------------------
(* The pgoutput decoder (crates/replication/src/decoder.rs): one message of  *)
(* the replication stream, read from its bytes field by field.               *)
(*                                                                           *)
(* `rest` is the Bytes cursor; every step is one `need` check and the reads  *)
(* it stands for.  A read that the check before it does not cover is a step  *)
(* to "panic", which is what bytes::Buf does.  Integers are big-endian of    *)
(* U16, U32 and U64 bytes (2, 4 and 8 in the code: the widths are constants  *)
(* so that TLC can use shorter ones), a name or a value is its bytes.        *)
EXTENDS Integers, Sequences, SequencesExt

CONSTANTS
  U16, U32, U64,  \* the widths of the integers, in bytes
  Wires,          \* the byte sequences that arrive
  Sent            \* the messages Postgres may have encoded in one of them

Byte == 0..255

Code == [B |-> 66, C |-> 67, R |-> 82, I |-> 73, U |-> 85, D |-> 68, T |-> 84,
         N |-> 78, K |-> 75, O |-> 79, null |-> 110, unchanged |-> 117,
         text |-> 116, binary |-> 98]

RowTag == [insert |-> Code.I, update |-> Code.U, delete |-> Code.D]
Tags == {Code.B, Code.C, Code.R, Code.T} \cup Range(RowTag)

\* The numbers of w bytes, unsigned and signed.
Limit(w) == LET power[i \in 0..w] == IF i = 0 THEN 1 ELSE 256 * power[i - 1]
            IN  power[w]
IsUnsigned(v, w) == v \in 0 .. Limit(w) - 1
IsSigned(v, w) == v \in -128 * Limit(w - 1) .. 128 * Limit(w - 1) - 1

\* Characters of one or two bytes: a lead byte has exactly one continuation.
IsUtf8(s) ==
  LET Lead(i) == i \in DOMAIN s /\ s[i] \in 194..223
  IN  \A i \in DOMAIN s :
        \/ s[i] < 128
        \/ Lead(i) /\ i < Len(s) /\ s[i + 1] \in 128..191
        \/ s[i] \in 128..191 /\ Lead(i - 1)

IsName(s) == 0 \notin Range(s) /\ IsUtf8(s)

ColumnValue == [kind : {"null", "unchanged"}]
                 \cup [kind : {"text", "binary"}, bytes : Seq(Byte)]

IsTuple(t) ==
  /\ t \in Seq(ColumnValue) /\ IsUnsigned(Len(t), U16)
  /\ \A i \in DOMAIN t :
       t[i].kind \in {"text", "binary"} => IsUnsigned(Len(t[i].bytes), U32)

ColumnInfo == [part_of_key : BOOLEAN, name : Seq(Byte), type_oid : Nat,
               type_modifier : Int]

\* The replica identities d, n, f and i.
Identities == {100, 110, 102, 105}
Default == 100

RelationMessage == [kind : {"relation"}, id : Nat, namespace : Seq(Byte),
                    name : Seq(Byte), identity : Byte, columns : Seq(ColumnInfo)]

IsRelationMessage(m) ==
  /\ m \in RelationMessage /\ IsUnsigned(m.id, U32)
  /\ IsName(m.namespace) /\ IsName(m.name) /\ m.identity \in Identities
  /\ IsUnsigned(Len(m.columns), U16)
  /\ \A i \in DOMAIN m.columns :
       /\ IsName(m.columns[i].name) /\ IsUnsigned(m.columns[i].type_oid, U32)
       /\ IsSigned(m.columns[i].type_modifier, U32)

\* An Option is a sequence of at most one element.
Option(S) == {<<>>} \cup {<<x>> : x \in S}

\* The three row messages share a shape: an insert has no old tuple, a delete
\* no new one.
IsRowMessage(m) ==
  /\ m = [kind |-> m.kind, relation_id |-> m.relation_id, old |-> m.old, new |-> m.new]
  /\ m.kind \in {"insert", "update", "delete"}
  /\ IsUnsigned(m.relation_id, U32)
  /\ m.old = <<>> \/ (m.old = <<m.old[1]>> /\ IsTuple(m.old[1]))
  /\ m.new = <<>> \/ (m.new = <<m.new[1]>> /\ IsTuple(m.new[1]))
  /\ m.kind = "insert" => m.old = <<>>
  /\ m.kind = "delete" => m.old # <<>>
  /\ m.new = <<>> <=> m.kind = "delete"

IsControlMessage(m) ==
  \/ /\ m \in [kind : {"begin"}, final_lsn : Nat, timestamp : Int, xid : Nat]
     /\ IsUnsigned(m.final_lsn, U64) /\ IsSigned(m.timestamp, U64) /\ IsUnsigned(m.xid, U32)
  \/ /\ m \in [kind : {"commit"}, flags : Byte, commit_lsn : Nat, end_lsn : Nat,
               timestamp : Int]
     /\ IsUnsigned(m.commit_lsn, U64) /\ IsUnsigned(m.end_lsn, U64)
     /\ IsSigned(m.timestamp, U64)
  \/ /\ m \in [kind : {"truncate"}, option_bits : Byte, relation_ids : Seq(Nat)]
     /\ IsUnsigned(Len(m.relation_ids), U32)
     /\ \A i \in DOMAIN m.relation_ids : IsUnsigned(m.relation_ids[i], U32)
  \/ /\ m \in [kind : {"other"}, tag : Byte] /\ m.tag \notin Tags

IsMessage(m) == IsControlMessage(m) \/ IsRelationMessage(m) \/ IsRowMessage(m)

ASSUME WidthsAssumption == {U16, U32, U64} \subseteq Nat \ {0}
ASSUME WiresAssumption == Wires \subseteq Seq(Byte)
ASSUME SentAssumption == \A m \in Sent : IsMessage(m)

-----------------------------------------------------------------------------
(* What Postgres writes: the encoding the decoder has to undo.              *)

\* v in w bytes, most significant first; a negative v in two's complement.
BigEndian(v, w) ==
  LET high[i \in 0..w] == IF i = 0 THEN v ELSE high[i - 1] \div 256
  IN  [i \in 1..w |-> high[w - i] % 256]

EncodedEach(s, Encoded(_)) == FlattenSeq([i \in DOMAIN s |-> Encoded(s[i])])

EncodedValue(v) ==
  IF v.kind \in {"null", "unchanged"} THEN <<Code[v.kind]>>
  ELSE <<Code[v.kind]>> \o BigEndian(Len(v.bytes), U32) \o v.bytes

EncodedTuple(t) == BigEndian(Len(t), U16) \o EncodedEach(t, EncodedValue)

CString(name) == Append(name, 0)

EncodedColumn(c) ==
  <<IF c.part_of_key THEN 1 ELSE 0>> \o CString(c.name)
    \o BigEndian(c.type_oid, U32) \o BigEndian(c.type_modifier, U32)

EncodedId(id) == BigEndian(id, U32)

\* The encodings of a message.  An old tuple is marked as the key or as the
\* whole row, which the decoded message no longer tells apart.
Encodings(m) ==
  CASE m.kind = "begin" ->
         {<<Code.B>> \o BigEndian(m.final_lsn, U64)
            \o BigEndian(m.timestamp, U64) \o BigEndian(m.xid, U32)}
    [] m.kind = "commit" ->
         {<<Code.C, m.flags>> \o BigEndian(m.commit_lsn, U64)
            \o BigEndian(m.end_lsn, U64) \o BigEndian(m.timestamp, U64)}
    [] m.kind = "relation" ->
         {<<Code.R>> \o EncodedId(m.id) \o CString(m.namespace)
            \o CString(m.name) \o <<m.identity>>
            \o BigEndian(Len(m.columns), U16)
            \o EncodedEach(m.columns, EncodedColumn)}
    [] m.kind = "truncate" ->
         {<<Code.T>> \o BigEndian(Len(m.relation_ids), U32)
            \o <<m.option_bits>> \o EncodedEach(m.relation_ids, EncodedId)}
    [] m.kind = "other" -> {<<m.tag>>}
    [] OTHER ->
         {<<RowTag[m.kind]>> \o EncodedId(m.relation_id)
            \o EncodedEach(m.old, LAMBDA t : <<mark>> \o EncodedTuple(t))
            \o EncodedEach(m.new, LAMBDA t : <<Code.N>> \o EncodedTuple(t)) :
            mark \in {Code.K, Code.O}}

-----------------------------------------------------------------------------
VARIABLES
  wire,   \* the bytes of the message, as they arrived
  rest,   \* buf: the bytes not read yet
  field,  \* what is read next, or "ok", "err" or "panic"
  msg,    \* the message, as far as it is decoded
  side,   \* which tuple of a row message is being read
  tuple,  \* the columns of that tuple read so far
  left    \* the columns still to come, of a tuple or a relation

decoder == <<wire, rest, field, msg, side, tuple, left>>

DecoderInit ==
  /\ wire \in Wires
  /\ rest = wire
  /\ field = "tag"
  /\ msg = [kind |-> "none"]
  /\ side = "new"
  /\ tuple = <<>>
  /\ left = 0

\* buf.remaining() >= n
Fits(n) == n \in 0..Len(rest)

\* The integer of w bytes that starts `skip` bytes ahead, unsigned and signed.
Digits(high, bytes) == FoldLeft(LAMBDA v, b : 256 * v + b, high, bytes)

Unsigned(skip, w) == Digits(0, SubSeq(rest, skip + 1, skip + w))

Signed(skip, w) ==
  Digits(IF rest[skip + 1] < 128 THEN 0 ELSE -1, SubSeq(rest, skip + 1, skip + w))

Finish(end) ==
  field' = end /\ UNCHANGED <<wire, rest, msg, side, tuple, left>>

\* need(buf, needed)?, then reads of n bytes in all; Then is what is done with
\* them, and the next field.
Take(needed, n, Then) ==
  IF Fits(needed) /\ Fits(n)
  THEN /\ rest' = SubSeq(rest, n + 1, Len(rest))
       /\ Then
       /\ UNCHANGED wire
  ELSE Finish(IF Fits(needed) THEN "panic" ELSE "err")

Goto(next) == field' = next
Keep == UNCHANGED <<side, tuple, left>>

FieldOf == [t \in {Code.B, Code.C, Code.R, Code.T} |->
              CASE t = Code.B -> "begin" [] t = Code.C -> "commit"
                [] t = Code.R -> "relation" [] OTHER -> "truncate"]

RowKind(t) == CHOOSE k \in DOMAIN RowTag : RowTag[k] = t

\* The tag decides which message follows; one the pipeline has no use for is
\* accepted without reading on.
DecodeTag ==
  /\ field = "tag"
  /\ Take(1, 1,
       /\ Keep
       /\ LET tag == rest[1] IN
            IF tag \in DOMAIN FieldOf
            THEN Goto(FieldOf[tag]) /\ UNCHANGED msg
            ELSE IF tag \in Range(RowTag)
            THEN /\ Goto("row")
                 /\ msg' = [kind |-> RowKind(tag), relation_id |-> 0,
                            old |-> <<>>, new |-> <<>>]
            ELSE Goto("ok") /\ msg' = [kind |-> "other", tag |-> tag])

DecodeBegin ==
  /\ field = "begin"
  /\ Take(2 * U64 + U32, U64 + U64 + U32,
       /\ msg' = [kind |-> "begin", final_lsn |-> Unsigned(0, U64),
                  timestamp |-> Signed(U64, U64), xid |-> Unsigned(2 * U64, U32)]
       /\ Goto("ok") /\ Keep)

DecodeCommit ==
  /\ field = "commit"
  /\ Take(1 + 3 * U64, 1 + U64 + U64 + U64,
       /\ msg' = [kind |-> "commit", flags |-> rest[1],
                  commit_lsn |-> Unsigned(1, U64),
                  end_lsn |-> Unsigned(1 + U64, U64),
                  timestamp |-> Signed(1 + 2 * U64, U64)]
       /\ Goto("ok") /\ Keep)

DecodeTruncate ==
  /\ field = "truncate"
  /\ IF ~Fits(U32 + 1) THEN Finish("err")
     ELSE LET nrels == Unsigned(0, U32)
              size  == U32 + 1 + nrels * U32
          IN  Take(size, size,
                /\ msg' = [kind |-> "truncate", option_bits |-> rest[U32 + 1],
                           relation_ids |->
                             [i \in 1..nrels |-> Unsigned(1 + i * U32, U32)]]
                /\ Goto("ok") /\ Keep)

-----------------------------------------------------------------------------
(* A relation: its id, its names, its columns.                              *)

\* read_cstring: up to the first zero byte, which must be there.
NameEnd == SelectInSeq(rest, LAMBDA b : b = 0)
NameRead == SubSeq(rest, 1, NameEnd - 1)

ReadCString(Then) ==
  IF 0 \in Range(rest) /\ IsUtf8(NameRead) THEN Take(NameEnd, NameEnd, Then)
  ELSE Finish("err")

DecodeRelation ==
  /\ field = "relation"
  /\ Take(U32, U32,
       /\ msg' = [kind |-> "relation", id |-> Unsigned(0, U32),
                  namespace |-> <<>>, name |-> <<>>, identity |-> Default,
                  columns |-> <<>>]
       /\ Goto("namespace") /\ Keep)

DecodeNames ==
  \/ /\ field = "namespace"
     /\ ReadCString(/\ msg' = [msg EXCEPT !.namespace = NameRead]
                    /\ Goto("name") /\ Keep)
  \/ /\ field = "name"
     /\ ReadCString(/\ msg' = [msg EXCEPT !.name = NameRead]
                    /\ Goto("identity") /\ Keep)

\* from_pgoutput_byte: an unknown identity is the default one.
DecodeIdentity ==
  /\ field = "identity"
  /\ Take(1 + U16, 1 + U16,
       /\ msg' = [msg EXCEPT !.identity =
                    IF rest[1] \in Identities THEN rest[1] ELSE Default]
       /\ left' = Unsigned(1, U16)
       /\ Goto("flags") /\ UNCHANGED <<side, tuple>>)

\* A column is appended by its flags and completed by its name and its type.
DecodeColumnFlags ==
  /\ field = "flags"
  /\ \/ left = 0 /\ Finish("ok")
     \/ /\ left > 0
        /\ Take(1, 1,
             /\ msg' = [msg EXCEPT !.columns =
                          Append(@, [part_of_key |-> rest[1] % 2 = 1,
                                     name |-> <<>>, type_oid |-> 0,
                                     type_modifier |-> 0])]
             /\ left' = left - 1
             /\ Goto("column") /\ UNCHANGED <<side, tuple>>)

DecodeColumnName ==
  /\ field = "column"
  /\ ReadCString(/\ msg' = [msg EXCEPT !.columns[Len(msg.columns)].name = NameRead]
                 /\ Goto("type") /\ Keep)

DecodeColumnType ==
  /\ field = "type"
  /\ Take(2 * U32, U32 + U32,
       /\ msg' = [msg EXCEPT !.columns[Len(msg.columns)] =
                    [@ EXCEPT !.type_oid = Unsigned(0, U32),
                              !.type_modifier = Signed(U32, U32)]]
       /\ Goto("flags") /\ Keep)

-----------------------------------------------------------------------------
(* A row message: its relation, then one tuple or an old and a new one.      *)

ReadTuple(which) ==
  side' = which /\ tuple' = <<>> /\ Goto("count") /\ UNCHANGED left

\* Mutant: an old tuple is only expected to be a key.
KeysOnly ==
  /\ field = "row"
  /\ Take(U32 + 1, U32 + 1,
       LET marker == rest[U32 + 1]
           old == marker = Code.K /\ msg.kind # "insert"
           new == marker = Code.N /\ msg.kind # "delete"
       IN  /\ msg' = [msg EXCEPT !.relation_id = Unsigned(0, U32)]
           /\ IF old \/ new THEN ReadTuple(IF old THEN "old" ELSE "new")
              ELSE Goto("err") /\ Keep)

\* The relation and the marker of the first tuple: an insert has only a new
\* one, a delete only an old one, an update may have both.
DecodeRow ==
  /\ field = "row"
  /\ Take(U32 + 1, U32 + 1,
       LET marker == rest[U32 + 1]
           old == marker \in {Code.K, Code.O} /\ msg.kind # "insert"
           new == marker = Code.N /\ msg.kind # "delete"
       IN  /\ msg' = [msg EXCEPT !.relation_id = Unsigned(0, U32)]
           /\ IF old \/ new THEN ReadTuple(IF old THEN "old" ELSE "new")
              ELSE Goto("err") /\ Keep)

\* Mutant: the length is not checked before the second marker.
UncheckedMarker ==
  /\ field = "marker"
  /\ Take(0, 1,
       /\ IF rest[1] = Code.N THEN ReadTuple("new") ELSE Goto("err") /\ Keep
       /\ UNCHANGED msg)

\* Mutant: the second marker is skipped, whatever it is.
AnyMarker ==
  field = "marker" /\ Take(1, 1, ReadTuple("new") /\ UNCHANGED msg)

\* After the old tuple of an update: the marker of the new one.
DecodeNewMarker ==
  /\ field = "marker"
  /\ Take(1, 1,
       /\ IF rest[1] = Code.N THEN ReadTuple("new") ELSE Goto("err") /\ Keep
       /\ UNCHANGED msg)

DecodeCount ==
  /\ field = "count"
  /\ Take(U16, U16, /\ left' = Unsigned(0, U16) /\ Goto("value")
                    /\ UNCHANGED <<msg, side, tuple>>)

ColumnRead(v) ==
  /\ tuple' = Append(tuple, v)
  /\ left' = left - 1
  /\ UNCHANGED <<field, msg, side>>

\* One column of a tuple: nothing, or its length and its bytes.
DecodeValue ==
  /\ field = "value" /\ left > 0
  /\ IF ~Fits(1) THEN Finish("err")
     ELSE LET Is(kind) == rest[1] = Code[kind] IN
       \/ \E kind \in {"null", "unchanged"} :
            Is(kind) /\ Take(1, 1, ColumnRead([kind |-> kind]))
       \/ \E kind \in {"text", "binary"} :
            /\ Is(kind)
            /\ IF ~Fits(1 + U32) THEN Finish("err")
               ELSE LET size == 1 + U32 + Unsigned(1, U32) IN
                    Take(size, size,
                      ColumnRead([kind |-> kind,
                                  bytes |-> SubSeq(rest, 2 + U32, size)]))
       \/ /\ \A kind \in {"null", "unchanged", "text", "binary"} : ~Is(kind)
          /\ Finish("err")

TupleDone ==
  /\ field = "value" /\ left = 0
  /\ msg' = [msg EXCEPT ![side] = <<tuple>>]
  /\ Goto(IF msg.kind = "update" /\ side = "old" THEN "marker" ELSE "ok")
  /\ UNCHANGED <<wire, rest, side, tuple, left>>

Decode ==
  \/ DecodeTag \/ DecodeBegin \/ DecodeCommit \/ DecodeTruncate
  \/ DecodeRelation \/ DecodeNames \/ DecodeIdentity
  \/ DecodeColumnFlags \/ DecodeColumnName \/ DecodeColumnType
  \/ DecodeRow \/ DecodeNewMarker \/ DecodeCount \/ DecodeValue \/ TupleDone

DecoderSpec == DecoderInit /\ [][Decode]_decoder
\* decode is a plain function: nothing but its own end stops it.
FairDecoderSpec == DecoderSpec /\ WF_decoder(Decode)

-----------------------------------------------------------------------------
\* An encoding of a message Postgres sends decodes to that message: a field
\* read from the wrong place, or a marker taken for another, shows in it.
DecodesWhatWasSent ==
  \A m \in Sent : wire \in Encodings(m) =>
    field # "err" /\ (field = "ok" => msg = m)

\* A message is accepted only if the bytes read for it are an encoding of it,
\* so that one that is cut short or damaged is refused and never passes for a
\* shorter row.  What the decoder is told to ignore is left out: the bits of
\* the flags of a column but the first, an identity it does not know.
AcceptsItsBytes ==
  field = "ok" =>
    LET read == SubSeq(wire, 1, Len(wire) - Len(rest))
    IN  IF msg.kind = "relation"
        THEN \E e \in Encodings(msg) : Len(e) = Len(read)
        ELSE read \in Encodings(msg)

\* Whatever bytes arrive, the message is decoded or refused: no loop goes on
\* for ever on a count the bytes do not bear out, and no read goes past the
\* last byte, where bytes::Buf panics.
DecodeReturns == <>(field \in {"ok", "err"})
=============================================================================
