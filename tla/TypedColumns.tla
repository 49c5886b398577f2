---------------------------- MODULE TypedColumns ----------------------------
(* How typed values travel.  Every column goes to the transform as text, and *)
(* the text of a value depends on the way it came: pgoutput sends what the   *)
(* type's output function prints, a backfill, a replay and the dry run of    *)
(* `check` and `apply` send a ::text cast.  The document id is parsed from   *)
(* text by id type, crosses to the script as JSON, and comes back; a cursor  *)
(* and a replay compare it with the column.  `new` picks the id type,        *)
(* `generate` the types of schema.ts, and preflight decides what may run.    *)
(*                                                                           *)
(* One config on a table (id, v).  A value is a number k, written by its     *)
(* column's type; ids and texts are members of small sets, a text read from  *)
(* an id column is a sequence, with a blank when it is padded.  The script   *)
(* is external: it parses its columns with parseRow and stores v, under the  *)
(* id it was given.  Delivery order, re-deliveries and columns that move are *)
(* StreamingLoop's and RowDelivery's.                                        *)
EXTENDS Integers, Sequences, FiniteSets, SequencesExt

CONSTANTS
  Ids,          \* spellings of ids, of "7", "-7", "even", "big", "u", "w"
  IdUdts,       \* types the id column may have
  ValueUdts,    \* types v may have
  ColumnLists,  \* what `columns` of the config may be, None to omit it
  None,
  MaxRetries,   \* dlq_max_retries
  MaxRows, MaxWrites, MaxFailures   \* bounds: rows at first, writes, failed sends

\* pos_int is a domain over int8.  "even" is 2^53 and "big" the next number, which no JavaScript number is.
IdsOf ==
  [int8 |-> {"7", "-7", "even", "big"}, pos_int |-> {"7", "even", "big"},
   uuid |-> {"u"}, text |-> {"u", "w"},
   bpchar |-> {"u", "w"}, citext |-> {"u", "w"}, name |-> {"u", "w"}]

Spellings == {"7", "-7", "even", "big", "u", "w"}
Texts == Spellings \cup {"1", "2", "x", "y", "t", "f", "true", "false", "{}", "[]"}

ASSUME ConstantsAssumption ==
  /\ Ids \subseteq Spellings /\ IdUdts \subseteq DOMAIN IdsOf
  /\ ValueUdts \subseteq {"int8", "text", "bool", "jsonb"}
  /\ MaxRetries \in Nat \ {0}

\* None is no text, no id, no value of a document, no schema.
ASSUME NoneAssumption ==
  /\ None \notin Texts \cup {"transform", <<"null">>, <<"throws">>}
  /\ None \notin {<<i>> : i \in Ids} \cup {<<i, " ">> : i \in Ids}
  /\ None \notin {"number", "json", "string"} \X Texts /\ None \notin {"boolean"} \X BOOLEAN
  /\ None \notin [1 .. 2 -> [name : {"id", "v"}, type : {"int", "bool", "uuid", "json", "string"}]]

Layout == <<"id", "v">>
BaseType(udt) == IF udt = "pos_int" THEN "int8" ELSE udt
IdTypes == {"uint", "int", "uuid", "string"}

VARIABLES
  types,    \* the table's types: [id, v]
  rows,     \* rows[i]: the value of v, 0 when there is no row
  wal,      \* changes not handled yet: [op, id, v], as texts
  writes,
  config,   \* [idType, columns], None before `new`
  schema,   \* schema.ts: a sequence of [name, type], None when it is missing
  phase,    \* "none", "written", "applied", "stream"; "unsupported": no cursor can be had
  refusal,  \* why `apply` refused the files as they are: None, "id type", "transform"
  checked,  \* how the last `check` of this config and table ended
  docs,     \* docs[d]: the document's v
  dlq,      \* [id, op, tries]; permanent at MaxRetries
  failures,
  \* history
  edited,   \* the config is not as `new` wrote it, with the table in reach
  altered   \* the type of v has changed

table == <<types, rows, wal, writes, altered>>
files == <<config, schema, edited>>
mirror == <<docs, dlq, failures>>
vars == <<table, files, phase, refusal, checked, mirror>>

TableIds == Ids \cap IdsOf[types.id]
DocIds == {<<i>> : i \in Ids} \cup {<<i, " ">> : i \in Ids}

Init ==
  /\ types \in [id : IdUdts, v : ValueUdts]
  /\ rows \in {r \in [Ids -> 0..2] : {i \in Ids : r[i] # 0} \subseteq TableIds
                                       /\ Cardinality({i \in Ids : r[i] # 0}) <= MaxRows}
  /\ wal = <<>> /\ writes = 0 /\ altered = FALSE
  /\ config = None /\ schema = None /\ edited = FALSE
  /\ phase = "none" /\ refusal = None /\ checked = None
  /\ docs = [d \in DocIds |-> None] /\ dlq = {} /\ failures = 0

----------------------------------------------------------------------------
(* Values as texts, and back.                                               *)

\* The output function of the type, which pgoutput uses.
Printed(udt, k) ==
  CASE udt = "int8" -> <<"1", "2">>[k]  [] udt = "text"  -> <<"x", "y">>[k]
    [] udt = "bool" -> <<"t", "f">>[k]  [] udt = "jsonb" -> <<"{}", "[]">>[k]

\* The ::text cast differs for bool, and takes the padding off a char(n).
CastToText(udt, k) == IF udt = "bool" THEN <<"true", "false">>[k] ELSE Printed(udt, k)
IdPrinted(i) == IF types.id = "bpchar" THEN <<i, " ">> ELSE <<i>>
IdCast(i) == <<i>>

\* puffgres.ts parseValue; JSON.stringify writes NaN as null.
Throws == <<"throws">>
Parsed(type, text) ==
  IF text = None THEN <<"null">> ELSE
  CASE type = "int"  -> IF text \in {"1", "2"} THEN <<"number", text>> ELSE <<"null">>
    [] type = "bool" -> <<"boolean", text = "true">>
    [] type = "json" -> CASE text \in {"{}", "[]"} -> <<"json", text>>
                          [] text \in {"1", "2", "7"} -> <<"number", text>>
                          [] text \in {"true", "false"} -> <<"boolean", text = "true">>
                          [] OTHER -> Throws
    [] OTHER         -> <<"string", text>>

\* What a value of the table's type is to mean in a document.
Meaning(udt, k) ==
  CASE udt = "int8" -> <<"number", Printed(udt, k)>>  [] udt = "text"  -> <<"string", Printed(udt, k)>>
    [] udt = "bool" -> <<"boolean", k = 1>>           [] udt = "jsonb" -> <<"json", Printed(udt, k)>>

\* parseRow reads every column of schema.ts by its place.
At(cells, p) == IF p \in DOMAIN cells THEN cells[p] ELSE None
Row(cells) == [p \in DOMAIN schema |-> Parsed(schema[p].type, At(cells, p))]
ScriptThrows(cells) == Throws \in Range(Row(cells))
Document(cells) ==
  LET p == {q \in DOMAIN schema : schema[q].name = "v"}
  IN  IF p = {} THEN <<"null">> ELSE Row(cells)[CHOOSE q \in p : TRUE]

----------------------------------------------------------------------------
(* Ids.                                                                     *)

\* from_text
Readable ==
  [uint |-> {"7", "even", "big"}, int |-> {"7", "-7", "even", "big"}, uuid |-> {"u"}]
FromText(text) ==
  IF config.idType = "string" \/ (Len(text) = 1 /\ text[1] \in Readable[config.idType])
    THEN text ELSE None

\* serialize_events writes an integer id as a JSON number, which the script reads into
\* a double; parse_actions takes back the id of its answer.
ThroughScript(d) ==
  IF config.idType \in {"uint", "int"} /\ d = <<"big">> THEN <<"even">> ELSE d

\* The two lookups of a column's type in the catalogs unwrap domains.
ColumnType(c) == types[c]   \* mutant: the domain itself
ColumnInfo(c) == BaseType(types[c])
ValidateColumn(c) == BaseType(types[c])

\* The compatibility that preflight asks for.
Integers == {"int8"}
TextTypes == {"text", "bpchar", "name", "citext"}

CheckIdTypeCompat(idType, udt) ==
  CASE idType \in {"uint", "int"} -> udt \in Integers
    [] idType = "uuid"            -> udt = "uuid" \/ udt \in TextTypes
    [] OTHER                      -> udt \in TextTypes \cup Integers \cup {"uuid"}

\* resolve_cursor_cast: an error for any other type, under its domains.
HasCursor(udt) == BaseType(udt) \in {"int8", "uuid", "text", "bpchar"}

IdTypeForUdt(udt) == IF udt = "int8" THEN "uint" ELSE IF udt = "uuid" THEN "uuid" ELSE "string"

\* The cast a replay gives its parameter follows the config's id type.  Without one
\* the parameter has the column's type, and a string is only sent as text; a parameter
\* cast to uuid is only compared with a uuid.
ReplayCompares ==
  CASE config.idType \in {"uint", "int"} -> BaseType(types.id) \in Integers
    [] config.idType = "uuid"            -> types.id = "uuid"
    [] OTHER                             -> types.id \in TextTypes

\* Trailing blanks are nothing to a char(n).
SameId(i, d) == IF types.id = "bpchar" THEN i = d[1] ELSE <<i>> = d

----------------------------------------------------------------------------
(* The project's files.                                                     *)

TpufScalar(udt) ==   \* mutant: int8 is forgotten
  CASE udt = "bool" -> "bool" [] udt = "uuid" -> "uuid" [] udt = "jsonb" -> "json" [] OTHER -> "string"
TpufType(udt) ==
  CASE udt = "int8" -> "int" [] udt = "bool" -> "bool" [] udt = "uuid" -> "uuid"
    [] udt = "jsonb" -> "json" [] OTHER -> "string"

Named(columns) == IF columns = None THEN Layout ELSE columns

SchemaOf(columns) ==
  [p \in DOMAIN Named(columns) |-> [name |-> Named(columns)[p], type |-> TpufType(ColumnInfo(Named(columns)[p]))]]

\* `puffgres new`; without the database the id type is a guess, and schema.ts missing.
New ==
  /\ phase = "none"
  /\ \E reached \in BOOLEAN :
       /\ config' = [idType |-> IF reached THEN IdTypeForUdt(ColumnInfo("id")) ELSE "uint", columns |-> None]
       /\ schema' = IF reached THEN SchemaOf(None) ELSE None
       /\ edited' = ~reached
  /\ phase' = "written"
  /\ UNCHANGED <<table, refusal, checked, mirror>>

Edit ==   \* by hand, before it is applied
  /\ phase = "written"
  /\ config' \in [idType : IdTypes, columns : ColumnLists] /\ config' # config
  /\ edited' = TRUE /\ checked' = None /\ refusal' = None
  /\ UNCHANGED <<table, schema, phase, mirror>>

Generate ==
  /\ config # None /\ schema' = SchemaOf(config.columns) /\ refusal' = None
  /\ UNCHANGED <<table, config, edited, phase, checked, mirror>>

----------------------------------------------------------------------------
(* Preflight.                                                               *)

\* faker: an id that parses, and a value of the kind schema.ts gives the column.
FakeId == IF config.idType \in {"uint", "int"} THEN "7" ELSE "u"
FakeWords(udt) == IF udt = "int8" THEN "1" ELSE "x"   \* mutant: words for a json column
FakeValue(udt) ==
  CASE udt = "int8" -> "1" [] udt = "text" -> "x" [] udt = "bool" -> "true" [] udt = "jsonb" -> "{}"

\* The dry run's transformer has no column_reindex: it gets the table's columns.
DryRunCells == <<FakeId, FakeValue(ColumnInfo("v"))>>
DryRunPasses(s) ==
  /\ s # None
  /\ \A p \in DOMAIN s : Parsed(s[p].type, At(DryRunCells, p)) # Throws

Preflight(runsTransform, s) ==
  CheckIdTypeCompat(config.idType, ValidateColumn("id")) /\ (runsTransform => DryRunPasses(s))

\* `puffgres check` generates first; the transform is run when the config is named.
Check ==
  /\ config # None /\ schema' = SchemaOf(config.columns) /\ refusal' = None
  /\ \E named \in BOOLEAN :
       checked' = IF Preflight(named, schema') THEN "passed" ELSE "failed"
  /\ UNCHANGED <<table, config, edited, phase, mirror>>

Apply ==
  /\ phase = "written"
  /\ IF Preflight(TRUE, schema)
       THEN phase' = "applied" /\ refusal' = None
       ELSE refusal' = (IF Preflight(FALSE, schema) THEN "transform" ELSE "id type") /\ UNCHANGED phase
  /\ UNCHANGED <<table, files, checked, mirror>>

----------------------------------------------------------------------------
(* The run.                                                                 *)

\* column_reindex, of the listed columns in the table; none when they are not listed.
Extract(cells) ==
  IF config.columns = None THEN cells
  ELSE [p \in DOMAIN config.columns |->
          At(cells, CHOOSE q \in DOMAIN Layout : Layout[q] = config.columns[p])]

IdCell(text) == text[1]
Cells(names, id, v) == [p \in DOMAIN names |-> IF names[p] = "id" THEN IdCell(id) ELSE v]

\* A page: the columns, the id if they lack it, the cursor.
PageCells(i) ==
  Extract(Cells(Named(config.columns)
                  \o (IF "id" \in Range(Named(config.columns)) THEN <<>> ELSE <<"id">>) \o <<"id">>,
                IdCast(i), CastToText(types.v, rows[i])))

\* The row as a replay reads it.
ReplayCells(i) == Extract(Cells(Layout, IdCast(i), CastToText(types.v, rows[i])))

Present == {i \in Ids : rows[i] # 0}

\* preflight_applied: a run checks its applied configs as `check` does.
PreflightApplied == Preflight(FALSE, schema)

\* All rows in one page; a failure leaves the config to the next start of the run.
Backfill ==
  /\ phase = "applied" /\ PreflightApplied
  /\ IF ~HasCursor(types.id)
       THEN phase' = "unsupported" /\ UNCHANGED docs
       ELSE /\ \A i \in Present : FromText(IdCast(i)) # None /\ ~ScriptThrows(PageCells(i))
            /\ docs' = [d \in DocIds |->
                 LET from == {i \in Present : ThroughScript(FromText(IdCast(i))) = d}
                 IN  IF from = {} THEN docs[d] ELSE Document(PageCells(CHOOSE i \in from : TRUE))]
            /\ phase' = "stream"
  /\ UNCHANGED <<table, files, refusal, checked, dlq, failures>>

\* A write; the slot keeps those made once the run has started on the config.
Change(op, i, k) == [op |-> op, id |-> IdPrinted(i), v |-> Printed(types.v, k)]

Write ==
  /\ writes < MaxWrites /\ writes' = writes + 1
  /\ \E i \in TableIds, k \in 0..2 :
       /\ k # rows[i] /\ rows' = [rows EXCEPT ![i] = k]
       /\ LET change == IF rows[i] = 0 THEN Change("insert", i, k)
                        ELSE IF k = 0 THEN Change("delete", i, rows[i]) ELSE Change("update", i, k)
          IN  wal' = IF phase = "stream" THEN Append(wal, change) ELSE wal
  /\ UNCHANGED <<types, altered, files, phase, refusal, checked, mirror>>

AlterType ==   \* a migration of v, once
  /\ ~altered /\ altered' = TRUE
  /\ \E udt \in ValueUdts \ {types.v} : types' = [types EXCEPT !.v = udt]
  /\ checked' = None /\ refusal' = None
  /\ UNCHANGED <<rows, wal, writes, files, phase, mirror>>

Set(d, value) == docs' = [docs EXCEPT ![ThroughScript(d)] = value]

DeadLetter(id, op) == [id |-> id, op |-> op, tries |-> 0]

\* An event without a readable id is skipped.  One whose transform or write fails is
\* dead-lettered under the id it was routed with; writes of deletes do not fail here, as
\* replays of deletes gone stale are StreamingLoop's subject.
Stream ==
  /\ phase = "stream" /\ wal # <<>> /\ wal' = Tail(wal)
  /\ LET change == Head(wal)
         id     == FromText(change.id)
         cells  == Extract(Cells(Layout, change.id, change.v))
         throws == change.op # "delete" /\ ScriptThrows(cells)
     IN  \/ id = None /\ UNCHANGED mirror
         \/ /\ id # None /\ ~throws
            /\ Set(id, IF change.op = "delete" THEN None ELSE Document(cells))
            /\ UNCHANGED <<dlq, failures>>
         \/ /\ id # None /\ (throws \/ (change.op # "delete" /\ failures < MaxFailures))
            /\ failures' = IF throws THEN failures ELSE failures + 1
            /\ dlq' = dlq \cup {DeadLetter(id, change.op)}
            /\ UNCHANGED docs
  /\ UNCHANGED <<types, rows, writes, altered, files, phase, refusal, checked>>

Retryable == {e \in dlq : e.tries < MaxRetries}

\* replay_upsert reads the row again by the entry's id; a row that is gone is deleted.
\* Whatever fails costs the entry a retry.
RowsOf(e) == {i \in Present : ReplayCompares /\ SameId(i, e.id)}
FailsInScript(e) == \E i \in RowsOf(e) : ScriptThrows(ReplayCells(i))   \* mutant: an error is no row
Fails(e) == ~ReplayCompares \/ \E i \in RowsOf(e) : ScriptThrows(ReplayCells(i))
DeleteEntry(e) == dlq' = dlq \ {e}
IncrementRetry(e) == dlq' = (dlq \ {e}) \cup {[e EXCEPT !.tries = @ + 1]}
Replay(e) ==
  IF Fails(e)
    THEN IncrementRetry(e) /\ UNCHANGED docs
    ELSE /\ DeleteEntry(e)
         /\ IF RowsOf(e) = {} THEN Set(e.id, None)
            ELSE \E i \in RowsOf(e) : Set(FromText(IdCast(i)), Document(ReplayCells(i)))

ReplayDlq ==
  /\ phase = "stream" /\ \E e \in Retryable : Replay(e)
  /\ UNCHANGED <<table, files, phase, refusal, checked, failures>>

Next ==
  \/ New \/ Edit \/ Generate \/ Check \/ Apply
  \/ Backfill \/ Stream \/ ReplayDlq
  \/ Write \/ AlterType

Spec == Init /\ [][Next]_vars

----------------------------------------------------------------------------
(* Properties.                                                              *)

\* `apply` refuses a config for its transform's sake only when schema.ts is not the one
\* of the config and the table: the dry run feeds each column a value it can parse.
SoundConfigsApply ==
  refusal = "transform" => schema # SchemaOf(config.columns)

IdOfRow(i) == FromText(IdCast(i))
Quiet == phase = "stream" /\ wal = <<>> /\ Retryable = {}
GivenUp == {e.id : e \in dlq \ Retryable}

\* Once everything is handled, the documents are those of the rows with a readable id,
\* whether each was last written, or deleted, from the WAL, a page or a replay: all
\* three read the same id from a row, and the script hands it back.
MirrorsRows ==
  Quiet => \A d \in DocIds \ GivenUp :
             (docs[d] # None) <=> \E i \in Present : IdOfRow(i) = d

\* ... and each shows what the row's value means, by whichever way it came last.
ShowsRows ==
  Quiet /\ ~altered => \A i \in Present :
     IdOfRow(i) \notin GivenUp \cup {None} => docs[IdOfRow(i)] = Meaning(types.v, rows[i])

\* A dead letter of a config as `new` wrote it is replayed at the first try, when the
\* services are up and the table has not been migrated.
NewConfigsRecover == config # None /\ ~edited /\ ~altered => \A e \in dlq : e.tries = 0

\* A replay deletes the document of no row that is there.
ReplayKeepsLiveRows ==
  [][ReplayDlq => \A i \in Present :
       LET d == IdOfRow(i) IN d # None /\ docs[d] # None => docs'[d] # None]_vars
=============================================================================
