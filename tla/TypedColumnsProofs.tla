------------------------- MODULE TypedColumnsProofs -------------------------
(* Theorems about TypedColumns, for every set of types, ids and rows.       *)
EXTENDS TypedColumns, SequenceTheorems, TLAPS

Configs  == [idType : IdTypes, columns : ColumnLists \cup {None}]
Changes  == [op : {"insert", "update", "delete"}, id : DocIds, v : Texts]
Letters  == [id : DocIds, op : {"insert", "update", "delete"}, tries : Nat]
Answers  == ({"number", "json", "string"} \X Texts) \cup ({"boolean"} \X BOOLEAN) \cup {<<"null">>, Throws}
Phases   == {"none", "written", "applied", "stream", "unsupported"}

TypeOK ==
  /\ types \in [id : IdUdts, v : ValueUdts]
  /\ rows \in [Ids -> 0 .. 2] /\ Present \subseteq TableIds
  /\ wal \in Seq(Changes)
  /\ config \in Configs \cup {None} /\ (phase # "none" => config \in Configs)
  /\ (phase = "none" => refusal = None)
  /\ phase \in Phases /\ edited \in BOOLEAN /\ altered \in BOOLEAN
  /\ docs \in [DocIds -> Answers \cup {None}] /\ dlq \subseteq Letters
  /\ phase # "stream" => wal = <<>> /\ dlq = {} /\ docs = [d \in DocIds |-> None]

----------------------------------------------------------------------------
(* Lemmas on the data.                                                     *)

LEMMA PrintedText ==
  ASSUME NEW udt \in {"int8", "text", "bool", "jsonb"}, NEW k \in 1 .. 2
  PROVE  /\ Printed(udt, k) \in Texts /\ CastToText(udt, k) \in Texts
         /\ udt # "bool" => CastToText(udt, k) = Printed(udt, k)
         /\ udt = "int8" => Printed(udt, k) \in {"1", "2"}
         /\ udt = "jsonb" => Printed(udt, k) \in {"{}", "[]"}
  <1>1. \A a, b : <<a, b>>[k] = IF k = 1 THEN a ELSE b
    <2>1. k = 1 \/ k = 2 OBVIOUS
    <2>2. CASE k = 1 BY <2>2
    <2>3. CASE k = 2 BY <2>3
    <2> QED BY <2>1, <2>2, <2>3
  <1>2. CASE udt = "int8" BY <1>1, <1>2 DEF Printed, CastToText, Texts
  <1>3. CASE udt = "text" BY <1>1, <1>3 DEF Printed, CastToText, Texts
  <1>4. CASE udt = "bool"
    <2>1. /\ <<"t", "f">>[k] = IF k = 1 THEN "t" ELSE "f"
          /\ <<"true", "false">>[k] = IF k = 1 THEN "true" ELSE "false"
      BY <1>1
    <2>2. Printed(udt, k) = <<"t", "f">>[k] /\ CastToText(udt, k) = <<"true", "false">>[k]
      BY <1>4 DEF Printed, CastToText
    <2> QED BY <1>4, <2>1, <2>2 DEF Texts
  <1>5. CASE udt = "jsonb" BY <1>1, <1>5 DEF Printed, CastToText, Texts
  <1> QED BY <1>2, <1>3, <1>4, <1>5

LEMMA ParsedType ==
  ASSUME NEW type, NEW text \in Texts \cup {None}
  PROVE  Parsed(type, text) \in Answers
  <1>1. CASE text = None BY <1>1 DEF Parsed, Answers
  <1>2. CASE text # None /\ type = "int" BY <1>2 DEF Parsed, Answers
  <1>3. CASE text # None /\ type = "bool" BY <1>3 DEF Parsed, Answers
  <1>4. CASE text # None /\ type = "json"
    <2>1. CASE text \in {"{}", "[]"} BY <1>4, <2>1 DEF Parsed, Answers
    <2>2. CASE text \in {"1", "2", "7"} BY <1>4, <2>2 DEF Parsed, Answers
    <2>3. CASE text \in {"true", "false"} BY <1>4, <2>3 DEF Parsed, Answers
    <2>4. CASE text \notin {"{}", "[]", "1", "2", "7", "true", "false"}
      BY <1>4, <2>4 DEF Parsed, Answers
    <2> QED BY <2>1, <2>2, <2>3, <2>4
  <1>5. CASE text # None /\ type \notin {"int", "bool", "json"} BY <1>5 DEF Parsed, Answers
  <1> QED BY <1>1, <1>2, <1>3, <1>4, <1>5

\* Only a json column can refuse a text.
LEMMA NeverThrows ==
  ASSUME NEW type, NEW text \in Texts \cup {None},
         type = "json" => text \in {"{}", "[]", "1", "2", "7", "true", "false"}
  PROVE  Parsed(type, text) # Throws
  <1>1. CASE text = None BY <1>1 DEF Parsed, Throws
  <1>2. CASE text # None /\ type = "int" BY <1>2 DEF Parsed, Throws
  <1>3. CASE text # None /\ type = "bool" BY <1>3 DEF Parsed, Throws
  <1>4. CASE text # None /\ type = "json"
    <2>1. CASE text \in {"{}", "[]"} BY <1>4, <2>1 DEF Parsed, Throws
    <2>2. CASE text \in {"1", "2", "7"} BY <1>4, <2>2 DEF Parsed, Throws
    <2>3. CASE text \in {"true", "false"} BY <1>4, <2>3 DEF Parsed, Throws
    <2> QED BY <1>4, <2>1, <2>2, <2>3
  <1>5. CASE text # None /\ type \notin {"int", "bool", "json"} BY <1>5 DEF Parsed, Throws
  <1> QED BY <1>1, <1>2, <1>3, <1>4, <1>5

LEMMA NoneIsNoAnswer == None \notin Answers
  BY NoneAssumption DEF Answers, Throws

\* What a row tells the script are texts, or nothing where a column is missing.
LEMMA AtType ==
  ASSUME NEW cells, \A p \in DOMAIN cells : cells[p] \in Texts \cup {None}, NEW p
  PROVE  At(cells, p) \in Texts \cup {None}
  BY DEF At

LEMMA CellsType ==
  ASSUME NEW names, NEW id \in DocIds, NEW v \in Texts
  PROVE  \A p \in DOMAIN Cells(names, id, v) : Cells(names, id, v)[p] \in Texts \cup {None}
  <1>1. id[1] \in Ids
    <2>1. PICK i \in Ids : id = <<i>> \/ id = <<i, " ">> BY DEF DocIds
    <2>2. <<i>>[1] = i /\ <<i, " ">>[1] = i OBVIOUS
    <2>3. id[1] = i BY <2>1, <2>2
    <2> QED BY <2>3
  <1>2. Ids \subseteq Texts BY ConstantsAssumption DEF Texts
  <1> QED BY <1>1, <1>2 DEF Cells, IdCell

LEMMA ExtractType ==
  ASSUME NEW cells, \A p \in DOMAIN cells : cells[p] \in Texts \cup {None}
  PROVE  \A p \in DOMAIN Extract(cells) : Extract(cells)[p] \in Texts \cup {None}
  <1>1. CASE config.columns = None BY <1>1 DEF Extract
  <1>2. CASE config.columns # None
    <2>1. \A p \in DOMAIN config.columns :
            Extract(cells)[p] = At(cells, CHOOSE q \in DOMAIN Layout : Layout[q] = config.columns[p])
      BY <1>2 DEF Extract
    <2>2. DOMAIN Extract(cells) = DOMAIN config.columns BY <1>2 DEF Extract
    <2> QED BY <2>1, <2>2, AtType
  <1> QED BY <1>1, <1>2

LEMMA DocumentType ==
  ASSUME NEW cells, \A p \in DOMAIN cells : cells[p] \in Texts \cup {None}
  PROVE  Document(cells) \in Answers /\ Document(cells) # None
  <1> DEFINE P == {q \in DOMAIN schema : schema[q].name = "v"}
  <1> SUFFICES Document(cells) \in Answers BY NoneIsNoAnswer
  <1>1. CASE P = {}
    <2>1. Document(cells) = <<"null">> BY <1>1 DEF Document
    <2> QED BY <2>1 DEF Answers
  <1>2. CASE P # {}
    <2>1. PICK q \in P : q = (CHOOSE x \in P : TRUE) BY <1>2
    <2>2. Document(cells) = Row(cells)[q] BY <1>2, <2>1 DEF Document
    <2>3. Row(cells)[q] = Parsed(schema[q].type, At(cells, q)) BY <2>1 DEF Row
    <2>4. At(cells, q) \in Texts \cup {None} BY AtType
    <2>5. \A text \in Texts \cup {None} : Parsed(schema[q].type, text) \in Answers BY ParsedType
    <2> QED BY <2>2, <2>3, <2>4, <2>5
  <1> QED BY <1>1, <1>2

LEMMA ValueType ==
  ASSUME TypeOK
  PROVE  /\ types.v \in {"int8", "text", "bool", "jsonb"} /\ BaseType(types.v) = types.v
         /\ types.id \in {"int8", "pos_int", "uuid", "text", "bpchar", "citext", "name"}
  <1>1. types.v \in ValueUdts /\ types.id \in IdUdts BY DEF TypeOK
  <1>2. types.v \in {"int8", "text", "bool", "jsonb"} BY <1>1, ConstantsAssumption
  <1>3. DOMAIN IdsOf = {"int8", "pos_int", "uuid", "text", "bpchar", "citext", "name"} BY DEF IdsOf
  <1> QED BY <1>1, <1>2, <1>3, ConstantsAssumption DEF BaseType

\* schema.ts of a config that lists no columns, or the table's.
LEMMA SchemaFacts ==
  ASSUME TypeOK, NEW columns \in {None, Layout}
  PROVE  /\ SchemaOf(columns) = SchemaOf(None) /\ DOMAIN SchemaOf(None) = 1 .. 2
         /\ SchemaOf(None)[1].name = "id" /\ SchemaOf(None)[1].type # "json"
         /\ SchemaOf(None)[2] = [name |-> "v", type |-> TpufType(types.v)]
         /\ SchemaOf(None) # None
  <1> DEFINE s == [p \in 1 .. 2 |-> [name |-> Layout[p], type |-> TpufType(ColumnInfo(Layout[p]))]]
             tpuf == {"int", "bool", "uuid", "json", "string"}
  <1>1. DOMAIN Layout = 1 .. 2 /\ Layout[1] = "id" /\ Layout[2] = "v" BY DEF Layout
  <1>2. Named(None) = Layout /\ Named(columns) = Layout BY DEF Named
  <1>3. SchemaOf(columns) = s /\ SchemaOf(None) = s BY <1>1, <1>2 DEF SchemaOf
  <1>4. ColumnInfo("id") = BaseType(types.id) /\ ColumnInfo("v") = types.v
    BY ValueType DEF ColumnInfo
  <1>5. TpufType(BaseType(types.id)) \in tpuf \ {"json"} /\ TpufType(types.v) \in tpuf
    <2>1. TpufType(types.v) \in tpuf BY ValueType DEF TpufType
    <2>2. BaseType(types.id) \in {"int8", "uuid", "text", "bpchar", "citext", "name"}
      BY ValueType DEF BaseType
    <2> QED BY <2>1, <2>2 DEF TpufType
  <1>6. s[1] = [name |-> "id", type |-> TpufType(BaseType(types.id))]
        /\ s[2] = [name |-> "v", type |-> TpufType(types.v)]
    BY <1>1, <1>4
  <1>7. s \in [1 .. 2 -> [name : {"id", "v"}, type : tpuf]]
    <2>1. s[1] \in [name : {"id", "v"}, type : tpuf] /\ s[2] \in [name : {"id", "v"}, type : tpuf]
      BY <1>5, <1>6
    <2>2. s = [p \in 1 .. 2 |-> s[p]] /\ DOMAIN s = 1 .. 2 OBVIOUS
    <2> HIDE DEF s
    <2>3. \A p \in 1 .. 2 : p = 1 \/ p = 2 OBVIOUS
    <2> QED BY <2>1, <2>2, <2>3
  <1>8. s # None BY <1>7, NoneAssumption
  <1> HIDE DEF s
  <1> QED BY <1>3, <1>5, <1>6, <1>7, <1>8

\* The columns of a config that lists none, or the table's, are the table's.
LEMMA ExtractInOrder ==
  ASSUME NEW cells, 1 \in DOMAIN cells, 2 \in DOMAIN cells, config.columns \in {None, Layout}
  PROVE  At(Extract(cells), 1) = cells[1] /\ At(Extract(cells), 2) = cells[2]
  <1>1. CASE config.columns = None BY <1>1 DEF Extract, At
  <1>2. CASE config.columns # None /\ config.columns = Layout
    <2>1. DOMAIN Layout = {1, 2} /\ Layout[1] = "id" /\ Layout[2] = "v" BY DEF Layout
    <2> DEFINE place(p) == CHOOSE q \in DOMAIN Layout : Layout[q] = Layout[p]
    <2>2. place(1) = 1 /\ place(2) = 2 BY <2>1
    <2>3. Extract(cells) = [p \in DOMAIN Layout |-> At(cells, place(p))] BY <1>2 DEF Extract
    <2> HIDE DEF place
    <2>4. At(Extract(cells), 1) = At(cells, 1) /\ At(Extract(cells), 2) = At(cells, 2)
      BY <2>1, <2>2, <2>3 DEF At
    <2> QED BY <2>4 DEF At
  <1> QED BY <1>1, <1>2

\* A document shows what the script reads in the second column.
LEMMA DocumentOfTable ==
  ASSUME TypeOK, schema = SchemaOf(None), NEW cells
  PROVE  Document(cells) = Parsed(TpufType(types.v), At(cells, 2))
  <1> DEFINE P == {q \in DOMAIN schema : schema[q].name = "v"}
  <1>1. DOMAIN schema = {1, 2} /\ schema[1].name = "id" /\ schema[2].name = "v"
        /\ schema[2].type = TpufType(types.v)
    BY SchemaFacts
  <1>2. P = {2} BY <1>1
  <1>3. (CHOOSE q \in P : TRUE) = 2 BY <1>2
  <1>4. Document(cells) = Row(cells)[2] BY <1>2, <1>3 DEF Document
  <1> QED BY <1>1, <1>4 DEF Row

\* ... which is the meaning of what Postgres wrote, for all types but bool.
LEMMA ParsedMeaning ==
  ASSUME NEW udt \in {"int8", "text", "jsonb"}, NEW k \in 1 .. 2
  PROVE  Parsed(TpufType(udt), Printed(udt, k)) = Meaning(udt, k)
  <1>1. Printed(udt, k) \in Texts /\ Printed(udt, k) # None BY PrintedText, NoneAssumption
  <1>2. CASE udt = "int8"
    <2>1. TpufType(udt) = "int" /\ Printed(udt, k) \in {"1", "2"} BY <1>2, PrintedText DEF TpufType
    <2> QED BY <1>1, <1>2, <2>1 DEF Parsed, Meaning
  <1>3. CASE udt = "text"
    <2>1. TpufType(udt) = "string" BY <1>3 DEF TpufType
    <2> QED BY <1>1, <1>3, <2>1 DEF Parsed, Meaning
  <1>4. CASE udt = "jsonb"
    <2>1. TpufType(udt) = "json" /\ Printed(udt, k) \in {"{}", "[]"} BY <1>4, PrintedText DEF TpufType
    <2> QED BY <1>1, <1>4, <2>1 DEF Parsed, Meaning
  <1> QED BY <1>2, <1>3, <1>4

LEMMA ShowsMeaning ==
  ASSUME TypeOK, schema = SchemaOf(None), config.columns \in {None, Layout}, types.v # "bool",
         NEW cells, {1, 2} \subseteq DOMAIN cells, NEW k \in 1 .. 2, cells[2] = Printed(types.v, k)
  PROVE  Document(Extract(cells)) = Meaning(types.v, k)
  <1>1. At(Extract(cells), 2) = cells[2] BY ExtractInOrder
  <1>2. types.v \in {"int8", "text", "jsonb"} BY ValueType
  <1>3. Parsed(TpufType(types.v), Printed(types.v, k)) = Meaning(types.v, k) BY <1>2, ParsedMeaning
  <1> QED BY <1>1, <1>3, DocumentOfTable

\* The script reads every row of a table, as it is cast, with the schema of the table.
LEMMA CastNeverThrows ==
  ASSUME TypeOK, schema = SchemaOf(None), NEW cells,
         At(cells, 1) \in Texts \cup {None},
         \/ At(cells, 2) = FakeValue(types.v)
         \/ \E k \in 1 .. 2 : At(cells, 2) = CastToText(types.v, k)
  PROVE  \A p \in DOMAIN schema : Parsed(schema[p].type, At(cells, p)) # Throws
  <1>1. DOMAIN schema = {1, 2} /\ schema[1].type # "json" /\ schema[2].type = TpufType(types.v)
    BY SchemaFacts
  <1>2. Parsed(schema[1].type, At(cells, 1)) # Throws BY <1>1, NeverThrows
  <1>3. /\ At(cells, 2) \in Texts
        /\ types.v = "jsonb" => At(cells, 2) \in {"{}", "[]", "1", "2", "7", "true", "false"}
    <2>1. CASE At(cells, 2) = FakeValue(types.v) BY <2>1, ValueType DEF FakeValue, Texts
    <2>2. CASE \E k \in 1 .. 2 : At(cells, 2) = CastToText(types.v, k)
      <3>1. PICK k \in 1 .. 2 : At(cells, 2) = CastToText(types.v, k) BY <2>2
      <3>2. types.v \in {"int8", "text", "bool", "jsonb"} BY ValueType
      <3>3. /\ CastToText(types.v, k) \in Texts
            /\ types.v = "jsonb" => CastToText(types.v, k) \in {"{}", "[]"}
        BY <3>2, PrintedText
      <3> QED BY <3>1, <3>3
    <2> QED BY <2>1, <2>2
  <1>4. schema[2].type = "json" => types.v = "jsonb" BY <1>1, ValueType DEF TpufType
  <1>5. Parsed(schema[2].type, At(cells, 2)) # Throws BY <1>3, <1>4, NeverThrows
  <1> QED BY <1>1, <1>2, <1>5

----------------------------------------------------------------------------
(* Types.                                                                  *)

LEMMA InitType == Init => TypeOK
  <1> SUFFICES ASSUME Init PROVE TypeOK OBVIOUS
  <1>1. rows \in [Ids -> 0 .. 2] /\ Present \subseteq TableIds BY DEF Init, Present
  <1>2. wal \in Seq(Changes) /\ wal = <<>> BY DEF Init
  <1>3. docs \in [DocIds -> Answers \cup {None}] BY DEF Init
  <1> QED BY <1>1, <1>2, <1>3 DEF Init, TypeOK, Phases

\* What a step of the developer or of a command leaves as it was.
LEMMA FilesType ==
  ASSUME TypeOK, UNCHANGED <<rows, wal, mirror>>, types'.id = types.id,
         types' \in [id : IdUdts, v : ValueUdts],
         config' \in Configs \cup {None}, phase' # "none" => config' \in Configs,
         phase' \in Phases, phase' = "stream" <=> phase = "stream",
         phase' = "none" => refusal' = None,
         edited' \in BOOLEAN, altered' \in BOOLEAN
  PROVE  TypeOK'
  <1>1. Present' = Present /\ TableIds' = TableIds BY DEF Present, TableIds
  <1> QED BY <1>1 DEF TypeOK, mirror

LEMMA DeveloperType ==
  ASSUME TypeOK, New \/ Edit \/ Generate \/ Check \/ Apply \/ AlterType
  PROVE  TypeOK'
  <1>1. CASE New
    <2>1. config' \in Configs
      <3>1. \A udt : IdTypeForUdt(udt) \in IdTypes BY DEF IdTypeForUdt, IdTypes
      <3>2. PICK reached \in BOOLEAN :
              config' = [idType |-> IF reached THEN IdTypeForUdt(ColumnInfo("id")) ELSE "uint", columns |-> None]
        BY <1>1 DEF New
      <3>3. config'.idType \in IdTypes BY <3>1, <3>2 DEF IdTypes
      <3> QED BY <3>2, <3>3 DEF Configs
    <2> QED BY <1>1, <2>1, FilesType DEF New, table, TypeOK, Phases
  <1>2. CASE Edit
    <2>1. config' \in Configs BY <1>2 DEF Edit, Configs
    <2> QED BY <1>2, <2>1, FilesType DEF Edit, table, TypeOK, Phases
  <1>3. CASE Generate BY <1>3, FilesType DEF Generate, table, TypeOK
  <1>4. CASE Check BY <1>4, FilesType DEF Check, table, TypeOK
  <1>5. CASE Apply BY <1>5, FilesType DEF Apply, table, files, TypeOK, Phases
  <1>6. CASE AlterType
    <2>1. PICK udt \in ValueUdts \ {types.v} : types' = [types EXCEPT !.v = udt]
      BY <1>6 DEF AlterType
    <2>2. types'.id = types.id /\ types' \in [id : IdUdts, v : ValueUdts] BY <2>1 DEF TypeOK
    <2> QED BY <1>6, <2>2, FilesType DEF AlterType, files, TypeOK
  <1> QED BY <1>1, <1>2, <1>3, <1>4, <1>5, <1>6

\* A document is set to an answer of the script, or taken away.
LEMMA SetType ==
  ASSUME TypeOK, NEW d, NEW value \in Answers \cup {None}, Set(d, value)
  PROVE  docs' \in [DocIds -> Answers \cup {None}]
  BY DEF Set, TypeOK

LEMMA IdTexts ==
  ASSUME NEW i \in Ids
  PROVE  IdPrinted(i) \in DocIds /\ IdCast(i) \in DocIds
  BY DEF IdPrinted, IdCast, DocIds

LEMMA WriteType == ASSUME TypeOK, Write PROVE TypeOK'
  <1>1. PICK i \in TableIds, k \in 0 .. 2 :
          /\ k # rows[i] /\ rows' = [rows EXCEPT ![i] = k]
          /\ wal' = IF phase = "stream"
                    THEN Append(wal, IF rows[i] = 0 THEN Change("insert", i, k)
                                     ELSE IF k = 0 THEN Change("delete", i, rows[i]) ELSE Change("update", i, k))
                    ELSE wal
    BY DEF Write
  <1>2. i \in Ids /\ rows[i] \in 0 .. 2 BY DEF TableIds, TypeOK
  <1>3. \A n \in 1 .. 2 : Printed(types.v, n) \in Texts
    <2>1. types.v \in {"int8", "text", "bool", "jsonb"} BY ValueType
    <2> QED BY <2>1, PrintedText
  <1>4. \A n \in 1 .. 2, op \in {"insert", "update", "delete"} : Change(op, i, n) \in Changes
    BY <1>2, <1>3, IdTexts DEF Change, Changes
  <1>5. rows[i] = 0 \/ rows[i] \in 1 .. 2 BY <1>2
  <1>6. k = 0 \/ k \in 1 .. 2 OBVIOUS
  <1>7. wal' \in Seq(Changes)
    <2>1. CASE rows[i] = 0 BY <1>1, <1>4, <1>6, <2>1 DEF TypeOK
    <2>2. CASE rows[i] # 0 /\ k = 0 BY <1>1, <1>4, <1>5, <2>2 DEF TypeOK
    <2>3. CASE rows[i] # 0 /\ k # 0 BY <1>1, <1>4, <1>6, <2>3 DEF TypeOK
    <2> QED BY <2>1, <2>2, <2>3
  <1>8. rows' \in [Ids -> 0 .. 2] BY <1>1 DEF TypeOK
  <1>9. Present' \subseteq TableIds'
    <2>1. TableIds' = TableIds BY DEF TableIds, Write
    <2>2. \A j \in Ids : rows'[j] # 0 => rows[j] # 0 \/ j = i BY <1>1 DEF TypeOK
    <2> QED BY <1>1, <2>1, <2>2 DEF Present, TypeOK
  <1>10. phase # "stream" => wal' = wal BY <1>1
  <1> QED BY <1>7, <1>8, <1>9, <1>10 DEF TypeOK, Write, files, mirror


\* A row is read as texts, by a page and by a replay.
LEMMA RowCellsType ==
  ASSUME TypeOK, NEW i \in Present
  PROVE  /\ i \in Ids /\ rows[i] \in 1 .. 2
         /\ Document(PageCells(i)) \in Answers /\ Document(PageCells(i)) # None
         /\ Document(ReplayCells(i)) \in Answers /\ Document(ReplayCells(i)) # None
  <1>1. i \in Ids /\ rows[i] \in 1 .. 2 BY DEF Present, TypeOK
  <1>2. CastToText(types.v, rows[i]) \in Texts
    <2>1. types.v \in {"int8", "text", "bool", "jsonb"} BY ValueType
    <2> QED BY <1>1, <2>1, PrintedText
  <1> DEFINE row(names) == Cells(names, IdCast(i), CastToText(types.v, rows[i]))
  <1>3. \A names : \A p \in DOMAIN row(names) : row(names)[p] \in Texts \cup {None}
    BY <1>1, <1>2, IdTexts, CellsType
  <1> HIDE DEF row
  <1>4. \A names : Document(Extract(row(names))) \in Answers /\ Document(Extract(row(names))) # None
    <2> SUFFICES ASSUME NEW names
                 PROVE  Document(Extract(row(names))) \in Answers /\ Document(Extract(row(names))) # None
      OBVIOUS
    <2>1. \A p \in DOMAIN row(names) : row(names)[p] \in Texts \cup {None} BY <1>3
    <2>2. \A p \in DOMAIN Extract(row(names)) : Extract(row(names))[p] \in Texts \cup {None}
      BY <2>1, ExtractType
    <2> QED BY <2>2, DocumentType
  <1> QED BY <1>1, <1>4 DEF PageCells, ReplayCells, row

LEMMA BackfillType == ASSUME TypeOK, Backfill PROVE TypeOK'
  <1>1. docs' \in [DocIds -> Answers \cup {None}] /\ (phase' = "stream" \/ docs' = docs)
    <2>1. CASE ~HasCursor(types.id) BY <2>1 DEF Backfill, TypeOK
    <2>2. CASE HasCursor(types.id)
      <3> DEFINE from(d) == {i \in Present : ThroughScript(FromText(IdCast(i))) = d}
                 value(d) == IF from(d) = {} THEN docs[d] ELSE Document(PageCells(CHOOSE i \in from(d) : TRUE))
      <3>1. docs' = [d \in DocIds |-> value(d)] /\ phase' = "stream" BY <2>2 DEF Backfill
      <3>2. \A d \in DocIds : value(d) \in Answers \cup {None}
        <4> SUFFICES ASSUME NEW d \in DocIds, from(d) # {} PROVE value(d) \in Answers BY DEF TypeOK
        <4>1. (CHOOSE i \in from(d) : TRUE) \in Present OBVIOUS
        <4> QED BY <4>1, RowCellsType
      <3> HIDE DEF value
      <3> QED BY <3>1, <3>2
    <2> QED BY <2>1, <2>2
  <1>2. Present' = Present /\ TableIds' = TableIds BY DEF Backfill, Present, TableIds, table
  <1> QED BY <1>1, <1>2 DEF TypeOK, Backfill, table, files, Phases

\* Sequences of changes.
LEMMA HeadType ==
  ASSUME TypeOK, wal # <<>>
  PROVE  /\ Head(wal) \in Changes /\ Tail(wal) \in Seq(Changes) /\ Head(wal) = wal[1]
         /\ Len(wal) \in Nat /\ Len(wal) > 0 /\ Len(Tail(wal)) = Len(wal) - 1
         /\ \A k \in 1 .. Len(Tail(wal)) : Tail(wal)[k] = wal[k + 1]
  <1>1. wal \in Seq(Changes) BY DEF TypeOK
  <1> QED BY <1>1, HeadTailProperties

LEMMA ReadIds ==
  ASSUME NEW text PROVE FromText(text) = text \/ FromText(text) = None
  BY DEF FromText

LEMMA StreamType == ASSUME TypeOK, Stream PROVE TypeOK'
  <1> DEFINE change == Head(wal)
             id     == FromText(change.id)
             cells  == Extract(Cells(Layout, change.id, change.v))
  <1>1. change \in Changes /\ Tail(wal) \in Seq(Changes) BY HeadType DEF Stream
  <1>2. change.id \in DocIds /\ change.v \in Texts /\ change.op \in {"insert", "update", "delete"}
    BY <1>1 DEF Changes
  <1>3. id # None => id \in DocIds BY <1>2, ReadIds
  <1>4. Document(cells) \in Answers BY <1>2, CellsType, ExtractType, DocumentType
  <1>5. docs' \in [DocIds -> Answers \cup {None}] /\ dlq' \subseteq Letters
    <2> HIDE DEF cells, id
    <2>1. CASE UNCHANGED mirror BY <2>1 DEF mirror, TypeOK
    <2>2. CASE Set(id, IF change.op = "delete" THEN None ELSE Document(cells)) /\ UNCHANGED <<dlq, failures>>
      <3>1. (IF change.op = "delete" THEN None ELSE Document(cells)) \in Answers \cup {None} BY <1>4
      <3> QED BY <2>2, <3>1, SetType DEF TypeOK
    <2>3. CASE id # None /\ dlq' = dlq \cup {DeadLetter(id, change.op)} /\ UNCHANGED docs
      <3>1. DeadLetter(id, change.op) \in Letters BY <1>2, <1>3, <2>3 DEF DeadLetter, Letters
      <3> QED BY <2>3, <3>1 DEF TypeOK
    <2> QED BY <2>1, <2>2, <2>3 DEF Stream, id, cells
  <1>6. Present' = Present /\ TableIds' = TableIds BY DEF Stream, Present, TableIds
  <1> QED BY <1>1, <1>5, <1>6 DEF TypeOK, Stream, files

LEMMA ReplayType == ASSUME TypeOK, ReplayDlq PROVE TypeOK'
  <1>1. PICK e \in dlq : Replay(e) BY DEF ReplayDlq, Retryable
  <1>2. e \in Letters BY DEF TypeOK
  <1>3. docs' \in [DocIds -> Answers \cup {None}] /\ dlq' \subseteq Letters
    <2>1. CASE Fails(e)
      <3>1. [e EXCEPT !.tries = @ + 1] \in Letters BY <1>2 DEF Letters
      <3> QED BY <1>1, <2>1, <3>1 DEF Replay, IncrementRetry, TypeOK
    <2>2. CASE ~Fails(e)
      <3>1. dlq' = dlq \ {e} BY <1>1, <2>2 DEF Replay, DeleteEntry
      <3>2. docs' \in [DocIds -> Answers \cup {None}]
        <4>1. CASE RowsOf(e) = {} BY <1>1, <2>2, <4>1, SetType DEF Replay
        <4>2. CASE RowsOf(e) # {}
          <5>1. PICK i \in RowsOf(e) : Set(FromText(IdCast(i)), Document(ReplayCells(i)))
            BY <1>1, <2>2, <4>2 DEF Replay
          <5>2. i \in Present BY DEF RowsOf
          <5> QED BY <5>1, <5>2, RowCellsType, SetType
        <4> QED BY <4>1, <4>2
      <3> QED BY <3>1, <3>2 DEF TypeOK
    <2> QED BY <2>1, <2>2
  <1>4. Present' = Present /\ TableIds' = TableIds BY DEF ReplayDlq, Present, TableIds, table
  <1> QED BY <1>3, <1>4 DEF TypeOK, ReplayDlq, table, files

LEMMA TypeStep == ASSUME TypeOK, [Next]_vars PROVE TypeOK'
  <1>1. CASE UNCHANGED vars
    <2>1. Present' = Present /\ TableIds' = TableIds BY <1>1 DEF Present, TableIds, vars, table
    <2> QED BY <1>1, <2>1 DEF TypeOK, vars, table, files, mirror
  <1>2. CASE Next
    BY <1>2, DeveloperType, BackfillType, StreamType, ReplayType, WriteType DEF Next
  <1> QED BY <1>1, <1>2

\* Types, columns, ids, letters and documents are of their kinds, and nothing is on its
\* way for a config before its backfill is done.
THEOREM TypeCorrect == Spec => []TypeOK
  BY InitType, TypeStep, PTL DEF Spec

----------------------------------------------------------------------------
(* Preflight.  It can only be the schema's fault when the script refuses the *)
(* row it is shown.                                                         *)

InOrder == ColumnLists \subseteq {None, Layout}

\* The dry run shows the script a row it can read.
LEMMA DryRunReads ==
  ASSUME TypeOK, InOrder, config \in Configs, schema = SchemaOf(config.columns)
  PROVE  DryRunPasses(schema)
  <1>1. config.columns \in {None, Layout} BY DEF InOrder, Configs
  <1>2. schema = SchemaOf(None) /\ schema # None BY <1>1, SchemaFacts
  <1>3. At(DryRunCells, 1) = FakeId /\ At(DryRunCells, 2) = FakeValue(types.v)
    BY ValueType DEF DryRunCells, At, ColumnInfo
  <1>4. FakeId \in Texts BY DEF FakeId, Texts, Spellings
  <1>5. \A p \in DOMAIN schema : Parsed(schema[p].type, At(DryRunCells, p)) # Throws
    BY <1>2, <1>3, <1>4, CastNeverThrows
  <1> QED BY <1>2, <1>5 DEF DryRunPasses

LEMMA SoundStep ==
  ASSUME TypeOK, InOrder, SoundConfigsApply, [Next]_vars
  PROVE  SoundConfigsApply'
  <1>0. "transform" # None BY NoneAssumption
  <1> USE DEF SoundConfigsApply
  <1>1. CASE New
    <2>1. refusal' # "transform" BY <1>0, <1>1 DEF New, TypeOK
    <2> QED BY <2>1
  <1>2. CASE Edit BY <1>0, <1>2 DEF Edit
  <1>3. CASE Generate BY <1>0, <1>3 DEF Generate
  <1>4. CASE Check BY <1>0, <1>4 DEF Check
  <1>5. CASE Apply
    <2>1. config \in Configs BY <1>5 DEF Apply, TypeOK
    <2>2. config' = config /\ schema' = schema /\ types' = types BY <1>5 DEF Apply, files, table
    <2>3. SchemaOf(config.columns)' = SchemaOf(config.columns)
      BY <2>2 DEF SchemaOf, Named, ColumnInfo
    <2>4. refusal' = "transform" => ~Preflight(TRUE, schema) /\ Preflight(FALSE, schema)
      BY <1>0, <1>5 DEF Apply
    <2>5. refusal' = "transform" => ~DryRunPasses(schema) BY <2>4 DEF Preflight
    <2> QED BY <2>1, <2>2, <2>3, <2>5, DryRunReads
  <1>6. CASE AlterType BY <1>0, <1>6 DEF AlterType
  <1>7. CASE Backfill \/ Stream \/ ReplayDlq \/ Write \/ UNCHANGED vars
    <2>1. config' = config /\ schema' = schema /\ types' = types /\ refusal' = refusal
      BY <1>7 DEF Backfill, Stream, ReplayDlq, Write, vars, files, table
    <2>2. SchemaOf(config.columns)' = SchemaOf(config.columns)
      BY <2>1 DEF SchemaOf, Named, ColumnInfo
    <2> QED BY <2>1, <2>2
  <1> QED BY <1>1, <1>2, <1>3, <1>4, <1>5, <1>6, <1>7 DEF Next

\* Whatever the types and the id type a user picked: `apply` refuses a config that lists
\* no columns, or the table's, for its transform only if schema.ts is out of date.
THEOREM RefusesOnlyStaleSchemas == ASSUME InOrder PROVE Spec => []SoundConfigsApply
  <1>1. Init => SoundConfigsApply BY NoneAssumption DEF Init, SoundConfigsApply
  <1> QED BY <1>1, InitType, TypeStep, SoundStep, PTL DEF Spec

----------------------------------------------------------------------------
(* Dead letters of configs that are as `new` wrote them.                    *)

AsWritten == config # None /\ ~edited /\ ~altered

Untouched ==
  AsWritten =>
    /\ config = [idType |-> IdTypeForUdt(BaseType(types.id)), columns |-> None]
    /\ schema = SchemaOf(None) /\ \A e \in dlq : e.tries = 0

LEMMA NewRecovers ==
  ASSUME TypeOK, Untouched, AsWritten, NEW e \in dlq
  PROVE  ~Fails(e)
  <1>1. ReplayCompares
    <2>1. config.idType = IdTypeForUdt(BaseType(types.id)) BY DEF Untouched
    <2> QED BY <2>1, ValueType DEF ReplayCompares, IdTypeForUdt, BaseType, Integers, TextTypes
  <1>2. ASSUME NEW i \in RowsOf(e) PROVE ~ScriptThrows(ReplayCells(i))
    <2>1. i \in Present /\ i \in Ids /\ rows[i] \in 1 .. 2 BY RowCellsType DEF RowsOf
    <2> DEFINE cells == Cells(Layout, IdCast(i), CastToText(types.v, rows[i]))
    <2>2. /\ DOMAIN cells = {1, 2} /\ cells[1] = i /\ cells[2] = CastToText(types.v, rows[i])
      <3>1. DOMAIN Layout = {1, 2} /\ Layout[1] = "id" /\ Layout[2] = "v" BY DEF Layout
      <3>2. IdCell(IdCast(i)) = i BY DEF IdCell, IdCast
      <3> QED BY <3>1, <3>2 DEF Cells
    <2>3. config.columns = None BY DEF Untouched
    <2>4. ReplayCells(i) = cells BY <2>3 DEF ReplayCells, Extract
    <2> HIDE DEF cells
    <2>5. i \in Texts BY <2>1, ConstantsAssumption DEF Texts
    <2>6. schema = SchemaOf(None) BY DEF Untouched
    <2>7. At(cells, 1) \in Texts \cup {None} /\ \E k \in 1 .. 2 : At(cells, 2) = CastToText(types.v, k)
      BY <2>1, <2>2, <2>5 DEF At
    <2>8. \A p \in DOMAIN schema : Parsed(schema[p].type, At(cells, p)) # Throws
      BY <2>6, <2>7, CastNeverThrows
    <2> QED BY <2>4, <2>8 DEF ScriptThrows, Row, Range
  <1> QED BY <1>1, <1>2 DEF Fails

LEMMA UntouchedStep == ASSUME TypeOK, Untouched, [Next]_vars PROVE Untouched'
  <1> SUFFICES ASSUME AsWritten' PROVE Untouched' BY DEF Untouched
  <1>1. CASE New
    <2>1. ~altered /\ types' = types /\ dlq' = dlq BY <1>1 DEF New, AsWritten, table, mirror
    <2>2. dlq = {} BY <1>1 DEF New, TypeOK
    <2>3. config' = [idType |-> IdTypeForUdt(ColumnInfo("id")), columns |-> None] /\ schema' = SchemaOf(None)
      BY <1>1 DEF New, AsWritten
    <2>4. SchemaOf(None)' = SchemaOf(None) /\ ColumnInfo("id") = BaseType(types.id)
      BY <2>1 DEF SchemaOf, Named, ColumnInfo
    <2> QED BY <2>1, <2>2, <2>3, <2>4 DEF Untouched
  <1>2. CASE Generate \/ Check
    <2>1. AsWritten /\ config' = config /\ types' = types /\ dlq' = dlq /\ schema' = SchemaOf(config.columns)
      BY <1>2 DEF Generate, Check, AsWritten, table, mirror
    <2>2. config.columns = None BY <2>1 DEF Untouched
    <2>3. SchemaOf(None)' = SchemaOf(None) BY <2>1 DEF SchemaOf, Named, ColumnInfo
    <2> QED BY <2>1, <2>2, <2>3 DEF Untouched
  <1>3. CASE Edit BY <1>3 DEF Edit, AsWritten
  <1>4. CASE AlterType BY <1>4 DEF AlterType, AsWritten
  <1>5. CASE Apply \/ Backfill \/ Stream \/ ReplayDlq \/ Write \/ UNCHANGED vars
    <2>1. /\ config' = config /\ schema' = schema /\ types' = types
          /\ edited' = edited /\ altered' = altered
      BY <1>5 DEF Apply, Backfill, Stream, ReplayDlq, Write, vars, files, table
    <2>2. SchemaOf(None)' = SchemaOf(None) BY <2>1 DEF SchemaOf, Named, ColumnInfo
    <2>3. AsWritten BY <2>1 DEF AsWritten
    <2>4. \A e \in dlq' : e.tries = 0
      <3>0. \A e \in dlq : e.tries = 0 BY <2>3 DEF Untouched
      <3>1. CASE dlq' = dlq BY <3>0, <3>1
      <3>2. CASE Stream
        <4>1. \A e \in dlq' : e \in dlq \/ e.tries = 0
          BY <3>2 DEF Stream, DeadLetter, mirror
        <4> QED BY <3>0, <4>1
      <3>3. CASE ReplayDlq
        <4>1. PICK e \in dlq : Replay(e) BY <3>3 DEF ReplayDlq, Retryable
        <4>2. ~Fails(e) BY <2>3, NewRecovers
        <4> QED BY <3>0, <4>1, <4>2 DEF Replay, DeleteEntry
      <3> QED BY <1>5, <3>1, <3>2, <3>3 DEF Apply, Backfill, Write, vars, mirror
    <2> QED BY <2>1, <2>2, <2>3, <2>4 DEF Untouched
  <1> QED BY <1>1, <1>2, <1>3, <1>4, <1>5 DEF Next

\* The id type and the schema that `new` picks suit every table: no dead letter of such a
\* config ever costs a retry.
THEOREM NewConfigsReplay == Spec => []NewConfigsRecover
  <1>1. Init => Untouched BY DEF Init, Untouched, AsWritten
  <1>2. Untouched => NewConfigsRecover BY DEF Untouched, AsWritten, NewConfigsRecover
  <1> QED BY <1>1, <1>2, InitType, TypeStep, UntouchedStep, PTL DEF Spec

----------------------------------------------------------------------------
(* Replays.                                                                *)

\* The script gives an id back as it got it, but for a number beyond its doubles.
LEMMA ScriptKeepsIds ==
  ASSUME NEW d
  PROVE  ThroughScript(d) = d \/ (d = <<"big">> /\ ThroughScript(d) = <<"even">>)
  BY DEF ThroughScript

LEMMA ReplayStep ==
  ASSUME TypeOK, ~({"even", "big"} \subseteq Ids), ReplayDlq, NEW i \in Present,
         FromText(IdCast(i)) # None, docs[FromText(IdCast(i))] # None
  PROVE  docs'[FromText(IdCast(i))] # None
  <1> DEFINE d == <<i>>
  <1>1. FromText(IdCast(i)) = d BY ReadIds DEF IdCast
  <1>2. d \in DocIds /\ i \in Ids BY IdTexts DEF Present, IdCast
  <1>3. PICK e \in dlq : Replay(e) BY DEF ReplayDlq, Retryable
  <1>4. e.id \in DocIds BY DEF TypeOK, Letters
  <1>5. CASE Fails(e) BY <1>1, <1>3, <1>5 DEF Replay
  <1>6. CASE ~Fails(e) /\ RowsOf(e) = {}
    <2>1. docs' = [docs EXCEPT ![ThroughScript(e.id)] = None] BY <1>3, <1>6 DEF Replay, Set
    <2>2. ThroughScript(e.id) # d
      <3> SUFFICES ASSUME ThroughScript(e.id) = d PROVE FALSE OBVIOUS
      <3>1. CASE e.id = d
        <4>1. e.id[1] = i /\ <<i>> = e.id BY <3>1
        <4>2. SameId(i, e.id) BY <4>1 DEF SameId
        <4> QED BY <1>6, <4>2 DEF RowsOf, Fails
      <3>2. CASE e.id = <<"big">> /\ d = <<"even">>
        <4>1. i = "even" BY <3>2
        <4>2. "big" \in Ids
          <5>1. PICK j \in Ids : e.id = <<j>> \/ e.id = <<j, " ">> BY <1>4 DEF DocIds
          <5>2. e.id # <<j, " ">> BY <3>2
          <5> QED BY <3>2, <5>1, <5>2
        <4> QED BY <1>2, <4>1, <4>2
      <3> QED BY <3>1, <3>2, ScriptKeepsIds
    <2> HIDE DEF d
    <2> QED BY <1>1, <1>2, <2>1, <2>2 DEF TypeOK
  <1>7. CASE ~Fails(e) /\ RowsOf(e) # {}
    <2>1. PICK j \in RowsOf(e) : Set(FromText(IdCast(j)), Document(ReplayCells(j)))
      BY <1>3, <1>7 DEF Replay
    <2>2. Document(ReplayCells(j)) # None BY <2>1, RowCellsType DEF RowsOf
    <2> HIDE DEF d
    <2> QED BY <1>1, <1>2, <2>1, <2>2 DEF TypeOK, Set
  <1> QED BY <1>5, <1>6, <1>7

\* A replay takes away no document of a row that is there, whatever the types of the
\* columns, unless two of the table's ids are one number to the script.
THEOREM ReplaysKeepRows ==
  ASSUME ~({"even", "big"} \subseteq Ids) PROVE Spec => ReplayKeepsLiveRows
  <1>1. ASSUME TypeOK, [Next]_vars
        PROVE  [ReplayDlq => \A i \in Present :
                  LET d == IdOfRow(i) IN d # None /\ docs[d] # None => docs'[d] # None]_vars
    BY <1>1, ReplayStep DEF IdOfRow
  <1> QED BY <1>1, InitType, TypeStep, PTL DEF Spec, ReplayKeepsLiveRows

----------------------------------------------------------------------------
(* Documents and rows.  The last change of a row in the WAL is what the row  *)
(* is; a row with no change and no dead letter has its document.             *)

\* Ids that are the same by every way: no padding, and within the script's numbers.
PlainIds == "bpchar" \notin IdUdts /\ "big" \notin Ids

\* Values that are the same by every way.
PlainValues == InOrder /\ "bool" \notin ValueUdts

Waits(i)   == \E k \in 1 .. Len(wal) : wal[k].id = <<i>>
Letter(i)  == \E e \in dlq : e.id = <<i>>
IsLast(i, k) == wal[k].id = <<i>> /\ \A l \in 1 .. Len(wal) : l > k => wal[l].id # <<i>>
Of(i, id)  == id = <<i>> /\ FromText(id) = id

Addressed ==
  /\ \A k \in 1 .. Len(wal) : \E i \in Ids : wal[k].id = <<i>>
  /\ \A e \in dlq : \E i \in Ids : Of(i, e.id)
  /\ \A d \in DocIds : docs[d] # None => \E i \in Ids : Of(i, d)

Latest ==
  \A i \in Ids : \A k \in 1 .. Len(wal) : IsLast(i, k) =>
    /\ wal[k].op = "delete" <=> rows[i] = 0
    /\ ~altered /\ rows[i] # 0 => wal[k].v = Printed(types.v, rows[i])

Shows(i) ==
  /\ docs[<<i>>] # None <=> rows[i] # 0
  /\ PlainValues /\ ~altered /\ rows[i] # 0 => docs[<<i>>] = Meaning(types.v, rows[i])

Mirrored ==
  phase = "stream" => \A i \in Ids :
    Of(i, <<i>>) /\ ~Waits(i) /\ ~Letter(i) => Shows(i)

UpToDate ==
  PlainValues /\ ~altered =>
    /\ schema \in {None, SchemaOf(None)}
    /\ phase \in {"applied", "stream"} => schema = SchemaOf(None)

Kept == Addressed /\ Latest /\ Mirrored /\ UpToDate

LEMMA Singletons ==
  ASSUME NEW i \in Ids
  PROVE  <<i>> \in DocIds /\ <<i>> # None /\ \A j : <<j>> = <<i>> => j = i
  BY NoneAssumption DEF DocIds

LEMMA PlainText ==
  ASSUME TypeOK, PlainIds
  PROVE  /\ \A i : IdPrinted(i) = <<i>> /\ IdCast(i) = <<i>>
         /\ \A i \in Ids : ThroughScript(<<i>>) = <<i>>
         /\ \A i, j : SameId(i, <<j>>) <=> i = j
  <1>1. types.id # "bpchar" BY DEF TypeOK, PlainIds
  <1>2. ASSUME NEW i \in Ids PROVE ThroughScript(<<i>>) = <<i>>
    <2>1. i # "big" BY DEF PlainIds
    <2>2. <<i>> # <<"big">> BY <2>1
    <2> QED BY <2>2 DEF ThroughScript
  <1> QED BY <1>1, <1>2 DEF IdPrinted, IdCast, SameId

\* Nothing about documents changes in a step that leaves them alone.
LEMMA KeptStill ==
  ASSUME TypeOK, Kept, UNCHANGED <<rows, wal, docs, dlq>>,
         config' = config \/ phase # "stream", phase' = "stream" <=> phase = "stream",
         altered' \/ (altered' = altered /\ types' = types), UpToDate'
  PROVE  Kept'
  <1>1. Addressed' /\ Mirrored'
    <2>1. CASE phase # "stream"
      <3>1. wal = <<>> /\ dlq = {} /\ docs = [d \in DocIds |-> None] BY <2>1 DEF TypeOK
      <3>2. Len(wal) = 0 BY <3>1
      <3> QED BY <2>1, <3>1, <3>2 DEF Addressed, Mirrored
    <2>2. CASE phase = "stream"
      <3>1. config' = config BY <2>2
      <3>2. \A t : FromText(t)' = FromText(t) BY <3>1 DEF FromText
      <3>3. \A i, t : Of(i, t)' <=> Of(i, t) BY <3>2 DEF Of
      <3>4. \A i : (Waits(i)' <=> Waits(i)) /\ (Letter(i)' <=> Letter(i)) BY DEF Waits, Letter
      <3>5. \A i : Shows(i) => Shows(i)' BY DEF Shows
      <3>6. Addressed' BY <3>3 DEF Kept, Addressed
      <3> QED BY <2>2, <3>3, <3>4, <3>5, <3>6 DEF Kept, Mirrored
    <2> QED BY <2>1, <2>2
  <1>2. Latest'
    <2>1. \A i, k : IsLast(i, k)' <=> IsLast(i, k) BY DEF IsLast
    <2> QED BY <2>1 DEF Kept, Latest
  <1> QED BY <1>1, <1>2 DEF Kept

LEMMA UpToDateStep == ASSUME TypeOK, UpToDate, [Next]_vars PROVE UpToDate'
  <1> SUFFICES ASSUME PlainValues, ~altered' PROVE UpToDate' BY DEF UpToDate
  <1>1. ASSUME types' = types PROVE SchemaOf(None)' = SchemaOf(None)
    BY <1>1 DEF SchemaOf, Named, ColumnInfo
  <1>2. CASE New
    <2>1. types' = types /\ schema' \in {None, SchemaOf(None)} /\ phase' = "written"
      BY <1>2 DEF New, table
    <2> QED BY <1>1, <2>1 DEF UpToDate
  <1>3. CASE Generate \/ Check
    <2>1. /\ types' = types /\ altered' = altered /\ phase' = phase /\ config # None
          /\ schema' = SchemaOf(config.columns)
      BY <1>3 DEF Generate, Check, table
    <2>2. config.columns \in {None, Layout} BY <2>1 DEF TypeOK, Configs, PlainValues, InOrder
    <2>3. schema' = SchemaOf(None) BY <2>1, <2>2, SchemaFacts
    <2> QED BY <1>1, <2>1, <2>3 DEF UpToDate
  <1>4. CASE Apply
    <2>1. types' = types /\ altered' = altered /\ schema' = schema BY <1>4 DEF Apply, table, files
    <2>2. phase' = "applied" => schema # None BY <1>4 DEF Apply, Preflight, DryRunPasses
    <2>3. phase' \in {"applied", "written"} BY <1>4 DEF Apply
    <2> QED BY <1>1, <2>1, <2>2, <2>3 DEF UpToDate
  <1>5. CASE AlterType BY <1>5 DEF AlterType
  <1>6. CASE Edit \/ Backfill \/ Stream \/ ReplayDlq \/ Write \/ UNCHANGED vars
    <2>1. /\ types' = types /\ altered' = altered /\ schema' = schema
          /\ phase' = phase \/ phase = "applied"
      BY <1>6 DEF Edit, Backfill, Stream, ReplayDlq, Write, vars, table, files
    <2> QED BY <1>1, <2>1 DEF UpToDate
  <1> QED BY <1>2, <1>3, <1>4, <1>5, <1>6 DEF Next

LEMMA DeveloperKept ==
  ASSUME TypeOK, Kept, New \/ Edit \/ Generate \/ Check \/ Apply \/ AlterType \/ UNCHANGED vars
  PROVE  Kept'
  <1>1. UpToDate' BY UpToDateStep DEF Next, Kept
  <1>2. UNCHANGED <<rows, wal, docs, dlq>> /\ (phase' = "stream" <=> phase = "stream")
    BY DEF New, Edit, Generate, Check, Apply, AlterType, vars, table, mirror, files
  <1>3. config' = config \/ phase # "stream"
    BY DEF New, Edit, Generate, Check, Apply, AlterType, vars, files
  <1>4. altered' \/ (altered' = altered /\ types' = types)
    BY DEF New, Edit, Generate, Check, Apply, AlterType, vars, table
  <1> QED BY <1>1, <1>2, <1>3, <1>4, KeptStill

\* A change is the row's last one until the next.
LEMMA WriteKept == ASSUME TypeOK, PlainIds, Kept, Write PROVE Kept'
  <1>0. UpToDate' BY UpToDateStep DEF Next, Kept
  <1>1. PICK i \in TableIds, k \in 0 .. 2 :
          /\ k # rows[i] /\ rows' = [rows EXCEPT ![i] = k]
          /\ wal' = IF phase = "stream"
                    THEN Append(wal, IF rows[i] = 0 THEN Change("insert", i, k)
                                     ELSE IF k = 0 THEN Change("delete", i, rows[i]) ELSE Change("update", i, k))
                    ELSE wal
    BY DEF Write
  <1>2. i \in Ids /\ wal \in Seq(Changes) /\ Len(wal) \in Nat BY DEF TableIds, TypeOK
  <1>3. /\ types' = types /\ altered' = altered /\ config' = config /\ phase' = phase
        /\ docs' = docs /\ dlq' = dlq
    BY DEF Write, files, mirror
  <1>4. rows'[i] = k /\ \A j \in Ids : j # i => rows'[j] = rows[j] BY <1>1, <1>2 DEF TypeOK
  <1>5. CASE phase # "stream"
    <2>1. wal' = <<>> /\ dlq' = {} /\ docs' = [d \in DocIds |-> None] BY <1>1, <1>3, <1>5 DEF TypeOK
    <2>2. Len(wal') = 0 BY <2>1
    <2> QED BY <1>0, <1>3, <1>5, <2>1, <2>2 DEF Kept, Addressed, Latest, Mirrored
  <1>6. CASE phase = "stream"
    <2>1. PICK c : /\ wal' = Append(wal, c) /\ c.id = <<i>>
                   /\ c.op = "delete" <=> k = 0
                   /\ k # 0 => c.v = Printed(types.v, k)
      <3>1. \A op, n : /\ Change(op, i, n).id = <<i>> /\ Change(op, i, n).op = op
                       /\ Change(op, i, n).v = Printed(types.v, n)
        BY PlainText DEF Change
      <3> DEFINE c == IF rows[i] = 0 THEN Change("insert", i, k)
                      ELSE IF k = 0 THEN Change("delete", i, rows[i]) ELSE Change("update", i, k)
      <3>2. wal' = Append(wal, c) BY <1>1, <1>6
      <3>3. c.id = <<i>> /\ (c.op = "delete" <=> k = 0) /\ (k # 0 => c.v = Printed(types.v, k))
        BY <1>1, <3>1
      <3> QED BY <3>2, <3>3
    <2> DEFINE n == Len(wal)
    <2>2. /\ Len(wal') = n + 1 /\ wal'[n + 1] = c
          /\ \A l \in 1 .. n : wal'[l] = wal[l]
      BY <1>2, <2>1, AppendProperties
    <2>3. \A l \in 1 .. n + 1 : l = n + 1 \/ l \in 1 .. n BY <1>2
    <2>4. n \in Nat /\ n + 1 \in 1 .. n + 1 /\ \A l \in 1 .. n : l \in 1 .. n + 1 /\ n + 1 > l BY <1>2
    <2> HIDE DEF n
    <2>5. \A t : FromText(t)' = FromText(t) BY <1>3 DEF FromText
    <2>6. \A j, t : Of(j, t)' <=> Of(j, t) BY <2>5 DEF Of
    <2>7. Addressed'
      <3>1. \A l \in 1 .. n + 1 : \E j \in Ids : wal'[l].id = <<j>>
        BY <1>2, <2>1, <2>2, <2>3 DEF Kept, Addressed, n
      <3> QED BY <1>3, <2>2, <2>6, <3>1 DEF Kept, Addressed
    <2>8. \A j \in Ids : j # i => <<j>> # <<i>> BY <1>2, Singletons
    <2>9. Latest'
      <3> SUFFICES ASSUME NEW j \in Ids, NEW l \in 1 .. n + 1, IsLast(j, l)'
                   PROVE  /\ wal'[l].op = "delete" <=> rows'[j] = 0
                          /\ ~altered /\ rows'[j] # 0 => wal'[l].v = Printed(types.v, rows'[j])
        BY <1>3, <2>2 DEF Latest
      <3>1. CASE l = n + 1
        <4>1. j = i BY <2>1, <2>2, <2>8, <3>1 DEF IsLast
        <4> QED BY <1>4, <2>1, <2>2, <3>1, <4>1
      <3>2. CASE l \in 1 .. n
        <4>1. j # i BY <2>1, <2>2, <2>4, <3>2 DEF IsLast
        <4>2. IsLast(j, l) BY <2>2, <2>4, <3>2 DEF IsLast, n
        <4> QED BY <1>4, <2>2, <3>2, <4>1, <4>2 DEF Kept, Latest, n
      <3> QED BY <2>3, <3>1, <3>2
    <2>10. Mirrored'
      <3> SUFFICES ASSUME NEW j \in Ids, Of(j, <<j>>), ~Waits(j)', ~Letter(j) PROVE Shows(j)'
        BY <1>3, <2>6 DEF Mirrored, Letter
      <3>1. j # i BY <2>1, <2>2, <2>4 DEF Waits
      <3>2. ~Waits(j) BY <2>2, <2>4 DEF Waits, n
      <3>3. Shows(j) BY <1>6, <3>2 DEF Kept, Mirrored
      <3> QED BY <1>3, <1>4, <3>1, <3>3 DEF Shows
    <2> QED BY <1>0, <2>7, <2>9, <2>10 DEF Kept
  <1> QED BY <1>5, <1>6

\* What a page and a replay show of a row.
LEMMA RowMeaning ==
  ASSUME TypeOK, PlainValues, UpToDate, ~altered, phase \in {"applied", "stream"}, NEW i \in Present
  PROVE  /\ Document(PageCells(i)) = Meaning(types.v, rows[i])
         /\ Document(ReplayCells(i)) = Meaning(types.v, rows[i])
         /\ \A id : Document(Extract(Cells(Layout, id, Printed(types.v, rows[i])))) = Meaning(types.v, rows[i])
  <1>1. i \in Ids /\ rows[i] \in 1 .. 2 BY RowCellsType
  <1>2. types.v \in {"int8", "text", "jsonb"} BY ValueType DEF TypeOK, PlainValues
  <1>3. CastToText(types.v, rows[i]) = Printed(types.v, rows[i]) BY <1>1, <1>2, PrintedText
  <1>4. config.columns \in {None, Layout} /\ schema = SchemaOf(None)
    BY DEF TypeOK, Configs, PlainValues, InOrder, UpToDate
  <1> DEFINE row(names, id) == Cells(names, id, Printed(types.v, rows[i]))
  <1>5. ASSUME NEW names, NEW id, {1, 2} \subseteq DOMAIN names, names[2] = "v"
        PROVE  Document(Extract(row(names, id))) = Meaning(types.v, rows[i])
    <2>1. {1, 2} \subseteq DOMAIN row(names, id) /\ row(names, id)[2] = Printed(types.v, rows[i])
      BY <1>5 DEF Cells
    <2> HIDE DEF row
    <2> QED BY <1>1, <1>2, <1>4, <2>1, ShowsMeaning
  <1>6. DOMAIN Layout = {1, 2} /\ Layout[1] = "id" /\ Layout[2] = "v" BY DEF Layout
  <1> DEFINE page == Named(config.columns)
                       \o (IF "id" \in Range(Named(config.columns)) THEN <<>> ELSE <<"id">>) \o <<"id">>
  <1>7. {1, 2} \subseteq DOMAIN page /\ page[2] = "v"
    <2>1. Named(config.columns) = Layout BY <1>4 DEF Named
    <2>2. "id" \in Range(Layout) BY <1>6 DEF Range
    <2> DEFINE names == {"id", "v"}  both == Layout \o <<>>
    <2>3. page = both \o <<"id">> BY <2>1, <2>2
    <2>4. /\ Layout \in Seq(names) /\ Len(Layout) = 2
          /\ <<>> \in Seq(names) /\ Len(<<>>) = 0 /\ <<"id">> \in Seq(names) /\ Len(<<"id">>) = 1
      BY DEF Layout
    <2>5. both \in Seq(names) /\ Len(both) = 2 /\ both[2] = "v"
      <3>1. \A p \in 1 .. 2 : both[p] = Layout[p] BY <2>4, ConcatProperties
      <3> QED BY <1>6, <2>4, <3>1, ConcatProperties
    <2> HIDE DEF both, page, names
    <2>6. page \in Seq(names) /\ Len(page) = 3 /\ page[2] = both[2]
      <3> DEFINE last == <<"id">>
      <3>1. last \in Seq(names) /\ Len(last) = 1 BY <2>4
      <3> HIDE DEF last
      <3>2. /\ both \o last \in Seq(names) /\ Len(both \o last) = Len(both) + Len(last)
            /\ \A p \in 1 .. Len(both) + Len(last) :
                 (both \o last)[p] = IF p <= Len(both) THEN both[p] ELSE last[p - Len(both)]
        BY <2>5, <3>1, ConcatProperties
      <3>3. Len(both \o last) = 3 /\ (both \o last)[2] = both[2] BY <2>5, <3>1, <3>2
      <3> QED BY <2>3, <3>2, <3>3 DEF last
    <2>7. DOMAIN page = 1 .. 3 BY <2>6
    <2> QED BY <2>5, <2>6, <2>7
  <1>8. PageCells(i) = Extract(row(page, IdCast(i))) /\ ReplayCells(i) = Extract(row(Layout, IdCast(i)))
    BY <1>3 DEF PageCells, ReplayCells
  <1> HIDE DEF row, page
  <1> QED BY <1>5, <1>6, <1>7, <1>8 DEF row

LEMMA BackfillKept == ASSUME TypeOK, PlainIds, Kept, Backfill PROVE Kept'
  <1>0. UpToDate' BY UpToDateStep DEF Next, Kept
  <1>1. CASE ~HasCursor(types.id)
    <2>1. docs' = docs /\ phase' = "unsupported" /\ phase = "applied" BY <1>1 DEF Backfill
    <2>2. UNCHANGED <<rows, wal, dlq, altered, types>> BY DEF Backfill, table
    <2> QED BY <1>0, <2>1, <2>2, KeptStill
  <1>2. CASE HasCursor(types.id)
    <2>1. /\ UNCHANGED <<rows, wal, dlq, altered, types, config, schema>>
          /\ phase = "applied" /\ phase' = "stream"
          /\ \A i \in Present : FromText(IdCast(i)) # None
      BY <1>2 DEF Backfill, table, files
    <2> DEFINE from(d) == {i \in Present : ThroughScript(FromText(IdCast(i))) = d}
               value(d) == IF from(d) = {} THEN docs[d] ELSE Document(PageCells(CHOOSE i \in from(d) : TRUE))
    <2>2. docs' = [d \in DocIds |-> value(d)] BY <1>2 DEF Backfill
    <2>3. wal = <<>> /\ dlq = {} /\ docs = [d \in DocIds |-> None] BY <2>1 DEF TypeOK
    <2>4. ASSUME NEW i \in Present
          PROVE  i \in Ids /\ FromText(<<i>>) = <<i>> /\ ThroughScript(FromText(IdCast(i))) = <<i>>
      <3>1. i \in Ids BY DEF Present
      <3>2. FromText(<<i>>) = <<i>> BY <2>1, ReadIds, PlainText
      <3> QED BY <3>1, <3>2, PlainText
    <2>5. \A i \in Present : \A d : i \in from(d) <=> d = <<i>> BY <2>4
    <2>6. \A d : from(d) \subseteq Present OBVIOUS
    <2> HIDE DEF from
    <2>7. ASSUME NEW i \in Present PROVE docs'[<<i>>] = Document(PageCells(i))
      <3>1. from(<<i>>) = {i} BY <2>4, <2>5, <2>6, Singletons
      <3>2. <<i>> \in DocIds BY <2>4, Singletons
      <3> QED BY <2>2, <3>1, <3>2
    <2>8. ASSUME NEW d \in DocIds, \A i \in Present : d # <<i>> PROVE docs'[d] = None
      <3>1. from(d) = {} BY <2>5, <2>6, <2>8
      <3> QED BY <2>2, <2>3, <3>1
    <2>9. \A t : FromText(t)' = FromText(t) BY <2>1 DEF FromText
    <2>10. \A i, t : Of(i, t)' <=> Of(i, t) BY <2>9 DEF Of
    <2>11. wal' = <<>> /\ dlq' = {} /\ Len(wal') = 0 BY <2>1, <2>3
    <2>12. Addressed'
      <3>1. \A d \in DocIds : docs'[d] # None => \E i \in Ids : Of(i, d)
        BY <2>4, <2>8 DEF Of
      <3> QED BY <2>10, <2>11, <3>1 DEF Addressed
    <2>13. Latest' BY <2>11 DEF Latest
    <2>14. ASSUME NEW i \in Ids PROVE Shows(i)'
      <3>1. <<i>> \in DocIds BY Singletons
      <3>2. CASE rows[i] = 0
        <4>1. \A j \in Present : <<i>> # <<j>> BY <3>2, Singletons DEF Present
        <4> QED BY <2>1, <2>8, <3>1, <3>2, <4>1 DEF Shows
      <3>3. CASE rows[i] # 0
        <4>1. i \in Present BY <3>3 DEF Present
        <4>2. docs'[<<i>>] = Document(PageCells(i)) /\ docs'[<<i>>] # None BY <2>7, <4>1, RowCellsType
        <4>3. PlainValues /\ ~altered => Document(PageCells(i)) = Meaning(types.v, rows[i])
          BY <2>1, <4>1, RowMeaning DEF Kept
        <4> QED BY <2>1, <3>3, <4>2, <4>3 DEF Shows
      <3> QED BY <3>2, <3>3
    <2> QED BY <1>0, <2>12, <2>13, <2>14 DEF Kept, Mirrored
  <1> QED BY <1>1, <1>2

LEMMA StreamKept == ASSUME TypeOK, PlainIds, Kept, Stream PROVE Kept'
  <1>0. UpToDate' BY UpToDateStep DEF Next, Kept
  <1>1. /\ UNCHANGED <<rows, types, altered, config, schema, phase>>
        /\ wal' = Tail(wal) /\ phase = "stream" /\ wal # <<>>
    BY DEF Stream, files
  <1> DEFINE change == Head(wal)
             cells  == Extract(Cells(Layout, change.id, change.v))
             n      == Len(wal')
  <1>2. /\ change \in Changes /\ change = wal[1] /\ n \in Nat /\ Len(wal) = n + 1
        /\ \A k \in 1 .. n : wal'[k] = wal[k + 1]
    BY <1>1, HeadType
  <1>3. PICK j \in Ids : change.id = <<j>>
    <2>1. 1 \in 1 .. Len(wal) BY <1>2
    <2> QED BY <1>2, <2>1 DEF Kept, Addressed
  <1>4. \A t : FromText(t)' = FromText(t) BY <1>1 DEF FromText
  <1>5. \A i, t : Of(i, t)' <=> Of(i, t) BY <1>4 DEF Of
  <1>6. /\ 1 \in 1 .. n + 1 /\ \A k \in 1 .. n : k + 1 \in 1 .. n + 1 /\ k + 1 > 1
        /\ \A l \in 1 .. n + 1 : l = 1 \/ (l - 1 \in 1 .. n /\ (l - 1) + 1 = l)
        /\ \A k \in 1 .. n : \A l \in 1 .. n + 1 : l > k + 1 => l - 1 > k
    BY <1>2
  <1>7. \A i \in Ids : \A k \in 1 .. n : IsLast(i, k)' => IsLast(i, k + 1)
    <2> SUFFICES ASSUME NEW i \in Ids, NEW k \in 1 .. n, IsLast(i, k)' PROVE IsLast(i, k + 1)
      OBVIOUS
    <2>1. wal[k + 1].id = <<i>> BY <1>2 DEF IsLast
    <2>2. ASSUME NEW l \in 1 .. n + 1, l > k + 1 PROVE wal[l].id # <<i>>
      <3>1. l - 1 \in 1 .. n /\ l - 1 > k /\ (l - 1) + 1 = l BY <1>2, <2>2
      <3>2. wal'[l - 1].id # <<i>> BY <3>1 DEF IsLast
      <3> QED BY <1>2, <3>1, <3>2
    <2> QED BY <1>2, <2>1, <2>2 DEF IsLast
  <1>8. \A i \in Ids : Waits(i) => Waits(i)' \/ i = j
    <2> SUFFICES ASSUME NEW i \in Ids, Waits(i), i # j PROVE Waits(i)' OBVIOUS
    <2>1. PICK l \in 1 .. n + 1 : wal[l].id = <<i>> BY <1>2 DEF Waits
    <2>2. l # 1 BY <1>2, <1>3, <2>1, Singletons
    <2>3. l - 1 \in 1 .. n /\ wal'[l - 1] = wal[l] BY <1>2, <1>6, <2>2
    <2> QED BY <2>1, <2>3 DEF Waits
  <1>9. Latest'
    <2> SUFFICES ASSUME NEW i \in Ids, NEW k \in 1 .. n, IsLast(i, k)'
                 PROVE  /\ wal'[k].op = "delete" <=> rows[i] = 0
                        /\ ~altered /\ rows[i] # 0 => wal'[k].v = Printed(types.v, rows[i])
      BY <1>1 DEF Latest
    <2>1. IsLast(i, k + 1) /\ k + 1 \in 1 .. Len(wal) BY <1>2, <1>6, <1>7
    <2> QED BY <1>2, <2>1 DEF Kept, Latest
  <1>10. \A k \in 1 .. n : \E i \in Ids : wal'[k].id = <<i>> BY <1>2, <1>6 DEF Kept, Addressed
  <1>11. ~Waits(j)' => IsLast(j, 1)
    <2> SUFFICES ASSUME ~Waits(j)', NEW l \in 1 .. n + 1, l > 1 PROVE wal[l].id # <<j>>
      BY <1>2, <1>3 DEF IsLast
    <2>1. l - 1 \in 1 .. n /\ wal'[l - 1] = wal[l] BY <1>2, <1>6
    <2> QED BY <2>1 DEF Waits
  \* For j the change was the last one, or there is another to come.
  <1>12. ~Waits(j)' => /\ change.op = "delete" <=> rows[j] = 0
                       /\ ~altered /\ rows[j] # 0 => change.v = Printed(types.v, rows[j])
    BY <1>2, <1>6, <1>11 DEF Kept, Latest
  <1>13. change.id \in DocIds /\ change.v \in Texts BY <1>2 DEF Changes
  <1>14. Document(cells) # None BY <1>13, CellsType, ExtractType, DocumentType
  <1>15. ~Waits(j)' /\ PlainValues /\ ~altered /\ rows[j] # 0 => Document(cells) = Meaning(types.v, rows[j])
    <2> SUFFICES ASSUME ~Waits(j)', PlainValues, ~altered, rows[j] # 0
                 PROVE  Document(cells) = Meaning(types.v, rows[j])
      OBVIOUS
    <2>1. j \in Present BY DEF Present
    <2>2. change.v = Printed(types.v, rows[j]) BY <1>12
    <2> QED BY <1>1, <2>1, <2>2, RowMeaning DEF Kept
  <1> HIDE DEF change, cells, n
  \* What happens to documents and letters of other rows.
  <1>16. ASSUME \A d \in DocIds : d # <<j>> => docs'[d] = docs[d],
                \A i \in Ids : i # j => (Letter(i)' <=> Letter(i)),
                NEW i \in Ids, i # j, Of(i, <<i>>), ~Waits(i)', ~Letter(i)'
         PROVE  Shows(i)'
    <2>1. ~Waits(i) /\ ~Letter(i) BY <1>8, <1>16
    <2>2. Shows(i) BY <1>1, <1>16, <2>1 DEF Kept, Mirrored
    <2>3. <<i>> \in DocIds /\ <<i>> # <<j>> BY <1>16, Singletons
    <2> QED BY <1>1, <1>16, <2>2, <2>3 DEF Shows
  <1>17. CASE FromText(change.id) = None /\ UNCHANGED mirror
    <2>1. docs' = docs /\ dlq' = dlq BY <1>17 DEF mirror
    <2>2. ~Of(j, <<j>>) BY <1>3, <1>17, Singletons DEF Of
    <2>3. Addressed' BY <1>5, <1>10, <2>1 DEF Kept, Addressed, n
    <2>4. \A i : Letter(i)' <=> Letter(i) BY <2>1 DEF Letter
    <2>5. Mirrored' BY <1>5, <1>16, <2>1, <2>2, <2>4 DEF Mirrored
    <2> QED BY <1>0, <1>9, <2>3, <2>5 DEF Kept
  <1>18. CASE /\ FromText(change.id) # None
              /\ Set(FromText(change.id), IF change.op = "delete" THEN None ELSE Document(cells))
              /\ UNCHANGED <<dlq, failures>>
    <2>1. FromText(<<j>>) = <<j>> /\ <<j>> \in DocIds BY <1>3, <1>18, ReadIds, Singletons
    <2>2. docs' = [docs EXCEPT ![<<j>>] = IF change.op = "delete" THEN None ELSE Document(cells)]
      BY <1>3, <1>18, <2>1, PlainText DEF Set
    <2>3. /\ docs'[<<j>>] = IF change.op = "delete" THEN None ELSE Document(cells)
          /\ \A d \in DocIds : d # <<j>> => docs'[d] = docs[d]
      BY <2>1, <2>2 DEF TypeOK
    <2>4. \A i : Letter(i)' <=> Letter(i) BY <1>18 DEF Letter
    <2>5. Addressed'
      <3>1. Of(j, <<j>>) BY <2>1 DEF Of
      <3>2. \A d \in DocIds : docs'[d] # None => \E i \in Ids : Of(i, d)
        BY <2>3, <3>1 DEF Kept, Addressed
      <3> QED BY <1>5, <1>10, <1>18, <3>2 DEF Kept, Addressed, n
    <2>6. ~Waits(j)' => Shows(j)' BY <1>1, <1>12, <1>14, <1>15, <2>3 DEF Shows
    <2>7. Mirrored' BY <1>5, <1>16, <2>3, <2>4, <2>6 DEF Mirrored
    <2> QED BY <1>0, <1>9, <2>5, <2>7 DEF Kept
  <1>19. CASE /\ FromText(change.id) # None /\ UNCHANGED docs
              /\ dlq' = dlq \cup {DeadLetter(FromText(change.id), change.op)}
    <2>1. FromText(<<j>>) = <<j>> BY <1>3, <1>19, ReadIds
    <2>2. \A e \in dlq' : e \in dlq \/ e.id = <<j>> BY <1>3, <1>19, <2>1 DEF DeadLetter
    <2>3. dlq \subseteq dlq' /\ \E e \in dlq' : e.id = <<j>>
      <3> DEFINE new == DeadLetter(FromText(change.id), change.op)
      <3>1. new.id = <<j>> BY <1>3, <2>1 DEF DeadLetter
      <3> HIDE DEF new
      <3>2. dlq' = dlq \cup {new} BY <1>19 DEF new
      <3> QED BY <3>1, <3>2
    <2>4. \A i \in Ids : i # j => (Letter(i)' <=> Letter(i)) BY <2>2, <2>3, Singletons DEF Letter
    <2>5. Letter(j)' BY <2>3 DEF Letter
    <2>6. Of(j, <<j>>) BY <2>1 DEF Of
    <2>7. Addressed' BY <1>5, <1>10, <1>19, <2>2, <2>6 DEF Kept, Addressed, n
    <2>8. Mirrored' BY <1>5, <1>16, <1>19, <2>4, <2>5 DEF Mirrored
    <2> QED BY <1>0, <1>9, <2>7, <2>8 DEF Kept
  <1> QED BY <1>17, <1>18, <1>19 DEF Stream, change, cells

\* A replay reads the row again.
LEMMA ReplayKept == ASSUME TypeOK, PlainIds, Kept, ReplayDlq PROVE Kept'
  <1>0. UpToDate' BY UpToDateStep DEF Next, Kept
  <1>1. UNCHANGED <<rows, wal, types, altered, config, schema, phase>> /\ phase = "stream"
    BY DEF ReplayDlq, table, files
  <1>2. PICK e \in dlq : Replay(e) BY DEF ReplayDlq, Retryable
  <1>3. PICK j \in Ids : Of(j, e.id) BY DEF Kept, Addressed
  <1>4. e.id = <<j>> /\ FromText(<<j>>) = <<j>> /\ <<j>> \in DocIds BY <1>3, Singletons DEF Of
  <1>5. \A t : FromText(t)' = FromText(t) BY <1>1 DEF FromText
  <1>6. \A i, t : Of(i, t)' <=> Of(i, t) BY <1>5 DEF Of
  <1>7. \A i : Waits(i)' <=> Waits(i) BY <1>1 DEF Waits
  <1>8. Latest'
    <2>1. \A i, k : IsLast(i, k)' <=> IsLast(i, k) BY <1>1 DEF IsLast
    <2> QED BY <1>1, <2>1 DEF Kept, Latest
  <1>9. CASE Fails(e)
    <2>1. docs' = docs /\ dlq' = (dlq \ {e}) \cup {[e EXCEPT !.tries = @ + 1]}
      BY <1>2, <1>9 DEF Replay, IncrementRetry
    <2>2. [e EXCEPT !.tries = @ + 1].id = e.id BY DEF TypeOK, Letters
    <2>3. \A i : Letter(i)' <=> Letter(i) BY <2>1, <2>2 DEF Letter
    <2>4. Addressed' BY <1>1, <1>3, <1>6, <2>1, <2>2 DEF Kept, Addressed
    <2>5. Mirrored' BY <1>1, <1>6, <1>7, <2>1, <2>3 DEF Kept, Mirrored, Shows
    <2> QED BY <1>0, <1>8, <2>4, <2>5 DEF Kept
  <1>10. CASE ~Fails(e)
    <2>1. dlq' = dlq \ {e} BY <1>2, <1>10 DEF Replay, DeleteEntry
    <2>2. \A i : SameId(i, e.id) <=> i = j BY <1>4, PlainText
    <2>3. RowsOf(e) = {j} \cap Present BY <1>10, <2>2 DEF RowsOf, Fails
    <2>4. /\ \A d \in DocIds : d # <<j>> => docs'[d] = docs[d]
          /\ Shows(j)'
      <3>1. CASE rows[j] = 0
        <4>1. RowsOf(e) = {} BY <2>3, <3>1 DEF Present
        <4>2. docs' = [docs EXCEPT ![<<j>>] = None]
          BY <1>2, <1>4, <1>10, <4>1, PlainText DEF Replay, Set
        <4> QED BY <1>1, <1>4, <3>1, <4>2 DEF TypeOK, Shows
      <3>2. CASE rows[j] # 0
        <4>1. j \in Present /\ RowsOf(e) = {j} BY <2>3, <3>2 DEF Present
        <4>2. Set(FromText(IdCast(j)), Document(ReplayCells(j))) BY <1>2, <1>10, <4>1 DEF Replay
        <4>3. docs' = [docs EXCEPT ![<<j>>] = Document(ReplayCells(j))]
          BY <1>4, <4>2, PlainText DEF Set
        <4>4. docs'[<<j>>] = Document(ReplayCells(j)) /\ \A d \in DocIds : d # <<j>> => docs'[d] = docs[d]
          BY <1>4, <4>3 DEF TypeOK
        <4>5. Document(ReplayCells(j)) # None BY <4>1, RowCellsType
        <4>6. PlainValues /\ ~altered => Document(ReplayCells(j)) = Meaning(types.v, rows[j])
          BY <1>1, <4>1, RowMeaning DEF Kept
        <4> QED BY <1>1, <3>2, <4>4, <4>5, <4>6 DEF Shows
      <3> QED BY <3>1, <3>2
    <2>5. Addressed'
      <3>1. \A d \in DocIds : docs'[d] # None => \E i \in Ids : Of(i, d)
        BY <1>3, <1>4, <2>4 DEF Kept, Addressed
      <3> QED BY <1>1, <1>6, <2>1, <3>1 DEF Kept, Addressed
    <2>6. Mirrored'
      <3> SUFFICES ASSUME NEW i \in Ids, Of(i, <<i>>), ~Waits(i), ~Letter(i)' PROVE Shows(i)'
        BY <1>6, <1>7 DEF Mirrored
      <3>1. CASE i = j BY <2>4, <3>1
      <3>2. CASE i # j
        <4>1. <<i>> # <<j>> /\ <<i>> \in DocIds BY <3>2, Singletons
        <4>2. ~Letter(i) BY <1>4, <2>1, <4>1 DEF Letter
        <4>3. Shows(i) BY <1>1, <4>2 DEF Kept, Mirrored
        <4> QED BY <1>1, <2>4, <4>1, <4>3 DEF Shows
      <3> QED BY <3>1, <3>2
    <2> QED BY <1>0, <1>8, <2>5, <2>6 DEF Kept
  <1> QED BY <1>9, <1>10

LEMMA KeptInvariant == ASSUME PlainIds PROVE Spec => [](TypeOK /\ Kept)
  <1>1. ASSUME Init PROVE Kept
    <2>1. wal = <<>> /\ dlq = {} /\ docs = [d \in DocIds |-> None] /\ phase = "none" /\ schema = None
      BY <1>1 DEF Init
    <2>2. Len(wal) = 0 BY <2>1
    <2> QED BY <2>1, <2>2 DEF Kept, Addressed, Latest, Mirrored, UpToDate
  <1>2. ASSUME TypeOK, Kept, [Next]_vars PROVE Kept'
    BY <1>2, DeveloperKept, BackfillKept, StreamKept, ReplayKept, WriteKept DEF Next
  <1> QED BY <1>1, <1>2, InitType, TypeStep, PTL DEF Spec

\* When all is handled, an id without a letter that is given up is settled.
LEMMA QuietShows ==
  ASSUME TypeOK, Kept, Quiet, NEW i \in Ids, FromText(<<i>>) # None, <<i>> \notin GivenUp
  PROVE  Shows(i)
  <1>1. Len(wal) = 0 BY DEF Quiet
  <1>2. ~Waits(i) BY <1>1 DEF Waits
  <1>3. ~Letter(i) BY DEF Quiet, GivenUp, Letter
  <1>4. Of(i, <<i>>) BY ReadIds DEF Of
  <1> QED BY <1>2, <1>3, <1>4 DEF Quiet, Kept, Mirrored

\* Once everything is handled, and but for letters that are given up, the documents are
\* those of the rows: for any types and columns, any id type a user picks, any writes.
THEOREM DocumentsAreRows == ASSUME PlainIds PROVE Spec => []MirrorsRows
  <1>1. ASSUME TypeOK, Kept PROVE MirrorsRows
    <2> SUFFICES ASSUME Quiet, NEW d \in DocIds \ GivenUp
                 PROVE  docs[d] # None <=> \E i \in Present : IdOfRow(i) = d
      BY DEF MirrorsRows
    <2>1. d # None BY NoneAssumption DEF DocIds
    <2>2. \A i : IdOfRow(i) = FromText(<<i>>) BY <1>1, PlainText DEF IdOfRow
    <2>3. ASSUME docs[d] # None PROVE \E i \in Present : IdOfRow(i) = d
      <3>1. PICK i \in Ids : Of(i, d) BY <1>1, <2>3 DEF Kept, Addressed
      <3>2. d = <<i>> /\ FromText(<<i>>) = d BY <3>1 DEF Of
      <3>3. Shows(i) BY <1>1, <2>1, <3>2, QuietShows
      <3> QED BY <2>2, <2>3, <3>2, <3>3 DEF Shows, Present
    <2>4. ASSUME NEW i \in Present, IdOfRow(i) = d PROVE docs[d] # None
      <3>1. FromText(<<i>>) = d /\ d = <<i>> BY <2>1, <2>2, <2>4, ReadIds
      <3>2. i \in Ids /\ rows[i] # 0 BY DEF Present
      <3>3. Shows(i) BY <1>1, <2>1, <3>1, <3>2, QuietShows
      <3> QED BY <3>1, <3>2, <3>3 DEF Shows
    <2> QED BY <2>3, <2>4
  <1> QED BY <1>1, KeptInvariant, PTL

\* ... and each document shows what its row's value means.
THEOREM DocumentsShowValues == ASSUME PlainIds, PlainValues PROVE Spec => []ShowsRows
  <1>1. ASSUME TypeOK, Kept PROVE ShowsRows
    <2> SUFFICES ASSUME Quiet, ~altered, NEW i \in Present, IdOfRow(i) \notin GivenUp \cup {None}
                 PROVE  docs[IdOfRow(i)] = Meaning(types.v, rows[i])
      BY DEF ShowsRows
    <2>1. i \in Ids /\ rows[i] # 0 BY DEF Present
    <2>2. IdOfRow(i) = <<i>> /\ FromText(<<i>>) # None
      BY <1>1, ReadIds, PlainText DEF IdOfRow
    <2>3. Shows(i) BY <1>1, <2>1, <2>2, QuietShows
    <2> QED BY <2>1, <2>2, <2>3 DEF Shows
  <1> QED BY <1>1, KeptInvariant, PTL
=============================================================================
