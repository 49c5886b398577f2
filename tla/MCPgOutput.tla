----------------------------- MODULE MCPgOutput -----------------------------
(* Small instances of PgOutput: messages of every kind, whole, cut short,    *)
(* followed by other bytes, and with one byte changed.                       *)
EXTENDS PgOutput

\* The value a changed byte takes: lengths, counts and every marker.
CONSTANT Noise

Text(s) == [kind |-> "text", bytes |-> s]
Binary(s) == [kind |-> "binary", bytes |-> s]
Null == [kind |-> "null"]
Unchanged == [kind |-> "unchanged"]

Row(kind, old, new) ==
  [kind |-> kind, relation_id |-> 258, old |-> old, new |-> new]

\* Values that hold the bytes of markers, lengths and terminators.
Tuples == {<<>>, <<Null>>, <<Text(<<>>), Unchanged>>,
           <<Text(<<78, 0>>), Binary(<<0, 1>>), Null>>}

\* "é" has two bytes.
Columns == {<<>>,
            <<[part_of_key |-> TRUE, name |-> <<105>>, type_oid |-> 23,
               type_modifier |-> -1],
              [part_of_key |-> FALSE, name |-> <<195, 169>>, type_oid |-> 1043,
               type_modifier |-> 36]>>}

MCSent ==
  {[kind |-> "begin", final_lsn |-> 66051, timestamp |-> -2, xid |-> 7],
   [kind |-> "commit", flags |-> 0, commit_lsn |-> 66051, end_lsn |-> 255,
    timestamp |-> 515],
   [kind |-> "other", tag |-> Code.O]}
  \cup {[kind |-> "truncate", option_bits |-> 1, relation_ids |-> ids] :
          ids \in {<<>>, <<258, 3>>}}
  \cup {[kind |-> "relation", id |-> 258, namespace |-> <<112>>, name |-> n,
         identity |-> 102, columns |-> cs] : n \in {<<>>, <<117, 115>>},
                                             cs \in Columns}
  \cup {Row("insert", <<>>, <<t>>) : t \in Tuples}
  \cup {Row("delete", <<t>>, <<>>) : t \in Tuples}
  \cup {Row("update", <<>>, <<t>>) : t \in Tuples}
  \cup {Row("update", <<s>>, <<t>>) : s \in Tuples, t \in Tuples}

Whole == UNION {Encodings(m) : m \in MCSent}

MCWires ==
  Whole
    \cup UNION {{SubSeq(e, 1, n) : n \in 0..Len(e)} : e \in Whole}
    \cup {e \o <<0, 78>> : e \in Whole}
    \cup UNION {{[e EXCEPT ![i] = b] : i \in DOMAIN e, b \in Noise} : e \in Whole}
=============================================================================
