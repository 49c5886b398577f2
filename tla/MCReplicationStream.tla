------------------------ MODULE MCReplicationStream ------------------------
(* Two relations; users has a watched column k and another one x, notes has *)
(* no column list, so every column of it is watched.                        *)
EXTENDS ReplicationStream, TLC

CONSTANTS users, notes, k, x, int, text

MCLayouts == {
  (k :> int @@ x :> NoColumn),     \* as created
  (k :> int @@ x :> int),          \* an additive change
  (k :> text @@ x :> NoColumn)}    \* a change of the watched column

MCWatched == users :> {k} @@ notes :> {}

\* notes keeps its first two layouts; a transaction has at most four rows.
Row == [rel : {users}, cols : MCLayouts]
       \cup [rel : {notes}, cols : {l \in MCLayouts : l[k] = int}]

Txn(n) == UNION {[1 .. i -> Row] : i \in 0 .. n}

MCWals == {<<t>> : t \in Txn(4)} \cup {<<t1, t2>> : t1, t2 \in Txn(2)}
=============================================================================
