-------------------------- MODULE MCStreamingLoop --------------------------
(* Small instances of StreamingLoop: two configs, two rows.                 *)
EXTENDS StreamingLoop

CONSTANTS c1, c2, r1, r2

\* c1 replicates a table with both rows; so does c2 (fan-out of one table).
MCSourceOf == [c \in Configs |-> Rows]

\* The rows are in two tables; c2 replicates one of them.
MCPartOf == [c \in Configs |-> IF c = c1 THEN Rows ELSE {r1}]
=============================================================================
