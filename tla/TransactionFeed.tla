-------------------------- MODULE TransactionFeed --------------------------
(* What one replication connection promises its consumer, the abstract     *)
(* specification of ReplicationStream::recv_batch: committed transactions  *)
(* arrive one after the other in commit order, each whole or as full       *)
(* sub-batches followed by the rest; nothing is left out, repeated or      *)
(* taken from a neighbour.  Only a new connection goes back.               *)
(*                                                                         *)
(* Positions count row changes in commit order.                            *)
EXTENDS Integers

CONSTANT SubBatchSizes   \* sizes a sub-batch may have; empty without sub-batching

VARIABLES
  up,        \* a connection is open
  commits,   \* end positions of the committed transactions
  pos,       \* the transactions up to here are done with
  part       \* changes of the next one handed over so far

Init == ~up /\ pos = 0 /\ part = 0 /\ commits \subseteq Nat

IsNext(e) == e \in commits /\ e > pos /\ \A k \in commits : k > pos => e <= k

Grow ==
  /\ commits \subseteq commits' /\ \A e \in commits' \ commits : \A k \in commits : e > k
  /\ UNCHANGED <<up, pos, part>>

SubBatch ==
  /\ up
  /\ \E n \in SubBatchSizes : \E e \in commits :
       IsNext(e) /\ pos + part + n <= e /\ part' = part + n
  /\ UNCHANGED <<up, commits, pos>>

Finish == up /\ IsNext(pos') /\ part' = 0 /\ UNCHANGED <<up, commits>>

Connect == ~up /\ up' /\ pos' \in commits \cup {0} /\ part' = 0 /\ UNCHANGED commits

Disconnect == up /\ ~up' /\ pos' = 0 /\ part' = 0 /\ UNCHANGED commits

Next == Grow \/ SubBatch \/ Finish \/ Connect \/ Disconnect

Spec == Init /\ [][Next]_<<up, commits, pos, part>>
=============================================================================
