---------------------------- MODULE TransformCall ----------------------------
(* What transform_batch promises its caller, the abstract specification of *)
(* TransformProcess: calls come one at a time; each ends once, with the    *)
(* script's answer to this very batch or with an error; an answer needs    *)
(* the script to have run the batch, as long as the running script has     *)
(* kept to one line per batch.                                             *)
EXTENDS Integers

VARIABLES
  call,     \* number of the last batch handed over
  outcome,  \* "pending" while the call runs, then "answered" or "failed"
  ran,      \* batches the script has run to its end
  kept      \* the running script has written nothing that reads as an answer of its own

Init == call = 0 /\ outcome = "failed" /\ ran = {} /\ kept = TRUE

Begin ==
  /\ outcome # "pending"
  /\ call' = call + 1 /\ outcome' \in {"pending", "failed"}
  /\ kept' \in {kept, TRUE} /\ UNCHANGED ran

Run ==
  /\ \E b \in 1 .. call : ran' = ran \cup {b}
  /\ UNCHANGED <<call, outcome, kept>>

Answer ==
  /\ outcome = "pending" /\ (call \in ran \/ ~kept)
  /\ outcome' = "answered" /\ UNCHANGED <<call, ran, kept>>

\* A failure costs the running script its life; the next one starts afresh.
Fail ==
  /\ outcome = "pending" /\ outcome' = "failed"
  /\ kept' \in {kept, TRUE} /\ UNCHANGED <<call, ran>>

Stray == kept' = FALSE /\ UNCHANGED <<call, outcome, ran>>

Replace == kept' = TRUE /\ UNCHANGED <<call, outcome, ran>>

Next == Begin \/ Run \/ Answer \/ Fail \/ Stray \/ Replace

Spec == Init /\ [][Next]_<<call, outcome, ran, kept>>
=============================================================================
