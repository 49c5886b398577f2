----------------------------- MODULE MCBackfill -----------------------------
(* Instances of Backfill; all constants are numbers, given in the .cfg.    *)
EXTENDS Backfill
=============================================================================
