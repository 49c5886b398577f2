-------------------------- MODULE MCSlotHandover --------------------------
(* The new process knows a config the old one does not.                    *)
EXTENDS SlotHandover, TLC

CONSTANTS old, new, c1, c2

MCConfigsOf == (old :> {c1}) @@ (new :> {c1, c2})
=============================================================================
