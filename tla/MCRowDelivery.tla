--------------------------- MODULE MCRowDelivery ---------------------------
(* Rows of a table (a, id, b, ...) for a config that lists b and the id.   *)
EXTENDS RowDelivery, TLC

CONSTANTS i1, i2, i3

MCLayout == <<"a", "id", "b">>
MCConfigColumns == <<"b", "id">>
MCToasted == {"b"}
\* Two ids can be read, and nothing tells them apart.
MCSymmetry == Permutations({i1, i2})
=============================================================================
