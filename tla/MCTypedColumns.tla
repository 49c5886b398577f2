-------------------------- MODULE MCTypedColumns --------------------------
(* Configs that list no columns, or all of them in the order of the table: *)
(* in another order a page differs from the WAL (README, known limits).     *)
EXTENDS TypedColumns

MCInOrder == {None, <<"id", "v">>}
=============================================================================
