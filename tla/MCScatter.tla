----------------------------- MODULE MCScatter -----------------------------
(* Scatters over two times two values, for Scatter. *)
EXTENDS Scatter

AllMethods == {"dotproduct", "flat_crossproduct", "nested_crossproduct"}
NoItems    == {}
LastItem   == {<<Rows, Cols>>}
NextRow    == {<<2, 1>>}
FirstRow   == {<<1, Cols>>}
=============================================================================
