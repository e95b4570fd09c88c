--------------------------- MODULE MCColumnarTable --------------------------
(***************************************************************************)
(* Instances of ColumnarTable for TLC: a column of any kind beside a plain *)
(* one, which keeps rows alive.                                            *)
(***************************************************************************)
EXTENDS ColumnarTable

\* Plain columns behave as the encoded ones that gave up; floats matter to compact.
MCKinds == <<Kinds \ {"plain", "float"}, {"plain"}>>
MCAllKinds == <<Kinds, {"plain"}>>

\* Steps of 3 and 6 need deltas of both widths or none, and windows of each size.
MCValues == <<{0, 3, 6, Null}, {1}>>

\* An update gives one column; the other is written with it as it was.
MCPatched == {{1}, {2}}
=============================================================================
