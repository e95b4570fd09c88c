----------------------------- MODULE MCRowStore -----------------------------
(* Instances of RowStore for TLC.                                          *)
EXTENDS RowStore

\* Key 0 and value 0 are what a slot of zero bytes decodes to.
MCZeroRow == [k |-> 0, v |-> 0]
MCGiven == {r \in Row : r.k > 0 /\ r.v > 0}

\* Two rows; updates still mix either key with either value.
MCGivenTwo == {[k |-> 1, v |-> 1], [k |-> 2, v |-> 2]}

\* Every row is encodable and comes back as it was given.
MCAll == Row
MCExact == [r \in Row |-> r]

\* Value 2 overflows its column: struct.pack raises.
MCNarrow == {r \in Row : r.v < 2}
=============================================================================
