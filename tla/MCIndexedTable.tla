--------------------------- MODULE MCIndexedTable ---------------------------
(* Pairs of conditions on the range column, some on the hash column,       *)
(* both at once, filters on top of filters, and custom predicates.         *)
EXTENDS IndexedTable

MCValues == <<0, 1, 2>>
MCCut == [x \in 0 .. 2 |-> IF x = 2 THEN 1 ELSE x]
MCZeroRow == [k |-> 0, v |-> 0]
MCGiven == {[k |-> 0, v |-> 1], [k |-> 1, v |-> 0], [k |-> 2, v |-> 2]}

Bound == {"gt", "gte", "lt", "lte"}
OneOp == {<<<<op, x>>>> : op \in Bound \cup {"eq", "ne"}, x \in 0 .. 1} \cup {<<<<"is", 1>>>>, <<>>}
TwoOps == {<<<<op, 0>>, <<other, 1>>>> : op, other \in Bound} \ {<<<<op, 0>>, <<op, 1>>>> : op \in Bound}
Mixed == {<<<<"lte", 1>>, <<"ne", 0>>>>, <<<<"gte", 0>>, <<"eq", 1>>>>, <<<<"lt", 1>>, <<"gt", 0>>>>}
OnV == {[v |-> spec] : spec \in OneOp \cup TwoOps \cup Mixed}
OnK == {[k |-> <<p>>] : p \in {<<"is", 0>>, <<"is", 1>>, <<"is", 2>>, <<"gt", 0>>}}
Both == {[k |-> <<<<"is", 1>>>>, v |-> <<p>>] : p \in {<<"is", 0>>, <<"lt", 1>>, <<"ne", 0>>}}

One == {Filter(AnyRow, c) : c \in OnV \cup OnK \cup Both}
Again ==
  {Filter(Filter(AnyRow, [v |-> <<<<"gt", 0>>>>]), c) : c \in OnK \cup {[v |-> <<<<"lte", 1>>>>], [v |-> <<>>]}}
Custom == {WhereFn(Filter(AnyRow, [k |-> <<<<"is", 1>>>>]), [v |-> <<<<"is", 0>>>>]),
           Filter(WhereFn(AnyRow, [v |-> <<<<"is", 0>>>>]), [k |-> <<<<"is", 1>>>>])}
MCQueries == {AnyRow} \cup One \cup Again \cup Custom
=============================================================================
