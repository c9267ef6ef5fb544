----------------------------- MODULE MCMemoryStorage -----------------------------
(* Two replicas, a node with two children and a second node; three writes  *)
(* to one child, two of them with the same timestamp, and a put that       *)
(* updates two nodes at once.                                              *)
EXTENDS MemoryStorage

CONSTANTS n1, n2, c1, c2, v, w

Data(value, updated_at) == [value |-> value, updated_at |-> updated_at]

MCNodeDatas == {Data(value, t) : value \in {v, w}, t \in 1..2}

Single(n, c, d) == [x \in {n} |-> [y \in {c} |-> d]]

MCPuts == {Single(n1, c1, Data(v, 1)),
           Single(n1, c1, Data(v, 2)),
           Single(n1, c1, Data(w, 2)),
           [x \in {n1} |-> [y \in {c1, c2} |-> Data(w, 1)]],
           [x \in {n1, n2} |-> IF x = n1 THEN [y \in {c2} |-> Data(v, 2)] ELSE <<>>]}
==================================================================================
