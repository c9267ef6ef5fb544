-------------------------------- MODULE MCRouter --------------------------------
(* Instances of Router: a few connections, one local graph node, one       *)
(* multicast server peer, one storage adapter, two topics.                 *)
EXTENDS Router, TLC

CONSTANTS c1, c2, node, multicast, storage, t1, t2, x

(* Subscriptions, publications and replies to the same few topics; p1      *)
(* updates three nodes, two of them under one topic.                       *)
MixedGets == {GetMessage("g1", t1, None), GetMessage("g2", t2, x)}

MixedPuts == {PutMessage("p1", <<t1, t2, t1>>, None, None),
              PutMessage("r1", <<t1>>, "g1", x),
              PutMessage("r2", <<t1>>, "g1", None)}

ConnSymmetry == Permutations(Conns)
=================================================================================
