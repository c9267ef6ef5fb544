------------------------------- MODULE MCActorTree -------------------------------
(* The tree of a node with a websocket server that keeps no statistics, one *)
(* with the default configuration, outgoing websockets and multicast.      *)
EXTENDS ActorTree

CONSTANTS node, router, server, by_default, multicast, manager, c1, c2, c3

MCParent ==
  [a \in Actors |-> CASE a \in {node, router} -> Root
                      [] a \in {server, by_default, multicast, manager} -> router
                      [] a \in {c1, c2} -> server
                      [] a = c3 -> manager]
==================================================================================
