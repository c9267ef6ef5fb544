-------------------------------- MODULE LwwStore --------------------------------
(***************************************************************************)
(* What a storage adapter promises the rest of the system, whichever it    *)
(* is: a register per (node id, child key) in which the write with the     *)
(* largest updated_at wins.  received is the set of writes that count;     *)
(* served the writes read out for the answer in progress.                  *)
(*                                                                         *)
(* A store may forget a register (eviction, or the end of a process that   *)
(* keeps its data in memory), but only as a whole: it never falls back to  *)
(* an older write.                                                         *)
(***************************************************************************)
EXTENDS Integers

CONSTANTS NodeIds, ChildKeys, NodeDatas   \* NodeDatas: records with a field updated_at

Writes == [node_id : NodeIds, child_key : ChildKeys, data : NodeDatas]

VARIABLES received, served

SameRegister(v, w) == v.node_id = w.node_id /\ v.child_key = w.child_key

Newest(writes) ==
  {w \in writes : \A v \in writes : SameRegister(v, w) => v.data.updated_at <= w.data.updated_at}

Init == received = {} /\ served = {}

Receive == /\ received' \in SUBSET Writes
           /\ received \subseteq received'
           /\ served' = {}

Serve == /\ served' \subseteq Newest(received)
         /\ UNCHANGED received

Forget == /\ received' \subseteq received
          /\ \A v, w \in received : SameRegister(v, w) /\ v \in received' => w \in received'
          /\ served' = {}

Next == Receive \/ Serve \/ Forget

Spec == Init /\ [][Next]_<<received, served>>
=================================================================================
