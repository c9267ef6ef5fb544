------------------------------ MODULE MemoryStorage ------------------------------
(***************************************************************************)
(* The in-memory storage adapter (src/src/adapters/memory_storage.rs), one *)
(* per process (replica).  An actor handles one message at a time and      *)
(* nothing else touches its store, so each handler is one action.  Between *)
(* the replicas lies the network, which may deliver any put to any replica *)
(* in any order and more than once; the routers' deduplication only bounds *)
(* how soon a repetition can come.                                         *)
(*                                                                         *)
(* received is a history variable: the writes a replica has been given     *)
(* since its process started.                                              *)
(***************************************************************************)
EXTENDS Integers

CONSTANTS Replicas,
          NodeIds,      \* paths of nodes
          ChildKeys,    \* names of their children
          NodeDatas,    \* NodeData: records [value, updated_at]
          Puts,         \* updated_nodes of the puts that may arrive
          None          \* Option::None

Writes == [node_id : NodeIds, child_key : ChildKeys, data : NodeDatas]

Write(node_id, child_key, data) == [node_id |-> node_id, child_key |-> child_key, data |-> data]

ChildMaps == UNION {[C -> NodeDatas] : C \in SUBSET ChildKeys}

NodeMaps == UNION {[N -> ChildMaps] : N \in SUBSET NodeIds}

ASSUME DataAssumption == \A d \in NodeDatas : d.updated_at \in Int
ASSUME PutsAssumption == Puts \subseteq NodeMaps
ASSUME NoneAssumption == None \notin ChildKeys

VARIABLES store,     \* HashMap<String, Children> of each replica
          received,
          reply      \* what each replica has answered to the message it handled last

vars == <<store, received, reply>>

NoReply == [node_id |-> None, child_key |-> None, children |-> <<>>]

Init == /\ store = [r \in Replicas |-> <<>>]
        /\ received = [r \in Replicas |-> {}]
        /\ reply = [r \in Replicas |-> NoReply]

(* Mutant: timestamps are not compared.                                    *)
MergedAnyway(children, update_data) ==
  [c \in DOMAIN children \cup DOMAIN update_data |->
     IF c \in DOMAIN update_data THEN update_data[c] ELSE children[c]]

Merged(children, update_data) ==
  [c \in DOMAIN children \cup DOMAIN update_data |->
     IF /\ c \in DOMAIN update_data
        /\ c \in DOMAIN children => update_data[c].updated_at >= children[c].updated_at
       THEN update_data[c]
       ELSE children[c]]

(* Mutant: the update replaces what the node had.                          *)
SavedOver(nodes, updated_nodes) ==
  [n \in DOMAIN nodes \cup DOMAIN updated_nodes |->
     IF n \in DOMAIN updated_nodes THEN updated_nodes[n] ELSE nodes[n]]

Saved(nodes, updated_nodes) ==
  [n \in DOMAIN nodes \cup DOMAIN updated_nodes |->
     IF n \notin DOMAIN updated_nodes THEN nodes[n]
     ELSE IF n \notin DOMAIN nodes THEN updated_nodes[n]
     ELSE Merged(nodes[n], updated_nodes[n])]

WritesOf(nodes) ==
  {w \in Writes : /\ w.node_id \in DOMAIN nodes
                  /\ w.child_key \in DOMAIN nodes[w.node_id]
                  /\ w.data = nodes[w.node_id][w.child_key]}

HandlePut(r, put) ==
  /\ store' = [store EXCEPT ![r] = Saved(store[r], put)]
  /\ received' = [received EXCEPT ![r] = @ \cup WritesOf(put)]
  /\ reply' = [reply EXCEPT ![r] = NoReply]

(* The children a get asks for: one that is there, or all of the node's.   *)
Requested(children, child_key) == IF child_key = None THEN DOMAIN children ELSE {child_key}

HandleGet(r, node_id, child_key) ==
  /\ node_id \in DOMAIN store[r]
  /\ child_key # None => child_key \in DOMAIN store[r][node_id]
  /\ reply' = [reply EXCEPT ![r] =
                 [node_id |-> node_id, child_key |-> child_key,
                  children |-> [c \in Requested(store[r][node_id], child_key) |->
                                  store[r][node_id][c]]]]
  /\ UNCHANGED <<store, received>>

(* "have not": no node, or not the child.                                  *)
HandleGetInVain(r, node_id, child_key) ==
  /\ node_id \in DOMAIN store[r] => child_key # None /\ child_key \notin DOMAIN store[r][node_id]
  /\ reply' = [reply EXCEPT ![r] = NoReply]
  /\ UNCHANGED <<store, received>>

(* Environment: the process ends and is started anew, with nothing stored. *)
Restart(r) ==
  /\ store' = [store EXCEPT ![r] = <<>>]
  /\ received' = [received EXCEPT ![r] = {}]
  /\ reply' = [reply EXCEPT ![r] = NoReply]

Next ==
  \E r \in Replicas :
    \/ \E put \in Puts : HandlePut(r, put)
    \/ \E n \in NodeIds, c \in ChildKeys \cup {None} : HandleGet(r, n, c) \/ HandleGetInVain(r, n, c)
    \/ Restart(r)

Spec == Init /\ [][Next]_vars
----------------------------------------------------------------------------------
Replies == [node_id : NodeIds, child_key : ChildKeys \cup {None}, children : ChildMaps]

TypeOK == /\ store \in [Replicas -> NodeMaps]
          /\ received \in [Replicas -> SUBSET Writes]
          /\ reply \in [Replicas -> Replies \cup {NoReply}]

Register(writes, n, c) == {w \in writes : w.node_id = n /\ w.child_key = c}

(* Whatever order puts came in, and however often, the store holds for     *)
(* every child that was ever put a write with the largest timestamp, and   *)
(* nothing else.                                                           *)
StoreHoldsNewest ==
  \A r \in Replicas, n \in NodeIds, c \in ChildKeys :
    LET writes == Register(received[r], n, c)
        stored == n \in DOMAIN store[r] /\ c \in DOMAIN store[r][n]
    IN /\ stored <=> writes # {}
       /\ stored => /\ Write(n, c, store[r][n][c]) \in writes
                    /\ \A w \in writes : w.data.updated_at <= store[r][n][c].updated_at

(* Replicas that were given the same writes hold the same data, in         *)
(* whatever order they came, as long as no two writes to one child carry   *)
(* one timestamp: handle_put lets the later arrival win then.              *)
Untied(writes) ==
  \A v, w \in writes :
    /\ v.node_id = w.node_id /\ v.child_key = w.child_key
    /\ v.data.updated_at = w.data.updated_at
    => v = w

ReplicasConverge ==
  \A r, s \in Replicas :
    received[r] = received[s] /\ Untied(received[r]) => WritesOf(store[r]) = WritesOf(store[s])

(* A reply for a whole node has every child the replica was ever given for *)
(* it, a reply for one child just that child.                              *)
RepliesComplete ==
  \A r \in Replicas :
    reply[r].node_id # None =>
      DOMAIN reply[r].children =
        IF reply[r].child_key = None
          THEN {w.child_key : w \in {v \in received[r] : v.node_id = reply[r].node_id}}
          ELSE {reply[r].child_key}

(* Each replica is a last-writer-wins store: what a reply carries is the   *)
(* newest of what was received (memory_storage.rs:22-72).                  *)
Served(r) ==
  {w \in Writes : /\ w.node_id = reply[r].node_id
                  /\ w.child_key \in DOMAIN reply[r].children
                  /\ w.data = reply[r].children[w.child_key]}

Lww(r) == INSTANCE LwwStore WITH received <- received[r], served <- Served(r)

ImplementsLwwStore ==
  /\ \A r \in Replicas : Lww(r)!Init
  /\ [][\A r \in Replicas : [Lww(r)!Next]_<<received[r], Served(r)>>]_vars

(* Every replica holds the newest of what it received, so that replicas    *)
(* that received the same agree.                                           *)
NewestEverywhere == TypeOK /\ StoreHoldsNewest /\ ReplicasConverge
==================================================================================
