------------------------------- MODULE SledStorage -------------------------------
(***************************************************************************)
(* The storage adapter on disk (src/src/adapters/sled_storage.rs).  Two    *)
(* tasks work on one sled database without a common lock: the actor, which *)
(* handles one message at a time, and the eviction task of pre_start.      *)
(* Each operation of the database is atomic and is one action; handlers    *)
(* are sequences of them, and the process may end between any two.  What   *)
(* sled has not yet flushed then is lost with it, which is the same as an  *)
(* earlier end.                                                            *)
(*                                                                         *)
(* A value is told apart by its timestamp and its size (keys included)     *)
(* only.  The children of one message are taken in any order, and nodes    *)
(* that come without children are left out.                                *)
(***************************************************************************)
EXTENDS Integers, FiniteSets, Functions

CONSTANTS NodeIds,        \* nodes, metadata nodes ("_...") among them
          Reserved,       \* those metadata nodes
          ChildKeys,      \* names of children; a node's id may be one
          NodeDatas,      \* NodeData: records [size, updated_at]
          BasePriority,   \* 110 for my_pub's nodes, 100 for other signed and "#", 0 for public
          Warmth(_, _),   \* what size and times_opened add to the priority
          Limit,          \* max_size, or None
          Puts,           \* puts that may arrive: sets of writes, one for a child at most
          Gets,           \* gets that may arrive
          Known,          \* what requesters may say they have (Get.checksum): None or children
          MaxIds,         \* bound: ids drawn from COUNTER
          MaxMessages,    \* bound: messages handled
          MaxRestarts,    \* bound: restarts of the process
          None

Writes == [node_id : NodeIds, child_key : ChildKeys, data : NodeDatas]

Keys == ChildKeys \cup NodeIds   \* handle_get uses a node's id as the key of a child

ASSUME DataAssumption == \A d \in NodeDatas : d.size \in Nat \ {0} /\ d.updated_at \in Int
ASSUME NodesAssumption == Reserved \subseteq NodeIds /\ BasePriority \in [NodeIds -> {0, 100, 110}]
ASSUME LimitAssumption == Limit \in Nat \cup {None}
ASSUME PutsAssumption == Puts \subseteq SUBSET Writes
ASSUME GetsAssumption ==
  Gets \subseteq [node_id : NodeIds, child_key : ChildKeys \cup {None}, known : Known]
ASSUME BoundsAssumption == MaxIds \in Nat /\ MaxMessages \in Nat /\ MaxRestarts \in Nat

VARIABLES nodes,     \* node ids the default tree has a marker for
          children,  \* node id -> its tree, child key -> SledNodeData
          index,     \* _nodes_by_priority: <<priority, id>> -> NodesByPriorityEntry
          size,      \* _meta's "size"
          counter,   \* COUNTER
          task,      \* where the actor is in its handler
          evictor,   \* where the eviction task is
          reply,     \* the reply sent last
          received,  \* history: writes stored or outdone, less those evicted
          served,    \* history: writes read out by the last step
          handled, restarts   \* counted for the bounds

database == <<nodes, children, index, size>>

vars == <<nodes, children, index, size, counter, task, evictor, reply,
          received, served, handled, restarts>>

Idle == [pc |-> "idle"]

NoReply == [node_id |-> None, child_key |-> None, children |-> <<>>]

Init == /\ nodes = {}
        /\ children = [n \in NodeIds |-> <<>>]
        /\ index = <<>>
        /\ size = 0
        /\ counter = 0
        /\ task = Idle
        /\ evictor = Idle
        /\ reply = NoReply
        /\ received = {}
        /\ served = {}
        /\ handled = 0
        /\ restarts = 0
----------------------------------------------------------------------------------
With(f, x, y) == [z \in DOMAIN f \cup {x} |-> IF z = x THEN y ELSE f[z]]

Without(f, x) == [z \in DOMAIN f \ {x} |-> f[z]]

(* update_priority: public data never reaches the priority of signed data. *)
Priority(node_id, bytes, times_opened) ==
  IF BasePriority[node_id] # 0
    THEN BasePriority[node_id] + Warmth(bytes, times_opened)
    ELSE IF Warmth(bytes, times_opened) < 99 THEN Warmth(bytes, times_opened) ELSE 99

Reprioritised(node_id, record) ==
  [record EXCEPT !.priority = Priority(node_id, record.size, record.times_opened)]

(* The index key under which a record is filed. *)
IndexKey(record) == <<record.priority, record.id>>

Entry(node_id, record) ==
  [node_id |-> node_id, child_key |-> record.child_key, size |-> record.size]

(* SledNodeData::new: its old priority counts as 0 when it is filed. *)
NewRecord(node_id, child_key, data) ==
  Reprioritised(node_id,
    [id |-> counter, child_key |-> child_key, data |-> data, size |-> data.size,
     priority |-> 0, times_opened |-> 0])

Updated(node_id, record, data) ==
  Reprioritised(node_id, [record EXCEPT !.data = data, !.size = data.size])

Opened(node_id, record) ==
  Reprioritised(node_id, [record EXCEPT !.times_opened = @ + 1])

(* Mutant: sizes may fall below zero.                                      *)
MergeUnclamped(change) == size + change

Merge(change) == IF size + change > 0 THEN size + change ELSE 0   \* merge_meta

Quietly == UNCHANGED <<reply, handled, restarts>> /\ served' = {}
----------------------------------------------------------------------------------
(* The actor.  A put is worked off child by child: look it up, refile it   *)
(* in the index (remove the old key, insert the new one), store it, change *)
(* the total size.                                                         *)
ReceivePut(put) ==
  /\ task.pc = "idle" /\ handled < MaxMessages
  /\ task' = [pc |-> "put", todo |-> {w \in put : w.node_id \notin Reserved}]
  /\ handled' = handled + 1
  /\ served' = {}
  /\ UNCHANGED <<database, counter, evictor, reply, received, restarts>>

PutDone ==
  /\ task.pc = "put" /\ task.todo = {}
  /\ task' = Idle
  /\ Quietly /\ UNCHANGED <<database, counter, evictor, received>>

(* Where a put goes on after the look-up of one child. *)
StoreNext(w, todo, was, record, pc, change) ==
  task' = [pc |-> pc, then |-> "store", node_id |-> w.node_id, key |-> w.child_key,
           was |-> was, record |-> record, change |-> change, todo |-> todo]

PutNewChild(w) ==
  /\ task.pc = "put" /\ w \in task.todo /\ counter < MaxIds
  /\ w.child_key \notin DOMAIN children[w.node_id]
  /\ nodes' = nodes \cup {w.node_id}
  /\ counter' = counter + 1
  /\ LET record == NewRecord(w.node_id, w.child_key, w.data)
     IN StoreNext(w, task.todo \ {w}, <<0, record.id>>, record, "unfile", record.size)
  /\ Quietly /\ UNCHANGED <<children, index, size, evictor, received>>

Existing(w) == children[w.node_id][w.child_key]

(* Mutant: timestamps are not compared.                                    *)
PutAny(w) ==
  /\ task.pc = "put" /\ w \in task.todo
  /\ w.child_key \in DOMAIN children[w.node_id]
  /\ LET record == Updated(w.node_id, Existing(w), w.data)
         pc == IF record.priority # Existing(w).priority THEN "unfile" ELSE "store"
     IN StoreNext(w, task.todo \ {w}, IndexKey(Existing(w)), record, pc,
                  record.size - Existing(w).size)
  /\ Quietly /\ UNCHANGED <<database, counter, evictor, received>>

PutNewer(w) ==
  /\ task.pc = "put" /\ w \in task.todo
  /\ w.child_key \in DOMAIN children[w.node_id]
  /\ w.data.updated_at >= Existing(w).data.updated_at
  /\ LET record == Updated(w.node_id, Existing(w), w.data)
         pc == IF record.priority # Existing(w).priority THEN "unfile" ELSE "store"
     IN StoreNext(w, task.todo \ {w}, IndexKey(Existing(w)), record, pc,
                  record.size - Existing(w).size)
  /\ Quietly /\ UNCHANGED <<database, counter, evictor, received>>

PutOlder(w) ==
  /\ task.pc = "put" /\ w \in task.todo
  /\ w.child_key \in DOMAIN children[w.node_id]
  /\ w.data.updated_at < Existing(w).data.updated_at
  /\ task' = [task EXCEPT !.todo = @ \ {w}]
  /\ received' = received \cup {w}
  /\ Quietly /\ UNCHANGED <<database, counter, evictor>>

Unfile ==
  /\ task.pc = "unfile"
  /\ index' = Without(index, task.was)
  /\ task' = [task EXCEPT !.pc = "file"]
  /\ Quietly /\ UNCHANGED <<nodes, children, size, counter, evictor, received>>

(* Mutant: a record is not filed anew.                                     *)
FileNothing ==
  /\ task.pc = "file"
  /\ task' = [task EXCEPT !.pc = task.then]
  /\ Quietly /\ UNCHANGED <<nodes, children, index, size, counter, evictor, received>>

File ==
  /\ task.pc = "file"
  /\ index' = With(index, IndexKey(task.record), Entry(task.node_id, task.record))
  /\ task' = [task EXCEPT !.pc = task.then]
  /\ Quietly /\ UNCHANGED <<nodes, children, size, counter, evictor, received>>

Store ==
  /\ task.pc = "store"
  /\ children' = [children EXCEPT ![task.node_id] = With(@, task.key, task.record)]
  /\ received' = received \cup
       {[node_id |-> task.node_id, child_key |-> task.key, data |-> task.record.data]}
  /\ task' = [task EXCEPT !.pc = "resize"]
  /\ Quietly /\ UNCHANGED <<nodes, index, size, counter, evictor>>

Resize ==
  /\ task.pc = "resize"
  /\ size' = Merge(task.change)
  /\ task' = [pc |-> "put", todo |-> task.todo]
  /\ Quietly /\ UNCHANGED <<nodes, children, index, counter, evictor, received>>
----------------------------------------------------------------------------------
(* A get reads the child, or one after the other all that are there.       *)
(* Reading counts: times_opened and the index move on.  The record is then *)
(* written back, but under the node's id instead of the child's key.       *)
ReceiveGet(get) ==
  /\ task.pc = "idle" /\ handled < MaxMessages
  /\ handled' = handled + 1
  /\ task' = IF get.node_id \in nodes
               THEN [pc |-> "get", get |-> get, read |-> <<>>]
               ELSE Idle
  /\ served' = {}
  /\ UNCHANGED <<database, counter, evictor, reply, received, restarts>>

ReadChild(k) ==
  LET n == task.get.node_id
      record == Opened(n, children[n][k])
  IN
  /\ task.pc = "get"
  /\ k \in DOMAIN children[n] \ DOMAIN task.read
  /\ task.get.child_key # None => k = task.get.child_key
  /\ task' = [pc |-> IF record.priority # children[n][k].priority THEN "unfile" ELSE "writeback",
              then |-> "writeback", node_id |-> n, was |-> IndexKey(children[n][k]),
              record |-> record, get |-> task.get,
              read |-> With(task.read, k, record.data)]
  /\ served' = {w \in Writes : w = [node_id |-> n, child_key |-> k, data |-> record.data]}
  /\ UNCHANGED <<database, counter, evictor, reply, received, handled, restarts>>

WriteBack ==
  /\ task.pc = "writeback"
  /\ children' = [children EXCEPT ![task.node_id] = With(@, task.node_id, task.record)]
  /\ task' = [pc |-> "get", get |-> task.get, read |-> task.read]
  /\ Quietly /\ UNCHANGED <<nodes, index, size, counter, evictor, received>>

(* The iteration over a node's tree ends; whether it comes across what it  *)
(* writes back itself depends on where in the order of keys it is.         *)
ReadAll ==
  /\ task.pc = "get"
  /\ IF task.get.child_key = None
       THEN DOMAIN children[task.get.node_id] \ {task.get.node_id} \subseteq DOMAIN task.read
       ELSE task.get.child_key \in DOMAIN task.read

AnswerGet ==
  /\ ReadAll
  /\ task.read # task.get.known
  /\ reply' = [node_id |-> task.get.node_id, child_key |-> task.get.child_key,
               children |-> task.read]
  /\ task' = Idle
  /\ served' = {}
  /\ UNCHANGED <<database, counter, evictor, received, handled, restarts>>

(* "requested child not found"; or "not replying with the same data".      *)
NoAnswer ==
  /\ \/ /\ task.pc = "get"
        /\ task.get.child_key \notin DOMAIN task.read \cup {None}
        /\ task.get.child_key \notin DOMAIN children[task.get.node_id]
     \/ ReadAll /\ task.read = task.get.known
  /\ task' = Idle
  /\ Quietly /\ UNCHANGED <<database, counter, evictor, received>>
----------------------------------------------------------------------------------
(* The eviction task: when the total size has reached max_size, pop the    *)
(* least entry of the index, remove what it points to, subtract its size,  *)
(* until as much as there was in excess has gone.                          *)
StartEviction ==
  /\ evictor.pc = "idle"
  /\ Limit # None /\ size >= Limit
  /\ evictor' = [pc |-> "pop", todo |-> size - Limit]
  /\ Quietly /\ UNCHANGED <<database, counter, task, received>>

(* Mutant: the greatest entry goes first.                                  *)
PopGreatest(key) ==
  /\ evictor.pc = "pop" /\ evictor.todo > 0
  /\ key \in DOMAIN index
  /\ \A other \in DOMAIN index : key[1] >= other[1]
  /\ index' = Without(index, key)
  /\ evictor' = [pc |-> "remove", todo |-> evictor.todo, entry |-> index[key]]
  /\ Quietly /\ UNCHANGED <<nodes, children, size, counter, task, received>>

PopLeast(key) ==
  /\ evictor.pc = "pop" /\ evictor.todo > 0
  /\ key \in DOMAIN index
  /\ \A other \in DOMAIN index : key[1] <= other[1]
  /\ index' = Without(index, key)
  /\ evictor' = [pc |-> "remove", todo |-> evictor.todo, entry |-> index[key]]
  /\ Quietly /\ UNCHANGED <<nodes, children, size, counter, task, received>>

RemoveEvicted ==
  /\ evictor.pc = "remove"
  /\ children' = [children EXCEPT ![evictor.entry.node_id] = Without(@, evictor.entry.child_key)]
  /\ received' = {w \in received : \/ w.node_id # evictor.entry.node_id
                                   \/ w.child_key # evictor.entry.child_key}
  /\ evictor' = [evictor EXCEPT !.pc = "subtract"]
  /\ Quietly /\ UNCHANGED <<nodes, index, size, counter, task>>

SubtractEvicted ==
  /\ evictor.pc = "subtract"
  /\ size' = Merge(0 - evictor.entry.size)
  /\ evictor' = [pc |-> "pop", todo |-> evictor.todo - evictor.entry.size]
  /\ Quietly /\ UNCHANGED <<nodes, children, index, counter, task, received>>

EvictionDone ==
  /\ evictor.pc = "pop" /\ evictor.todo <= 0
  /\ evictor' = Idle
  /\ Quietly /\ UNCHANGED <<database, counter, task, received>>

(* The process ends and starts anew: COUNTER is a static, the rest is the  *)
(* database on disk.                                                       *)
Restart ==
  /\ restarts < MaxRestarts
  /\ restarts' = restarts + 1
  /\ counter' = 0
  /\ task' = Idle
  /\ evictor' = Idle
  /\ served' = {}
  /\ UNCHANGED <<database, reply, received, handled>>

Handle ==
  \/ \E put \in Puts : ReceivePut(put)
  \/ \E get \in Gets : ReceiveGet(get)

Work ==
  \/ PutDone \/ Unfile \/ File \/ Store \/ Resize
  \/ \E w \in Writes : PutNewChild(w) \/ PutNewer(w) \/ PutOlder(w)
  \/ \E k \in Keys : ReadChild(k)
  \/ WriteBack \/ AnswerGet \/ NoAnswer

Evict ==
  \/ StartEviction
  \/ \E key \in DOMAIN index : PopLeast(key)
  \/ RemoveEvicted \/ SubtractEvicted \/ EvictionDone

Next == Handle \/ Work \/ Evict \/ Restart

Spec == Init /\ [][Next]_vars

FairSpec == Spec /\ WF_vars(Work) /\ WF_vars(Evict)
----------------------------------------------------------------------------------
(* The children puts have stored in a node's tree; the copies that gets     *)
(* write there under the node's own id are stored beside them.             *)
PutChildren(n) == DOMAIN children[n] \cap ChildKeys

Copies(n) == DOMAIN children[n] \ ChildKeys

Record == [id : 0..MaxIds, child_key : Keys, data : NodeDatas, size : Nat, priority : Nat,
           times_opened : Nat]

TypeOK ==
  /\ nodes \subseteq NodeIds
  /\ \A n \in NodeIds : /\ DOMAIN children[n] \subseteq Keys
                        /\ \A k \in DOMAIN children[n] : children[n][k] \in Record
                        /\ children[n] # <<>> => n \in nodes \ Reserved
  /\ DOMAIN index \subseteq Nat \X (0..MaxIds)
  /\ \A key \in DOMAIN index :
       index[key] \in [node_id : NodeIds \ Reserved, child_key : Keys, size : Nat]
  /\ size \in Nat
  /\ counter \in 0..MaxIds
  /\ task.pc \in {"idle", "put", "unfile", "file", "store", "resize", "get", "writeback"}
  /\ evictor.pc \in {"idle", "pop", "remove", "subtract"}

AllPutChildren == {x \in NodeIds \X ChildKeys : x[2] \in PutChildren(x[1])}

TotalSize == SumFunction([x \in AllPutChildren |-> children[x[1]][x[2]].size])

(* Between messages the total size kept in _meta is the sum of the sizes   *)
(* of the children that puts have stored, each counted once, although      *)
(* every put only adds a difference to it.  It is less than what the       *)
(* database holds: the copies of gets are not in it.  (Without eviction    *)
(* and restarts.)                                                          *)
SizeCountsPuts == task = Idle => size = TotalSize

(* Those copies are all that is stored without being counted: one at most  *)
(* in each node, under its id, with the id of a child that is counted      *)
(* (sled_storage.rs:259, 274).  (Without eviction, which leaves the copy   *)
(* of what it removes.)                                                    *)
OnlyCopiesAreUncounted ==
  \A n \in NodeIds : \A k \in Copies(n) :
    /\ k = n
    /\ children[n][k].child_key \in PutChildren(n)
    /\ children[n][k].id = children[n][children[n][k].child_key].id

(* Between messages every child of a put can be found through the index:   *)
(* an entry with its id points to it; and no entry points to anything but  *)
(* a child with that id.  There may be more than one for a child, under    *)
(* priorities and with sizes it had, since a get files it anew without     *)
(* storing that.  (Without eviction and restarts.)                         *)
IndexPointsToChildren ==
  task = Idle =>
    /\ \A n \in NodeIds : \A c \in PutChildren(n) :
         \E key \in DOMAIN index :
           /\ key[2] = children[n][c].id
           /\ index[key].node_id = n /\ index[key].child_key = c
    /\ \A key \in DOMAIN index :
         /\ index[key].child_key \in PutChildren(index[key].node_id)
         /\ children[index[key].node_id][index[key].child_key].id = key[2]

Lww == INSTANCE LwwStore

(* Whatever the eviction task does in between, and wherever the process is *)
(* interrupted, what the store reads out for a child is the newest write   *)
(* it has stored or refused for it since the child was last evicted.       *)
ImplementsLwwStore == Lww!Spec

(* As long as there is public data in the index, nothing signed or content *)
(* addressed leaves it, however warm the public data is; and as long as    *)
(* there is any of those nothing of my_pub's own leaves it, except before  *)
(* what reading has warmed by the distance of the two classes, ten, or     *)
(* more, as it does data of 8 bytes that is opened 82 times                *)
(* (update_priority, sled_storage.rs:77-107; evict, 338-346).              *)
ClassesLeaveInOrder ==
  [][\A key \in DOMAIN index :
       PopLeast(key) =>
         \A other \in DOMAIN index :
           LET leaves == BasePriority[index[key].node_id]
               stays  == BasePriority[index[other].node_id]
           IN \/ stays >= leaves
              \/ stays = 100 /\ leaves = 110 /\ other[1] >= 110]_vars

(* sled_storage.rs:267, "reply with all children of this node": with what  *)
(* are its children and nothing else.                                      *)
RepliesOnlyChildren == DOMAIN reply.children \subseteq ChildKeys

(* main.rs:103, data in excess "will be evicted": an eviction that has     *)
(* begun comes to its end.                                                 *)
EvictionEnds == (evictor.pc # "idle") ~> (evictor.pc = "idle")

(* After any sequence of messages the total size and the index agree with *)
(* the children that puts have stored, and what else is stored is known.   *)
PutsAreAccounted == SizeCountsPuts /\ OnlyCopiesAreUncounted /\ IndexPointsToChildren
==================================================================================
