--------------------------- MODULE MemoryStorageProofs ---------------------------
(***************************************************************************)
(* Theorems about MemoryStorage, for any replicas, nodes, children, data   *)
(* and puts.  The inductive invariant is TypeOK with StoreHoldsNewest: the *)
(* store is, child by child, a maximum of what was received.  Convergence, *)
(* complete replies and the refinement of LwwStore follow from it.         *)
(***************************************************************************)
EXTENDS MemoryStorage, TLAPS

Has(nodes, n, c) == n \in DOMAIN nodes /\ c \in DOMAIN nodes[n]
----------------------------------------------------------------------------------
(* What it is to be a map of children, and a map of nodes.                 *)
LEMMA ChildMapElim ==
  ASSUME NEW f \in ChildMaps
  PROVE  /\ DOMAIN f \subseteq ChildKeys
         /\ \A c \in DOMAIN f : f[c] \in NodeDatas
BY DEF ChildMaps

LEMMA ChildMapIntro ==
  ASSUME NEW C \in SUBSET ChildKeys, NEW f \in [C -> NodeDatas]
  PROVE  f \in ChildMaps
BY DEF ChildMaps

LEMMA NodeMapElim ==
  ASSUME NEW f \in NodeMaps
  PROVE  /\ DOMAIN f \subseteq NodeIds
         /\ \A n \in DOMAIN f : f[n] \in ChildMaps
BY DEF NodeMaps

LEMMA NodeMapIntro ==
  ASSUME NEW N \in SUBSET NodeIds, NEW f \in [N -> ChildMaps]
  PROVE  f \in NodeMaps
BY DEF NodeMaps

LEMMA EmptyMap == <<>> \in NodeMaps /\ DOMAIN <<>> = {}
<1>1. <<>> \in [{} -> ChildMaps]
  OBVIOUS
<1> QED
  BY <1>1, NodeMapIntro

(* Merging two maps of children yields one, with the children of both.     *)
LEMMA MergedType ==
  ASSUME NEW f \in ChildMaps, NEW g \in ChildMaps
  PROVE  /\ Merged(f, g) \in ChildMaps
         /\ DOMAIN Merged(f, g) = DOMAIN f \cup DOMAIN g
<1> DEFINE C == DOMAIN f \cup DOMAIN g
<1>1. C \in SUBSET ChildKeys
  BY ChildMapElim
<1>2. DOMAIN Merged(f, g) = C
  BY DEF Merged
<1>3. ASSUME NEW c \in C
      PROVE  Merged(f, g)[c] \in NodeDatas
  <2>1. c \in DOMAIN f => f[c] \in NodeDatas
    BY ChildMapElim
  <2>2. c \in DOMAIN g => g[c] \in NodeDatas
    BY ChildMapElim
  <2>3. Merged(f, g)[c] = g[c] \/ Merged(f, g)[c] = f[c]
    BY DEF Merged
  <2>4. c \notin DOMAIN f => c \in DOMAIN g /\ Merged(f, g)[c] = g[c]
    BY DEF Merged
  <2>5. c \notin DOMAIN g => c \in DOMAIN f /\ Merged(f, g)[c] = f[c]
    BY DEF Merged
  <2> QED
    BY <2>1, <2>2, <2>3, <2>4, <2>5
<1>4. Merged(f, g) \in [C -> NodeDatas]
  BY <1>3 DEF Merged
<1> QED
  BY <1>1, <1>2, <1>4, ChildMapIntro

LEMMA SavedType ==
  ASSUME NEW nodes \in NodeMaps, NEW put \in NodeMaps
  PROVE  /\ Saved(nodes, put) \in NodeMaps
         /\ DOMAIN Saved(nodes, put) = DOMAIN nodes \cup DOMAIN put
<1> DEFINE N == DOMAIN nodes \cup DOMAIN put
<1>1. N \in SUBSET NodeIds
  BY NodeMapElim
<1>2. DOMAIN Saved(nodes, put) = N
  BY DEF Saved
<1>3. ASSUME NEW n \in N
      PROVE  Saved(nodes, put)[n] \in ChildMaps
  <2>1. CASE n \notin DOMAIN put
    BY <2>1, NodeMapElim DEF Saved
  <2>2. CASE n \in DOMAIN put /\ n \notin DOMAIN nodes
    BY <2>2, NodeMapElim DEF Saved
  <2>3. CASE n \in DOMAIN put /\ n \in DOMAIN nodes
    <3>1. nodes[n] \in ChildMaps /\ put[n] \in ChildMaps
      BY <2>3, NodeMapElim
    <3>2. Saved(nodes, put)[n] = Merged(nodes[n], put[n])
      BY <2>3 DEF Saved
    <3>3. Merged(nodes[n], put[n]) \in ChildMaps
      BY <3>1, MergedType, Zenon
    <3> QED
      BY <3>2, <3>3, Zenon
  <2> QED
    BY <2>1, <2>2, <2>3
<1>4. Saved(nodes, put) \in [N -> ChildMaps]
  BY <1>3 DEF Saved
<1> QED
  BY <1>1, <1>2, <1>4, NodeMapIntro

(* What is stored for a child after a put: nothing new unless the put has  *)
(* it; what the put has unless there is something newer.                   *)
LEMMA SavedAt ==
  ASSUME NEW nodes \in NodeMaps, NEW put \in NodeMaps, NEW n \in NodeIds, NEW c \in ChildKeys
  PROVE  /\ Has(Saved(nodes, put), n, c) <=> Has(nodes, n, c) \/ Has(put, n, c)
         /\ Has(nodes, n, c) /\ ~Has(put, n, c) => Saved(nodes, put)[n][c] = nodes[n][c]
         /\ Has(put, n, c) /\ ~Has(nodes, n, c) => Saved(nodes, put)[n][c] = put[n][c]
         /\ Has(put, n, c) /\ Has(nodes, n, c)
              => Saved(nodes, put)[n][c] =
                   IF put[n][c].updated_at >= nodes[n][c].updated_at
                     THEN put[n][c] ELSE nodes[n][c]
<1> DEFINE saved == Saved(nodes, put)
<1>1. DOMAIN saved = DOMAIN nodes \cup DOMAIN put
  BY SavedType
<1>2. CASE n \notin DOMAIN put
  <2>1. n \in DOMAIN nodes => saved[n] = nodes[n]
    BY <1>2 DEF Saved
  <2> QED
    BY <1>1, <1>2, <2>1 DEF Has
<1>3. CASE n \in DOMAIN put /\ n \notin DOMAIN nodes
  <2>1. saved[n] = put[n]
    BY <1>3 DEF Saved
  <2> QED
    BY <1>1, <1>3, <2>1 DEF Has
<1>4. CASE n \in DOMAIN put /\ n \in DOMAIN nodes
  <2> DEFINE f == nodes[n]
             g == put[n]
  <2>1. f \in ChildMaps /\ g \in ChildMaps
    BY <1>4, NodeMapElim
  <2>2. saved[n] = Merged(f, g)
    BY <1>4 DEF Saved
  <2>3. DOMAIN Merged(f, g) = DOMAIN f \cup DOMAIN g
    BY <2>1, MergedType
  <2>4. c \in DOMAIN f /\ c \notin DOMAIN g => Merged(f, g)[c] = f[c]
    BY DEF Merged
  <2>5. c \in DOMAIN g /\ c \notin DOMAIN f => Merged(f, g)[c] = g[c]
    BY DEF Merged
  <2>6. c \in DOMAIN g /\ c \in DOMAIN f
          => Merged(f, g)[c] = IF g[c].updated_at >= f[c].updated_at THEN g[c] ELSE f[c]
    BY DEF Merged
  <2> QED
    BY <1>1, <1>4, <2>2, <2>3, <2>4, <2>5, <2>6 DEF Has
<1> QED
  BY <1>2, <1>3, <1>4

(* The writes a put contributes to one register.                           *)
LEMMA WritesAt ==
  ASSUME NEW nodes \in NodeMaps, NEW n \in NodeIds, NEW c \in ChildKeys
  PROVE  /\ WritesOf(nodes) \subseteq Writes
         /\ Has(nodes, n, c) => Register(WritesOf(nodes), n, c) = {Write(n, c, nodes[n][c])}
         /\ ~Has(nodes, n, c) => Register(WritesOf(nodes), n, c) = {}
<1>1. WritesOf(nodes) \subseteq Writes
  BY DEF WritesOf
<1>2. ASSUME Has(nodes, n, c)
      PROVE  Register(WritesOf(nodes), n, c) = {Write(n, c, nodes[n][c])}
  <2>1. nodes[n][c] \in NodeDatas
    BY <1>2, NodeMapElim, ChildMapElim DEF Has
  <2>2. Write(n, c, nodes[n][c]) \in Register(WritesOf(nodes), n, c)
    BY <1>2, <2>1 DEF Register, WritesOf, Write, Writes, Has
  <2>3. ASSUME NEW w \in Register(WritesOf(nodes), n, c)
        PROVE  w = Write(n, c, nodes[n][c])
    BY <2>3 DEF Register, WritesOf, Write, Writes
  <2> QED
    BY <2>2, <2>3
<1>3. ASSUME ~Has(nodes, n, c)
      PROVE  Register(WritesOf(nodes), n, c) = {}
  BY <1>3 DEF Register, WritesOf, Has
<1> QED
  BY <1>1, <1>2, <1>3
----------------------------------------------------------------------------------
(* StoreHoldsNewest, for one store, one register and any set of writes.    *)
HoldsNewest(nodes, writes, n, c) ==
  /\ Has(nodes, n, c) <=> Register(writes, n, c) # {}
  /\ Has(nodes, n, c) =>
       /\ Write(n, c, nodes[n][c]) \in Register(writes, n, c)
       /\ \A w \in Register(writes, n, c) : w.data.updated_at <= nodes[n][c].updated_at

LEMMA StoreHoldsNewestAt ==
  StoreHoldsNewest <=>
    \A r \in Replicas, n \in NodeIds, c \in ChildKeys : HoldsNewest(store[r], received[r], n, c)
BY DEF StoreHoldsNewest, HoldsNewest, Has

(* Merging a put into a store that holds the newest of some writes leaves  *)
(* the newest of those writes and the put's.                               *)
LEMMA PutKeepsNewest ==
  ASSUME NEW nodes \in NodeMaps, NEW put \in NodeMaps, NEW writes \in SUBSET Writes,
         NEW n \in NodeIds, NEW c \in ChildKeys,
         HoldsNewest(nodes, writes, n, c)
  PROVE  HoldsNewest(Saved(nodes, put), writes \cup WritesOf(put), n, c)
<1> DEFINE saved == Saved(nodes, put)
           before == Register(writes, n, c)
           after == Register(writes \cup WritesOf(put), n, c)
<1>1. after = before \cup Register(WritesOf(put), n, c)
  BY DEF Register
<1>2. Has(saved, n, c) <=> Has(nodes, n, c) \/ Has(put, n, c)
  BY SavedAt
<1>3. /\ Has(nodes, n, c) <=> before # {}
      /\ Has(nodes, n, c) =>
           /\ Write(n, c, nodes[n][c]) \in before
           /\ \A w \in before : w.data.updated_at <= nodes[n][c].updated_at
  BY DEF HoldsNewest
<1>4. /\ Has(put, n, c) => Register(WritesOf(put), n, c) = {Write(n, c, put[n][c])}
      /\ ~Has(put, n, c) => Register(WritesOf(put), n, c) = {}
  BY WritesAt
<1>5. \A w \in before : w.data.updated_at \in Int
  BY DataAssumption DEF Register, Writes
<1>6. \A d : Write(n, c, d).data = d
  BY DEF Write
<1>7. Has(nodes, n, c) => nodes[n][c] \in NodeDatas
  BY NodeMapElim, ChildMapElim DEF Has
<1>8. Has(put, n, c) => put[n][c] \in NodeDatas
  BY NodeMapElim, ChildMapElim DEF Has
<1>9. CASE ~Has(put, n, c)
  <2>1. after = before
    BY <1>1, <1>4, <1>9
  <2>2. Has(nodes, n, c) => saved[n][c] = nodes[n][c]
    BY <1>9, SavedAt
  <2> QED
    BY <1>2, <1>3, <1>9, <2>1, <2>2 DEF HoldsNewest
<1>10. CASE Has(put, n, c) /\ ~Has(nodes, n, c)
  <2>1. after = {Write(n, c, put[n][c])}
    BY <1>1, <1>3, <1>4, <1>10
  <2>2. saved[n][c] = put[n][c]
    BY <1>10, SavedAt
  <2>3. put[n][c].updated_at <= put[n][c].updated_at
    BY <1>8, <1>10, DataAssumption
  <2>4. \A w \in after : w.data.updated_at <= saved[n][c].updated_at
    BY <1>6, <2>1, <2>2, <2>3
  <2> QED
    BY <1>2, <1>10, <2>1, <2>2, <2>4 DEF HoldsNewest
<1>11. CASE Has(put, n, c) /\ Has(nodes, n, c)
  <2> DEFINE new == put[n][c]
             old == nodes[n][c]
  <2>1. after = before \cup {Write(n, c, new)}
    BY <1>1, <1>4, <1>11
  <2>2. new.updated_at \in Int /\ old.updated_at \in Int
    BY <1>7, <1>8, <1>11, DataAssumption
  <2>3. saved[n][c] = IF new.updated_at >= old.updated_at THEN new ELSE old
    BY <1>11, SavedAt
  <2>4. Write(n, c, saved[n][c]) \in after
    BY <1>3, <1>11, <2>1, <2>3
  <2>5. /\ old.updated_at <= saved[n][c].updated_at
        /\ new.updated_at <= saved[n][c].updated_at
        /\ saved[n][c].updated_at \in Int
    BY <2>2, <2>3
  <2>6. \A w \in before : w.data.updated_at <= old.updated_at
    BY <1>3, <1>11
  <2> HIDE DEF new, old
  <2>7. \A w \in before : w.data.updated_at <= saved[n][c].updated_at
    BY <1>5, <2>2, <2>5, <2>6
  <2>8. \A w \in after : w.data.updated_at <= saved[n][c].updated_at
    BY <1>6, <2>1, <2>5, <2>7
  <2> QED
    BY <1>2, <1>11, <2>4, <2>8 DEF HoldsNewest
<1> QED
  BY <1>9, <1>10, <1>11
----------------------------------------------------------------------------------
LEMMA NoReplyType == NoReply \in Replies \cup {NoReply}
OBVIOUS

LEMMA InitType == Init => TypeOK
BY EmptyMap DEF Init, TypeOK

(* A get's answer has the type of a reply.                                 *)
LEMMA GetReply ==
  ASSUME TypeOK, NEW r \in Replicas, NEW n \in NodeIds, NEW c \in ChildKeys \cup {None},
         HandleGet(r, n, c)
  PROVE  reply' \in [Replicas -> Replies \cup {NoReply}]
<1> DEFINE children == store[r][n]
           asked == Requested(children, c)
           answer == [node_id |-> n, child_key |-> c, children |-> [k \in asked |-> children[k]]]
<1>1. children \in ChildMaps
  BY NodeMapElim DEF TypeOK, HandleGet
<1>2. asked \subseteq DOMAIN children
  BY DEF HandleGet, Requested
<1>3. DOMAIN children \subseteq ChildKeys /\ \A k \in DOMAIN children : children[k] \in NodeDatas
  BY <1>1, ChildMapElim
<1>4. reply' = [reply EXCEPT ![r] = answer]
  BY DEF HandleGet
<1> HIDE DEF children, asked
<1>5. [k \in asked |-> children[k]] \in [asked -> NodeDatas]
  BY <1>2, <1>3
<1>6. [k \in asked |-> children[k]] \in ChildMaps
  BY <1>2, <1>3, <1>5, ChildMapIntro
<1>7. answer \in Replies
  BY <1>6 DEF Replies
<1> QED
  BY <1>4, <1>7 DEF TypeOK

LEMMA StepType == ASSUME TypeOK, [Next]_vars PROVE TypeOK'
<1>1. ASSUME NEW r \in Replicas, NEW put \in Puts, HandlePut(r, put)
      PROVE  TypeOK'
  <2>1. put \in NodeMaps /\ store[r] \in NodeMaps
    BY PutsAssumption DEF TypeOK
  <2>2. Saved(store[r], put) \in NodeMaps
    BY <2>1, SavedType
  <2>3. store' \in [Replicas -> NodeMaps]
    BY <1>1, <2>2 DEF HandlePut, TypeOK
  <2>4. received' \in [Replicas -> SUBSET Writes]
    BY <1>1, <2>1, WritesAt DEF HandlePut, TypeOK, WritesOf
  <2>5. reply' \in [Replicas -> Replies \cup {NoReply}]
    BY <1>1, NoReplyType DEF HandlePut, TypeOK
  <2> QED
    BY <2>3, <2>4, <2>5 DEF TypeOK
<1>2. ASSUME NEW r \in Replicas, NEW n \in NodeIds, NEW c \in ChildKeys \cup {None},
             HandleGet(r, n, c)
      PROVE  TypeOK'
  BY <1>2, GetReply DEF HandleGet, TypeOK
<1>3. ASSUME NEW r \in Replicas, NEW n \in NodeIds, NEW c \in ChildKeys \cup {None},
             HandleGetInVain(r, n, c)
      PROVE  TypeOK'
  BY <1>3, NoReplyType DEF HandleGetInVain, TypeOK
<1>4. ASSUME NEW r \in Replicas, Restart(r)
      PROVE  TypeOK'
  BY <1>4, NoReplyType, EmptyMap DEF Restart, TypeOK
<1>5. CASE UNCHANGED vars
  BY <1>5 DEF vars, TypeOK
<1> QED
  BY <1>1, <1>2, <1>3, <1>4, <1>5 DEF Next

(* No reachable state is ill-typed, whatever the puts.                     *)
THEOREM TypeCorrect == Spec => []TypeOK
<1>1. Init => TypeOK
  BY InitType
<1>2. TypeOK /\ [Next]_vars => TypeOK'
  BY StepType
<1> QED
  BY <1>1, <1>2, PTL DEF Spec
----------------------------------------------------------------------------------
LEMMA StepNewest == ASSUME TypeOK, StoreHoldsNewest, [Next]_vars PROVE StoreHoldsNewest'
<1> SUFFICES ASSUME NEW s \in Replicas, NEW n \in NodeIds, NEW c \in ChildKeys
             PROVE  HoldsNewest(store'[s], received'[s], n, c)
  BY DEF StoreHoldsNewest, HoldsNewest, Has
<1>1. HoldsNewest(store[s], received[s], n, c)
  BY StoreHoldsNewestAt
<1>2. ASSUME NEW r \in Replicas, NEW put \in Puts, HandlePut(r, put)
      PROVE  HoldsNewest(store'[s], received'[s], n, c)
  <2>1. CASE s # r
    BY <1>1, <1>2, <2>1 DEF HandlePut, TypeOK
  <2>2. CASE s = r
    <3>1. store'[s] = Saved(store[s], put) /\ received'[s] = received[s] \cup WritesOf(put)
      BY <1>2, <2>2 DEF HandlePut, TypeOK
    <3>2. store[s] \in NodeMaps /\ put \in NodeMaps /\ received[s] \in SUBSET Writes
      BY PutsAssumption DEF TypeOK
    <3> QED
      BY <1>1, <3>1, <3>2, PutKeepsNewest
  <2> QED
    BY <2>1, <2>2
<1>3. ASSUME NEW r \in Replicas, Restart(r)
      PROVE  HoldsNewest(store'[s], received'[s], n, c)
  <2>1. CASE s # r
    BY <1>1, <1>3, <2>1 DEF Restart, TypeOK
  <2>2. CASE s = r
    <3>1. store'[s] = <<>> /\ received'[s] = {}
      BY <1>3, <2>2 DEF Restart, TypeOK
    <3> QED
      BY <3>1, EmptyMap DEF HoldsNewest, Has, Register
  <2> QED
    BY <2>1, <2>2
<1>4. CASE UNCHANGED <<store, received>>
  BY <1>1, <1>4
<1> QED
  BY <1>2, <1>3, <1>4 DEF Next, HandleGet, HandleGetInVain, vars

(* In whatever order puts arrive, and however often, the store holds for   *)
(* every child the newest that was received (memory_storage.rs:53-72).     *)
THEOREM NewestCorrect == Spec => []StoreHoldsNewest
<1>1. Init => TypeOK /\ StoreHoldsNewest
  BY InitType, EmptyMap DEF Init, StoreHoldsNewest, Register
<1>2. TypeOK /\ StoreHoldsNewest /\ [Next]_vars => (TypeOK /\ StoreHoldsNewest)'
  BY StepType, StepNewest
<1> QED
  BY <1>1, <1>2, PTL DEF Spec
----------------------------------------------------------------------------------
(* Of two replicas that received the same, untied writes, one stores what  *)
(* the other does.                                                         *)
LEMMA StoredAlike ==
  ASSUME TypeOK, StoreHoldsNewest, NEW r \in Replicas, NEW s \in Replicas,
         received[r] = received[s], Untied(received[r])
  PROVE  WritesOf(store[r]) \subseteq WritesOf(store[s])
<1> SUFFICES ASSUME NEW w \in WritesOf(store[r])
             PROVE  w \in WritesOf(store[s])
  OBVIOUS
<1> DEFINE n == w.node_id
           c == w.child_key
           theirs == Write(n, c, store[s][n][c])
<1>1. w \in Writes /\ n \in NodeIds /\ c \in ChildKeys /\ w = Write(n, c, w.data)
  BY DEF WritesOf, Writes, Write
<1>2. Has(store[r], n, c) /\ w.data = store[r][n][c]
  BY DEF WritesOf, Has
<1>3. /\ HoldsNewest(store[r], received[r], n, c)
      /\ HoldsNewest(store[s], received[s], n, c)
  BY <1>1, StoreHoldsNewestAt
<1>4. /\ w \in Register(received[r], n, c)
      /\ \A v \in Register(received[r], n, c) : v.data.updated_at <= w.data.updated_at
  BY <1>1, <1>2, <1>3 DEF HoldsNewest
<1>5. Has(store[s], n, c)
  BY <1>3, <1>4 DEF HoldsNewest
<1>6. /\ theirs \in Register(received[s], n, c)
      /\ \A v \in Register(received[s], n, c) : v.data.updated_at <= theirs.data.updated_at
  BY <1>3, <1>5 DEF HoldsNewest, Write
<1>7. store[s][n][c] \in NodeDatas
  BY <1>5, NodeMapElim, ChildMapElim DEF TypeOK, Has
<1>8. theirs.data.updated_at \in Int /\ w.data.updated_at \in Int
  BY <1>1, <1>7, DataAssumption DEF Writes, Write
<1>9. theirs.data.updated_at = w.data.updated_at
  BY <1>4, <1>6, <1>8
<1>10. theirs = w
  BY <1>4, <1>6, <1>9 DEF Untied, Register
<1>11. w.data = store[s][n][c]
  BY <1>10 DEF Write
<1> QED
  BY <1>1, <1>5, <1>11 DEF WritesOf, Has

(* Replicas that received the same writes agree, in whatever orders they   *)
(* came, if no two writes to a child are tied (memory_storage.rs:60-63).   *)
THEOREM ConvergenceCorrect == Spec => []ReplicasConverge
<1>1. TypeOK /\ StoreHoldsNewest => ReplicasConverge
  BY StoredAlike DEF ReplicasConverge
<1> QED
  BY <1>1, TypeCorrect, NewestCorrect, PTL
----------------------------------------------------------------------------------
(* The children of a node are those that were ever received for it.        *)
LEMMA ChildrenReceived ==
  ASSUME TypeOK, StoreHoldsNewest, NEW r \in Replicas, NEW n \in DOMAIN store[r]
  PROVE  DOMAIN store[r][n] = {w.child_key : w \in {v \in received[r] : v.node_id = n}}
<1>1. n \in NodeIds /\ DOMAIN store[r][n] \subseteq ChildKeys /\ received[r] \subseteq Writes
  BY NodeMapElim, ChildMapElim DEF TypeOK
<1>2. ASSUME NEW c \in ChildKeys
      PROVE  c \in DOMAIN store[r][n] <=> Register(received[r], n, c) # {}
  BY <1>1, StoreHoldsNewestAt DEF HoldsNewest, Has
<1>3. ASSUME NEW c \in DOMAIN store[r][n]
      PROVE  \E w \in received[r] : w.node_id = n /\ w.child_key = c
  BY <1>1, <1>2 DEF Register
<1>4. ASSUME NEW w \in received[r], w.node_id = n
      PROVE  w.child_key \in DOMAIN store[r][n]
  <2>1. w.child_key \in ChildKeys
    BY <1>1 DEF Writes
  <2>2. w \in Register(received[r], n, w.child_key)
    BY <1>4 DEF Register
  <2> QED
    BY <1>2, <2>1, <2>2
<1> QED
  BY <1>3, <1>4

LEMMA StepReplies ==
  ASSUME TypeOK, StoreHoldsNewest, RepliesComplete, [Next]_vars
  PROVE  RepliesComplete'
<1> DEFINE Complete(answer, writes) ==
             answer.node_id # None =>
               DOMAIN answer.children =
                 IF answer.child_key = None
                   THEN {w.child_key : w \in {v \in writes : v.node_id = answer.node_id}}
                   ELSE {answer.child_key}
<1> SUFFICES ASSUME NEW s \in Replicas
             PROVE  Complete(reply'[s], received'[s])
  BY DEF RepliesComplete
<1>1. Complete(reply[s], received[s])
  BY DEF RepliesComplete
<1>2. \A writes : Complete(NoReply, writes)
  BY DEF NoReply
<1> HIDE DEF Complete
<1>3. ASSUME NEW r \in Replicas, NEW put \in Puts, HandlePut(r, put)
      PROVE  Complete(reply'[s], received'[s])
  BY <1>1, <1>2, <1>3 DEF HandlePut, TypeOK
<1>4. ASSUME NEW r \in Replicas, NEW n \in NodeIds, NEW c \in ChildKeys \cup {None},
             HandleGet(r, n, c)
      PROVE  Complete(reply'[s], received'[s])
  <2>1. CASE s # r
    BY <1>1, <1>4, <2>1 DEF HandleGet, TypeOK
  <2>2. CASE s = r
    <3> DEFINE children == store[r][n]
               asked == Requested(children, c)
    <3>1. reply'[s] = [node_id |-> n, child_key |-> c, children |-> [k \in asked |-> children[k]]]
      BY <1>4, <2>2 DEF HandleGet, TypeOK
    <3>2. received' = received
      BY <1>4 DEF HandleGet
    <3>3. c = None => asked = {w.child_key : w \in {v \in received[s] : v.node_id = n}}
      BY <1>4, <2>2, ChildrenReceived DEF HandleGet, Requested
    <3>4. c # None => asked = {c}
      BY DEF Requested
    <3>5. DOMAIN [k \in asked |-> children[k]] = asked
      OBVIOUS
    <3> HIDE DEF asked
    <3> QED
      BY <3>1, <3>2, <3>3, <3>4, <3>5 DEF Complete
  <2> QED
    BY <2>1, <2>2
<1>5. ASSUME NEW r \in Replicas, NEW n \in NodeIds, NEW c \in ChildKeys \cup {None},
             HandleGetInVain(r, n, c)
      PROVE  Complete(reply'[s], received'[s])
  BY <1>1, <1>2, <1>5 DEF HandleGetInVain, TypeOK
<1>6. ASSUME NEW r \in Replicas, Restart(r)
      PROVE  Complete(reply'[s], received'[s])
  BY <1>1, <1>2, <1>6 DEF Restart, TypeOK
<1>7. CASE UNCHANGED vars
  BY <1>1, <1>7 DEF vars
<1> QED
  BY <1>3, <1>4, <1>5, <1>6, <1>7 DEF Next

(* A reply for a node leaves out none of its children, one for a child     *)
(* carries no other (memory_storage.rs:22-51).                             *)
THEOREM RepliesCorrect == Spec => []RepliesComplete
<1>1. Init => RepliesComplete
  BY DEF Init, RepliesComplete, NoReply
<1>2. TypeOK /\ StoreHoldsNewest /\ RepliesComplete /\ [Next]_vars => RepliesComplete'
  BY StepReplies
<1> QED
  BY <1>1, <1>2, TypeCorrect, NewestCorrect, PTL DEF Spec
----------------------------------------------------------------------------------
(* What a get reads out is, register by register, the newest received.     *)
LEMMA ServesNewest ==
  ASSUME TypeOK, StoreHoldsNewest, NEW r \in Replicas,
         NEW n \in NodeIds, NEW c \in ChildKeys \cup {None}, HandleGet(r, n, c)
  PROVE  Served(r)' \subseteq Lww(r)!Newest(received[r])
<1> SUFFICES ASSUME NEW w \in Served(r)'
             PROVE  w \in Lww(r)!Newest(received[r])
  OBVIOUS
<1> DEFINE children == store[r][n]
           asked == Requested(children, c)
           k == w.child_key
<1>1. reply'[r] = [node_id |-> n, child_key |-> c, children |-> [j \in asked |-> children[j]]]
  BY DEF HandleGet, TypeOK
<1>2. asked \subseteq DOMAIN children
  BY DEF HandleGet, Requested
<1>3. /\ w \in Writes
      /\ w.node_id = n
      /\ k \in asked
      /\ w.data = children[k]
  BY <1>1 DEF Served
<1>4. Has(store[r], n, k) /\ k \in ChildKeys
  BY <1>2, <1>3 DEF Has, HandleGet, Writes
<1>5. w = Write(n, k, store[r][n][k])
  BY <1>3 DEF Write, Writes
<1>6. /\ w \in Register(received[r], n, k)
      /\ \A v \in Register(received[r], n, k) : v.data.updated_at <= w.data.updated_at
  BY <1>3, <1>4, <1>5, StoreHoldsNewestAt DEF HoldsNewest
<1>7. \A v \in received[r] : v.node_id = n /\ v.child_key = k => v \in Register(received[r], n, k)
  BY DEF Register
<1> QED
  BY <1>3, <1>6, <1>7 DEF Lww!Newest, Lww!SameRegister, Register

LEMMA NothingServed ==
  ASSUME NEW r \in Replicas, reply[r] = NoReply
  PROVE  Served(r) = {}
BY DEF Served, NoReply

LEMMA LwwInit == ASSUME Init, NEW r \in Replicas PROVE Lww(r)!Init
BY NothingServed DEF Init, Lww!Init

LEMMA LwwStep ==
  ASSUME TypeOK, StoreHoldsNewest, TypeOK', [Next]_vars, NEW s \in Replicas
  PROVE  [Lww(s)!Next]_<<received[s], Served(s)>>
<1>1. ASSUME reply'[s] = NoReply
      PROVE  Served(s)' = {}
  BY <1>1 DEF Served, NoReply
<1>2. ASSUME reply'[s] = reply[s]
      PROVE  Served(s)' = Served(s)
  BY <1>2 DEF Served, Writes
<1>3. received[s] \in SUBSET Writes /\ received'[s] \in SUBSET Writes
  BY DEF TypeOK
<1>4. Lww(s)!Writes = Writes
  BY DEF Lww!Writes, Writes
<1>5. CASE received'[s] = received[s] /\ reply'[s] = reply[s]
  BY <1>2, <1>5
<1>6. ASSUME NEW put \in Puts, HandlePut(s, put)
      PROVE  Lww(s)!Receive
  <2>1. received[s] \subseteq received'[s] /\ reply'[s] = NoReply
    BY <1>6 DEF HandlePut, TypeOK
  <2> QED
    BY <1>1, <1>3, <1>4, <2>1 DEF Lww!Receive
<1>7. ASSUME NEW n \in NodeIds, NEW c \in ChildKeys \cup {None}, HandleGet(s, n, c)
      PROVE  Lww(s)!Serve
  BY <1>7, ServesNewest DEF Lww!Serve, HandleGet
<1>8. ASSUME NEW n \in NodeIds, NEW c \in ChildKeys \cup {None}, HandleGetInVain(s, n, c)
      PROVE  Lww(s)!Serve
  <2>1. received' = received /\ reply'[s] = NoReply
    BY <1>8 DEF HandleGetInVain, TypeOK
  <2> QED
    BY <1>1, <2>1 DEF Lww!Serve
<1>9. ASSUME Restart(s)
      PROVE  Lww(s)!Forget
  <2>1. received'[s] = {} /\ reply'[s] = NoReply
    BY <1>9 DEF Restart, TypeOK
  <2> QED
    BY <1>1, <2>1 DEF Lww!Forget
<1>10. ASSUME NEW r \in Replicas, r # s,
              \/ \E put \in Puts : HandlePut(r, put)
              \/ \E n \in NodeIds, c \in ChildKeys \cup {None} :
                   HandleGet(r, n, c) \/ HandleGetInVain(r, n, c)
              \/ Restart(r)
       PROVE  received'[s] = received[s] /\ reply'[s] = reply[s]
  BY <1>10 DEF HandlePut, HandleGet, HandleGetInVain, Restart, TypeOK
<1>11. CASE UNCHANGED vars
  BY <1>5, <1>11 DEF vars
<1> QED
  BY <1>5, <1>6, <1>7, <1>8, <1>9, <1>10, <1>11 DEF Next, Lww!Next

(* Each replica implements the last-writer-wins store the rest of the      *)
(* system is promised.                                                     *)
THEOREM Implements == Spec => ImplementsLwwStore
<1>1. Init => \A r \in Replicas : Lww(r)!Init
  BY LwwInit
<1>2. TypeOK /\ TypeOK' /\ StoreHoldsNewest /\ [Next]_vars
        => [\A r \in Replicas : [Lww(r)!Next]_<<received[r], Served(r)>>]_vars
  BY LwwStep
<1> QED
  BY <1>1, <1>2, TypeCorrect, NewestCorrect, PTL DEF Spec, ImplementsLwwStore

(* Every replica holds the newest of what it received.                      *)
THEOREM NewestEverywhereCorrect == Spec => []NewestEverywhere
<1> QED
  BY TypeCorrect, NewestCorrect, ConvergenceCorrect, PTL DEF NewestEverywhere
==================================================================================
