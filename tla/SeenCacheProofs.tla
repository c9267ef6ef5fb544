---------------------------- MODULE SeenCacheProofs ----------------------------
(***************************************************************************)
(* SeenCache's invariants, proved for every set of ids and actors, every   *)
(* size of the caches and every bound on the history.                      *)
(***************************************************************************)
EXTENDS SeenCache, TLAPS

-----------------------------------------------------------------------------
(* What the operators of BoundedCollections return, for every queue and    *)
(* every size; the proofs below cite these lemmas and never open the       *)
(* definitions themselves.                                                 *)

(* Making room: a full queue loses exactly its last entry, the rest keeps  *)
(* its place (VecDeque::pop_back in BoundedHashSet and BoundedHashMap).    *)
LEMMA MakeRoom ==
  ASSUME NEW S, NEW q \in Seq(S), NEW max \in Nat \ {0}, Len(q) <= max
  PROVE  /\ Kept(q, max) \in Seq(S)
         /\ Len(Kept(q, max)) = IF Len(q) = max THEN max - 1 ELSE Len(q)
         /\ \A i \in 1..Len(Kept(q, max)) : Kept(q, max)[i] = q[i]
         /\ Evicted(q, max) = IF Len(q) = max THEN {q[max]} ELSE {}
<1>1. CASE Len(q) = max
  <2>1. Kept(q, max) = SubSeq(q, 1, max - 1)
    BY <1>1 DEF Kept
  <2>2. Evicted(q, max) = {q[max]}
    BY <1>1 DEF Evicted
  <2> QED BY <1>1, <2>1, <2>2
<1>2. CASE Len(q) < max
  BY <1>2 DEF Kept, Evicted
<1> QED BY <1>1, <1>2

(* Making room and then VecDeque::push_front: the new entry comes first,   *)
(* what is left moves back by one.                                         *)
LEMMA PushAfterRoom ==
  ASSUME NEW S, NEW q \in Seq(S), NEW s \in S, NEW max \in Nat \ {0}, Len(q) <= max,
         NEW p, p = PushFront(s, Kept(q, max))
  PROVE  /\ p \in Seq(S)
         /\ Len(p) = IF Len(q) = max THEN max ELSE Len(q) + 1
         /\ p[1] = s
         /\ \A i \in 2..Len(p) : p[i] = q[i - 1]
<1>1. CASE Len(q) = max
  <2>1. p = <<s>> \o SubSeq(q, 1, max - 1)
    BY <1>1 DEF Kept, PushFront
  <2> QED BY <1>1, <2>1
<1>2. CASE Len(q) < max
  <2>1. p = <<s>> \o q
    BY <1>2 DEF Kept, PushFront
  <2> QED BY <1>2, <2>1
<1> QED BY <1>1, <1>2

(* The ids in a queue after push_front: the old ones and the new one.      *)
LEMMA IdsAfterPush ==
  ASSUME NEW q, NEW p, NEW s, NEW k \in Nat \ {0},
         p[1] = s, \A i \in 2..k : p[i] = q[i - 1]
  PROVE  {p[i] : i \in 1..k} = {q[i] : i \in 1..(k - 1)} \cup {s}
<1>1. \A i \in 1..(k - 1) : i + 1 \in 1..k /\ p[i + 1] = q[i]
  <2> TAKE i \in 1..(k - 1)
  <2>1. i + 1 \in 2..k /\ (i + 1) - 1 = i
    OBVIOUS
  <2> QED BY <2>1
<1>2. \A i \in 1..k : i = 1 \/ (i - 1 \in 1..(k - 1) /\ p[i] = q[i - 1])
  OBVIOUS
<1>3. 1 \in 1..k
  OBVIOUS
<1>4. ASSUME NEW x \in {p[i] : i \in 1..k}
      PROVE  x \in {q[i] : i \in 1..(k - 1)} \cup {s}
  <2>1. PICK i \in 1..k : x = p[i]
    OBVIOUS
  <2> QED BY <1>2, <2>1
<1>5. ASSUME NEW x \in {q[i] : i \in 1..(k - 1)} \cup {s}
      PROVE  x \in {p[i] : i \in 1..k}
  <2>1. CASE x = s
    BY <1>3, <2>1
  <2>2. ASSUME NEW i \in 1..(k - 1), x = q[i]
        PROVE  x \in {p[j] : j \in 1..k}
    <3>1. i + 1 \in 1..k /\ p[i + 1] = x
      BY <1>1, <2>2
    <3> QED BY <3>1
  <2> QED BY <1>5, <2>1, <2>2
<1> QED BY <1>4, <1>5

(* The ids in a queue without repetitions after pop_back: all but the last. *)
LEMMA IdsAfterPop ==
  ASSUME NEW q, NEW k \in Nat \ {0},
         \A i, j \in 1..k : q[i] = q[j] => i = j
  PROVE  {q[i] : i \in 1..k} \ {q[k]} = {q[i] : i \in 1..(k - 1)}
<1>1. \A i \in 1..k : i = k \/ i \in 1..(k - 1)
  OBVIOUS
<1>2. \A i \in 1..(k - 1) : i \in 1..k /\ q[i] # q[k]
  OBVIOUS
<1> QED BY <1>1, <1>2, Zenon

-----------------------------------------------------------------------------

(* The queue of seen ids lists each id once: a consequence of the window   *)
(* and of deduplication, and the reason why removing the oldest entry of   *)
(* the queue from the set keeps the two in step.                           *)
LEMMA QueueHasNoDuplicates ==
  ASSUME TypeOK, SeenIsTheRecentWindow, NoEarlyRepeat
  PROVE  \A i, j \in 1..Len(seen_messages.queue) :
            seen_messages.queue[i] = seen_messages.queue[j] => i = j
<1> DEFINE q == seen_messages.queue
           n == Len(accepted)
<1>1. n \in Nat /\ q \in Seq(Ids) /\ SeenMsgsMaxSize \in Nat \ {0}
  BY SizeAssumption DEF TypeOK
<1>2. /\ Len(q) = IF n < SeenMsgsMaxSize THEN n ELSE SeenMsgsMaxSize
      /\ \A i \in 1..Len(q) : q[i] = accepted[n + 1 - i].id
  BY DEF SeenIsTheRecentWindow
<1>3. ASSUME NEW i \in 1..Len(q), NEW j \in 1..Len(q), i < j, q[i] = q[j]
      PROVE  FALSE
  <2>1. /\ n + 1 - i \in 1..n
        /\ n + 1 - j \in 1..n
        /\ n + 1 - j < n + 1 - i
        /\ (n + 1 - i) - (n + 1 - j) < SeenMsgsMaxSize
    BY <1>1, <1>2, <1>3
  <2>2. accepted[n + 1 - j].id = accepted[n + 1 - i].id
    BY <1>2, <1>3
  <2> QED BY <2>1, <2>2, <1>1 DEF NoEarlyRepeat
<1> QED BY <1>1, <1>3

(* is_message_seen, answering false, extends the history by one message    *)
(* that is not within the last SeenMsgsMaxSize, and moves the window on.   *)
LEMMA AcceptMovesWindow ==
  ASSUME TypeOK, SeenIsTheRecentWindow, NoEarlyRepeat,
         NEW id \in Ids, NEW from \in Addrs \cup {None}, Accept(id, from)
  PROVE  /\ seen_messages' \in [set : SUBSET Ids, queue : Seq(Ids)]
         /\ accepted' \in Seq(Acceptance)
         /\ SeenIsTheRecentWindow'
         /\ NoEarlyRepeat'
<1> DEFINE q == seen_messages.queue
           n == Len(accepted)
           max == SeenMsgsMaxSize
<1>1. /\ n \in Nat
      /\ q \in Seq(Ids)
      /\ max \in Nat \ {0}
      /\ accepted \in Seq(Acceptance)
      /\ seen_messages.set \in SUBSET Ids
  BY SizeAssumption DEF TypeOK
<1>2. /\ Len(q) = IF n < max THEN n ELSE max
      /\ \A i \in 1..Len(q) : q[i] = accepted[n + 1 - i].id
      /\ seen_messages.set = {q[i] : i \in 1..Len(q)}
  BY DEF SeenIsTheRecentWindow
<1>3. /\ id \notin seen_messages.set
      /\ seen_messages' = SetInsert(seen_messages, id, max)
      /\ accepted' = Append(accepted, [id |-> id, from |-> from])
  BY DEF Accept
<1>4. /\ accepted' \in Seq(Acceptance)
      /\ Len(accepted') = n + 1
      /\ accepted'[n + 1] = [id |-> id, from |-> from]
      /\ \A i \in 1..n : accepted'[i] = accepted[i]
  <2>1. [id |-> id, from |-> from] \in Acceptance
    BY DEF Acceptance
  <2> QED BY <1>1, <1>3, <2>1
<1>5. Len(q) <= max
  BY <1>1, <1>2
<1> DEFINE q2 == seen_messages'.queue
<1>6. /\ q2 = PushFront(id, Kept(q, max))
      /\ seen_messages'.set = (seen_messages.set \ Evicted(q, max)) \cup {id}
      /\ seen_messages' = [set |-> seen_messages'.set, queue |-> q2]
  BY <1>3 DEF SetInsert
<1> HIDE DEF q, q2, n, max
<1>7. q2 \in Seq(Ids) /\ q2[1] = id
  BY <1>1, <1>5, <1>6, PushAfterRoom
<1>8. Len(q2) = IF Len(q) = max THEN max ELSE Len(q) + 1
  BY <1>1, <1>5, <1>6, PushAfterRoom
<1>9. \A i \in 2..Len(q2) : q2[i] = q[i - 1]
  BY <1>1, <1>5, <1>6, PushAfterRoom
<1>10. Evicted(q, max) = IF Len(q) = max THEN {q[max]} ELSE {}
  BY <1>1, <1>5, MakeRoom
<1>11. seen_messages' \in [set : SUBSET Ids, queue : Seq(Ids)]
  <2>1. seen_messages'.set \in SUBSET Ids
    BY <1>1, <1>6
  <2> QED BY <1>6, <1>7, <2>1
<1>12. SeenIsTheRecentWindow'
  <2>1. Len(q2) = IF n + 1 < max THEN n + 1 ELSE max
    BY <1>1, <1>2, <1>8
  <2>2. ASSUME NEW i \in 1..Len(q2)
        PROVE  q2[i] = accepted'[(n + 1) + 1 - i].id
    <3>1. CASE i = 1
      BY <1>1, <1>4, <1>7, <3>1
    <3>2. CASE i \in 2..Len(q2)
      <4>1. /\ i - 1 \in 1..Len(q)
            /\ n + 1 - (i - 1) \in 1..n
            /\ n + 1 - (i - 1) = (n + 1) + 1 - i
        BY <1>1, <1>2, <2>1, <3>2
      <4>2. q2[i] = accepted[n + 1 - (i - 1)].id
        BY <1>2, <1>9, <3>2, <4>1
      <4> QED BY <1>4, <4>1, <4>2
    <3> QED BY <1>1, <2>1, <3>1, <3>2
  <2>3. seen_messages'.set = {q2[i] : i \in 1..Len(q2)}
    <3>1. \A i, j \in 1..Len(q) : q[i] = q[j] => i = j
      BY QueueHasNoDuplicates DEF q
    <3>2. seen_messages.set \ Evicted(q, max) = {q[i] : i \in 1..(Len(q2) - 1)}
      <4>1. CASE Len(q) = max
        <5>1. {q[i] : i \in 1..max} \ {q[max]} = {q[i] : i \in 1..(max - 1)}
          BY <1>1, <3>1, <4>1, IdsAfterPop
        <5> QED BY <1>2, <1>8, <1>10, <4>1, <5>1
      <4>2. CASE Len(q) # max
        <5>1. Len(q2) - 1 = Len(q)
          BY <1>1, <1>8, <4>2
        <5> QED BY <1>2, <1>10, <4>2, <5>1
      <4> QED BY <4>1, <4>2
    <3>3. {q2[i] : i \in 1..Len(q2)} = {q[i] : i \in 1..(Len(q2) - 1)} \cup {id}
      <4>1. Len(q2) \in Nat \ {0}
        BY <1>1, <2>1
      <4> QED BY <1>7, <1>9, <4>1, IdsAfterPush
    <3> QED BY <1>6, <3>2, <3>3
  <2>4. Len(accepted') = n + 1
    BY <1>4
  <2> QED BY <2>1, <2>2, <2>3, <2>4 DEF SeenIsTheRecentWindow, q2, max
<1>13. NoEarlyRepeat'
  <2> SUFFICES ASSUME NEW i \in 1..Len(accepted'), NEW j \in 1..Len(accepted'),
                      i < j, accepted'[i].id = accepted'[j].id
               PROVE  j - i > max
    BY DEF NoEarlyRepeat, max
  <2>1. CASE j \in 1..n
    BY <1>1, <1>4, <2>1 DEF NoEarlyRepeat, n, max
  <2>2. CASE j = n + 1
    <3>1. i \in 1..n /\ accepted[i].id = id
      BY <1>1, <1>4, <2>2
    <3>2. ASSUME n + 1 - i <= max
          PROVE  FALSE
      <4>1. n + 1 - i \in 1..Len(q) /\ n + 1 - (n + 1 - i) = i
        BY <1>1, <1>2, <3>1, <3>2
      <4>2. q[n + 1 - i] = id
        BY <1>2, <3>1, <4>1
      <4> QED BY <1>2, <1>3, <4>1, <4>2
    <3> QED BY <1>1, <2>2, <3>1, <3>2
  <2> QED BY <1>1, <1>4, <2>1, <2>2
<1> QED BY <1>4, <1>11, <1>12, <1>13

(* Recording a get (seen_get_messages.insert) keeps map and queue in step, *)
(* although the oldest entry goes before the key is looked up: a key that  *)
(* is evicted by its own insertion simply comes back at the front.         *)
LEMMA RecordRoute ==
  ASSUME RoutesTypeOK, RoutesConsistent,
         NEW id \in GetIds, NEW value \in SeenGetMessage,
         seen_get_messages' = MapInsert(seen_get_messages, id, value, SeenMsgsMaxSize)
  PROVE  /\ RoutesTypeOK'
         /\ RoutesConsistent'
         /\ id \in DOMAIN seen_get_messages'.map
         /\ seen_get_messages'.map[id] = value
         /\ \A g \in DOMAIN seen_get_messages'.map \ {id} :
               /\ g \in DOMAIN seen_get_messages.map
               /\ seen_get_messages'.map[g] = seen_get_messages.map[g]
<1> DEFINE q == seen_get_messages.queue
           m == seen_get_messages.map
           q2 == seen_get_messages'.queue
           m2 == seen_get_messages'.map
           max == SeenMsgsMaxSize
           left == DOMAIN m \ Evicted(q, max)
<1>1. /\ max \in Nat \ {0}
      /\ q \in Seq(GetIds)
      /\ Len(q) <= max
      /\ DOMAIN m \subseteq GetIds
      /\ \A g \in DOMAIN m : m[g] \in SeenGetMessage
  BY SizeAssumption DEF RoutesTypeOK, RoutesConsistent
<1>2. /\ DOMAIN m = {q[i] : i \in 1..Len(q)}
      /\ \A i, j \in 1..Len(q) : q[i] = q[j] => i = j
  BY DEF RoutesConsistent
<1>3. /\ seen_get_messages' = [map |-> m2, queue |-> q2]
      /\ DOMAIN m2 = left \cup {id}
      /\ m2[id] = value
      /\ \A k \in left \ {id} : m2[k] = m[k]
      /\ id \in left => q2 = Kept(q, max)
      /\ id \notin left => q2 = PushFront(id, Kept(q, max))
  <2>1. /\ seen_get_messages' = [map |-> m2, queue |-> q2]
        /\ m2 = [k \in left \cup {id} |-> IF k = id THEN value ELSE m[k]]
        /\ q2 = IF id \in left THEN Kept(q, max) ELSE PushFront(id, Kept(q, max))
    BY DEF MapInsert
  <2> QED BY <2>1, Zenon
<1> HIDE DEF q, m, q2, m2, max
<1>4. Evicted(q, max) = IF Len(q) = max THEN {q[max]} ELSE {}
  BY <1>1, MakeRoom
<1> DEFINE rest == IF Len(q) = max THEN max - 1 ELSE Len(q)
<1>5. /\ rest \in Nat
      /\ rest <= Len(q)
      /\ rest < max
  BY <1>1
<1>6. left = {q[i] : i \in 1..rest}
  <2>1. CASE Len(q) = max
    <3>1. {q[i] : i \in 1..max} \ {q[max]} = {q[i] : i \in 1..(max - 1)}
      BY <1>1, <1>2, <2>1, IdsAfterPop
    <3> QED BY <1>2, <1>4, <2>1, <3>1
  <2>2. CASE Len(q) # max
    BY <1>2, <1>4, <2>2
  <2> QED BY <2>1, <2>2
<1> HIDE DEF left
<1>7. /\ DOMAIN m2 = {q2[i] : i \in 1..Len(q2)}
      /\ \A i, j \in 1..Len(q2) : q2[i] = q2[j] => i = j
      /\ Len(q2) <= max
      /\ q2 \in Seq(GetIds)
  <2>1. CASE id \in left
    <3>1. q2 = Kept(q, max)
      BY <1>3, <2>1
    <3>2. q2 \in Seq(GetIds) /\ Len(q2) = rest
      BY <1>1, <3>1, MakeRoom
    <3>3. \A i \in 1..Len(q2) : q2[i] = q[i]
      BY <1>1, <3>1, MakeRoom
    <3> HIDE DEF rest
    <3>4. \A i, j \in 1..Len(q2) : q2[i] = q2[j] => i = j
      BY <1>1, <1>2, <1>5, <3>2, <3>3
    <3>5. {q2[i] : i \in 1..Len(q2)} = left
      BY <1>6, <3>2, <3>3
    <3>6. DOMAIN m2 = left
      BY <1>3, <2>1
    <3>7. Len(q2) <= max
      BY <1>1, <1>5, <3>2
    <3> QED BY <3>2, <3>4, <3>5, <3>6, <3>7
  <2>2. CASE id \notin left
    <3>1. q2 = PushFront(id, Kept(q, max))
      BY <1>3, <2>2
    <3>2. q2 \in Seq(GetIds) /\ q2[1] = id
      BY <1>1, <3>1, PushAfterRoom
    <3>3. Len(q2) = rest + 1
      BY <1>1, <3>1, PushAfterRoom
    <3>4. \A i \in 2..Len(q2) : q2[i] = q[i - 1]
      BY <1>1, <3>1, PushAfterRoom
    <3> HIDE DEF rest
    <3>5. {q2[i] : i \in 1..Len(q2)} = {q[i] : i \in 1..(Len(q2) - 1)} \cup {id}
      <4>1. Len(q2) \in Nat \ {0}
        BY <1>5, <3>3
      <4> QED BY <3>2, <3>4, <4>1, IdsAfterPush
    <3>6. {q2[i] : i \in 1..Len(q2)} = left \cup {id}
      <4>1. Len(q2) - 1 = rest
        BY <1>5, <3>3
      <4> QED BY <1>6, <3>5, <4>1
    <3>7. ASSUME NEW i \in 2..Len(q2)
          PROVE  i - 1 \in 1..rest /\ q2[i] = q[i - 1] /\ q2[i] # id
      <4>1. i - 1 \in 1..rest /\ q2[i] = q[i - 1]
        BY <1>5, <3>3, <3>4
      <4> QED BY <1>6, <2>2, <4>1
    <3>8. ASSUME NEW i \in 1..Len(q2), NEW j \in 1..Len(q2), q2[i] = q2[j]
          PROVE  i = j
      <4>1. CASE i = 1 \/ j = 1
        BY <3>2, <3>7, <3>8, <4>1
      <4>2. CASE i # 1 /\ j # 1
        <5>1. /\ i \in 2..Len(q2) /\ j \in 2..Len(q2)
          BY <4>2
        <5>2. q[i - 1] = q[j - 1] /\ i - 1 \in 1..rest /\ j - 1 \in 1..rest
          BY <3>7, <3>8, <5>1
        <5>3. i - 1 = j - 1
          BY <1>1, <1>2, <1>5, <5>2
        <5> QED BY <5>1, <5>3
      <4> QED BY <4>1, <4>2
    <3> QED BY <1>3, <1>5, <1>1, <3>2, <3>3, <3>6, <3>8
  <2> QED BY <2>1, <2>2
<1>8. RoutesConsistent'
  BY <1>7 DEF RoutesConsistent, q2, m2, max
<1>9. left \subseteq DOMAIN m
  BY DEF left
<1>10. \A g \in DOMAIN m2 : m2[g] \in SeenGetMessage
  BY <1>1, <1>3, <1>9
<1>11. RoutesTypeOK'
  BY <1>1, <1>3, <1>7, <1>9, <1>10 DEF RoutesTypeOK, q2, m2
<1> QED BY <1>3, <1>8, <1>9, <1>11 DEF m, m2

(* The inductive invariant: none of these conjuncts is inductive alone.    *)
CacheInv ==
  /\ TypeOK
  /\ SeenIsTheRecentWindow
  /\ NoEarlyRepeat
  /\ RoutesConsistent
  /\ RouteIsLatestRequester

LEMMA InitCacheInv == Init => CacheInv
<1> SUFFICES ASSUME Init PROVE CacheInv
  OBVIOUS
<1> USE SizeAssumption DEF Init, EmptyBoundedSet, EmptyBoundedMap
<1>1. TypeOK
  BY DEF TypeOK, RoutesTypeOK
<1>2. SeenIsTheRecentWindow
  BY DEF SeenIsTheRecentWindow
<1>3. NoEarlyRepeat /\ RouteIsLatestRequester
  BY DEF NoEarlyRepeat, RouteIsLatestRequester
<1>4. RoutesConsistent
  BY DEF RoutesConsistent
<1> QED BY <1>1, <1>2, <1>3, <1>4 DEF CacheInv

(* Accepting a message adds one acceptance to the history.                 *)
LEMMA AcceptExtendsHistory ==
  ASSUME TypeOK, NEW id \in Ids, NEW from \in Addrs \cup {None}, Accept(id, from)
  PROVE  /\ Len(accepted) \in Nat
         /\ Len(accepted') = Len(accepted) + 1
         /\ accepted'[Len(accepted) + 1] = [id |-> id, from |-> from]
         /\ \A i \in 1..Len(accepted) : accepted'[i] = accepted[i]
<1>1. accepted' = Append(accepted, [id |-> id, from |-> from])
  BY DEF Accept
<1>2. [id |-> id, from |-> from] \in Acceptance
  BY DEF Acceptance
<1> QED BY <1>1, <1>2 DEF TypeOK

LEMMA AcceptGetKeepsCacheInv ==
  ASSUME CacheInv, NEW id \in GetIds, NEW from \in Addrs, NEW checksum \in MaybeChecksum,
         AcceptGet(id, from, checksum)
  PROVE  CacheInv'
<1> DEFINE value == [from |-> from, last_reply_checksum |-> checksum]
<1>1. Accept(id, from) /\ id \in Ids /\ from \in Addrs \cup {None}
  BY DEF AcceptGet, Ids
<1>2. /\ TypeOK /\ RoutesTypeOK /\ SeenIsTheRecentWindow /\ NoEarlyRepeat
      /\ RoutesConsistent /\ RouteIsLatestRequester
  BY DEF CacheInv, TypeOK
<1>3. /\ seen_messages' \in [set : SUBSET Ids, queue : Seq(Ids)]
      /\ accepted' \in Seq(Acceptance)
      /\ SeenIsTheRecentWindow'
      /\ NoEarlyRepeat'
  BY <1>1, <1>2, AcceptMovesWindow
<1>4. /\ value \in SeenGetMessage
      /\ seen_get_messages' = MapInsert(seen_get_messages, id, value, SeenMsgsMaxSize)
  BY DEF AcceptGet, SeenGetMessage
<1>5. /\ RoutesTypeOK'
      /\ RoutesConsistent'
      /\ seen_get_messages'.map[id] = value
      /\ \A g \in DOMAIN seen_get_messages'.map \ {id} :
            /\ g \in DOMAIN seen_get_messages.map
            /\ seen_get_messages'.map[g] = seen_get_messages.map[g]
  BY <1>2, <1>4, RecordRoute
<1>6. RouteIsLatestRequester'
  <2> DEFINE n == Len(accepted)
  <2>1. /\ n \in Nat
        /\ Len(accepted') = n + 1
        /\ accepted'[n + 1] = [id |-> id, from |-> from]
        /\ \A i \in 1..n : accepted'[i] = accepted[i]
    BY <1>1, <1>2, AcceptExtendsHistory
  <2> SUFFICES ASSUME NEW i \in 1..(n + 1),
                      LatestAcceptance(i)',
                      accepted'[i].id \in DOMAIN seen_get_messages'.map
               PROVE  seen_get_messages'.map[accepted'[i].id].from = accepted'[i].from
    BY <2>1 DEF RouteIsLatestRequester
  <2>2. CASE i = n + 1
    BY <1>5, <2>1, <2>2
  <2>3. CASE i \in 1..n
    <3>1. accepted[i].id # id
      <4>1. n + 1 \in 1..Len(accepted') /\ ~(n + 1 <= i)
        BY <2>1, <2>3
      <4>2. accepted'[n + 1].id = id
        BY <2>1
      <4> QED BY <2>1, <2>3, <4>1, <4>2 DEF LatestAcceptance
    <3>2. LatestAcceptance(i)
      <4> HIDE DEF n
      <4> SUFFICES ASSUME NEW j \in 1..n, accepted[j].id = accepted[i].id
                   PROVE  j <= i
        BY DEF LatestAcceptance, n
      <4>1. j \in 1..Len(accepted') /\ accepted'[j].id = accepted'[i].id
        BY <2>1, <2>3
      <4> QED BY <4>1 DEF LatestAcceptance
    <3>3. /\ accepted[i].id \in DOMAIN seen_get_messages.map
          /\ seen_get_messages'.map[accepted[i].id] = seen_get_messages.map[accepted[i].id]
      BY <1>5, <2>1, <2>3, <3>1
    <3> QED BY <1>2, <2>1, <2>3, <3>2, <3>3 DEF RouteIsLatestRequester
  <2> QED BY <2>1, <2>2, <2>3
<1> QED BY <1>3, <1>5, <1>6 DEF CacheInv, TypeOK

(* A put moves the window on; whatever it does to the checksums, the       *)
(* routes keep their owners.                                               *)
LEMMA AcceptPutKeepsCacheInv ==
  ASSUME CacheInv, NEW id \in PutIds, Accept(id, None),
         RoutesTypeOK', RoutesConsistent',
         DOMAIN seen_get_messages'.map = DOMAIN seen_get_messages.map,
         \A g \in DOMAIN seen_get_messages.map :
            seen_get_messages'.map[g].from = seen_get_messages.map[g].from
  PROVE  CacheInv'
<1>1. id \in Ids /\ None \in Addrs \cup {None}
  BY DEF Ids
<1>2. /\ TypeOK /\ RoutesTypeOK /\ SeenIsTheRecentWindow /\ NoEarlyRepeat
      /\ RouteIsLatestRequester
  BY DEF CacheInv, TypeOK
<1>3. /\ seen_messages' \in [set : SUBSET Ids, queue : Seq(Ids)]
      /\ accepted' \in Seq(Acceptance)
      /\ SeenIsTheRecentWindow'
      /\ NoEarlyRepeat'
  BY <1>1, <1>2, AcceptMovesWindow
<1>4. RouteIsLatestRequester'
  <2> DEFINE n == Len(accepted)
  <2>1. /\ n \in Nat
        /\ Len(accepted') = n + 1
        /\ accepted'[n + 1] = [id |-> id, from |-> None]
        /\ \A i \in 1..n : accepted'[i] = accepted[i]
    BY <1>1, <1>2, AcceptExtendsHistory
  <2> SUFFICES ASSUME NEW i \in 1..(n + 1),
                      LatestAcceptance(i)',
                      accepted'[i].id \in DOMAIN seen_get_messages'.map
               PROVE  seen_get_messages'.map[accepted'[i].id].from = accepted'[i].from
    BY <2>1 DEF RouteIsLatestRequester
  <2>2. i \in 1..n
    BY <1>2, <2>1, IdsAssumption DEF RoutesTypeOK
  <2>3. LatestAcceptance(i)
    <3> HIDE DEF n
    <3> SUFFICES ASSUME NEW j \in 1..n, accepted[j].id = accepted[i].id
                 PROVE  j <= i
      BY DEF LatestAcceptance, n
    <3>1. j \in 1..Len(accepted') /\ accepted'[j].id = accepted'[i].id
      BY <2>1, <2>2
    <3> QED BY <3>1 DEF LatestAcceptance
  <2> QED BY <1>2, <2>1, <2>2, <2>3 DEF RouteIsLatestRequester
<1> QED BY <1>3, <1>4 DEF CacheInv, TypeOK

LEMMA AcceptReplyKeepsCacheInv ==
  ASSUME CacheInv, NEW id \in PutIds, NEW get \in GetIds, NEW checksum \in MaybeChecksum,
         AcceptReply(id, get, checksum)
  PROVE  CacheInv'
<1> DEFINE m == seen_get_messages.map
           value == [m[get] EXCEPT !.last_reply_checksum = checksum]
<1>1. RoutesTypeOK /\ RoutesConsistent
  BY DEF CacheInv, TypeOK
<1>2. /\ get \in DOMAIN m
      /\ Accept(id, None)
      /\ seen_get_messages' = [seen_get_messages EXCEPT !.map[get] = value]
  BY DEF AcceptReply, MapUpdate
<1>3. /\ m[get] \in SeenGetMessage
      /\ seen_get_messages = [map |-> m, queue |-> seen_get_messages.queue]
  BY <1>1, <1>2 DEF RoutesTypeOK
<1>4. value \in SeenGetMessage /\ value.from = m[get].from
  BY <1>3 DEF SeenGetMessage
<1> HIDE DEF value
<1>5. /\ seen_get_messages' = [map |-> [m EXCEPT ![get] = value],
                               queue |-> seen_get_messages.queue]
  BY <1>2, <1>3
<1>6. /\ DOMAIN seen_get_messages'.map = DOMAIN m
      /\ seen_get_messages'.map[get] = value
      /\ \A g \in DOMAIN m \ {get} : seen_get_messages'.map[g] = m[g]
      /\ seen_get_messages'.queue = seen_get_messages.queue
  BY <1>2, <1>5
<1>7. RoutesTypeOK'
  BY <1>1, <1>4, <1>5, <1>6 DEF RoutesTypeOK
<1>8. RoutesConsistent'
  BY <1>1, <1>6 DEF RoutesConsistent
<1>9. \A g \in DOMAIN m : seen_get_messages'.map[g].from = m[g].from
  BY <1>4, <1>6
<1> QED BY <1>2, <1>6, <1>7, <1>8, <1>9, AcceptPutKeepsCacheInv

LEMMA NextKeepsCacheInv == CacheInv /\ [Next]_vars => CacheInv'
<1> SUFFICES ASSUME CacheInv, [Next]_vars PROVE CacheInv'
  OBVIOUS
<1>1. ASSUME NEW id \in GetIds, NEW from \in Addrs, NEW checksum \in MaybeChecksum,
             AcceptGet(id, from, checksum)
      PROVE  CacheInv'
  BY <1>1, AcceptGetKeepsCacheInv
<1>2. ASSUME NEW id \in PutIds, AcceptPut(id)
      PROVE  CacheInv'
  <2>1. RoutesTypeOK /\ RoutesConsistent
    BY DEF CacheInv, TypeOK
  <2>2. Accept(id, None) /\ UNCHANGED seen_get_messages
    BY <1>2 DEF AcceptPut
  <2>3. RoutesTypeOK' /\ RoutesConsistent'
    BY <2>1, <2>2 DEF RoutesTypeOK, RoutesConsistent
  <2> QED BY <2>2, <2>3, AcceptPutKeepsCacheInv
<1>3. ASSUME NEW id \in PutIds, NEW get \in GetIds, NEW checksum \in MaybeChecksum,
             AcceptReply(id, get, checksum)
      PROVE  CacheInv'
  BY <1>3, AcceptReplyKeepsCacheInv
<1>4. CASE UNCHANGED vars
  <2>1. /\ seen_messages' = seen_messages
        /\ seen_get_messages' = seen_get_messages
        /\ accepted' = accepted
    BY <1>4 DEF vars
  <2>2. TypeOK'
    BY <2>1 DEF CacheInv, TypeOK, RoutesTypeOK
  <2>3. SeenIsTheRecentWindow' /\ NoEarlyRepeat'
    BY <2>1 DEF CacheInv, SeenIsTheRecentWindow, NoEarlyRepeat
  <2>4. RoutesConsistent'
    BY <2>1 DEF CacheInv, RoutesConsistent
  <2>5. RouteIsLatestRequester'
    BY <2>1 DEF CacheInv, RouteIsLatestRequester, LatestAcceptance
  <2> QED BY <2>2, <2>3, <2>4, <2>5 DEF CacheInv
<1>5. ASSUME NEW id \in Ids, RefuseDuplicate(id)
      PROVE  CacheInv'
  BY <1>4, <1>5 DEF RefuseDuplicate
<1> QED BY <1>1, <1>2, <1>3, <1>4, <1>5 DEF Next

LEMMA CacheInvHolds == Spec => []CacheInv
BY InitCacheInv, NextKeepsCacheInv, PTL DEF Spec

(* The caches and the history always have their types (Router's fields     *)
(* seen_messages and seen_get_messages).                                   *)
THEOREM TypeCorrect == Spec => []TypeOK
<1>1. CacheInv => TypeOK
  BY DEF CacheInv
<1> QED BY CacheInvHolds, <1>1, PTL

(* BoundedHashSet holds exactly the last SeenMsgsMaxSize accepted ids.     *)
THEOREM WindowCorrect == Spec => []SeenIsTheRecentWindow
<1>1. CacheInv => SeenIsTheRecentWindow
  BY DEF CacheInv
<1> QED BY CacheInvHolds, <1>1, PTL

(* is_message_seen deduplicates: an id passes again only after             *)
(* SeenMsgsMaxSize other messages.                                         *)
THEOREM DeduplicationCorrect == Spec => []NoEarlyRepeat
<1>1. CacheInv => NoEarlyRepeat
  BY DEF CacheInv
<1> QED BY CacheInvHolds, <1>1, PTL

(* BoundedHashMap's map and queue never drift apart nor outgrow the size.  *)
THEOREM RoutesCorrect == Spec => []RoutesConsistent
<1>1. CacheInv => RoutesConsistent
  BY DEF CacheInv
<1> QED BY CacheInvHolds, <1>1, PTL

(* A route always names the actor whose get was accepted last.             *)
THEOREM RouteOwnerCorrect == Spec => []RouteIsLatestRequester
<1>1. CacheInv => RouteIsLatestRequester
  BY DEF CacheInv
<1> QED BY CacheInvHolds, <1>1, PTL

-----------------------------------------------------------------------------------
(* For FreshGetsHaveRoutes the map's queue must be related to the history: *)
(* every key was accepted; and while no get comes twice, the k-th entry of *)
(* the queue is at least k places back in the history, and a get that has  *)
(* lost its route is SeenMsgsMaxSize or more places back.                  *)
RoutesWereAccepted ==
  \A k \in 1..Len(seen_get_messages.queue) :
     \E i \in 1..Len(accepted) : accepted[i].id = seen_get_messages.queue[k]

RoutesInOrder ==
  \A k \in 1..Len(seen_get_messages.queue), i \in 1..Len(accepted) :
     accepted[i].id = seen_get_messages.queue[k] => i + k <= Len(accepted) + 1

LostRoutesAreOld ==
  \A i \in 1..Len(accepted) :
     accepted[i].id \in GetIds \ DOMAIN seen_get_messages.map
       => i + SeenMsgsMaxSize <= Len(accepted)

RouteAgeInv ==
  /\ RoutesWereAccepted
  /\ NoGetAcceptedTwice => RoutesInOrder /\ LostRoutesAreOld

LEMMA AgeGivesRoutes ==
  ASSUME CacheInv, RouteAgeInv
  PROVE  FreshGetsHaveRoutes
<1> SUFFICES ASSUME NoGetAcceptedTwice,
                    NEW g \in seen_messages.set \cap GetIds,
                    g \notin DOMAIN seen_get_messages.map
             PROVE  FALSE
  BY DEF FreshGetsHaveRoutes, SeenGetsHaveRoutes
<1> DEFINE q == seen_messages.queue
           n == Len(accepted)
<1>1. /\ Len(q) = IF n < SeenMsgsMaxSize THEN n ELSE SeenMsgsMaxSize
      /\ \A i \in 1..Len(q) : q[i] = accepted[n + 1 - i].id
      /\ seen_messages.set = {q[i] : i \in 1..Len(q)}
  BY DEF CacheInv, SeenIsTheRecentWindow
<1>2. n \in Nat /\ SeenMsgsMaxSize \in Nat \ {0}
  BY SizeAssumption DEF CacheInv, TypeOK
<1>3. PICK i \in 1..Len(q) : g = q[i]
  BY <1>1
<1>4. n + 1 - i \in 1..n /\ accepted[n + 1 - i].id = g
  BY <1>1, <1>2, <1>3
<1>5. (n + 1 - i) + SeenMsgsMaxSize <= n
  BY <1>4 DEF RouteAgeInv, LostRoutesAreOld
<1> QED BY <1>1, <1>2, <1>3, <1>5

LEMMA AcceptGetKeepsRouteAge ==
  ASSUME CacheInv, RouteAgeInv,
         NEW id \in GetIds, NEW from \in Addrs, NEW checksum \in MaybeChecksum,
         AcceptGet(id, from, checksum)
  PROVE  RouteAgeInv'
<1> DEFINE q == seen_get_messages.queue
           m == seen_get_messages.map
           q2 == seen_get_messages'.queue
           m2 == seen_get_messages'.map
           n == Len(accepted)
           max == SeenMsgsMaxSize
           left == DOMAIN m \ Evicted(q, max)
<1>1. /\ max \in Nat \ {0}
      /\ q \in Seq(GetIds)
      /\ Len(q) <= max
      /\ DOMAIN m = {q[k] : k \in 1..Len(q)}
  BY SizeAssumption DEF CacheInv, TypeOK, RoutesTypeOK, RoutesConsistent
<1>2. /\ n \in Nat
      /\ Len(accepted') = n + 1
      /\ accepted'[n + 1] = [id |-> id, from |-> from]
      /\ \A i \in 1..n : accepted'[i] = accepted[i]
  <2>1. Accept(id, from) /\ id \in Ids /\ from \in Addrs \cup {None} /\ TypeOK
    BY DEF AcceptGet, Ids, CacheInv
  <2> QED BY <2>1, AcceptExtendsHistory
<1>3. /\ DOMAIN m2 = left \cup {id}
      /\ q2 = IF id \in left THEN Kept(q, max) ELSE PushFront(id, Kept(q, max))
  BY DEF AcceptGet, MapInsert
<1> HIDE DEF q, m, q2, m2, n, max
<1>4. Evicted(q, max) = IF Len(q) = max THEN {q[max]} ELSE {}
  BY <1>1, MakeRoom
<1>5. RoutesWereAccepted'
  <2> SUFFICES ASSUME NEW k \in 1..Len(q2)
               PROVE  \E i \in 1..(n + 1) : accepted'[i].id = q2[k]
    BY <1>2 DEF RoutesWereAccepted, q2
  <2>1. ASSUME NEW j \in 1..Len(q), q2[k] = q[j]
        PROVE  \E i \in 1..(n + 1) : accepted'[i].id = q2[k]
    <3>1. PICK i \in 1..n : accepted[i].id = q[j]
      BY DEF RouteAgeInv, RoutesWereAccepted, q, n
    <3>2. i \in 1..(n + 1) /\ accepted'[i].id = q2[k]
      BY <1>2, <2>1, <3>1
    <3> QED BY <3>2
  <2>2. CASE id \in left
    <3>1. q2 = Kept(q, max)
      BY <1>3, <2>2
    <3>2. Len(q2) <= Len(q) /\ Len(q2) \in Nat
      BY <1>1, <3>1, MakeRoom
    <3>3. q2[k] = q[k]
      BY <1>1, <3>1, MakeRoom
    <3>4. k \in 1..Len(q)
      BY <1>1, <3>2
    <3> QED BY <2>1, <3>3, <3>4
  <2>3. CASE id \notin left
    <3>1. q2 = PushFront(id, Kept(q, max))
      BY <1>3, <2>3
    <3>2. q2[1] = id
      BY <1>1, <3>1, PushAfterRoom
    <3>3. Len(q2) = IF Len(q) = max THEN max ELSE Len(q) + 1
      BY <1>1, <3>1, PushAfterRoom
    <3>4. \A j \in 2..Len(q2) : q2[j] = q[j - 1]
      BY <1>1, <3>1, PushAfterRoom
    <3>5. CASE k = 1
      <4>1. n + 1 \in 1..(n + 1) /\ accepted'[n + 1].id = id
        BY <1>2
      <4> QED BY <3>2, <3>5, <4>1
    <3>6. CASE k # 1
      <4>1. k \in 2..Len(q2) /\ k - 1 \in 1..Len(q)
        BY <1>1, <3>3, <3>6
      <4> QED BY <2>1, <3>4, <4>1
    <3> QED BY <3>5, <3>6
  <2> QED BY <2>2, <2>3
<1>6. ASSUME NoGetAcceptedTwice'
      PROVE  RoutesInOrder' /\ LostRoutesAreOld'
  <2>1. \A i \in 1..n : accepted[i].id # id
    BY <1>2, <1>6 DEF NoGetAcceptedTwice
  <2>2. NoGetAcceptedTwice
    BY <1>2, <1>6 DEF NoGetAcceptedTwice, n
  <2>3. RoutesInOrder /\ LostRoutesAreOld
    BY <2>2 DEF RouteAgeInv
  <2>4. \A k \in 1..Len(q) : q[k] # id
    BY <2>1 DEF RouteAgeInv, RoutesWereAccepted, q, n
  <2>5. q2 = PushFront(id, Kept(q, max))
    BY <1>1, <1>3, <2>4 DEF left
  <2>6. q2[1] = id
    BY <1>1, <2>5, PushAfterRoom
  <2>7. Len(q2) = IF Len(q) = max THEN max ELSE Len(q) + 1
    BY <1>1, <2>5, PushAfterRoom
  <2>8. \A j \in 2..Len(q2) : q2[j] = q[j - 1]
    BY <1>1, <2>5, PushAfterRoom
  <2>9. RoutesInOrder'
    <3> SUFFICES ASSUME NEW k \in 1..Len(q2), NEW i \in 1..(n + 1),
                        accepted'[i].id = q2[k]
                 PROVE  i + k <= (n + 1) + 1
      BY <1>2 DEF RoutesInOrder, q2
    <3>1. CASE k = 1
      BY <1>2, <3>1
    <3>2. CASE k # 1
      <4>1. k \in 2..Len(q2) /\ k - 1 \in 1..Len(q)
        BY <1>1, <2>7, <3>2
      <4>2. q2[k] = q[k - 1] /\ q[k - 1] # id
        BY <2>4, <2>8, <4>1
      <4>3. i \in 1..n /\ accepted[i].id = q[k - 1]
        BY <1>2, <4>2
      <4>4. i + (k - 1) <= n + 1
        BY <2>3, <4>1, <4>3 DEF RoutesInOrder, q, n
      <4> QED BY <1>2, <4>1, <4>3, <4>4
    <3> QED BY <3>1, <3>2
  <2>10. LostRoutesAreOld'
    <3> SUFFICES ASSUME NEW i \in 1..(n + 1),
                        accepted'[i].id \in GetIds \ DOMAIN m2
                 PROVE  i + max <= n + 1
      BY <1>2 DEF LostRoutesAreOld, m2, max
    <3>1. i \in 1..n /\ accepted'[i].id = accepted[i].id
      BY <1>2, <1>3
    <3>2. CASE accepted[i].id \notin DOMAIN m
      <4>1. i + max <= n
        BY <2>3, <3>1, <3>2 DEF LostRoutesAreOld, m, n, max
      <4> QED BY <1>1, <1>2, <3>1, <4>1
    <3>3. CASE accepted[i].id \in DOMAIN m
      <4>1. accepted[i].id \in Evicted(q, max)
        BY <1>3, <3>1, <3>3 DEF left
      <4>2. Len(q) = max /\ accepted[i].id = q[max] /\ max \in 1..Len(q)
        BY <1>1, <1>4, <4>1
      <4>3. i + max <= n + 1
        BY <2>3, <3>1, <4>2 DEF RoutesInOrder, q, n
      <4> QED BY <4>3
    <3> QED BY <3>2, <3>3
  <2> QED BY <2>9, <2>10
<1> QED BY <1>5, <1>6 DEF RouteAgeInv

LEMMA AcceptPutKeepsRouteAge ==
  ASSUME CacheInv, RouteAgeInv, NEW id \in PutIds, Accept(id, None),
         DOMAIN seen_get_messages'.map = DOMAIN seen_get_messages.map,
         seen_get_messages'.queue = seen_get_messages.queue
  PROVE  RouteAgeInv'
<1> DEFINE n == Len(accepted)
           max == SeenMsgsMaxSize
           q == seen_get_messages.queue
<1>1. /\ n \in Nat
      /\ Len(accepted') = n + 1
      /\ accepted'[n + 1] = [id |-> id, from |-> None]
      /\ \A i \in 1..n : accepted'[i] = accepted[i]
  <2>1. id \in Ids /\ None \in Addrs \cup {None} /\ TypeOK
    BY DEF Ids, CacheInv
  <2> QED BY <2>1, AcceptExtendsHistory
<1>2. /\ id \notin GetIds
      /\ q \in Seq(GetIds)
      /\ max \in Nat \ {0}
  BY IdsAssumption, SizeAssumption DEF CacheInv, TypeOK, RoutesTypeOK
<1> HIDE DEF n, max
<1>3. RoutesWereAccepted'
  <2> SUFFICES ASSUME NEW k \in 1..Len(q)
               PROVE  \E i \in 1..(n + 1) : accepted'[i].id = q[k]
    BY <1>1 DEF RoutesWereAccepted
  <2>1. PICK i \in 1..n : accepted[i].id = q[k]
    BY DEF RouteAgeInv, RoutesWereAccepted, n
  <2>2. i \in 1..(n + 1) /\ accepted'[i].id = q[k]
    BY <1>1, <2>1
  <2> QED BY <2>2
<1>4. ASSUME NoGetAcceptedTwice'
      PROVE  RoutesInOrder' /\ LostRoutesAreOld'
  <2>1. NoGetAcceptedTwice
    BY <1>1, <1>4 DEF NoGetAcceptedTwice, n
  <2>2. RoutesInOrder /\ LostRoutesAreOld
    BY <2>1 DEF RouteAgeInv
  <2>3. RoutesInOrder'
    <3> SUFFICES ASSUME NEW k \in 1..Len(q), NEW i \in 1..(n + 1),
                        accepted'[i].id = q[k]
                 PROVE  i + k <= (n + 1) + 1
      BY <1>1 DEF RoutesInOrder
    <3>1. q[k] \in GetIds
      BY <1>2
    <3>2. i \in 1..n /\ accepted[i].id = q[k]
      BY <1>1, <1>2, <3>1
    <3>3. i + k <= n + 1
      BY <2>2, <3>2 DEF RoutesInOrder, n
    <3>4. k \in Nat
      BY <1>2
    <3> QED BY <1>1, <3>2, <3>3, <3>4
  <2>4. LostRoutesAreOld'
    <3> SUFFICES ASSUME NEW i \in 1..(n + 1),
                        accepted'[i].id \in GetIds \ DOMAIN seen_get_messages.map
                 PROVE  i + max <= n + 1
      BY <1>1 DEF LostRoutesAreOld, max
    <3>1. i \in 1..n /\ accepted[i].id \in GetIds \ DOMAIN seen_get_messages.map
      BY <1>1, <1>2
    <3>2. i + max <= n
      BY <2>2, <3>1 DEF LostRoutesAreOld, n, max
    <3> QED BY <1>1, <1>2, <3>1, <3>2
  <2> QED BY <2>3, <2>4
<1> QED BY <1>3, <1>4 DEF RouteAgeInv

LEMMA InitRouteAge == Init => RouteAgeInv
BY DEF Init, EmptyBoundedMap, RouteAgeInv, RoutesWereAccepted, RoutesInOrder, LostRoutesAreOld

LEMMA NextKeepsRouteAge == CacheInv /\ RouteAgeInv /\ [Next]_vars => RouteAgeInv'
<1> SUFFICES ASSUME CacheInv, RouteAgeInv, [Next]_vars PROVE RouteAgeInv'
  OBVIOUS
<1>1. ASSUME NEW id \in GetIds, NEW from \in Addrs, NEW checksum \in MaybeChecksum,
             AcceptGet(id, from, checksum)
      PROVE  RouteAgeInv'
  BY <1>1, AcceptGetKeepsRouteAge
<1>2. ASSUME NEW id \in PutIds, AcceptPut(id)
      PROVE  RouteAgeInv'
  <2>1. Accept(id, None) /\ seen_get_messages' = seen_get_messages
    BY <1>2 DEF AcceptPut
  <2> QED BY <2>1, AcceptPutKeepsRouteAge
<1>3. ASSUME NEW id \in PutIds, NEW get \in GetIds, NEW checksum \in MaybeChecksum,
             AcceptReply(id, get, checksum)
      PROVE  RouteAgeInv'
  <2>1. /\ Accept(id, None)
        /\ seen_get_messages = [map |-> seen_get_messages.map, queue |-> seen_get_messages.queue]
        /\ seen_get_messages' =
              [seen_get_messages EXCEPT !.map[get] =
                 [seen_get_messages.map[get] EXCEPT !.last_reply_checksum = checksum]]
    BY <1>3 DEF AcceptReply, MapUpdate, CacheInv, TypeOK, RoutesTypeOK
  <2>2. /\ DOMAIN seen_get_messages'.map = DOMAIN seen_get_messages.map
        /\ seen_get_messages'.queue = seen_get_messages.queue
    BY <2>1
  <2> QED BY <2>1, <2>2, AcceptPutKeepsRouteAge
<1>4. CASE UNCHANGED vars
  <2>1. seen_get_messages' = seen_get_messages /\ accepted' = accepted
    BY <1>4 DEF vars
  <2> QED BY <2>1 DEF RouteAgeInv, RoutesWereAccepted, RoutesInOrder, LostRoutesAreOld,
                      NoGetAcceptedTwice
<1>5. ASSUME NEW id \in Ids, RefuseDuplicate(id)
      PROVE  RouteAgeInv'
  BY <1>4, <1>5 DEF RefuseDuplicate
<1> QED BY <1>1, <1>2, <1>3, <1>4, <1>5 DEF Next

(* As long as no get's id is accepted a second time, a get that is still   *)
(* refused as a duplicate also has a route for its replies.                *)
THEOREM FreshRoutesCorrect == Spec => []FreshGetsHaveRoutes
<1>1. Init => CacheInv /\ RouteAgeInv
  BY InitCacheInv, InitRouteAge
<1>2. (CacheInv /\ RouteAgeInv) /\ [Next]_vars => (CacheInv /\ RouteAgeInv)'
  BY NextKeepsCacheInv, NextKeepsRouteAge
<1>3. CacheInv /\ RouteAgeInv => FreshGetsHaveRoutes
  BY AgeGivesRoutes
<1> QED BY <1>1, <1>2, <1>3, PTL DEF Spec

(* The two caches are well formed windows on the messages accepted last.    *)
THEOREM CachesCorrect == Spec => []CachesAreWindows
<1> QED
  BY TypeCorrect, WindowCorrect, RoutesCorrect, PTL DEF CachesAreWindows

(* A reply can be sent to whoever asked last.                               *)
THEOREM RoutableCorrect == Spec => []RepliesAreRoutable
<1> QED
  BY RouteOwnerCorrect, FreshRoutesCorrect, PTL DEF RepliesAreRoutable
=================================================================================
