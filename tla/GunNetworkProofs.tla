--------------------------- MODULE GunNetworkProofs --------------------------
(***************************************************************************)
(* What GunNetwork promises of the parts of a browser peer that speak to   *)
(* others, proved for all values of their constants.                       *)
(***************************************************************************)
EXTENDS GunNetwork, FiniteSets, SequenceTheorems, FiniteSetTheorems,
        WellFoundedInduction, TLAPS

LEMMA LeastNatural ==
  ASSUME NEW N \in SUBSET Nat, N # {}
  PROVE  \E n \in N : \A k \in N : n <= k
<1>1. PICK n \in N : \A k \in N : <<k, n>> \notin OpToRel(<, Nat)
  BY WFMin, NatLessThanWellFounded, Zenon
<1>2. \A k \in N : ~(k < n)
  BY <1>1, Zenon DEF OpToRel
<1> QED
  BY <1>2

-----------------------------------------------------------------------------
(* The wire.                                                               *)

WireMessages == [kind : {"put", "get", "answer"}, from : WireNodes, to : WireNodes,
                 id : WireNodes \cup {0}, value : Nat, yo : SUBSET WireNodes]

WireType ==
  /\ wire_data \in [WireNodes -> Nat]
  /\ put_via \in [WireNodes -> WireNodes \cup {0}]
  /\ get_via \in [WireNodes -> WireNodes \cup {0}]
  /\ ask \in [WireNodes -> Nat]
  /\ wire_seen \in [WireNodes -> SUBSET WireNodes]
  /\ ash \in [WireNodes -> SUBSET Nat]
  /\ net \in SUBSET WireMessages
  /\ took \in Seq(Nat)
  /\ wire_rolled \in BOOLEAN

(* Messages of a kind that goes to all are sent by those who have it, and  *)
(* name those that who sent it lists.                                      *)
WireRelays(kind, via, M) ==
  \A p \in M : p.kind = kind =>
    /\ p.from \in WireNodes /\ via[p.from] # 0
    /\ p.to \in Wire!Peers(p.from)
    /\ p.yo \subseteq Wire!Peers(p.from)
    /\ WireListed[p.from] \subseteq p.yo \cup {p.to}

(* Who is next to one that has it, has it or will hear of it.              *)
WireHears(m, kind, via, M) == via[m] # 0 \/ \E q \in M : q.kind = kind /\ q.to = m
WireCovers(kind, via, M) ==
  \A n \in WireNodes : via[n] # 0 =>
    \A m \in Wire!Peers(n) : WireHears(m, kind, via, M)

WireSpreads(kind, via, M) == WireRelays(kind, via, M) /\ WireCovers(kind, via, M)

LEMMA WireCardinality ==
  ASSUME NEW S
  PROVE  /\ Wire!IsFiniteSet(S) <=> IsFiniteSet(S)
         /\ Wire!Cardinality(S) = Cardinality(S)
  BY DEF Wire!IsFiniteSet, IsFiniteSet, Wire!Cardinality, Cardinality

LEMMA WireConstants ==
  /\ WireAsker \in WireNodes /\ WireWriter \in WireNodes
  /\ WireHeld \in [WireNodes -> Nat] /\ WireWritten \in Nat \ {0}
  /\ 0 \notin WireNodes
  /\ \A n, m : m \in Wire!Peers(n) => m \in WireNodes /\ m # n
  /\ \A n \in WireNodes : \A m : m \in Wire!Peers(n) => n \in Wire!Peers(m)
  /\ \A n \in WireNodes : WireListed[n] \subseteq Wire!Peers(n)
<1>1. /\ WireAsker \in WireNodes /\ WireWriter \in WireNodes
      /\ WireHeld \in [WireNodes -> Nat] /\ WireWritten \in Nat \ {0}
  BY NetworkAssumption DEF Wire!WireAssumption
<1>2. 0 \notin WireNodes
  BY NetworkAssumption DEF Wire!WireAssumption, Wire!None
<1>3. \A n, m : m \in Wire!Peers(n) => m \in WireNodes /\ m # n
  BY DEF Wire!Peers
<1>4. ASSUME NEW n \in WireNodes, NEW m, m \in Wire!Peers(n)
      PROVE  n \in Wire!Peers(m)
  <2>1. {m, n} = {n, m}
    OBVIOUS
  <2> QED
    BY <1>4, <2>1 DEF Wire!Peers
<1>5. \A n \in WireNodes : WireListed[n] \subseteq Wire!Peers(n)
  BY NetworkAssumption DEF Wire!WireAssumption, Wire!ListsAreCut
<1> QED
  BY <1>1, <1>2, <1>3, <1>4, <1>5

(* The list that goes with a message to m is what n lists, but perhaps m.  *)
LEMMA WireYo ==
  ASSUME NEW n \in WireNodes, NEW f, NEW yo, NEW m \in Wire!Peers(n),
         (f = n /\ yo = {}) \/ (f # m /\ f \in Wire!Peers(n))
  PROVE  /\ Wire!Yo(n, yo) \subseteq WireListed[n]
         /\ WireListed[n] \subseteq Wire!Yo(n, yo) \cup {m}
<1>1. IsFiniteSet(Wire!Peers(n))
  <2>1. IsFiniteSet(WireNodes)
    BY NetworkAssumption, WireCardinality DEF Wire!WireAssumption
  <2>2. Wire!Peers(n) \in SUBSET WireNodes
    BY DEF Wire!Peers
  <2> QED
    BY <2>1, <2>2, FS_Subset
<1>2. CASE Wire!Cardinality(Wire!Peers(n)) > 1
  BY <1>2 DEF Wire!Yo
<1>3. CASE ~ (Wire!Cardinality(Wire!Peers(n)) > 1)
  <2>1. Wire!Yo(n, yo) = yo
    BY <1>3 DEF Wire!Yo
  <2>2. Cardinality(Wire!Peers(n)) \in Nat /\ Cardinality(Wire!Peers(n)) <= 1
    BY <1>1, <1>3, FS_CardinalityType, WireCardinality
  <2>3. Cardinality(Wire!Peers(n)) # 0
    BY <1>1, FS_EmptySet
  <2>4. Cardinality(Wire!Peers(n)) = 1
    BY <2>2, <2>3
  <2>5. PICK x : Wire!Peers(n) = {x}
    BY <1>1, <2>4, FS_Singleton
  <2> QED
    BY <2>1, <2>5, WireConstants
<1> QED
  BY <1>2, <1>3

LEMMA WireMessage ==
  ASSUME NEW kind, NEW n, NEW m, NEW id, NEW value, NEW yo,
         NEW q, q = Wire!Message(kind, n, m, id, value, yo)
  PROVE  /\ q.kind = kind /\ q.from = n /\ q.to = m /\ q.id = id
         /\ q.value = value /\ q.yo = yo
         /\ (/\ kind \in {"put", "get", "answer"} /\ n \in WireNodes /\ m \in WireNodes
             /\ id \in WireNodes \cup {0} /\ value \in Nat /\ yo \subseteq WireNodes)
            => q \in WireMessages
  BY DEF Wire!Message, WireMessages

LEMMA WireFlood ==
  ASSUME NEW kind, NEW n, NEW f, NEW value, NEW yo, NEW q \in Wire!Flood(kind, n, f, value, yo)
  PROVE  /\ q.kind = kind /\ q.from = n /\ q.to \in Wire!Peers(n) \ (yo \cup {f})
         /\ q.id = 0 /\ q.value = value /\ q.yo = Wire!Yo(n, yo)
         /\ (/\ kind \in {"put", "get", "answer"} /\ n \in WireNodes
             /\ value \in Nat /\ yo \subseteq WireNodes)
            => q \in WireMessages
<1>1. PICK m \in Wire!Targets(n, f, yo) :
         q = Wire!Message(kind, n, m, Wire!None, value, Wire!Yo(n, yo))
  BY DEF Wire!Flood
<1>2. m \in Wire!Peers(n) \ (yo \cup {f}) /\ m \in WireNodes
  BY WireConstants DEF Wire!Targets
<1>3. Wire!None = 0
  BY DEF Wire!None
<1>4. n \in WireNodes /\ yo \subseteq WireNodes => Wire!Yo(n, yo) \subseteq WireNodes
  <2>1. n \in WireNodes => WireListed[n] \subseteq WireNodes
    BY WireConstants
  <2> QED
    BY <2>1 DEF Wire!Yo
<1> QED
  BY <1>1, <1>2, <1>3, <1>4, WireMessage

(* A peer that hears of it first sends it on: also to those that it leaves *)
(* out it has come, or will come.                                          *)
LEMMA WireFloods ==
  ASSUME NEW kind, NEW via \in [WireNodes -> WireNodes \cup {0}], NEW M, NEW M0, NEW M2,
         WireSpreads(kind, via, M),
         NEW n \in WireNodes, via[n] = 0, NEW f, NEW yo, NEW value,
         \/ f = n /\ yo = {} /\ M0 = M
         \/ \E p \in M : /\ p.kind = kind /\ p.to = n /\ p.from = f /\ p.yo = yo
                         /\ M0 = M \ {p},
         \A q : q.kind = kind =>
           (q \in M2 <=> q \in M0 \cup Wire!Flood(kind, n, f, value, yo))
  PROVE  WireSpreads(kind, [via EXCEPT ![n] = f], M2)
<1> DEFINE via2 == [via EXCEPT ![n] = f]
<1>1. /\ f \in WireNodes /\ f # 0 /\ (f = n \/ f \in Wire!Peers(n))
      /\ f # n => via[f] # 0
      /\ \A m \in yo : WireHears(m, kind, via, M)
      /\ M0 \subseteq M
      /\ \A q \in M \ M0 : q.to = n
  <2>1. CASE f = n /\ yo = {} /\ M0 = M
    BY <2>1, WireConstants
  <2>2. CASE \E p \in M : /\ p.kind = kind /\ p.to = n /\ p.from = f /\ p.yo = yo
                          /\ M0 = M \ {p}
    <3>0. PICK p \in M : /\ p.kind = kind /\ p.to = n /\ p.from = f /\ p.yo = yo
                         /\ M0 = M \ {p}
      BY <2>2
    <3>1. /\ f \in WireNodes /\ via[f] # 0 /\ n \in Wire!Peers(f)
          /\ yo \subseteq Wire!Peers(f)
      BY <3>0 DEF WireSpreads, WireRelays
    <3>2. \A m \in yo : WireHears(m, kind, via, M)
      BY <3>1 DEF WireSpreads, WireCovers
    <3> QED
      BY <3>0, <3>1, <3>2, WireConstants
  <2> QED
    BY <2>1, <2>2
<1>2. via2[n] = f /\ \A m \in WireNodes \ {n} : via2[m] = via[m]
  OBVIOUS
<1> HIDE DEF via2
<1>3. ASSUME NEW q \in Wire!Flood(kind, n, f, value, yo)
      PROVE  /\ q.kind = kind /\ q.from = n /\ q.to \in Wire!Peers(n) \ (yo \cup {f})
             /\ q.yo = Wire!Yo(n, yo)
  BY WireFlood
<1>4. \A m \in Wire!Peers(n) \ (yo \cup {f}) :
        \E q \in Wire!Flood(kind, n, f, value, yo) : q.kind = kind /\ q.to = m
  <2> SUFFICES ASSUME NEW m \in Wire!Peers(n) \ (yo \cup {f})
               PROVE  \E q \in Wire!Flood(kind, n, f, value, yo) : q.kind = kind /\ q.to = m
    OBVIOUS
  <2> DEFINE q == Wire!Message(kind, n, m, Wire!None, value, Wire!Yo(n, yo))
  <2>1. q \in Wire!Flood(kind, n, f, value, yo)
    BY DEF Wire!Flood, Wire!Targets
  <2>2. q.kind = kind /\ q.to = m
    BY DEF Wire!Message
  <2> QED
    BY <2>1, <2>2
<1>5. WireRelays(kind, via2, M2)
  <2> SUFFICES ASSUME NEW p \in M2, p.kind = kind
               PROVE  /\ p.from \in WireNodes /\ via2[p.from] # 0
                      /\ p.to \in Wire!Peers(p.from)
                      /\ p.yo \subseteq Wire!Peers(p.from)
                      /\ WireListed[p.from] \subseteq p.yo \cup {p.to}
    BY DEF WireRelays
  <2>1. CASE p \in M
    <3>1. /\ p.from \in WireNodes /\ via[p.from] # 0
          /\ p.to \in Wire!Peers(p.from)
          /\ p.yo \subseteq Wire!Peers(p.from)
          /\ WireListed[p.from] \subseteq p.yo \cup {p.to}
      BY <2>1 DEF WireSpreads, WireRelays
    <3> QED
      BY <3>1, <1>1, <1>2
  <2>2. CASE p \in Wire!Flood(kind, n, f, value, yo)
    <3>1. /\ p.from = n /\ p.to \in Wire!Peers(n) /\ p.to \notin yo /\ p.to # f
          /\ p.yo = Wire!Yo(n, yo)
      BY <1>3, <2>2
    <3>2. (f = n /\ yo = {}) \/ (f # p.to /\ f \in Wire!Peers(n))
      <4>1. CASE f = n /\ yo = {}
        BY <4>1
      <4>2. CASE ~(f = n /\ yo = {})
        <5>1. PICK r \in M : r.kind = kind /\ r.to = n /\ r.from = f
          BY <4>2
        <5>2. n \in Wire!Peers(f) /\ f \in WireNodes
          BY <5>1 DEF WireSpreads, WireRelays
        <5> QED
          BY <3>1, <5>2, WireConstants
      <4> QED
        BY <4>1, <4>2
    <3>3. /\ Wire!Yo(n, yo) \subseteq WireListed[n]
          /\ WireListed[n] \subseteq Wire!Yo(n, yo) \cup {p.to}
          /\ WireListed[n] \subseteq Wire!Peers(n)
      BY <3>1, <3>2, WireYo, WireConstants
    <3> QED
      BY <1>1, <1>2, <3>1, <3>3
  <2> QED
    BY <1>1, <2>1, <2>2
<1>6. ASSUME NEW m \in WireNodes, WireHears(m, kind, via, M)
      PROVE  WireHears(m, kind, via2, M2)
  <2>1. CASE m = n
    BY <1>1, <1>2, <2>1 DEF WireHears
  <2>2. CASE m # n /\ via[m] # 0
    BY <1>2, <2>2 DEF WireHears
  <2>3. ASSUME m # n, NEW q \in M, q.kind = kind, q.to = m
        PROVE  WireHears(m, kind, via2, M2)
    <3>1. q \in M0
      BY <1>1, <2>3
    <3>2. q \in M2
      BY <3>1, <2>3
    <3> QED
      BY <2>3, <3>2 DEF WireHears
  <2> QED
    BY <1>6, <2>1, <2>2, <2>3 DEF WireHears
<1>7. WireCovers(kind, via2, M2)
  <2> SUFFICES ASSUME NEW k \in WireNodes, via2[k] # 0, NEW m \in Wire!Peers(k)
               PROVE  WireHears(m, kind, via2, M2)
    BY DEF WireCovers
  <2>1. m \in WireNodes
    BY WireConstants
  <2>2. CASE k # n
    <3>1. WireHears(m, kind, via, M)
      BY <1>2, <2>2 DEF WireSpreads, WireCovers
    <3> QED
      BY <1>6, <2>1, <3>1
  <2>3. CASE k = n
    <3>1. CASE m \in yo
      BY <1>1, <1>6, <2>1, <3>1
    <3>2. CASE m = f
      <4>1. via2[m] # 0
        BY <1>1, <1>2, <2>1, <3>2
      <4> QED
        BY <4>1 DEF WireHears
    <3>3. CASE m \notin yo /\ m # f
      <4>1. PICK q \in Wire!Flood(kind, n, f, value, yo) : q.kind = kind /\ q.to = m
        BY <1>4, <2>3, <3>3
      <4>2. q \in M2
        BY <4>1
      <4> QED
        BY <4>1, <4>2 DEF WireHears
    <3> QED
      BY <3>1, <3>2, <3>3
  <2> QED
    BY <2>2, <2>3
<1> QED
  BY <1>5, <1>7 DEF WireSpreads, via2

(* What is dropped has been heard.                                         *)
LEMMA WireDrops ==
  ASSUME NEW kind, NEW via, NEW M, NEW M2, NEW p, WireSpreads(kind, via, M),
         p.kind = kind => via[p.to] # 0,
         \A q : q.kind = kind => (q \in M2 <=> q \in M \ {p})
  PROVE  WireSpreads(kind, via, M2)
<1>1. WireRelays(kind, via, M2)
  BY DEF WireSpreads, WireRelays
<1>2. ASSUME NEW m, WireHears(m, kind, via, M)
      PROVE  WireHears(m, kind, via, M2)
  BY <1>2 DEF WireHears
<1>3. WireCovers(kind, via, M2)
  BY <1>2 DEF WireSpreads, WireCovers
<1> QED
  BY <1>1, <1>3 DEF WireSpreads

(* A message is of one kind, and new to who hears it first.                *)
LEMMA WireTypeStep ==
  ASSUME WireType, [Wire!Next]_(Wire!vars),
         \A p \in net : p.kind = "answer" => p.id \in WireNodes /\ get_via[p.to] # 0
  PROVE  WireType'
<1> USE WireConstants
<1>1. Wire!None = 0
  BY DEF Wire!None
<1>2. CASE Wire!Write
  <2>1. Wire!Flood("put", WireWriter, WireWriter, WireWritten, {}) \subseteq WireMessages
    BY WireFlood
  <2> QED
    BY <1>2, <2>1 DEF Wire!Write, WireType, Wire!Merge
<1>3. CASE Wire!Ask
  <2>1. Wire!Flood("get", WireAsker, WireAsker, 0, {}) \subseteq WireMessages
    BY WireFlood
  <2> QED
    BY <1>3, <2>1 DEF Wire!Ask, WireType
<1>4. ASSUME NEW p \in net
      PROVE  /\ p.kind \in {"put", "get", "answer"} /\ p.from \in WireNodes
             /\ p.to \in WireNodes /\ p.id \in WireNodes \cup {0}
             /\ p.value \in Nat /\ p.yo \subseteq WireNodes
  BY DEF WireType, WireMessages
<1>5. ASSUME NEW p \in net, Wire!HearPut(p)
      PROVE  WireType'
  <2>1. Wire!Flood("put", p.to, p.from, p.value, p.yo) \subseteq WireMessages
    BY <1>4, WireFlood
  <2> QED
    BY <1>4, <1>5, <2>1 DEF Wire!HearPut, WireType, Wire!Merge
<1>6. ASSUME NEW p \in net, Wire!HearGet(p)
      PROVE  WireType'
  <2> DEFINE h == IF Wire!AnswersGet(p.to, p.value) /\ p.value = 0
                  THEN wire_data[p.to] ELSE p.value
  <2>1. h \in Nat
    BY <1>4 DEF WireType
  <2>2. Wire!Flood("get", p.to, p.from, h, p.yo) \subseteq WireMessages
    BY <1>4, <2>1, WireFlood
  <2>3. Wire!Answer(p.to, p.from) \subseteq WireMessages
    <3>1. Wire!Yo(p.to, {}) \subseteq WireNodes
      <4>1. WireListed[p.to] \subseteq WireNodes
        BY <1>4, WireConstants
      <4> QED
        BY <4>1 DEF Wire!Yo
    <3>2. wire_data[p.to] \in Nat
      BY <1>4 DEF WireType
    <3> QED
      BY <1>4, <3>1, <3>2, WireMessage DEF Wire!Answer
  <2>4. /\ get_via' = [get_via EXCEPT ![p.to] = p.from]
        /\ ask' = [ask EXCEPT ![p.to] = h]
        /\ ash' = [ash EXCEPT ![p.to] = IF p.value = 0 THEN @ ELSE @ \cup {p.value}]
        /\ net' \subseteq net \cup Wire!Flood("get", p.to, p.from, h, p.yo)
                    \cup Wire!Answer(p.to, p.from)
        /\ UNCHANGED <<wire_data, put_via, wire_seen, took, wire_rolled>>
    BY <1>6 DEF Wire!HearGet
  <2> HIDE DEF h
  <2>5. get_via' \in [WireNodes -> WireNodes \cup {0}] /\ ask' \in [WireNodes -> Nat]
    BY <1>4, <2>1, <2>4 DEF WireType
  <2>6. ash' \in [WireNodes -> SUBSET Nat]
    BY <1>4, <2>4 DEF WireType
  <2>7. net' \in SUBSET WireMessages
    BY <2>2, <2>3, <2>4 DEF WireType
  <2> QED
    BY <2>4, <2>5, <2>6, <2>7 DEF WireType
<1>7. ASSUME NEW p \in net, Wire!HearAnswer(p)
      PROVE  WireType'
  <2>1. /\ wire_seen' = [wire_seen EXCEPT ![p.to] = @ \cup {p.id}]
        /\ ash' = [ash EXCEPT ![p.to] = @ \cup {p.value}]
        /\ put_via' = put_via /\ get_via' = get_via
        /\ p.kind = "answer"
    BY <1>7 DEF Wire!HearAnswer
  <2>5. p.id \in WireNodes /\ get_via[p.to] \in WireNodes
    BY <1>4, <2>1 DEF WireType
  <2>4. /\ wire_seen' \in [WireNodes -> SUBSET WireNodes]
        /\ ash' \in [WireNodes -> SUBSET Nat]
    <3>1. wire_seen' \in [WireNodes -> SUBSET WireNodes]
      BY <2>1, <2>5 DEF WireType
    <3>2. ash' \in [WireNodes -> SUBSET Nat]
      BY <1>4, <2>1 DEF WireType
    <3> QED
      BY <3>1, <3>2
  <2>2. CASE p.to = WireAsker
    <3>1. /\ took' = Append(took, p.value)
          /\ wire_data' = [wire_data EXCEPT ![p.to] = p.value]
          /\ wire_rolled' = (wire_rolled \/ p.value < wire_data[p.to])
          /\ net' = net \ {p} /\ ask' = ask
      BY <1>7, <2>2 DEF Wire!HearAnswer
    <3>2. took' \in Seq(Nat) /\ wire_rolled' \in BOOLEAN /\ net' \in SUBSET WireMessages
      BY <1>4, <3>1 DEF WireType
    <3>3. wire_data' \in [WireNodes -> Nat]
      BY <1>4, <3>1 DEF WireType
    <3> QED
      BY <2>1, <2>4, <3>1, <3>2, <3>3 DEF WireType
  <2>3. CASE p.to # WireAsker
    <3>1. ASSUME NEW m \in Wire!Back(p.to, p)
          PROVE  Wire!Message("answer", p.to, m, p.id, p.value, Wire!Yo(p.to, p.yo))
                    \in WireMessages
      <4>1. m \in WireNodes
        BY <2>5 DEF Wire!Back
      <4>2. Wire!Yo(p.to, p.yo) \subseteq WireNodes
        BY <1>4 DEF Wire!Yo
      <4> QED
        BY <1>4, <4>1, <4>2, WireMessage
    <3>2. net' \subseteq WireMessages
      BY <1>7, <2>3, <3>1 DEF Wire!HearAnswer, WireType
    <3>3. /\ wire_data' = [wire_data EXCEPT ![p.to] = Wire!Merge(@, p.value)]
          /\ ask' = [ask EXCEPT ![p.to] = IF @ = 0 THEN p.value ELSE @]
          /\ UNCHANGED <<took, wire_rolled>>
      BY <1>7, <2>3 DEF Wire!HearAnswer
    <3>4. wire_data' \in [WireNodes -> Nat] /\ ask' \in [WireNodes -> Nat]
      BY <1>4, <3>3 DEF WireType, Wire!Merge
    <3> QED
      BY <2>1, <2>4, <3>2, <3>3, <3>4 DEF WireType
  <2> QED
    BY <2>2, <2>3
<1>8. ASSUME NEW p \in net, Wire!HearAgain(p)
      PROVE  WireType'
  BY <1>8 DEF Wire!HearAgain, WireType
<1>9. CASE UNCHANGED Wire!vars
  BY <1>9 DEF Wire!vars, WireType
<1> QED
  BY <1>2, <1>3, <1>5, <1>6, <1>7, <1>8, <1>9 DEF Wire!Next

(* A write spreads, and nobody falls behind, the asker that is rolled back *)
(* excepted.                                                               *)
WireWrites ==
  /\ WireSpreads("put", put_via, net)
  /\ \A p \in net : p.kind = "put" => p.value = WireWritten
  /\ \A n \in WireNodes :
       \/ wire_data[n] >= WireHeld[n] /\ (put_via[n] # 0 => wire_data[n] >= WireWritten)
       \/ n = WireAsker /\ wire_rolled

WireGrows ==
  \A n \in WireNodes :
    \/ wire_data'[n] \in Nat /\ wire_data'[n] >= wire_data[n]
    \/ n = WireAsker /\ wire_rolled'

LEMMA WireWritesStep ==
  ASSUME WireType, WireWrites, WireSpreads("get", get_via, net), [Wire!Next]_(Wire!vars)
  PROVE  WireWrites'
<1>0. /\ Wire!None = 0 /\ WireAsker \in WireNodes /\ WireWriter \in WireNodes
      /\ WireHeld \in [WireNodes -> Nat] /\ WireWritten \in Nat
      /\ wire_data \in [WireNodes -> Nat]
      /\ put_via \in [WireNodes -> WireNodes \cup {0}] /\ 0 \notin WireNodes
  BY WireConstants DEF Wire!None, WireType
<1>1. ASSUME NEW n \in WireNodes, put_via[n] = 0, NEW f, NEW yo,
             put_via' = [put_via EXCEPT ![n] = f],
             wire_data' = [wire_data EXCEPT ![n] = Wire!Merge(@, WireWritten)],
             wire_rolled' = wire_rolled,
             NEW M \in SUBSET net,
             net' = M \cup Wire!Flood("put", n, f, WireWritten, yo),
             \/ f = n /\ yo = {} /\ M = net
             \/ \E p \in net : /\ p.kind = "put" /\ p.to = n /\ p.from = f /\ p.yo = yo
                             /\ M = net \ {p}
      PROVE  WireWrites'
  <2>1. WireSpreads("put", put_via', net')
    BY <1>0, <1>1, WireFloods DEF WireWrites
  <2>2. \A p \in net' : p.kind = "put" => p.value = WireWritten
    BY <1>1, WireFlood DEF WireWrites
  <2>3. /\ wire_data'[n] >= wire_data[n] /\ wire_data'[n] >= WireWritten
        /\ \A m \in WireNodes \ {n} : wire_data'[m] = wire_data[m] /\ put_via'[m] = put_via[m]
    BY <1>0, <1>1 DEF Wire!Merge
  <2>4. wire_data'[n] \in Nat /\ wire_data[n] \in Nat /\ WireHeld[n] \in Nat
    BY <1>0, <1>1 DEF Wire!Merge
  <2>5. ASSUME NEW m \in WireNodes
        PROVE  \/ /\ wire_data'[m] >= WireHeld[m]
                  /\ put_via'[m] # 0 => wire_data'[m] >= WireWritten
               \/ m = WireAsker /\ wire_rolled'
    <3>1. CASE m = n
      <4>1. wire_data[n] >= WireHeld[n] \/ (n = WireAsker /\ wire_rolled)
        BY DEF WireWrites
      <4> QED
        BY <1>1, <2>3, <2>4, <3>1, <4>1
    <3>2. CASE m # n
      BY <1>1, <2>3, <3>2 DEF WireWrites
    <3> QED
      BY <3>1, <3>2
  <2> QED
    BY <2>1, <2>2, <2>5 DEF WireWrites
<1>2. CASE Wire!Write
  BY <1>0, <1>1, <1>2 DEF Wire!Write
<1>3. ASSUME NEW p \in net, Wire!HearPut(p)
      PROVE  WireWrites'
  <2>1. p.to \in WireNodes /\ p.value = WireWritten /\ p.kind = "put"
    BY <1>3 DEF Wire!HearPut, WireWrites, WireType, WireMessages
  <2> DEFINE M == net \ {p}
  <2>2. M \in SUBSET net
    OBVIOUS
  <2>3. /\ put_via[p.to] = 0 /\ put_via' = [put_via EXCEPT ![p.to] = p.from]
        /\ wire_data' = [wire_data EXCEPT ![p.to] = Wire!Merge(@, WireWritten)]
        /\ wire_rolled' = wire_rolled
        /\ net' = M \cup Wire!Flood("put", p.to, p.from, WireWritten, p.yo)
    BY <1>0, <1>3, <2>1 DEF Wire!HearPut
  <2>4. \E q \in net : /\ q.kind = "put" /\ q.to = p.to /\ q.from = p.from /\ q.yo = p.yo
                      /\ M = net \ {q}
    BY <2>1
  <2> HIDE DEF M
  <2> QED
    BY <1>1, <2>1, <2>2, <2>3, <2>4
<1>4. ASSUME NEW p, \A q : q.kind = "put" => (q \in net' <=> q \in net \ {p}),
             p.kind = "put" => put_via[p.to] # 0,
             put_via' = put_via,
             WireGrows,
             wire_rolled => wire_rolled'
      PROVE  WireWrites'
  <2>1. WireSpreads("put", put_via', net')
    BY <1>4, WireDrops DEF WireWrites
  <2>2. \A q \in net' : q.kind = "put" => q.value = WireWritten
    BY <1>4 DEF WireWrites
  <2>3. ASSUME NEW m \in WireNodes
        PROVE  \/ /\ wire_data'[m] >= WireHeld[m]
                  /\ put_via'[m] # 0 => wire_data'[m] >= WireWritten
               \/ m = WireAsker /\ wire_rolled'
    <3>1. wire_data[m] \in Nat /\ WireHeld[m] \in Nat
      BY <1>0
    <3> QED
      BY <1>0, <1>4, <3>1 DEF WireWrites, WireGrows
  <2> QED
    BY <2>1, <2>2, <2>3 DEF WireWrites
<1>5. CASE Wire!Ask
  <2>1. /\ net' = net \cup Wire!Flood("get", WireAsker, WireAsker, 0, {})
        /\ UNCHANGED <<wire_data, put_via, wire_rolled>>
    BY <1>5 DEF Wire!Ask
  <2> DEFINE p == Wire!Message("get", 0, 0, 0, 0, {})
  <2>2. p.kind = "get"
    BY DEF Wire!Message
  <2> HIDE DEF p
  <2>3. \A q : q.kind = "put" => (q \in net' <=> q \in net \ {p})
    BY <2>1, <2>2, WireFlood
  <2> QED
    BY <1>0, <1>4, <2>1, <2>2, <2>3 DEF WireGrows
<1>6. ASSUME NEW p \in net, Wire!HearGet(p)
      PROVE  WireWrites'
  <2>0. /\ p.kind = "get" /\ UNCHANGED <<wire_data, put_via, wire_rolled>>
        /\ \E h : /\ net \ {p} \subseteq net'
                 /\ net' \subseteq (net \ {p}) \cup Wire!Flood("get", p.to, p.from, h, p.yo)
                                   \cup Wire!Answer(p.to, p.from)
    BY <1>6 DEF Wire!HearGet
  <2>1. \A q \in Wire!Answer(p.to, p.from) : q.kind = "answer"
    BY WireMessage DEF Wire!Answer
  <2>2. \A q : q.kind = "put" => (q \in net' <=> q \in net \ {p})
    BY <2>0, <2>1, WireFlood
  <2> QED
    BY <1>0, <1>4, <2>0, <2>2 DEF WireGrows
<1>7. ASSUME NEW p \in net, Wire!HearAnswer(p)
      PROVE  WireWrites'
  <2>0. p.kind = "answer" /\ put_via' = put_via /\ p.to \in WireNodes /\ p.value \in Nat
    BY <1>7 DEF Wire!HearAnswer, WireType, WireMessages
  <2>1. CASE p.to = WireAsker
    <3>1. /\ wire_data' = [wire_data EXCEPT ![p.to] = p.value]
          /\ wire_rolled' = (wire_rolled \/ p.value < wire_data[p.to])
          /\ net' = net \ {p}
      BY <1>7, <2>1 DEF Wire!HearAnswer
    <3>2. WireGrows
      <4>1. p.value < wire_data[p.to] => wire_rolled'
        BY <3>1
      <4>2. /\ wire_data'[p.to] = p.value /\ wire_data[p.to] \in Nat
            /\ \A n \in WireNodes \ {p.to} : wire_data'[n] = wire_data[n]
                                           /\ wire_data[n] \in Nat
        BY <1>0, <2>0, <3>1
      <4> QED
        BY <2>0, <2>1, <4>1, <4>2 DEF WireGrows
    <3> QED
      BY <1>4, <2>0, <3>1, <3>2
  <2>2. CASE p.to # WireAsker
    <3>1. /\ wire_data' = [wire_data EXCEPT ![p.to] = Wire!Merge(@, p.value)]
          /\ wire_rolled' = wire_rolled
          /\ net' = (net \ {p}) \cup
                      {Wire!Message("answer", p.to, m, p.id, p.value, Wire!Yo(p.to, p.yo)) :
                          m \in Wire!Back(p.to, p)}
      BY <1>7, <2>2 DEF Wire!HearAnswer
    <3>2. WireGrows
      BY <1>0, <2>0, <3>1 DEF WireGrows, Wire!Merge
    <3>3. \A q : q.kind = "put" => (q \in net' <=> q \in net \ {p})
      BY <3>1, WireMessage
    <3> QED
      BY <1>4, <2>0, <3>1, <3>2, <3>3
  <2> QED
    BY <2>1, <2>2
<1>8. ASSUME NEW p \in net, Wire!HearAgain(p)
      PROVE  WireWrites'
  <2>1. /\ p.kind = "put" => put_via[p.to] # 0
        /\ net' = net \ {p} /\ UNCHANGED <<wire_data, put_via, wire_rolled>>
    BY <1>0, <1>8 DEF Wire!HearAgain
  <2> QED
    BY <1>0, <1>4, <2>1 DEF WireGrows
<1>9. CASE UNCHANGED Wire!vars
  BY <1>9 DEF Wire!vars, WireWrites
<1> QED
  BY <1>2, <1>3, <1>5, <1>6, <1>7, <1>8, <1>9 DEF Wire!Next

(* What a peer knows to be answered.                                       *)
WireHashes(n) == (ash[n] \cup {ask[n]}) \ {0}

(* An answer with this value has come from n to the peer that it has the   *)
(* request from, or is on its way.                                         *)
WireWay(n, v) ==
  v \in WireHashes(get_via[n]) \/ \E p \in net : p.kind = "answer" /\ p.from = n /\ p.value = v

(* Requests leave a tree: d is how far a peer is from the asker, and who   *)
(* has a request from another is not listed by who that one has it from.   *)
WireTree(d) ==
  \A n \in WireNodes \ {WireAsker} : get_via[n] # 0 =>
    /\ get_via[n] \in Wire!Peers(n) /\ get_via[get_via[n]] # 0
    /\ d[get_via[n]] < d[n]
    /\ get_via[n] # WireAsker => n \notin WireListed[get_via[get_via[n]]]

WireGets ==
  /\ WireSpreads("get", get_via, net)
  /\ \A p \in net : p.kind = "get" =>
       /\ get_via[WireAsker] # 0
       /\ p.value = 0 \/ p.value \in WireHashes(p.from)
       /\ p.from # WireAsker => p.to \notin WireListed[get_via[p.from]]

(* An answer goes the way back, and has not been where it goes to.         *)
WireAnswers(d) ==
  \A p \in net : p.kind = "answer" =>
    /\ p.from \in WireNodes \ {WireAsker} /\ get_via[p.from] # 0
    /\ p.to = get_via[p.from] /\ p.yo \subseteq WireListed[p.from]
    /\ p.value # 0 /\ p.id \in WireNodes /\ get_via[p.id] # 0
    /\ \A k \in WireNodes : p.id \in wire_seen[k] => d[p.to] < d[k]

WireOneAnswer ==
  \A p, q \in net : p.kind = "answer" /\ q.kind = "answer" /\ p.id = q.id => p = q

WireSeen ==
  /\ ask[WireAsker] = 0
  /\ \A k \in WireNodes :
       /\ \A i \in wire_seen[k] : get_via[i] # 0
       /\ get_via[k] = 0 => wire_seen[k] = {} /\ ash[k] = {} /\ ask[k] = 0

(* What is answered is on its way, and of what a peer had, or later; an    *)
(* answer is lost only where a peer lists one that does not list it.       *)
WireChain ==
  Wire!Mutual =>
  \A n \in WireNodes \ {WireAsker} : get_via[n] # 0 =>
    \A v \in WireHashes(n) : WireWay(n, v)

WireCame ==
  Wire!Mutual =>
  \A n \in WireNodes \ {WireAsker} : get_via[n] # 0 /\ WireHeld[n] # 0 =>
    \E v \in Nat : v >= WireHeld[n] /\ (v \in WireHashes(n) \/ WireWay(n, v))

WireTook ==
  /\ \A i \in DOMAIN took : took[i] \in ash[WireAsker]
  /\ \A v \in ash[WireAsker] : \E i \in DOMAIN took : took[i] = v
  /\ Wire!TakenOnce

WireRequest(d) ==
  /\ WireTree(d) /\ WireGets /\ WireAnswers(d) /\ WireOneAnswer
  /\ WireSeen /\ WireChain /\ WireCame /\ WireTook

(* Writes have nothing to do with it.                                      *)
LEMMA WireRequestStays ==
  ASSUME NEW d, WireRequest(d), UNCHANGED <<get_via, ask, wire_seen, ash, took>>,
         \A q : q.kind # "put" => (q \in net' <=> q \in net)
  PROVE  WireRequest(d)'
<1>1. \A n : WireHashes(n)' = WireHashes(n)
  BY DEF WireHashes
<1>2. \A n, v : WireWay(n, v) => WireWay(n, v)'
  BY <1>1 DEF WireWay
<1>3. WireTree(d)' /\ WireSeen' /\ WireTook'
  BY DEF WireRequest, WireTree, WireSeen, WireTook, Wire!TakenOnce
<1>4. WireGets'
  <2>1. WireSpreads("get", get_via', net')
    <3> DEFINE p == Wire!Message("put", 0, 0, 0, 0, {})
    <3>1. p.kind = "put"
      BY DEF Wire!Message
    <3> HIDE DEF p
    <3>2. \A q : q.kind = "get" => (q \in net' <=> q \in net \ {p})
      BY <3>1
    <3> QED
      BY <3>1, <3>2, WireDrops DEF WireRequest, WireGets
  <2> QED
    BY <1>1, <2>1 DEF WireRequest, WireGets
<1>5. WireAnswers(d)' /\ WireOneAnswer'
  BY DEF WireRequest, WireAnswers, WireOneAnswer
<1>6. WireChain' /\ WireCame'
  BY <1>1, <1>2 DEF WireRequest, WireChain, WireCame
<1> QED
  BY <1>3, <1>4, <1>5, <1>6 DEF WireRequest

LEMMA WireAskStep ==
  ASSUME WireType, NEW d, WireRequest(d), Wire!Ask
  PROVE  WireRequest(d)'
<1>0. /\ Wire!None = 0 /\ WireAsker \in WireNodes /\ 0 \notin WireNodes
      /\ get_via \in [WireNodes -> WireNodes \cup {0}]
      /\ \A n, m : m \in Wire!Peers(n) => m \in WireNodes /\ m # n
  BY WireConstants DEF Wire!None, WireType
<1>1. /\ get_via[WireAsker] = 0 /\ get_via' = [get_via EXCEPT ![WireAsker] = WireAsker]
      /\ net' = net \cup Wire!Flood("get", WireAsker, WireAsker, 0, {})
      /\ UNCHANGED <<ask, wire_seen, ash, took>>
  BY <1>0 DEF Wire!Ask
<1>2. /\ \A n \in WireNodes \ {WireAsker} : get_via'[n] = get_via[n]
      /\ get_via'[WireAsker] # 0
      /\ \A n \in WireNodes \ {WireAsker} : get_via[n] # 0 =>
             get_via[n] # WireAsker /\ get_via[n] \in WireNodes
             /\ get_via'[get_via[n]] = get_via[get_via[n]]
  BY <1>0, <1>1 DEF WireRequest, WireTree
<1>3. \A n : WireHashes(n)' = WireHashes(n)
  BY <1>1 DEF WireHashes
<1>4. \A n \in WireNodes \ {WireAsker} : \A v : WireWay(n, v) => WireWay(n, v)'
  BY <1>1, <1>2, <1>3 DEF WireWay
<1>5. \A q : q.kind = "answer" => (q \in net' <=> q \in net)
  BY <1>1, WireFlood
<1>6. WireTree(d)'
  BY <1>2 DEF WireRequest, WireTree
<1>7. WireGets'
  <2>1. WireSpreads("get", get_via', net')
    BY <1>0, <1>1, WireFloods DEF WireRequest, WireGets
  <2> SUFFICES ASSUME NEW p \in net', p.kind = "get"
               PROVE  /\ get_via'[WireAsker] # 0
                      /\ p.value = 0 \/ p.value \in WireHashes(p.from)'
                      /\ p.from # WireAsker => p.to \notin WireListed[get_via'[p.from]]
    BY <2>1 DEF WireGets
  <2>2. p \notin net
    BY <1>1 DEF WireRequest, WireGets
  <2> QED
    BY <1>1, <1>2, <2>2, WireFlood
<1>8. WireAnswers(d)' /\ WireOneAnswer'
  <2>1. WireOneAnswer'
    BY <1>5 DEF WireRequest, WireOneAnswer
  <2>2. ASSUME NEW p \in net, p.kind = "answer"
        PROVE  get_via'[p.id] # 0 /\ get_via'[p.from] = get_via[p.from]
    BY <1>2, <2>2 DEF WireRequest, WireAnswers
  <2> QED
    BY <1>1, <1>5, <2>1, <2>2 DEF WireRequest, WireAnswers
<1>9. WireSeen'
  BY <1>1, <1>2, <1>0 DEF WireRequest, WireSeen, WireType
<1>10. WireChain' /\ WireCame'
  BY <1>2, <1>3, <1>4 DEF WireRequest, WireChain, WireCame
<1>11. WireTook'
  BY <1>1 DEF WireRequest, WireTook, Wire!TakenOnce
<1> QED
  BY <1>6, <1>7, <1>8, <1>9, <1>10, <1>11 DEF WireRequest

LEMMA WireGetStep ==
  ASSUME WireType, WireWrites, NEW d \in [WireNodes -> Nat], WireRequest(d),
         NEW p \in net, Wire!HearGet(p)
  PROVE  \E d2 \in [WireNodes -> Nat] : WireRequest(d2)'
<1> DEFINE n == p.to
           m == p.from
           answers == Wire!AnswersGet(n, p.value)
           h == IF answers /\ p.value = 0 THEN wire_data[n] ELSE p.value
           d2 == [d EXCEPT ![n] = d[m] + 1]
<1>0. /\ Wire!None = 0 /\ WireAsker \in WireNodes /\ 0 \notin WireNodes
      /\ get_via \in [WireNodes -> WireNodes \cup {0}]
      /\ ask \in [WireNodes -> Nat] /\ ash \in [WireNodes -> SUBSET Nat]
      /\ WireHeld \in [WireNodes -> Nat] /\ wire_data \in [WireNodes -> Nat]
      /\ \A k, l : l \in Wire!Peers(k) => l \in WireNodes /\ l # k
      /\ \A k \in WireNodes : \A l : l \in Wire!Peers(k) => k \in Wire!Peers(l)
  BY WireConstants DEF Wire!None, WireType
<1>1. /\ p.kind = "get" /\ get_via[n] = 0 /\ get_via' = [get_via EXCEPT ![n] = m]
      /\ ask' = [ask EXCEPT ![n] = h]
      /\ ash' = [ash EXCEPT ![n] = IF p.value = 0 THEN @ ELSE @ \cup {p.value}]
      /\ net' = (net \ {p}) \cup Wire!Flood("get", n, m, h, p.yo)
                \cup (IF answers THEN Wire!Answer(n, m) ELSE {})
      /\ UNCHANGED <<wire_seen, took>>
  BY <1>0 DEF Wire!HearGet
<1>2. /\ m \in WireNodes /\ get_via[m] # 0 /\ n \in Wire!Peers(m)
      /\ WireListed[m] \subseteq p.yo \cup {n}
      /\ get_via[WireAsker] # 0
      /\ p.value = 0 \/ p.value \in WireHashes(m)
      /\ m # WireAsker => n \notin WireListed[get_via[m]]
      /\ p.value \in Nat
  BY <1>1 DEF WireRequest, WireGets, WireSpreads, WireRelays, WireType, WireMessages
<1>3. /\ n \in WireNodes /\ n # m /\ n # WireAsker /\ m \in Wire!Peers(n)
      /\ wire_seen[n] = {} /\ ash[n] = {} /\ ask[n] = 0
  BY <1>0, <1>1, <1>2 DEF WireRequest, WireSeen
<1>4. /\ answers => wire_data[n] # 0 /\ wire_data[n] # p.value
      /\ ~answers => wire_data[n] = 0 \/ wire_data[n] = p.value
      /\ h = (IF answers /\ p.value = 0 THEN wire_data[n] ELSE p.value)
  BY DEF Wire!AnswersGet
<1>5. \A q \in Wire!Flood("get", n, m, h, p.yo) :
         /\ q.kind = "get" /\ q.from = n /\ q.value = h
         /\ q.to \in Wire!Peers(n) \ (p.yo \cup {m})
  BY WireFlood
<1>6. \A q \in Wire!Answer(n, m) :
         /\ q.kind = "answer" /\ q.from = n /\ q.to = m /\ q.id = n
         /\ q.value = wire_data[n] /\ q.yo \subseteq WireListed[n]
  <2>1. Wire!Yo(n, {}) \subseteq WireListed[n]
    BY DEF Wire!Yo
  <2> QED
    BY <2>1, WireMessage DEF Wire!Answer
<1>7. \E q : q \in Wire!Answer(n, m)
  BY DEF Wire!Answer
<1>8. /\ d2 \in [WireNodes -> Nat] /\ d2[n] = d[m] + 1
      /\ \A k \in WireNodes \ {n} : d2[k] = d[k]
  BY <1>2, <1>3
<1> HIDE DEF n, m, answers, h, d2
<1>9. /\ \A q : q.kind = "answer" =>
              (q \in net' <=> q \in net \/ (answers /\ q \in Wire!Answer(n, m)))
      /\ \A q : q.kind = "get" =>
              (q \in net' <=> q \in net \ {p} \/ q \in Wire!Flood("get", n, m, h, p.yo))
  BY <1>1, <1>5, <1>6
<1>10. /\ \A k \in WireNodes \ {n} : /\ get_via'[k] = get_via[k]
                                    /\ WireHashes(k)' = WireHashes(k)
       /\ get_via'[n] = m
       /\ h # 0 => h \in WireHashes(n)'
       /\ \A v \in WireHashes(n)' : v # 0 /\ (v = h \/ v = p.value)
  BY <1>0, <1>1, <1>3 DEF WireHashes
<1>11. \A k \in WireNodes : get_via[k] # 0 => k # n /\ get_via[k] \in WireNodes
  BY <1>0, <1>1
<1>12. \A k \in WireNodes \ {WireAsker} : get_via[k] # 0 =>
          get_via[k] # n /\ get_via'[k] = get_via[k]
          /\ get_via'[get_via[k]] = get_via[get_via[k]]
          /\ WireHashes(get_via[k])' = WireHashes(get_via[k])
  <2> SUFFICES ASSUME NEW k \in WireNodes \ {WireAsker}, get_via[k] # 0
               PROVE  get_via[k] # n /\ get_via'[k] = get_via[k]
                      /\ get_via'[get_via[k]] = get_via[get_via[k]]
                      /\ WireHashes(get_via[k])' = WireHashes(get_via[k])
    OBVIOUS
  <2>1. get_via[get_via[k]] # 0 /\ get_via[k] \in WireNodes
    BY <1>11 DEF WireRequest, WireTree
  <2>2. get_via[k] # n /\ k # n
    BY <1>1, <2>1, <1>11
  <2> QED
    BY <1>10, <2>1, <2>2
<1>13. WireTree(d2)'
  <2> SUFFICES ASSUME NEW k \in WireNodes \ {WireAsker}, get_via'[k] # 0
               PROVE  /\ get_via'[k] \in Wire!Peers(k) /\ get_via'[get_via'[k]] # 0
                      /\ d2[get_via'[k]] < d2[k]
                      /\ get_via'[k] # WireAsker => k \notin WireListed[get_via'[get_via'[k]]]
    BY DEF WireTree
  <2>1. CASE k = n
    <3>1. d[m] \in Nat /\ d2[m] = d[m] /\ d2[n] = d[m] + 1 /\ get_via'[m] = get_via[m]
      BY <1>2, <1>3, <1>8, <1>10
    <3> QED
      BY <1>2, <1>3, <1>10, <2>1, <3>1
  <2>2. CASE k # n
    <3>1. get_via[k] # 0 /\ get_via'[k] = get_via[k]
      BY <1>10, <2>2
    <3>2. /\ get_via[k] # n /\ get_via[k] \in WireNodes
          /\ get_via'[get_via[k]] = get_via[get_via[k]]
      BY <1>11, <1>12, <3>1
    <3>3. d2[k] = d[k] /\ d2[get_via[k]] = d[get_via[k]]
      BY <1>8, <2>2, <3>2
    <3> QED
      BY <3>1, <3>2, <3>3 DEF WireRequest, WireTree
  <2> QED
    BY <2>1, <2>2
<1>14. WireGets'
  <2>1. WireSpreads("get", get_via', net')
    <3>1. WireSpreads("get", get_via, net)
      BY DEF WireRequest, WireGets
    <3> DEFINE M == net \ {p}
    <3>2. \E q \in net : /\ q.kind = "get" /\ q.to = n /\ q.from = m /\ q.yo = p.yo
                        /\ M = net \ {q}
      BY <1>1 DEF n, m
    <3>3. \A q : q.kind = "get" =>
             (q \in net' <=> q \in M \cup Wire!Flood("get", n, m, h, p.yo))
      BY <1>9
    <3> HIDE DEF M
    <3>4. \/ m = n /\ p.yo = {} /\ M = net
          \/ \E q \in net : /\ q.kind = "get" /\ q.to = n /\ q.from = m /\ q.yo = p.yo
                          /\ M = net \ {q}
      BY <3>2
    <3>5. get_via[n] = 0 /\ get_via \in [WireNodes -> WireNodes \cup {0}] /\ n \in WireNodes
      BY <1>0, <1>1, <1>3
    <3>6. WireSpreads("get", [get_via EXCEPT ![n] = m], net')
      BY <3>1, <3>3, <3>4, <3>5, WireFloods, Zenon
    <3> QED
      BY <1>1, <3>6
  <2>2. ASSUME NEW q \in net', q.kind = "get"
        PROVE  /\ get_via'[WireAsker] # 0
               /\ q.value = 0 \/ q.value \in WireHashes(q.from)'
               /\ q.from # WireAsker => q.to \notin WireListed[get_via'[q.from]]
    <3>1. get_via'[WireAsker] # 0
      BY <1>0, <1>2, <1>3, <1>10
    <3>2. CASE q \in net
      <4>1. /\ q.value = 0 \/ q.value \in WireHashes(q.from)
            /\ q.from # WireAsker => q.to \notin WireListed[get_via[q.from]]
            /\ q.from \in WireNodes /\ get_via[q.from] # 0
        BY <2>2, <3>2 DEF WireRequest, WireGets, WireSpreads, WireRelays
      <4>2. q.from \in WireNodes \ {n}
        BY <1>1, <4>1
      <4> QED
        BY <1>10, <3>1, <4>1, <4>2
    <3>3. CASE q \notin net
      <4>1. /\ q.from = n /\ q.value = h
            /\ q.to \in Wire!Peers(n) \ (p.yo \cup {m})
        BY <1>5, <1>9, <2>2, <3>3
      <4>2. q.to \notin WireListed[m]
        BY <1>0, <1>2, <4>1
      <4> QED
        BY <1>10, <3>1, <4>1, <4>2
    <3> QED
      BY <3>2, <3>3
  <2> QED
    BY <2>1, <2>2 DEF WireGets
<1>15. WireAnswers(d2)'
  <2> SUFFICES ASSUME NEW q \in net', q.kind = "answer"
               PROVE  /\ q.from \in WireNodes \ {WireAsker} /\ get_via'[q.from] # 0
                      /\ q.to = get_via'[q.from] /\ q.yo \subseteq WireListed[q.from]
                      /\ q.value # 0 /\ q.id \in WireNodes /\ get_via'[q.id] # 0
                      /\ \A k \in WireNodes : q.id \in wire_seen[k] => d2[q.to] < d2[k]
    BY <1>1 DEF WireAnswers
  <2>1. CASE q \in net
    <3>1. /\ q.from \in WireNodes \ {WireAsker} /\ get_via[q.from] # 0
          /\ q.to = get_via[q.from] /\ q.yo \subseteq WireListed[q.from]
          /\ q.value # 0 /\ q.id \in WireNodes /\ get_via[q.id] # 0
          /\ \A k \in WireNodes : q.id \in wire_seen[k] => d[q.to] < d[k]
      BY <2>1 DEF WireRequest, WireAnswers
    <3>2. /\ get_via'[q.from] = get_via[q.from] /\ get_via'[q.id] # 0
          /\ q.to \in WireNodes \ {n}
      BY <1>10, <1>11, <1>12, <3>1
    <3>3. \A k \in WireNodes : q.id \in wire_seen[k] => k # n
      BY <1>3
    <3> QED
      BY <1>8, <3>1, <3>2, <3>3
  <2>2. CASE q \notin net
    <3>1. /\ q.from = n /\ q.to = m /\ q.id = n /\ q.value = wire_data[n]
          /\ q.yo \subseteq WireListed[n] /\ wire_data[n] # 0
      BY <1>4, <1>6, <1>9, <2>2
    <3>2. \A k \in WireNodes : n \notin wire_seen[k]
      BY <1>1 DEF WireRequest, WireSeen
    <3> QED
      BY <1>0, <1>2, <1>3, <1>10, <3>1, <3>2
  <2> QED
    BY <2>1, <2>2
<1>16. WireOneAnswer'
  <2> SUFFICES ASSUME NEW q \in net', NEW r \in net', q.kind = "answer",
                      r.kind = "answer", q.id = r.id
               PROVE  q = r
    BY DEF WireOneAnswer
  <2>1. \A a \in net : a.kind = "answer" => a.id # n
    BY <1>1 DEF WireRequest, WireAnswers
  <2>2. CASE q \in net /\ r \in net
    BY <2>2 DEF WireRequest, WireOneAnswer
  <2>3. CASE q \notin net /\ r \notin net
    <3>1. q \in Wire!Answer(n, m) /\ r \in Wire!Answer(n, m)
      BY <1>9, <2>3
    <3> QED
      BY <3>1 DEF Wire!Answer
  <2>4. CASE ~(q \in net <=> r \in net)
    BY <1>6, <1>9, <2>1, <2>4
  <2> QED
    BY <2>2, <2>3, <2>4
<1>17. WireSeen'
  <2>1. /\ ask'[WireAsker] = 0
        /\ \A k \in WireNodes \ {n} : ask'[k] = ask[k] /\ ash'[k] = ash[k]
    BY <1>0, <1>1, <1>3 DEF WireRequest, WireSeen
  <2>2. ASSUME NEW k \in WireNodes
        PROVE  /\ \A i \in wire_seen'[k] : get_via'[i] # 0
               /\ get_via'[k] = 0 => wire_seen'[k] = {} /\ ash'[k] = {} /\ ask'[k] = 0
    <3>1. ASSUME NEW i \in wire_seen[k]
          PROVE  get_via'[i] # 0
      <4>1. get_via[i] # 0 /\ i \in WireNodes
        BY DEF WireRequest, WireSeen, WireType
      <4> QED
        BY <1>1, <1>10, <4>1
    <3>2. k # n => get_via'[k] = get_via[k]
      BY <1>10
    <3>3. k = n => get_via'[k] # 0
      BY <1>0, <1>2, <1>10
    <3> QED
      BY <1>1, <2>1, <3>1, <3>2, <3>3 DEF WireRequest, WireSeen
  <2> QED
    BY <2>1, <2>2 DEF WireSeen
<1>18. \A k \in WireNodes \ {WireAsker} : get_via[k] # 0 =>
          \A v : WireWay(k, v) => WireWay(k, v)'
  BY <1>9, <1>12 DEF WireWay
<1>19. \A v : answers /\ v = wire_data[n] => WireWay(n, v)'
  BY <1>6, <1>7, <1>9 DEF WireWay
<1>20. \A v : v = p.value /\ v # 0 => WireWay(n, v)'
  BY <1>2, <1>3, <1>10 DEF WireWay
<1>21. WireChain'
  <2> SUFFICES ASSUME Wire!Mutual, NEW k \in WireNodes \ {WireAsker}, get_via'[k] # 0,
                      NEW v \in WireHashes(k)'
               PROVE  WireWay(k, v)'
    BY DEF WireChain
  <2>1. CASE k = n
    BY <1>4, <1>10, <1>19, <1>20, <2>1
  <2>2. CASE k # n
    BY <1>10, <1>18, <2>2 DEF WireRequest, WireChain
  <2> QED
    BY <2>1, <2>2
<1>22. WireCame'
  <2> SUFFICES ASSUME Wire!Mutual, NEW k \in WireNodes \ {WireAsker}, get_via'[k] # 0, WireHeld[k] # 0
               PROVE  \E v \in Nat : v >= WireHeld[k] /\ (v \in WireHashes(k)' \/ WireWay(k, v)')
    BY DEF WireCame
  <2>1. CASE k = n
    <3>1. /\ wire_data[n] >= WireHeld[n] /\ wire_data[n] \in Nat /\ WireHeld[n] \in Nat
      BY <1>0, <1>3 DEF WireWrites
    <3>2. wire_data[n] # 0
      BY <2>1, <3>1
    <3>3. \A v : v = wire_data[n] => WireWay(n, v)'
      BY <1>4, <1>19, <1>20, <3>2
    <3> QED
      BY <2>1, <3>1, <3>3
  <2>2. CASE k # n
    BY <1>10, <1>18, <2>2 DEF WireRequest, WireCame
  <2> QED
    BY <2>1, <2>2
<1>23. WireTook'
  <2>1. ash'[WireAsker] = ash[WireAsker]
    BY <1>0, <1>1, <1>3
  <2> QED
    BY <1>1, <2>1 DEF WireRequest, WireTook, Wire!TakenOnce
<1> QED
  BY <1>8, <1>13, <1>14, <1>15, <1>16, <1>17, <1>21, <1>22, <1>23 DEF WireRequest

LEMMA WireAnswerStep ==
  ASSUME WireType, NEW d \in [WireNodes -> Nat], WireRequest(d),
         NEW p \in net, Wire!HearAnswer(p)
  PROVE  WireRequest(d)'
<1> DEFINE n == p.to
           c == p.from
           v == p.value
           g == get_via[n]
<1>0. /\ WireAsker \in WireNodes /\ 0 \notin WireNodes
      /\ get_via \in [WireNodes -> WireNodes \cup {0}]
      /\ ask \in [WireNodes -> Nat] /\ ash \in [WireNodes -> SUBSET Nat]
      /\ wire_seen \in [WireNodes -> SUBSET WireNodes] /\ took \in Seq(Nat)
      /\ \A k, l : l \in Wire!Peers(k) => l \in WireNodes /\ l # k
      /\ \A k \in WireNodes : \A l : l \in Wire!Peers(k) => k \in Wire!Peers(l)
  BY WireConstants DEF WireType
<1>1. /\ p.kind = "answer" /\ p.id \notin wire_seen[n] /\ v \notin ash[n]
      /\ wire_seen' = [wire_seen EXCEPT ![n] = @ \cup {p.id}]
      /\ ash' = [ash EXCEPT ![n] = @ \cup {v}]
      /\ get_via' = get_via
      /\ n = WireAsker => ask' = ask /\ took' = Append(took, v) /\ net' = net \ {p}
      /\ n # WireAsker =>
           /\ ask' = [ask EXCEPT ![n] = IF @ = 0 THEN v ELSE @] /\ took' = took
           /\ net' = (net \ {p}) \cup
                       {Wire!Message("answer", n, m, p.id, v, Wire!Yo(n, p.yo)) :
                           m \in Wire!Back(n, p)}
  BY DEF Wire!HearAnswer, Wire!IsNew
<1>2. /\ c \in WireNodes /\ c # WireAsker /\ get_via[c] = n /\ n # 0 /\ p.yo \subseteq WireListed[c]
      /\ v # 0 /\ v \in Nat /\ p.id \in WireNodes /\ get_via[p.id] # 0
      /\ \A k \in WireNodes : p.id \in wire_seen[k] => d[n] < d[k]
  BY <1>1 DEF WireRequest, WireAnswers, WireType, WireMessages
<1>3. /\ n \in Wire!Peers(c) /\ n \in WireNodes /\ c \in Wire!Peers(n) /\ g # 0
      /\ d[n] < d[c]
      /\ n # WireAsker => c \notin WireListed[g]
  BY <1>0, <1>2 DEF WireRequest, WireTree
<1> HIDE DEF n, c, v
<1>4. n # WireAsker => /\ g \in Wire!Peers(n) /\ g \in WireNodes /\ d[g] < d[n]
                       /\ g # c /\ (Wire!Mutual => g \notin p.yo)
  <2>1. ASSUME n # WireAsker
        PROVE  g \in Wire!Peers(n) /\ g \in WireNodes /\ d[g] < d[n]
    BY <1>0, <1>3, <2>1 DEF WireRequest, WireTree
  <2>2. ASSUME n # WireAsker
        PROVE  g # c
    <3>0. g \in WireNodes /\ n \in WireNodes /\ c \in WireNodes
      BY <1>2, <1>3, <2>1, <2>2
    <3>4. d[g] < d[n] /\ d[n] < d[c]
      BY <1>3, <2>1, <2>2
    <3> HIDE DEF g
    <3>1. d[g] \in Nat /\ d[n] \in Nat /\ d[c] \in Nat /\ d[g] < d[n] /\ d[n] < d[c]
      BY <3>0, <3>4
    <3>2. d[g] # d[c]
      BY <3>1
    <3> QED
      BY <3>2
  <2>3. ASSUME n # WireAsker, Wire!Mutual
        PROVE  g \notin WireListed[c]
    <3>1. c \notin WireListed[g] /\ c \in WireNodes
      BY <1>2, <1>3, <2>3
    <3>2. g \in WireListed[c] => c \in WireListed[g]
      BY <2>3, <3>1 DEF Wire!Mutual
    <3> QED
      BY <3>1, <3>2
  <2> QED
    BY <1>2, <2>1, <2>2, <2>3
<1>5. n # WireAsker =>
        /\ \A q \in net' \ (net \ {p}) :
             /\ q.kind = "answer" /\ q.from = n /\ q.to = g /\ q.id = p.id /\ q.value = v
             /\ q.yo \subseteq WireListed[n]
        /\ \A q, r \in net' \ (net \ {p}) : q = r
        /\ Wire!Mutual /\ v # ask[n] =>
             \E q \in net' : q.kind = "answer" /\ q.from = n /\ q.value = v
  <2> SUFFICES ASSUME n # WireAsker
               PROVE  /\ \A q \in net' \ (net \ {p}) :
                          /\ q.kind = "answer" /\ q.from = n /\ q.to = g /\ q.id = p.id
                          /\ q.value = v /\ q.yo \subseteq WireListed[n]
                      /\ \A q, r \in net' \ (net \ {p}) : q = r
                      /\ Wire!Mutual /\ v # ask[n] =>
                           \E q \in net' : /\ q.kind = "answer" /\ q.from = n
                                           /\ q.value = v
    OBVIOUS
  <2> DEFINE a == Wire!Message("answer", n, g, p.id, v, Wire!Yo(n, p.yo))
  <2>1. /\ a.kind = "answer" /\ a.from = n /\ a.to = g /\ a.id = p.id /\ a.value = v
        /\ a.yo = Wire!Yo(n, p.yo)
    BY DEF Wire!Message
  <2>2. Wire!Yo(n, p.yo) \subseteq WireListed[n]
    BY <1>3, <1>4, WireYo
  <2>3. /\ Wire!Back(n, p) \subseteq {g}
        /\ Wire!Mutual /\ v # ask[n] => Wire!Back(n, p) = {g}
    BY <1>4 DEF Wire!Back, v, c
  <2>4. /\ net' \ (net \ {p}) \subseteq {a}
        /\ Wire!Mutual /\ v # ask[n] => a \in net'
    BY <1>1, <2>3
  <2> HIDE DEF a, g
  <2>5. \A q \in net' \ (net \ {p}) : q = a
    BY <2>4
  <2>6. Wire!Mutual /\ v # ask[n] =>
          \E q \in net' : q.kind = "answer" /\ q.from = n /\ q.value = v
    BY <2>1, <2>4
  <2> QED
    BY <2>1, <2>2, <2>5, <2>6
<1>6. net \ {p} \subseteq net' /\ (n = WireAsker => net' = net \ {p})
  BY <1>1
<1>7. /\ \A k \in WireNodes : WireHashes(k) \subseteq WireHashes(k)'
      /\ v \in WireHashes(n)'
      /\ \A k \in WireNodes : \A u \in WireHashes(k)' : u \in WireHashes(k) \/ (k = n /\ u = v)
  <2>1. ASSUME NEW k \in WireNodes
        PROVE  /\ WireHashes(k) \subseteq WireHashes(k)'
               /\ \A u \in WireHashes(k)' : u \in WireHashes(k) \/ (k = n /\ u = v)
    BY <1>0, <1>1, <1>3 DEF WireHashes
  <2>2. v \in WireHashes(n)'
    BY <1>0, <1>1, <1>2, <1>3 DEF WireHashes
  <2> QED
    BY <2>1, <2>2
<1>8. ASSUME NEW k \in WireNodes \ {WireAsker}, get_via[k] # 0, NEW u, WireWay(k, u)
      PROVE  WireWay(k, u)'
  <2>1. CASE u \in WireHashes(get_via[k])
    BY <1>0, <1>1, <1>7, <1>8, <2>1 DEF WireWay
  <2>2. ASSUME NEW q \in net, q.kind = "answer", q.from = k, q.value = u
        PROVE  WireWay(k, u)'
    <3>1. CASE q = p
      <4>1. u = v /\ get_via'[k] = n
        BY <1>1, <1>2, <2>2, <3>1 DEF c, v
      <4> QED
        BY <1>7, <4>1 DEF WireWay
    <3>2. CASE q # p
      BY <1>6, <2>2, <3>2 DEF WireWay
    <3> QED
      BY <3>1, <3>2
  <2> QED
    BY <1>8, <2>1, <2>2 DEF WireWay
<1>9. WireTree(d)'
  BY <1>1 DEF WireRequest, WireTree
<1>10. WireGets'
  <2>1. \A q : q.kind = "get" => (q \in net' <=> q \in net \ {p})
    BY <1>1, <1>5, <1>6
  <2>2. WireSpreads("get", get_via', net')
    BY <1>1, <2>1, WireDrops DEF WireRequest, WireGets
  <2>3. ASSUME NEW q \in net', q.kind = "get"
        PROVE  /\ get_via'[WireAsker] # 0
               /\ q.value = 0 \/ q.value \in WireHashes(q.from)'
               /\ q.from # WireAsker => q.to \notin WireListed[get_via'[q.from]]
    <3>1. q \in net /\ q.from \in WireNodes
      BY <2>1, <2>3 DEF WireRequest, WireGets, WireSpreads, WireRelays
    <3> QED
      BY <1>1, <1>7, <2>1, <2>3, <3>1 DEF WireRequest, WireGets
  <2> QED
    BY <2>2, <2>3 DEF WireGets
<1>11. WireAnswers(d)'
  <2> SUFFICES ASSUME NEW q \in net', q.kind = "answer"
               PROVE  /\ q.from \in WireNodes \ {WireAsker} /\ get_via'[q.from] # 0
                      /\ q.to = get_via'[q.from] /\ q.yo \subseteq WireListed[q.from]
                      /\ q.value # 0 /\ q.id \in WireNodes /\ get_via'[q.id] # 0
                      /\ \A k \in WireNodes : q.id \in wire_seen'[k] => d[q.to] < d[k]
    BY DEF WireAnswers
  <2>1. CASE q \in net \ {p}
    <3>1. /\ q.from \in WireNodes \ {WireAsker} /\ get_via[q.from] # 0
          /\ q.to = get_via[q.from] /\ q.yo \subseteq WireListed[q.from]
          /\ q.value # 0 /\ q.id \in WireNodes /\ get_via[q.id] # 0
          /\ \A k \in WireNodes : q.id \in wire_seen[k] => d[q.to] < d[k]
      BY <2>1 DEF WireRequest, WireAnswers
    <3>2. q.id # p.id
      BY <1>1, <2>1 DEF WireRequest, WireOneAnswer
    <3>3. \A k \in WireNodes : q.id \in wire_seen'[k] => q.id \in wire_seen[k]
      BY <1>0, <1>1, <1>3, <3>2
    <3> QED
      BY <1>1, <3>1, <3>3
  <2>2. CASE q \notin net \ {p}
    <3>1. /\ n # WireAsker /\ q.from = n /\ q.to = g /\ q.id = p.id /\ q.value = v
          /\ q.yo \subseteq WireListed[n]
      BY <1>5, <1>6, <2>2
    <3>2. ASSUME NEW k \in WireNodes, p.id \in wire_seen'[k]
          PROVE  d[g] < d[k]
      <4>1. k = n \/ p.id \in wire_seen[k]
        BY <1>0, <1>1, <1>3, <3>2
      <4>2. d[g] \in Nat /\ d[n] \in Nat /\ d[k] \in Nat /\ d[g] < d[n]
        BY <1>3, <1>4, <3>1
      <4> QED
        BY <1>2, <4>1, <4>2
    <3> QED
      BY <1>1, <1>2, <1>3, <3>1, <3>2
  <2> QED
    BY <2>1, <2>2
<1>12. WireOneAnswer'
  <2> SUFFICES ASSUME NEW q \in net', NEW r \in net', q.kind = "answer",
                      r.kind = "answer", q.id = r.id
               PROVE  q = r
    BY DEF WireOneAnswer
  <2>1. \A a \in net \ {p} : a.kind = "answer" => a.id # p.id
    BY <1>1 DEF WireRequest, WireOneAnswer
  <2>2. CASE q \in net \ {p} /\ r \in net \ {p}
    BY <2>2 DEF WireRequest, WireOneAnswer
  <2>3. CASE q \notin net \ {p} /\ r \notin net \ {p}
    BY <1>5, <1>6, <2>3
  <2>4. CASE ~(q \in net \ {p} <=> r \in net \ {p})
    BY <1>5, <1>6, <2>1, <2>4
  <2> QED
    BY <2>2, <2>3, <2>4
<1>13. WireSeen'
  <2>1. ask'[WireAsker] = 0
    BY <1>0, <1>1, <1>3 DEF WireRequest, WireSeen
  <2>2. \A k \in WireNodes \ {n} : ask'[k] = ask[k] /\ ash'[k] = ash[k]
                                 /\ wire_seen'[k] = wire_seen[k]
    BY <1>0, <1>1, <1>3
  <2>3. wire_seen'[n] = wire_seen[n] \cup {p.id}
    BY <1>0, <1>1, <1>3
  <2>4. get_via[n] # 0
    BY <1>3
  <2> QED
    BY <1>1, <1>2, <2>1, <2>2, <2>3, <2>4 DEF WireRequest, WireSeen
<1>14. WireChain'
  <2> SUFFICES ASSUME Wire!Mutual, NEW k \in WireNodes \ {WireAsker}, get_via'[k] # 0,
                      NEW u \in WireHashes(k)'
               PROVE  WireWay(k, u)'
    BY DEF WireChain
  <2>1. CASE u \in WireHashes(k)
    BY <1>1, <1>8, <2>1 DEF WireRequest, WireChain
  <2>2. CASE u \notin WireHashes(k)
    <3>1. k = n /\ u = v /\ n # WireAsker
      BY <1>7, <2>2
    <3>2. v # ask[n]
      BY <1>2, <2>2, <3>1 DEF WireHashes
    <3> QED
      BY <1>5, <3>1, <3>2 DEF WireWay
  <2> QED
    BY <2>1, <2>2
<1>15. WireCame'
  <2> SUFFICES ASSUME Wire!Mutual, NEW k \in WireNodes \ {WireAsker}, get_via'[k] # 0, WireHeld[k] # 0
               PROVE  \E u \in Nat : u >= WireHeld[k] /\ (u \in WireHashes(k)' \/ WireWay(k, u)')
    BY DEF WireCame
  <2>1. PICK u \in Nat : u >= WireHeld[k] /\ (u \in WireHashes(k) \/ WireWay(k, u))
    BY <1>1 DEF WireRequest, WireCame
  <2> QED
    BY <1>1, <1>7, <1>8, <2>1
<1>16. WireTook'
  <2>1. CASE n # WireAsker
    <3>1. ash'[WireAsker] = ash[WireAsker] /\ took' = took
      BY <1>0, <1>1, <2>1
    <3> QED
      BY <3>1 DEF WireRequest, WireTook, Wire!TakenOnce
  <2>2. CASE n = WireAsker
    <3>1. /\ ash'[WireAsker] = ash[WireAsker] \cup {v} /\ took' = Append(took, v)
          /\ v \notin ash[WireAsker]
      BY <1>0, <1>1, <2>2
    <3>2. /\ \A i \in DOMAIN took : i \in DOMAIN took' /\ took'[i] = took[i]
          /\ Len(took) + 1 \in DOMAIN took' /\ took'[Len(took) + 1] = v
          /\ \A i \in DOMAIN took' : i \in DOMAIN took \/ i = Len(took) + 1
      BY <1>0, <1>2, <3>1
    <3>3. /\ \A i \in DOMAIN took : took[i] \in ash[WireAsker]
          /\ \A u \in ash[WireAsker] : \E i \in DOMAIN took : took[i] = u
          /\ \A i, j \in DOMAIN took : i # j => took[i] # took[j]
      BY DEF WireRequest, WireTook, Wire!TakenOnce
    <3>4. \A i \in DOMAIN took' : took'[i] \in ash'[WireAsker]
      BY <3>1, <3>2, <3>3
    <3>5. \A u \in ash'[WireAsker] : \E i \in DOMAIN took' : took'[i] = u
      BY <3>1, <3>2, <3>3
    <3>6. \A i, j \in DOMAIN took' : i # j => took'[i] # took'[j]
      BY <3>1, <3>2, <3>3
    <3> QED
      BY <3>4, <3>5, <3>6 DEF WireTook, Wire!TakenOnce
  <2> QED
    BY <2>1, <2>2
<1> QED
  BY <1>9, <1>10, <1>11, <1>12, <1>13, <1>14, <1>15, <1>16 DEF WireRequest

LEMMA WireAgainStep ==
  ASSUME WireType, NEW d \in [WireNodes -> Nat], WireRequest(d),
         NEW p \in net, Wire!HearAgain(p)
  PROVE  WireRequest(d)'
<1>1. /\ net' = net \ {p} /\ UNCHANGED <<get_via, ask, wire_seen, ash, took>>
      /\ p.kind = "get" => get_via[p.to] # 0
      /\ p.kind = "answer" => p.id \in wire_seen[p.to] \/ p.value \in ash[p.to]
  BY DEF Wire!HearAgain, Wire!IsNew, Wire!None
<1>2. \A n : WireHashes(n)' = WireHashes(n)
  BY <1>1 DEF WireHashes
<1>3. ASSUME NEW k, NEW u, WireWay(k, u)
      PROVE  WireWay(k, u)'
  <2>1. CASE u \in WireHashes(get_via[k])
    BY <1>1, <1>2, <2>1 DEF WireWay
  <2>2. ASSUME NEW q \in net, q.kind = "answer", q.from = k, q.value = u
        PROVE  WireWay(k, u)'
    <3>1. CASE q = p
      <4>1. /\ p.to = get_via[k] /\ u # 0 /\ get_via[k] \in WireNodes /\ d[p.to] \in Nat
            /\ (p.id \in wire_seen[p.to] => d[p.to] < d[p.to])
        BY <2>2, <3>1 DEF WireRequest, WireAnswers, WireType, WireMessages
      <4>2. u \in ash[p.to]
        BY <1>1, <2>2, <3>1, <4>1
      <4>3. u \in WireHashes(get_via[k])
        BY <4>1, <4>2 DEF WireHashes
      <4> QED
        BY <1>1, <1>2, <4>3 DEF WireWay
    <3>2. CASE q # p
      BY <1>1, <2>2, <3>2 DEF WireWay
    <3> QED
      BY <3>1, <3>2
  <2> QED
    BY <1>3, <2>1, <2>2 DEF WireWay
<1>4. WireTree(d)' /\ WireSeen' /\ WireTook'
  BY <1>1 DEF WireRequest, WireTree, WireSeen, WireTook, Wire!TakenOnce
<1>5. WireGets'
  <2>1. WireSpreads("get", get_via', net')
    BY <1>1, WireDrops DEF WireRequest, WireGets
  <2> QED
    BY <1>1, <1>2, <2>1 DEF WireRequest, WireGets
<1>6. WireAnswers(d)' /\ WireOneAnswer'
  BY <1>1 DEF WireRequest, WireAnswers, WireOneAnswer
<1>7. WireChain' /\ WireCame'
  BY <1>1, <1>2, <1>3 DEF WireRequest, WireChain, WireCame
<1> QED
  BY <1>4, <1>5, <1>6, <1>7 DEF WireRequest

(* The wire's inductive invariant.                                         *)
WireInv ==
  /\ WireType
  /\ WireWrites
  /\ \E d \in [WireNodes -> Nat] : WireRequest(d)

LEMMA WireInit == Wire!Init => WireInv
<1> SUFFICES ASSUME Wire!Init PROVE WireInv
  OBVIOUS
<1>1. /\ Wire!None = 0 /\ WireHeld \in [WireNodes -> Nat]
      /\ WireAsker \in WireNodes /\ WireWriter \in WireNodes
  BY WireConstants DEF Wire!None
<1>2. /\ wire_data = WireHeld /\ put_via = [n \in WireNodes |-> 0]
      /\ get_via = [n \in WireNodes |-> 0] /\ ask = [n \in WireNodes |-> 0]
      /\ wire_seen = [n \in WireNodes |-> {}] /\ ash = [n \in WireNodes |-> {}]
      /\ net = {} /\ took = <<>> /\ wire_rolled = FALSE
  BY <1>1 DEF Wire!Init
<1>3. WireType
  <2>1. put_via \in [WireNodes -> WireNodes \cup {0}] /\ get_via \in [WireNodes -> WireNodes \cup {0}]
    BY <1>2
  <2>2. ask \in [WireNodes -> Nat] /\ wire_data \in [WireNodes -> Nat]
    BY <1>1, <1>2
  <2>3. wire_seen \in [WireNodes -> SUBSET WireNodes] /\ ash \in [WireNodes -> SUBSET Nat]
    BY <1>2
  <2>4. took \in Seq(Nat)
    BY <1>2
  <2>5. wire_rolled \in BOOLEAN /\ net \in SUBSET WireMessages
    BY <1>2, Zenon
  <2> QED
    BY <2>1, <2>2, <2>3, <2>4, <2>5 DEF WireType
<1>4. WireWrites
  BY <1>1, <1>2 DEF WireWrites, WireSpreads, WireRelays, WireCovers
<1> DEFINE d == [n \in WireNodes |-> 0]
<1>5. d \in [WireNodes -> Nat]
  OBVIOUS
<1> HIDE DEF d
<1>6. WireTree(d) /\ WireAnswers(d) /\ WireOneAnswer
  BY <1>2 DEF WireTree, WireAnswers, WireOneAnswer
<1>7. WireGets
  BY <1>2 DEF WireGets, WireSpreads, WireRelays, WireCovers
<1>8. WireSeen
  BY <1>1, <1>2 DEF WireSeen
<1>9. WireChain /\ WireCame
  BY <1>2 DEF WireChain, WireCame
<1>10. WireTook
  BY <1>1, <1>2 DEF WireTook, Wire!TakenOnce
<1>11. WireRequest(d)
  BY <1>6, <1>7, <1>8, <1>9, <1>10 DEF WireRequest
<1> QED
  BY <1>3, <1>4, <1>5, <1>11 DEF WireInv

LEMMA WireStep == WireInv /\ [Wire!Next]_(Wire!vars) => WireInv'
<1> SUFFICES ASSUME WireInv, [Wire!Next]_(Wire!vars) PROVE WireInv'
  OBVIOUS
<1>1. WireType /\ WireWrites
  BY DEF WireInv
<1>2. PICK d \in [WireNodes -> Nat] : WireRequest(d)
  BY DEF WireInv
<1>3. \A p \in net : p.kind = "answer" => p.id \in WireNodes /\ get_via[p.to] # 0
  <2> SUFFICES ASSUME NEW p \in net, p.kind = "answer"
               PROVE  p.id \in WireNodes /\ get_via[p.to] # 0
    OBVIOUS
  <2>1. /\ p.from \in WireNodes \ {WireAsker} /\ get_via[p.from] # 0
        /\ p.to = get_via[p.from] /\ p.id \in WireNodes
    BY <1>2 DEF WireRequest, WireAnswers
  <2>2. get_via[get_via[p.from]] # 0
    BY <1>2, <2>1 DEF WireRequest, WireTree
  <2> QED
    BY <2>1, <2>2
<1>4. WireType'
  BY <1>1, <1>3, WireTypeStep
<1>5. WireSpreads("get", get_via, net)
  BY <1>2 DEF WireRequest, WireGets
<1>6. WireWrites'
  BY <1>1, <1>5, WireWritesStep
<1>7. \E d2 \in [WireNodes -> Nat] : WireRequest(d2)'
  <2>1. ASSUME NEW n, NEW f, NEW value, NEW yo, NEW M, M \subseteq net,
               \A q \in net \ M : q.kind = "put",
               net' = M \cup Wire!Flood("put", n, f, value, yo),
               UNCHANGED <<get_via, ask, wire_seen, ash, took>>
        PROVE  WireRequest(d)'
    <3>1. \A q \in Wire!Flood("put", n, f, value, yo) : q.kind = "put"
      BY WireFlood
    <3>2. \A q : q.kind # "put" => (q \in net' <=> q \in net)
      BY <2>1, <3>1
    <3> QED
      BY <1>2, <2>1, <3>2, WireRequestStays
  <2>2. CASE Wire!Write
    <3>1. /\ net' = net \cup Wire!Flood("put", WireWriter, WireWriter, WireWritten, {})
          /\ UNCHANGED <<get_via, ask, wire_seen, ash, took>>
      BY <2>2 DEF Wire!Write
    <3> QED
      BY <1>2, <2>1, <3>1
  <2>3. CASE Wire!Ask
    BY <1>1, <1>2, <2>3, WireAskStep
  <2>4. ASSUME NEW p \in net, Wire!HearPut(p)
        PROVE  WireRequest(d)'
    <3>1. /\ p.kind = "put"
          /\ net' = (net \ {p}) \cup Wire!Flood("put", p.to, p.from, p.value, p.yo)
          /\ UNCHANGED <<get_via, ask, wire_seen, ash, took>>
      BY <2>4 DEF Wire!HearPut
    <3>2. net \ {p} \subseteq net /\ \A q \in net \ (net \ {p}) : q.kind = "put"
      BY <3>1
    <3> QED
      BY <2>1, <3>1, <3>2
  <2>5. ASSUME NEW p \in net, Wire!HearGet(p)
        PROVE  \E d2 \in [WireNodes -> Nat] : WireRequest(d2)'
    BY <1>1, <1>2, <2>5, WireGetStep
  <2>6. ASSUME NEW p \in net, Wire!HearAnswer(p)
        PROVE  WireRequest(d)'
    BY <1>1, <1>2, <2>6, WireAnswerStep
  <2>7. ASSUME NEW p \in net, Wire!HearAgain(p)
        PROVE  WireRequest(d)'
    BY <1>1, <1>2, <2>7, WireAgainStep
  <2>8. CASE UNCHANGED Wire!vars
    <3>1. net' = net /\ UNCHANGED <<get_via, ask, wire_seen, ash, took>>
      BY <2>8 DEF Wire!vars
    <3> QED
      BY <1>2, <3>1, WireRequestStays
  <2> QED
    BY <1>2, <2>2, <2>3, <2>4, <2>5, <2>6, <2>7, <2>8 DEF Wire!Next
<1> QED
  BY <1>4, <1>6, <1>7 DEF WireInv

(* When nothing is on its way, what one peer has heard all have.           *)
LEMMA WireAll ==
  ASSUME NEW kind, NEW via, WireSpreads(kind, via, net), net = {},
         NEW m \in WireNodes, via[m] # 0
  PROVE  \A n \in WireNodes : via[n] # 0
<1> DEFINE R == {n \in WireNodes : via[n] # 0}
<1>1. R \in SUBSET WireNodes /\ R # {}
  OBVIOUS
<1>2. ASSUME NEW n \in R
      PROVE  Wire!Peers(n) \subseteq R
  <2>1. ASSUME NEW k \in Wire!Peers(n)
        PROVE  k \in R
    <3>1. k \in WireNodes
      BY WireConstants
    <3>2. WireHears(k, kind, via, net)
      BY <2>1 DEF WireSpreads, WireCovers
    <3> QED
      BY <3>1, <3>2 DEF WireHears
  <2> QED
    BY <2>1
<1>3. Wire!Connected
  BY NetworkAssumption DEF Wire!WireAssumption
<1> HIDE DEF R
<1>4. R = WireNodes
  BY <1>1, <1>2, <1>3 DEF Wire!Connected
<1> QED
  BY <1>4 DEF R

(* A peer that is closest to the asker of those that know a hash that the  *)
(* asker does not know has passed it on: there is none.                    *)
LEMMA WireArrives ==
  ASSUME WireType, NEW d \in [WireNodes -> Nat], WireRequest(d), net = {},
         get_via[WireAsker] # 0, Wire!Mutual
  PROVE  \A n \in WireNodes : WireHashes(n) \subseteq WireHashes(WireAsker)
<1> DEFINE Late == {n \in WireNodes : ~(WireHashes(n) \subseteq WireHashes(WireAsker))}
           Ranks == {d[n] : n \in Late}
<1> SUFFICES ASSUME Late # {} PROVE FALSE
  OBVIOUS
<1>1. Ranks \in SUBSET Nat /\ Ranks # {}
  OBVIOUS
<1>2. PICK r \in Ranks : \A k \in Ranks : r <= k
  BY <1>1, LeastNatural
<1>3. PICK n \in Late : r = d[n]
  OBVIOUS
<1>4. n \in WireNodes \ {WireAsker}
  OBVIOUS
<1>5. \A k \in WireNodes : get_via[k] # 0
  BY WireAll, WireConstants DEF WireRequest, WireGets
<1>6. get_via[n] \in WireNodes /\ d[get_via[n]] < d[n]
  BY <1>4, <1>5, WireConstants DEF WireRequest, WireTree
<1>7. WireHashes(n) \subseteq WireHashes(get_via[n])
  BY <1>4, <1>5 DEF WireRequest, WireChain, WireWay
<1>8. get_via[n] \in Late
  BY <1>3, <1>6, <1>7
<1>9. d[get_via[n]] \in Ranks /\ d[get_via[n]] \in Nat /\ d[n] \in Nat
  BY <1>4, <1>6, <1>8
<1> QED
  BY <1>2, <1>3, <1>6, <1>9

LEMMA WirePromise ==
  WireInv => Wire!WriteReachesAll /\ Wire!LatestIsTaken /\ Wire!TakenOnce
<1> SUFFICES ASSUME WireInv
             PROVE  Wire!WriteReachesAll /\ Wire!LatestIsTaken /\ Wire!TakenOnce
  OBVIOUS
<1>1. WireType /\ WireWrites
  BY DEF WireInv
<1>2. PICK d \in [WireNodes -> Nat] : WireRequest(d)
  BY DEF WireInv
<1>3. /\ WireAsker \in WireNodes /\ WireWriter \in WireNodes /\ Wire!None = 0
      /\ WireHeld \in [WireNodes -> Nat] /\ WireWritten \in Nat
  BY WireConstants DEF Wire!None
<1>4. Wire!TakenOnce
  BY <1>2 DEF WireRequest, WireTook
<1>5. Wire!WriteReachesAll
  <2> SUFFICES ASSUME net = {}, put_via[WireWriter] # 0, NEW n \in WireNodes
               PROVE  /\ put_via[n] # 0
                      /\ \/ wire_data[n] >= Wire!Merge(WireHeld[n], WireWritten)
                         \/ n = WireAsker /\ wire_rolled
    BY <1>3 DEF Wire!WriteReachesAll, Wire!Quiet, Wire!Wrote
  <2>1. put_via[n] # 0
    BY <1>1, <1>3, WireAll DEF WireWrites
  <2> QED
    BY <1>1, <2>1 DEF WireWrites, Wire!Merge
<1>6. Wire!LatestIsTaken
  <2> SUFFICES ASSUME Wire!Mutual, net = {}, get_via[WireAsker] # 0, NEW n \in WireNodes \ {WireAsker},
                      WireHeld[n] # 0
               PROVE  \E i \in DOMAIN took : took[i] >= WireHeld[n]
    BY <1>3 DEF Wire!LatestIsTaken, Wire!Quiet, Wire!Asked
  <2>1. get_via[n] # 0
    BY <1>2, <1>3, WireAll DEF WireRequest, WireGets
  <2>2. PICK v \in Nat : v >= WireHeld[n] /\ (v \in WireHashes(n) \/ WireWay(n, v))
    BY <1>2, <2>1 DEF WireRequest, WireCame
  <2>3. get_via[n] \in WireNodes
    BY <1>1, <2>1 DEF WireType
  <2>4. v \in WireHashes(n) \/ v \in WireHashes(get_via[n])
    BY <2>2 DEF WireWay
  <2>5. v \in WireHashes(WireAsker)
    BY <1>1, <1>2, <2>3, <2>4, WireArrives
  <2>6. v \in ash[WireAsker]
    BY <1>2, <2>5 DEF WireHashes, WireRequest, WireSeen
  <2>7. PICK i \in DOMAIN took : took[i] = v
    BY <1>2, <2>6 DEF WireRequest, WireTook
  <2> QED
    BY <2>2, <2>7
<1> QED
  BY <1>4, <1>5, <1>6

(* WireReachesAll of MCGun, of the flooding and the answering of gun.js    *)
(* (say, hear, ask, Gun.on.get): in every connected network of finitely    *)
(* many peers, whichever of their others they list, a write reaches all    *)
(* and the asker is given no answer twice; and where whoever is listed     *)
(* lists back, the asker is given the latest that any peer had.            *)
THEOREM WireCorrect == Wire!Spec => []WireReachesAll
<1>1. Wire!Init => WireInv
  BY WireInit
<1>2. WireInv /\ [Wire!Next]_(Wire!vars) => WireInv'
  BY WireStep
<1>3. WireInv => WireReachesAll
  BY WirePromise DEF WireReachesAll
<1> QED
  BY <1>1, <1>2, <1>3, PTL DEF Wire!Spec

-----------------------------------------------------------------------------
(* The mesh.  Messages are told apart by one relation, and put into order  *)
(* by another; what follows is about both.                                 *)
Differ == {p \in Nat \X Nat : p[1] # p[2]}
Less == {p \in Nat \X Nat : p[1] < p[2]}

(* Of what is related, the second is not before the first, or both are.    *)
Symmetric(R) == \A a, b : <<a, b>> \in R => <<b, a>> \in R

Before(A, B, R) == \A a \in A, b \in B : <<a, b>> \in R

Sorted(s, R) == \A i, j \in DOMAIN s : i < j => <<s[i], s[j]>> \in R

(* The same of a list of raws.  *)
Ranked(list, R) ==
  /\ \A i \in DOMAIN list : Sorted(list[i], R)
  /\ \A i, j \in DOMAIN list : i < j => Before(Mesh!ToSet(list[i]), Mesh!ToSet(list[j]), R)

InLists(lists) == UNION {Mesh!InRaws(lists[i]) : i \in DOMAIN lists}

LEMMA MeshIn ==
  ASSUME NEW s, NEW x
  PROVE  /\ x \in Mesh!ToSet(s) <=> \E i \in DOMAIN s : s[i] = x
         /\ x \in Mesh!InRaws(s) <=> \E i \in DOMAIN s : x \in Mesh!ToSet(s[i])
         /\ x \in InLists(s) <=> \E i \in DOMAIN s : x \in Mesh!InRaws(s[i])
  BY DEF Mesh!ToSet, Mesh!InRaws, InLists

LEMMA MeshOne ==
  ASSUME NEW raw
  PROVE  Mesh!InRaws(<<raw>>) = Mesh!ToSet(raw)
<1> DEFINE list == <<raw>>
<1>1. DOMAIN list = {1} /\ list[1] = raw
  OBVIOUS
<1> HIDE DEF list
<1>2. \A x : x \in Mesh!InRaws(list) <=> x \in Mesh!ToSet(raw)
  BY <1>1, MeshIn
<1>3. Mesh!InRaws(list) = Mesh!ToSet(raw)
  BY <1>2 DEF Mesh!InRaws
<1> QED
  BY <1>3 DEF list

LEMMA MeshEmpty ==
  ASSUME NEW R
  PROVE  /\ Mesh!ToSet(<<>>) = {} /\ Mesh!InRaws(<<>>) = {} /\ InLists(<<>>) = {}
         /\ Sorted(<<>>, R) /\ Ranked(<<>>, R)
  BY DEF Mesh!ToSet, Mesh!InRaws, InLists, Sorted, Ranked

LEMMA MeshJoins ==
  ASSUME NEW X, NEW s \in Seq(X), NEW t \in Seq(X)
  PROVE  Mesh!ToSet(s \o t) = Mesh!ToSet(s) \cup Mesh!ToSet(t)
<1>1. /\ s \o t \in Seq(X) /\ Len(s) \in Nat /\ Len(t) \in Nat
      /\ DOMAIN s = 1 .. Len(s) /\ DOMAIN t = 1 .. Len(t)
      /\ DOMAIN (s \o t) = 1 .. Len(s) + Len(t)
      /\ \A i \in 1 .. Len(s) + Len(t) : (s \o t)[i] = IF i <= Len(s) THEN s[i] ELSE t[i - Len(s)]
  OBVIOUS
<1> DEFINE u == s \o t
<1> HIDE DEF u
<1>2. ASSUME NEW i \in DOMAIN s
      PROVE  i \in DOMAIN u /\ u[i] = s[i]
  BY <1>1 DEF u
<1>3. ASSUME NEW i \in DOMAIN t
      PROVE  i + Len(s) \in DOMAIN u /\ u[i + Len(s)] = t[i]
  BY <1>1 DEF u
<1>4. ASSUME NEW i \in DOMAIN u
      PROVE  \/ i \in DOMAIN s /\ u[i] = s[i]
             \/ i - Len(s) \in DOMAIN t /\ u[i] = t[i - Len(s)]
  BY <1>1 DEF u
<1>5. Mesh!ToSet(u) = Mesh!ToSet(s) \cup Mesh!ToSet(t)
  BY <1>2, <1>3, <1>4 DEF Mesh!ToSet
<1> QED
  BY <1>5 DEF u

LEMMA MeshSorts ==
  ASSUME NEW X, NEW s \in Seq(X), NEW t \in Seq(X), NEW R,
         Sorted(s, R), Sorted(t, R), Before(Mesh!ToSet(s), Mesh!ToSet(t), R)
  PROVE  Sorted(s \o t, R)
<1>1. /\ s \o t \in Seq(X) /\ Len(s) \in Nat /\ Len(t) \in Nat
      /\ DOMAIN s = 1 .. Len(s) /\ DOMAIN t = 1 .. Len(t)
      /\ DOMAIN (s \o t) = 1 .. Len(s) + Len(t)
      /\ \A i \in 1 .. Len(s) + Len(t) : (s \o t)[i] = IF i <= Len(s) THEN s[i] ELSE t[i - Len(s)]
  OBVIOUS
<1> DEFINE u == s \o t
<1> HIDE DEF u
<1>2. ASSUME NEW i \in DOMAIN u
      PROVE  /\ i \in Int
             /\ \/ i \in DOMAIN s /\ u[i] = s[i]
                \/ i - Len(s) \in DOMAIN t /\ u[i] = t[i - Len(s)]
  BY <1>1 DEF u
<1>3. ASSUME NEW i \in DOMAIN u, NEW j \in DOMAIN u, i < j
      PROVE  <<u[i], u[j]>> \in R
  <2>1. CASE i \in DOMAIN s /\ u[i] = s[i] /\ j \in DOMAIN s /\ u[j] = s[j]
    BY <1>3, <2>1 DEF Sorted
  <2>2. CASE i \in DOMAIN s /\ u[i] = s[i] /\ j - Len(s) \in DOMAIN t /\ u[j] = t[j - Len(s)]
    <3>1. u[i] \in Mesh!ToSet(s) /\ u[j] \in Mesh!ToSet(t)
      BY <2>2 DEF Mesh!ToSet
    <3> QED
      BY <3>1 DEF Before
  <2>3. CASE i - Len(s) \in DOMAIN t /\ u[i] = t[i - Len(s)] /\ j \in DOMAIN s
    <3>1. i - Len(s) >= 1 /\ j <= Len(s) /\ j \in Int /\ i \in Int
      BY <1>1, <1>2, <2>3
    <3> QED
      BY <1>1, <1>3, <3>1
  <2>4. CASE /\ i - Len(s) \in DOMAIN t /\ u[i] = t[i - Len(s)]
             /\ j - Len(s) \in DOMAIN t /\ u[j] = t[j - Len(s)]
    <3>1. i - Len(s) < j - Len(s)
      BY <1>1, <1>2, <1>3
    <3> QED
      BY <2>4, <3>1 DEF Sorted
  <2> QED
    BY <1>2, <2>1, <2>2, <2>3, <2>4
<1>4. Sorted(u, R)
  BY <1>3 DEF Sorted
<1> QED
  BY <1>4 DEF u

(* A raw, or a list of raws, comes to the end of a list.  *)
LEMMA MeshEnds ==
  ASSUME NEW X, NEW list \in Seq(X), NEW raw \in X
  PROVE  /\ Append(list, raw) \in Seq(X)
         /\ DOMAIN Append(list, raw) = DOMAIN list \cup {Len(list) + 1}
         /\ \A i \in DOMAIN list : Append(list, raw)[i] = list[i] /\ i < Len(list) + 1 /\ i \in Nat
         /\ Append(list, raw)[Len(list) + 1] = raw /\ Len(list) + 1 \in Nat
  OBVIOUS

LEMMA MeshAppends ==
  ASSUME NEW X, NEW list \in Seq(X), NEW raw \in X
  PROVE  /\ Append(list, raw) \in Seq(X)
         /\ Mesh!ToSet(Append(list, raw)) = Mesh!ToSet(list) \cup {raw}
         /\ Mesh!InRaws(Append(list, raw)) = Mesh!InRaws(list) \cup Mesh!ToSet(raw)
         /\ InLists(Append(list, raw)) = InLists(list) \cup Mesh!InRaws(raw)
<1> DEFINE u == Append(list, raw)
           n == Len(list) + 1
<1>1. /\ u \in Seq(X) /\ DOMAIN u = DOMAIN list \cup {n}
      /\ \A i \in DOMAIN list : u[i] = list[i]
      /\ u[n] = raw
  BY MeshEnds
<1> HIDE DEF u, n
<1>2. Mesh!ToSet(u) = Mesh!ToSet(list) \cup {raw}
  BY <1>1 DEF Mesh!ToSet
<1>3. Mesh!InRaws(u) = Mesh!InRaws(list) \cup Mesh!ToSet(raw)
  BY <1>1, MeshIn
<1>4. InLists(u) = InLists(list) \cup Mesh!InRaws(raw)
  BY <1>1, MeshIn
<1> QED
  BY <1>1, <1>2, <1>3, <1>4 DEF u

LEMMA MeshRanks ==
  ASSUME NEW X, NEW list \in Seq(X), NEW raw \in X, NEW R,
         Ranked(list, R), Sorted(raw, R), Before(Mesh!InRaws(list), Mesh!ToSet(raw), R)
  PROVE  Ranked(Append(list, raw), R)
<1> DEFINE u == Append(list, raw)
           n == Len(list) + 1
<1>1. /\ DOMAIN u = DOMAIN list \cup {n}
      /\ \A i \in DOMAIN list : u[i] = list[i] /\ i < n /\ i \in Nat
      /\ u[n] = raw /\ n \in Nat
  BY MeshEnds
<1> HIDE DEF u, n
<1>2. \A i \in DOMAIN u : Sorted(u[i], R)
  BY <1>1 DEF Ranked
<1>3. ASSUME NEW i \in DOMAIN u, NEW j \in DOMAIN u, i < j
      PROVE  Before(Mesh!ToSet(u[i]), Mesh!ToSet(u[j]), R)
  <2>1. i \in DOMAIN list /\ u[i] = list[i]
    BY <1>1, <1>3
  <2>2. CASE j \in DOMAIN list
    BY <1>1, <1>3, <2>1, <2>2 DEF Ranked
  <2>3. CASE j = n
    <3>1. \A x \in Mesh!ToSet(u[i]) : x \in Mesh!InRaws(list)
      BY <2>1, MeshIn
    <3> QED
      BY <1>1, <2>3, <3>1 DEF Before
  <2> QED
    BY <1>1, <2>2, <2>3
<1>4. Ranked(u, R)
  BY <1>2, <1>3 DEF Ranked
<1> QED
  BY <1>4 DEF u

(* The first leaves a list.  *)
LEMMA MeshHead ==
  ASSUME NEW X, NEW list \in Seq(X), list # <<>>
  PROVE  /\ Head(list) = list[1] /\ 1 \in DOMAIN list
         /\ Head(list) \in X /\ Tail(list) \in Seq(X)
         /\ \A i \in DOMAIN Tail(list) : i + 1 \in DOMAIN list /\ Tail(list)[i] = list[i + 1] /\ i \in Nat /\ 1 < i + 1
         /\ \A i \in DOMAIN list : i = 1 \/ (i - 1 \in DOMAIN Tail(list) /\ Tail(list)[i - 1] = list[i])
  OBVIOUS

LEMMA MeshTails ==
  ASSUME NEW X, NEW list \in Seq(X), list # <<>>
  PROVE  /\ Head(list) \in X /\ Tail(list) \in Seq(X)
         /\ Mesh!InRaws(list) = Mesh!ToSet(Head(list)) \cup Mesh!InRaws(Tail(list))
         /\ InLists(list) = Mesh!InRaws(Head(list)) \cup InLists(Tail(list))
<1> DEFINE u == Tail(list)
           h == Head(list)
<1>1. /\ h = list[1] /\ 1 \in DOMAIN list /\ h \in X /\ u \in Seq(X)
      /\ \A i \in DOMAIN u : i + 1 \in DOMAIN list /\ u[i] = list[i + 1]
      /\ \A i \in DOMAIN list : i = 1 \/ (i - 1 \in DOMAIN u /\ u[i - 1] = list[i])
  BY MeshHead
<1> HIDE DEF u, h
<1>2. Mesh!InRaws(list) = Mesh!ToSet(h) \cup Mesh!InRaws(u)
  <2>1. ASSUME NEW x \in Mesh!InRaws(list)
        PROVE  x \in Mesh!ToSet(h) \cup Mesh!InRaws(u)
    <3>1. PICK i \in DOMAIN list : x \in Mesh!ToSet(list[i])
      BY MeshIn
    <3>2. CASE i = 1
      BY <1>1, <3>1, <3>2
    <3>3. CASE i - 1 \in DOMAIN u /\ u[i - 1] = list[i]
      BY <3>1, <3>3, MeshIn
    <3> QED
      BY <1>1, <3>2, <3>3
  <2>2. ASSUME NEW x \in Mesh!ToSet(h)
        PROVE  x \in Mesh!InRaws(list)
    BY <1>1, MeshIn
  <2>3. ASSUME NEW x \in Mesh!InRaws(u)
        PROVE  x \in Mesh!InRaws(list)
    BY <1>1, MeshIn
  <2> QED
    BY <2>1, <2>2, <2>3
<1>3. InLists(list) = Mesh!InRaws(h) \cup InLists(u)
  <2>1. ASSUME NEW x \in InLists(list)
        PROVE  x \in Mesh!InRaws(h) \cup InLists(u)
    <3>1. PICK i \in DOMAIN list : x \in Mesh!InRaws(list[i])
      BY MeshIn
    <3>2. CASE i = 1
      BY <1>1, <3>1, <3>2
    <3>3. CASE i - 1 \in DOMAIN u /\ u[i - 1] = list[i]
      BY <3>1, <3>3, MeshIn
    <3> QED
      BY <1>1, <3>2, <3>3
  <2>2. ASSUME NEW x \in Mesh!InRaws(h)
        PROVE  x \in InLists(list)
    BY <1>1, MeshIn
  <2>3. ASSUME NEW x \in InLists(u)
        PROVE  x \in InLists(list)
    BY <1>1, MeshIn
  <2> QED
    BY <2>1, <2>2, <2>3
<1> QED
  BY <1>1, <1>2, <1>3 DEF u, h

LEMMA MeshRankedTail ==
  ASSUME NEW X, NEW list \in Seq(X), list # <<>>, NEW R, Ranked(list, R)
  PROVE  /\ Sorted(Head(list), R) /\ Ranked(Tail(list), R)
         /\ Before(Mesh!ToSet(Head(list)), Mesh!InRaws(Tail(list)), R)
<1> DEFINE u == Tail(list)
           h == Head(list)
<1>1. /\ h = list[1] /\ 1 \in DOMAIN list
      /\ \A i \in DOMAIN u : i + 1 \in DOMAIN list /\ u[i] = list[i + 1] /\ i \in Nat /\ 1 < i + 1
  BY MeshHead
<1> HIDE DEF u, h
<1>2. Sorted(h, R)
  BY <1>1 DEF Ranked
<1>3. Ranked(u, R)
  <2>1. \A i \in DOMAIN u : Sorted(u[i], R)
    BY <1>1 DEF Ranked
  <2>2. ASSUME NEW i \in DOMAIN u, NEW j \in DOMAIN u, i < j
        PROVE  Before(Mesh!ToSet(u[i]), Mesh!ToSet(u[j]), R)
    <3>1. i + 1 < j + 1
      BY <1>1, <2>2
    <3> QED
      BY <1>1, <3>1 DEF Ranked
  <2> QED
    BY <2>1, <2>2 DEF Ranked
<1>4. ASSUME NEW a \in Mesh!ToSet(h), NEW b \in Mesh!InRaws(u)
      PROVE  <<a, b>> \in R
  <2>1. PICK i \in DOMAIN u : b \in Mesh!ToSet(u[i])
    BY MeshIn
  <2>2. Before(Mesh!ToSet(list[1]), Mesh!ToSet(list[i + 1]), R)
    BY <1>1 DEF Ranked
  <2> QED
    BY <1>1, <2>1, <2>2 DEF Before
<1> QED
  BY <1>2, <1>3, <1>4 DEF Before, u, h

MeshPages == [queue : Seq(Seq(Nat)), sent : Seq(Nat), gone : SUBSET Nat]

(* What was sent, what is queued, a list that is being sent, and what else *)
(* there is to send, in this order.                                        *)
MeshLine(o, list, B, R) ==
  /\ o \in MeshPages /\ list \in Seq(Seq(Nat))
  /\ Sorted(o.sent, R) /\ Ranked(o.queue, R) /\ Ranked(list, R)
  /\ Before(Mesh!ToSet(o.sent), Mesh!InRaws(o.queue) \cup Mesh!InRaws(list) \cup B, R)
  /\ Before(Mesh!InRaws(o.queue), Mesh!InRaws(list) \cup B, R)
  /\ Before(Mesh!InRaws(list), B, R)

MeshAll(o, list) ==
  Mesh!ToSet(o.sent) \cup Mesh!InRaws(o.queue) \cup Mesh!InRaws(list) \cup o.gone

MeshSent(o, raw, state, u) ==
  /\ u \in MeshPages
  /\ state = "open" => u.sent = o.sent \o raw /\ u.queue = o.queue /\ u.gone = o.gone
  /\ state = "closing" => /\ u.sent = o.sent /\ u.queue = o.queue
                          /\ u.gone = o.gone \cup Mesh!ToSet(raw)
  /\ state \notin {"open", "closing"} =>
       u.sent = o.sent /\ u.queue = Append(o.queue, raw) /\ u.gone = o.gone

LEMMA MeshSend ==
  ASSUME NEW o \in MeshPages, NEW raw \in Seq(Nat), NEW state
  PROVE  MeshSent(o, raw, state, Mesh!Send(o, raw, state))
<1> DEFINE u == Mesh!Send(o, raw, state)
<1>0. u = Mesh!Send(o, raw, state)
  OBVIOUS
<1> SUFFICES MeshSent(o, raw, state, u)
  OBVIOUS
<1> HIDE DEF u
<1>1. /\ o = [queue |-> o.queue, sent |-> o.sent, gone |-> o.gone]
      /\ o.queue \in Seq(Seq(Nat)) /\ o.sent \in Seq(Nat) /\ o.gone \in SUBSET Nat
  BY DEF MeshPages
<1>2. Mesh!ToSet(raw) \subseteq Nat
  BY DEF Mesh!ToSet
<1>3. o.sent \o raw \in Seq(Nat) /\ Append(o.queue, raw) \in Seq(Seq(Nat))
  BY <1>1
<1>4. CASE state = "open"
  <2>1. u = [o EXCEPT !.sent = @ \o raw]
    BY <1>0, <1>4 DEF Mesh!Send
  <2>2. u = [queue |-> o.queue, sent |-> o.sent \o raw, gone |-> o.gone]
    BY <1>1, <2>1
  <2>3. u \in MeshPages
    BY <1>1, <1>3, <2>2 DEF MeshPages
  <2> QED
    BY <1>4, <2>2, <2>3 DEF MeshSent
<1>5. CASE state = "closing"
  <2>1. u = [o EXCEPT !.gone = @ \cup Mesh!ToSet(raw)]
    BY <1>0, <1>5 DEF Mesh!Send
  <2>2. u = [queue |-> o.queue, sent |-> o.sent, gone |-> o.gone \cup Mesh!ToSet(raw)]
    BY <1>1, <2>1
  <2>3. u \in MeshPages
    BY <1>1, <1>2, <2>2 DEF MeshPages
  <2> QED
    BY <1>5, <2>2, <2>3 DEF MeshSent
<1>6. CASE state \notin {"open", "closing"}
  <2>1. u = [o EXCEPT !.queue = Append(@, raw)]
    BY <1>0, <1>6 DEF Mesh!Send
  <2>2. u = [queue |-> Append(o.queue, raw), sent |-> o.sent, gone |-> o.gone]
    BY <1>1, <2>1
  <2>3. u \in MeshPages
    BY <1>1, <1>3, <2>2 DEF MeshPages
  <2> QED
    BY <1>6, <2>2, <2>3 DEF MeshSent
<1> QED
  BY <1>4, <1>5, <1>6

(* One raw of a list is sent, queued or swallowed, and nothing else        *)
(* changes; the queue is not overtaken if it is empty.                     *)
MeshMoves(o, list, u, rest, state) ==
  /\ MeshAll(u, rest) = MeshAll(o, list)
  /\ state \in {"open", "closing"} => u.queue = o.queue

LEMMA MeshSendKeeps ==
  ASSUME NEW o, NEW list, NEW B, NEW R, NEW state, MeshLine(o, list, B, R), list # <<>>,
         state = "open" => o.queue = <<>> \/ Symmetric(R)
  PROVE  LET u == Mesh!Send(o, Head(list), state)
         IN MeshLine(u, Tail(list), B, R) /\ MeshMoves(o, list, u, Tail(list), state)
<1> DEFINE raw == Head(list)
           rest == Tail(list)
           u == Mesh!Send(o, raw, state)
<1>1. /\ o \in MeshPages /\ list \in Seq(Seq(Nat))
      /\ Sorted(o.sent, R) /\ Ranked(o.queue, R)
      /\ Before(Mesh!ToSet(o.sent), Mesh!InRaws(o.queue) \cup Mesh!InRaws(list) \cup B, R)
      /\ Before(Mesh!InRaws(o.queue), Mesh!InRaws(list) \cup B, R)
      /\ Before(Mesh!InRaws(list), B, R)
  BY DEF MeshLine
<1>2. /\ raw \in Seq(Nat) /\ rest \in Seq(Seq(Nat))
      /\ Mesh!InRaws(list) = Mesh!ToSet(raw) \cup Mesh!InRaws(rest)
  BY <1>1, MeshTails
<1>3. Sorted(raw, R) /\ Ranked(rest, R) /\ Before(Mesh!ToSet(raw), Mesh!InRaws(rest), R)
  BY <1>1, MeshRankedTail DEF MeshLine
<1>0. MeshSent(o, raw, state, u)
  BY <1>1, <1>2, MeshSend, Zenon
<1> HIDE DEF raw, rest, u
<1>4. /\ u \in MeshPages
      /\ state = "open" => u.sent = o.sent \o raw /\ u.queue = o.queue /\ u.gone = o.gone
      /\ state = "closing" => /\ u.sent = o.sent /\ u.queue = o.queue
                              /\ u.gone = o.gone \cup Mesh!ToSet(raw)
      /\ state \notin {"open", "closing"} =>
           u.sent = o.sent /\ u.queue = Append(o.queue, raw) /\ u.gone = o.gone
  BY <1>0 DEF MeshSent
<1>5. o.sent \in Seq(Nat) /\ o.queue \in Seq(Seq(Nat))
  BY <1>1 DEF MeshPages
<1>6. CASE state = "open"
  <2>1. /\ u.sent = o.sent \o raw /\ u.queue = o.queue /\ u.gone = o.gone
        /\ o.queue = <<>> \/ Symmetric(R)
    BY <1>4, <1>6
  <2>2. Mesh!ToSet(u.sent) = Mesh!ToSet(o.sent) \cup Mesh!ToSet(raw)
    BY <1>2, <1>5, <2>1, MeshJoins
  <2>3. Before(Mesh!ToSet(o.sent), Mesh!ToSet(raw), R)
    BY <1>1, <1>2 DEF Before
  <2>4. Sorted(u.sent, R)
    BY <1>1, <1>2, <1>3, <1>5, <2>1, <2>3, MeshSorts
  <2>5. Before(Mesh!ToSet(raw), Mesh!InRaws(o.queue), R)
    BY <1>1, <1>2, <2>1, MeshEmpty DEF Before, Symmetric
  <2>6. Before(Mesh!ToSet(u.sent), Mesh!InRaws(u.queue) \cup Mesh!InRaws(rest) \cup B, R)
    BY <1>1, <1>2, <1>3, <2>1, <2>2, <2>5 DEF Before
  <2>7. Before(Mesh!InRaws(u.queue), Mesh!InRaws(rest) \cup B, R) /\ Before(Mesh!InRaws(rest), B, R)
    BY <1>1, <1>2, <2>1 DEF Before
  <2>8. MeshLine(u, rest, B, R)
    BY <1>1, <1>2, <1>3, <1>4, <2>1, <2>4, <2>6, <2>7 DEF MeshLine
  <2>9. MeshMoves(o, list, u, rest, state)
    BY <1>2, <2>1, <2>2 DEF MeshMoves, MeshAll
  <2> QED
    BY <2>8, <2>9 DEF u, rest, raw
<1>7. CASE state = "closing"
  <2>1. u.sent = o.sent /\ u.queue = o.queue /\ u.gone = o.gone \cup Mesh!ToSet(raw)
    BY <1>4, <1>7
  <2>2. /\ Before(Mesh!ToSet(u.sent), Mesh!InRaws(u.queue) \cup Mesh!InRaws(rest) \cup B, R)
        /\ Before(Mesh!InRaws(u.queue), Mesh!InRaws(rest) \cup B, R)
        /\ Before(Mesh!InRaws(rest), B, R)
    BY <1>1, <1>2, <2>1 DEF Before
  <2>3. MeshLine(u, rest, B, R)
    BY <1>1, <1>2, <1>3, <1>4, <2>1, <2>2 DEF MeshLine
  <2>4. MeshMoves(o, list, u, rest, state)
    BY <1>2, <2>1 DEF MeshMoves, MeshAll
  <2> QED
    BY <2>3, <2>4 DEF u, rest, raw
<1>8. CASE state \notin {"open", "closing"}
  <2>1. u.sent = o.sent /\ u.queue = Append(o.queue, raw) /\ u.gone = o.gone
    BY <1>4, <1>8
  <2>2. Mesh!InRaws(u.queue) = Mesh!InRaws(o.queue) \cup Mesh!ToSet(raw)
    BY <1>2, <1>5, <2>1, MeshAppends
  <2>3. Before(Mesh!InRaws(o.queue), Mesh!ToSet(raw), R)
    BY <1>1, <1>2 DEF Before
  <2>4. Ranked(u.queue, R)
    BY <1>1, <1>2, <1>3, <1>5, <2>1, <2>3, MeshRanks
  <2>5. Before(Mesh!ToSet(u.sent), Mesh!InRaws(u.queue) \cup Mesh!InRaws(rest) \cup B, R)
    BY <1>1, <1>2, <2>1, <2>2 DEF Before
  <2>6. Before(Mesh!InRaws(u.queue), Mesh!InRaws(rest) \cup B, R) /\ Before(Mesh!InRaws(rest), B, R)
    BY <1>1, <1>2, <1>3, <2>2 DEF Before
  <2>7. MeshLine(u, rest, B, R)
    BY <1>1, <1>2, <1>3, <1>4, <2>1, <2>4, <2>5, <2>6 DEF MeshLine
  <2>8. MeshMoves(o, list, u, rest, state)
    BY <1>2, <1>8, <2>1, <2>2 DEF MeshMoves, MeshAll
  <2> QED
    BY <2>7, <2>8 DEF u, rest, raw
<1> QED
  BY <1>6, <1>7, <1>8

(* The lists that SendFirst goes through.  *)
MeshFrom(list, i) == SubSeq(list, i + 1, Len(list))

MeshHistory(h, o, list, state) ==
  LET n == Mesh!Least(MeshS, Len(list)) IN
  /\ h[0] = o
  /\ \A i \in 1 .. n : h[i] = Mesh!Send(h[i - 1], list[i], state)
  /\ Mesh!SendFirst(o, list, state) = h[n]

MeshSends(h, o, list, state, n) ==
  h = [i \in 0 .. n |-> IF i = 0 THEN o ELSE Mesh!Send(h[i - 1], list[i], state)]

LEMMA MeshSendExists ==
  ASSUME NEW o, NEW list, NEW state, NEW n \in Nat
  PROVE  \E h : MeshSends(h, o, list, state, n)
<1> DEFINE Sends(h, b) == MeshSends(h, o, list, state, b)
           No == {b \in Nat : ~ \E h : Sends(h, b)}
<1>1. SUFFICES ASSUME No # {} PROVE FALSE
  OBVIOUS
<1>2. PICK b \in No : \A k \in No : b <= k
  BY <1>1, LeastNatural
<1>3. b # 0
  <2>1. Sends([i \in 0 .. 0 |-> o], 0)
    BY DEF MeshSends
  <2> QED
    BY <1>2, <2>1
<1>4. b - 1 \in Nat /\ ~(b <= b - 1)
  BY <1>2, <1>3
<1>5. PICK h : Sends(h, b - 1)
  BY <1>2, <1>4
<1> DEFINE g == [i \in 0 .. b |-> IF i = b THEN Mesh!Send(h[b - 1], list[b], state) ELSE h[i]]
<1>6. ASSUME NEW i \in 0 .. b
      PROVE  g[i] = IF i = 0 THEN o ELSE Mesh!Send(g[i - 1], list[i], state)
  <2>1. CASE i = b
    BY <1>3, <1>4, <2>1
  <2>2. CASE i # b
    <3>1. i \in 0 .. b - 1 /\ g[i] = h[i]
      BY <1>2, <2>2
    <3>2. h[i] = IF i = 0 THEN o ELSE Mesh!Send(h[i - 1], list[i], state)
      BY <1>5, <3>1 DEF MeshSends
    <3>3. i # 0 => g[i - 1] = h[i - 1]
      BY <1>2, <3>1
    <3> QED
      BY <3>1, <3>2, <3>3
  <2> QED
    BY <2>1, <2>2
<1>7. Sends(g, b)
  BY <1>6 DEF MeshSends
<1> QED
  BY <1>2, <1>7

LEMMA MeshSendFirst ==
  ASSUME NEW o, NEW list, NEW state, Len(list) \in Nat
  PROVE  \E h : MeshHistory(h, o, list, state)
<1> DEFINE n == Mesh!Least(MeshS, Len(list))
           h == CHOOSE h : MeshSends(h, o, list, state, n)
<1>1. n \in Nat
  BY NetworkAssumption DEF Mesh!MeshAssumption, Mesh!Least
<1>2. Mesh!SendFirst(o, list, state) = h[n]
  BY DEF Mesh!SendFirst, MeshSends
<1> HIDE DEF n
<1>3. MeshSends(h, o, list, state, n)
  BY <1>1, MeshSendExists
<1> HIDE DEF h
<1>4. h[0] = o /\ \A i \in 1 .. n : h[i] = Mesh!Send(h[i - 1], list[i], state)
  BY <1>1, <1>3 DEF MeshSends
<1> QED
  BY <1>2, <1>4 DEF MeshHistory, n

LEMMA MeshRest ==
  ASSUME NEW X, NEW list \in Seq(X), NEW i \in Nat, i < Len(list)
  PROVE  /\ MeshFrom(list, i) # <<>> /\ Head(MeshFrom(list, i)) = list[i + 1]
         /\ Tail(MeshFrom(list, i)) = MeshFrom(list, i + 1)
<1>1. Len(list) \in Nat
  OBVIOUS
<1>2. i + 1 \in 1 .. Len(list) /\ Len(list) \in i + 1 .. Len(list)
  BY <1>1
<1>3. /\ Head(SubSeq(list, i + 1, Len(list))) = list[i + 1]
      /\ Tail(SubSeq(list, i + 1, Len(list))) = SubSeq(list, i + 1 + 1, Len(list))
  BY <1>2, HeadTailOfSubSeq, Zenon
<1>4. Len(SubSeq(list, i + 1, Len(list))) = Len(list) - i
  BY <1>1, <1>2
<1>5. SubSeq(list, i + 1, Len(list)) # <<>>
  <2>1. Len(<<>>) = 0 /\ Len(SubSeq(list, i + 1, Len(list))) # 0
    BY <1>1, <1>4
  <2> QED
    BY <2>1, Zenon
<1> QED
  BY <1>3, <1>5 DEF MeshFrom

LEMMA MeshSendFirstKeeps ==
  ASSUME NEW o, NEW list, NEW B, NEW R, NEW state, MeshLine(o, list, B, R),
         state = "open" => o.queue = <<>> \/ Symmetric(R)
  PROVE  LET u == Mesh!SendFirst(o, list, state)
         IN MeshLine(u, Mesh!Rest(list), B, R) /\ MeshMoves(o, list, u, Mesh!Rest(list), state)
<1> DEFINE n == Mesh!Least(MeshS, Len(list))
           u == Mesh!SendFirst(o, list, state)
<1>1. list \in Seq(Seq(Nat)) /\ Len(list) \in Nat
  BY DEF MeshLine
<1>2. n \in Nat /\ n <= Len(list)
  BY <1>1, NetworkAssumption DEF Mesh!MeshAssumption, Mesh!Least
<1>3. PICK h : MeshHistory(h, o, list, state)
  BY <1>1, MeshSendFirst
<1>4. /\ h[0] = o /\ \A i \in 1 .. n : h[i] = Mesh!Send(h[i - 1], list[i], state)
      /\ u = h[n]
  BY <1>3 DEF MeshHistory
<1>5. Mesh!Rest(list) = MeshFrom(list, n)
  BY DEF Mesh!Rest, MeshFrom
<1> DEFINE Good(i) == /\ MeshLine(h[i], MeshFrom(list, i), B, R)
                      /\ MeshMoves(o, list, h[i], MeshFrom(list, i), state)
           Bad == {i \in 0 .. n : ~Good(i)}
<1> HIDE DEF n, u
<1>6. Good(0)
  <2>1. MeshFrom(list, 0) = list
    <3>1. SubSeq(list, 1, Len(list)) = list
      BY <1>1, SubSeqFull
    <3> QED
      BY <3>1 DEF MeshFrom
  <2> QED
    BY <1>4, <2>1 DEF MeshMoves
<1>7. ASSUME NEW i \in 1 .. n, Good(i - 1)
      PROVE  Good(i)
  <2> DEFINE p == h[i - 1]
             list2 == MeshFrom(list, i - 1)
             q == Mesh!Send(p, Head(list2), state)
  <2>1. i - 1 \in Nat /\ i - 1 < Len(list) /\ (i - 1) + 1 = i
    BY <1>1, <1>2
  <2>2. list2 # <<>> /\ Head(list2) = list[i] /\ Tail(list2) = MeshFrom(list, i)
    BY <1>1, <2>1, MeshRest
  <2>3. MeshLine(p, list2, B, R) /\ MeshMoves(o, list, p, list2, state)
    BY <1>7
  <2>4. h[i] = q
    BY <1>4, <2>2
  <2> HIDE DEF list2, p
  <2>5. state = "open" => p.queue = <<>> \/ Symmetric(R)
    BY <2>3 DEF MeshMoves
  <2>6. MeshLine(q, Tail(list2), B, R) /\ MeshMoves(p, list2, q, Tail(list2), state)
    BY <2>2, <2>3, <2>5, MeshSendKeeps
  <2>7. MeshMoves(o, list, q, Tail(list2), state)
    BY <2>3, <2>6 DEF MeshMoves
  <2> QED
    BY <2>2, <2>4, <2>6, <2>7
<1>8. Bad = {}
  <2> SUFFICES ASSUME Bad # {} PROVE FALSE
    OBVIOUS
  <2>1. Bad \in SUBSET Nat
    OBVIOUS
  <2> HIDE DEF Good
  <2>2. PICK i \in Bad : \A k \in Bad : i <= k
    <3> HIDE DEF Bad
    <3> QED
      BY <2>1, LeastNatural
  <2>3. i \in 1 .. n
    BY <1>2, <1>6, <2>2
  <2>4. i - 1 \in 0 .. n /\ ~(i <= i - 1)
    BY <1>2, <2>3
  <2>5. Good(i - 1)
    BY <2>2, <2>4
  <2> QED
    BY <1>7, <2>2, <2>3, <2>5
<1>9. Good(n)
  BY <1>2, <1>8
<1> QED
  BY <1>4, <1>5, <1>9 DEF u

(* A batch, or a message, is sent unless it is empty.                      *)
LEMMA MeshFlushKeeps ==
  ASSUME NEW o, NEW b \in Seq(Nat), NEW C, NEW R, NEW state,
         MeshLine(o, <<>>, Mesh!ToSet(b) \cup C, R), Sorted(b, R),
         Before(Mesh!ToSet(b), C, R),
         state = "open" => o.queue = <<>> \/ Symmetric(R)
  PROVE  LET u == Mesh!FlushOf(o, b, state)
         IN MeshLine(u, <<>>, C, R) /\ MeshMoves(o, <<b>>, u, <<>>, state)
<1>1. /\ <<b>> \in Seq(Seq(Nat)) /\ <<b>> # <<>> /\ Head(<<b>>) = b /\ Tail(<<b>>) = <<>>
      /\ DOMAIN <<b>> = {1} /\ <<b>>[1] = b
  OBVIOUS
<1>2. Mesh!InRaws(<<b>>) = Mesh!ToSet(b)
  BY MeshOne
<1>3. Ranked(<<b>>, R)
  BY <1>1 DEF Ranked
<1>4. MeshLine(o, <<b>>, C, R)
  BY <1>1, <1>2, <1>3, MeshEmpty DEF MeshLine, Before
<1>5. CASE b = <<>>
  <2>1. Mesh!FlushOf(o, b, state) = o
    BY <1>5 DEF Mesh!FlushOf
  <2>2. MeshLine(o, <<>>, C, R)
    BY MeshEmpty DEF MeshLine, Before
  <2>3. MeshMoves(o, <<b>>, o, <<>>, state)
    BY <1>2, <1>5, MeshEmpty DEF MeshMoves, MeshAll
  <2> QED
    BY <2>1, <2>2, <2>3
<1>6. CASE b # <<>>
  <2>1. Mesh!FlushOf(o, b, state) = Mesh!Send(o, Head(<<b>>), state)
    BY <1>1, <1>6 DEF Mesh!FlushOf
  <2> QED
    BY <1>1, <1>4, <2>1, MeshSendKeeps
<1> QED
  BY <1>5, <1>6

MeshStates == {"none", "connecting", "open", "closing", "closed"}

MeshType ==
  /\ messages \in Nat /\ missed \in SUBSET Nat
  /\ queue \in Seq(Seq(Nat)) /\ mesh_sent \in Seq(Nat) /\ gone \in SUBSET Nat
  /\ batch \in Seq(Nat) /\ rests \in Seq(Seq(Seq(Nat)))

(* Sockets other than the peer's are only live if one was asked for        *)
(* outside of reconnect's turn.                                            *)
MeshSockets ==
  /\ opened \in 0 .. MeshMaxSockets /\ wire \in 0 .. opened
  /\ socket \in [1 .. MeshMaxSockets -> MeshStates]
  /\ defer \in {0, 1} /\ loose \in Nat
  /\ open \in BOOLEAN /\ mesh_cut \in BOOLEAN /\ aside \in BOOLEAN
  /\ \A s \in 1 .. MeshMaxSockets : s > opened => socket[s] = "none"
  /\ ~aside => /\ \A s \in 1 .. MeshMaxSockets : Mesh!Live(s) => s = wire
               /\ defer > 0 => wire = 0

(* Nothing waits in a queue while the peer's socket is open, unless hi is  *)
(* about to send it, has given up its turn or asked before it.             *)
MeshCalm ==
  /\ ~open => batch = <<>>
  /\ ~mesh_cut => rests = <<>>
  /\ ~mesh_cut /\ hello # 0 /\ Mesh!StateOf(wire) \in {"open", "closing"} => queue = <<>>

(* All that was said is somewhere.                                         *)
MeshBooks ==
  1 .. messages = MeshAll(Mesh!Out, <<>>) \cup Mesh!ToSet(batch) \cup InLists(rests) \cup missed

MeshRests(lists, R) ==
  /\ \A i \in DOMAIN lists : Ranked(lists[i], R)
  /\ \A i, j \in DOMAIN lists : i < j => Before(Mesh!InRaws(lists[i]), Mesh!InRaws(lists[j]), R)

(* What was sent is before what is queued, and that before the batch.      *)
MeshOrder(R) ==
  /\ MeshLine(Mesh!Out, <<>>, Mesh!ToSet(batch) \cup InLists(rests), R)
  /\ Sorted(batch, R) /\ Before(Mesh!ToSet(batch), InLists(rests), R)
  /\ MeshRests(rests, R)

MeshInv ==
  /\ MeshType /\ MeshSockets /\ MeshCalm /\ MeshBooks
  /\ MeshOrder(Differ)
  /\ ~mesh_cut => MeshOrder(Less)

(* The relation that goes with a step: Less while there is no cut.         *)
MeshFits(R) == R = Differ \/ (R = Less /\ ~mesh_cut)

LEMMA MeshRelations ==
  /\ Symmetric(Differ)
  /\ \A a, b \in Nat : (<<a, b>> \in Differ <=> a # b) /\ (<<a, b>> \in Less <=> a < b)
<1>1. Symmetric(Differ)
  <2>1. ASSUME NEW a, NEW b, <<a, b>> \in Differ
        PROVE  <<b, a>> \in Differ
    BY <2>1 DEF Differ
  <2> QED
    BY <2>1 DEF Symmetric
<1>2. ASSUME NEW a \in Nat, NEW b \in Nat
      PROVE  (<<a, b>> \in Differ <=> a # b) /\ (<<a, b>> \in Less <=> a < b)
  BY DEF Differ, Less
<1> QED
  BY <1>1, <1>2

(* The next message is after all others.  *)
LEMMA MeshNew ==
  ASSUME NEW n \in Nat, NEW A, A \subseteq 1 .. n, NEW R, R = Differ \/ R = Less
  PROVE  Before(A, {n + 1}, R) /\ (R = Differ => Before({n + 1}, A, R))
<1>1. ASSUME NEW a \in A
      PROVE  <<a, n + 1>> \in R /\ (R = Differ => <<n + 1, a>> \in R)
  <2>1. a \in Nat /\ a < n + 1 /\ a # n + 1 /\ n + 1 \in Nat
    OBVIOUS
  <2> QED
    BY <2>1, MeshRelations
<1> QED
  BY <1>1 DEF Before

LEMMA MeshOuts ==
  /\ Mesh!Out.queue = queue /\ Mesh!Out.sent = mesh_sent /\ Mesh!Out.gone = gone
  /\ Mesh!Out'.queue = queue' /\ Mesh!Out'.sent = mesh_sent' /\ Mesh!Out'.gone = gone'
  /\ \A u : u \in MeshPages /\ queue' = u.queue /\ mesh_sent' = u.sent /\ gone' = u.gone
            => Mesh!Out' = u
  BY DEF Mesh!Out, MeshPages

LEMMA MeshSingle ==
  ASSUME NEW m \in Nat, NEW R
  PROVE  /\ <<m>> \in Seq(Nat) /\ <<m>> # <<>> /\ Mesh!ToSet(<<m>>) = {m}
         /\ Sorted(<<m>>, R)
<1>1. <<m>> \in Seq(Nat) /\ <<m>> # <<>> /\ DOMAIN <<m>> = {1} /\ <<m>>[1] = m
  OBVIOUS
<1> QED
  BY <1>1 DEF Mesh!ToSet, Sorted

(* The state that a message finds the peer's wire in.  *)
MeshWireState == IF wire = 0 THEN "connecting" ELSE Mesh!StateOf(wire)

(* What a step in which something was said, or was flushed, leaves.        *)
MeshSaid(R, M) ==
  /\ MeshOrder(R)'
  /\ MeshAll(Mesh!Out, <<>>)' \cup Mesh!ToSet(batch') =
       MeshAll(Mesh!Out, <<>>) \cup Mesh!ToSet(batch) \cup M
  /\ MeshWireState \in {"open", "closing"} => queue' = queue

LEMMA MeshKnown ==
  ASSUME MeshInv
  PROVE  /\ Mesh!ToSet(mesh_sent) \subseteq 1 .. messages /\ Mesh!InRaws(queue) \subseteq 1 .. messages
         /\ Mesh!ToSet(batch) \subseteq 1 .. messages /\ InLists(rests) \subseteq 1 .. messages
         /\ gone \subseteq 1 .. messages /\ messages \in Nat
  BY MeshOuts DEF MeshInv, MeshBooks, MeshAll, MeshType

LEMMA MeshFlushStep ==
  ASSUME MeshInv, hello # 0, NEW R, MeshFits(R), MeshOrder(R),
         NEW state, state = "open" => Mesh!StateOf(wire) = "open",
         LET after == Mesh!FlushOf(Mesh!Out, batch, state) IN
         /\ queue' = after.queue
         /\ mesh_sent' = after.sent
         /\ gone' = after.gone,
         batch' = <<>>, rests' = rests
  PROVE  /\ MeshOrder(R)'
         /\ MeshAll(Mesh!Out, <<>>)' = MeshAll(Mesh!Out, <<>>) \cup Mesh!ToSet(batch)
         /\ state \in {"open", "closing"} => queue' = queue
<1> DEFINE u == Mesh!FlushOf(Mesh!Out, batch, state)
           C == InLists(rests)
<1>1. /\ batch \in Seq(Nat) /\ Sorted(batch, R) /\ Before(Mesh!ToSet(batch), C, R)
      /\ MeshLine(Mesh!Out, <<>>, Mesh!ToSet(batch) \cup C, R) /\ MeshRests(rests, R)
  BY DEF MeshInv, MeshType, MeshOrder
<1>2. state = "open" => Mesh!Out.queue = <<>> \/ Symmetric(R)
  BY MeshOuts, MeshRelations DEF MeshFits, MeshInv, MeshCalm
<1>3. MeshLine(u, <<>>, C, R) /\ MeshMoves(Mesh!Out, <<batch>>, u, <<>>, state)
  <2> HIDE DEF C
  <2> QED
    BY <1>1, <1>2, MeshFlushKeeps
<1>4. Mesh!Out' = u
  <2>1. u \in MeshPages
    BY <1>3 DEF MeshLine
  <2> QED
    BY <2>1, MeshOuts
<1> HIDE DEF u
<1>5. Mesh!InRaws(<<batch>>) = Mesh!ToSet(batch)
  BY MeshOne
<1>6. MeshOrder(R)'
  <2>1. MeshLine(u, <<>>, {} \cup C, R)
    BY <1>3
  <2>2. MeshLine(u, <<>>, Mesh!ToSet(<<>>) \cup C, R) /\ Sorted(<<>>, R)
        /\ Before(Mesh!ToSet(<<>>), C, R)
    BY <2>1, MeshEmpty DEF Before
  <2> QED
    BY <1>1, <1>4, <2>2 DEF MeshOrder
<1> QED
  BY <1>3, <1>4, <1>5, <1>6, MeshEmpty, MeshOuts DEF MeshMoves, MeshAll

LEMMA MeshSayToStep ==
  ASSUME MeshInv, hello # 0, NEW R, MeshFits(R), MeshOrder(R),
         Mesh!SayTo(messages + 1), rests' = rests
  PROVE  MeshSaid(R, {messages + 1})
<1> DEFINE m == messages + 1
           state == MeshWireState
           C == InLists(rests)
           A == Mesh!ToSet(mesh_sent) \cup Mesh!InRaws(queue) \cup Mesh!ToSet(batch)
           fits == open /\ Len(batch) < MeshPack
           u == Mesh!FlushOf(Mesh!Out, batch, state)
           v == Mesh!FlushOf(u, <<m>>, state)
<1>1. /\ batch \in Seq(Nat) /\ Sorted(batch, R) /\ Before(Mesh!ToSet(batch), C, R)
      /\ MeshLine(Mesh!Out, <<>>, Mesh!ToSet(batch) \cup C, R) /\ MeshRests(rests, R)
      /\ m \in Nat
  BY DEF MeshInv, MeshType, MeshOrder
<1>2. state = "open" => Mesh!Out.queue = <<>> \/ Symmetric(R)
  BY MeshOuts, MeshRelations DEF MeshFits, MeshInv, MeshCalm, MeshWireState
<1>3. /\ Before(A, {m}, R) /\ Before({m}, C, R)
      /\ A = Mesh!ToSet(Mesh!Out.sent) \cup Mesh!InRaws(Mesh!Out.queue) \cup Mesh!ToSet(batch)
  <2>1. messages \in Nat /\ A \subseteq 1 .. messages /\ C \subseteq 1 .. messages
    BY MeshKnown
  <2>2. R = Differ \/ R = Less
    BY DEF MeshFits
  <2>3. Before(A, {m}, R) /\ (R = Differ => Before({m}, C, R))
    <3> HIDE DEF A, C
    <3> QED
      BY <2>1, <2>2, MeshNew
  <2>4. R = Less /\ ~mesh_cut => C = {}
    BY MeshEmpty DEF MeshInv, MeshCalm
  <2>5. Before({m}, C, R)
    <3> HIDE DEF A, C
    <3>1. C = {} => Before({m}, C, R)
      BY DEF Before
    <3> QED
      BY <2>3, <2>4, <3>1 DEF MeshFits
  <2> QED
    BY <2>3, <2>5, MeshOuts
<1>4. /\ batch' = IF fits THEN Append(batch, m) ELSE <<>>
      /\ fits => queue' = queue /\ mesh_sent' = mesh_sent /\ gone' = gone
      /\ ~fits => queue' = v.queue /\ mesh_sent' = v.sent /\ gone' = v.gone
  <2>1. (IF open THEN batch ELSE <<>>) = batch
    BY DEF MeshInv, MeshCalm, MeshType
  <2>2. (IF wire = Mesh!None THEN "connecting" ELSE Mesh!StateOf(wire)) = state
    BY DEF MeshWireState, Mesh!None
  <2>3. Mesh!Send(u, <<m>>, state) = v
    BY <1>1, MeshSingle DEF Mesh!FlushOf
  <2>4. Mesh!FlushOf(Mesh!Out, IF open THEN batch ELSE <<>>,
                     IF wire = Mesh!None THEN "connecting" ELSE Mesh!StateOf(wire)) = u
    BY <2>1, <2>2
  <2> HIDE DEF u, v, state
  <2>5. /\ batch' = IF fits THEN Append(batch, m) ELSE <<>>
        /\ queue' = (IF fits THEN Mesh!Out ELSE v).queue
        /\ mesh_sent' = (IF fits THEN Mesh!Out ELSE v).sent
        /\ gone' = (IF fits THEN Mesh!Out ELSE v).gone
    BY <2>2, <2>3, <2>4 DEF Mesh!SayTo
  <2> QED
    BY <2>5, MeshOuts
<1>5. <<m>> \in Seq(Nat) /\ Mesh!ToSet(<<m>>) = {m} /\ Sorted(<<m>>, R)
  BY <1>1, MeshSingle
<1> HIDE DEF m, state, C, fits
<1>6. CASE fits
  <2>1. batch' = Append(batch, m) /\ Mesh!Out' = Mesh!Out /\ queue' = queue
    BY <1>4, <1>6 DEF Mesh!Out
  <2>2. batch' = batch \o <<m>>
    BY <1>1, <2>1
  <2>3. Mesh!ToSet(batch') = Mesh!ToSet(batch) \cup {m}
    <3>1. Mesh!ToSet(batch \o <<m>>) = Mesh!ToSet(batch) \cup Mesh!ToSet(<<m>>)
      BY <1>1, <1>5, MeshJoins, Zenon
    <3> QED
      BY <1>5, <2>2, <3>1
  <2>4. Before(Mesh!ToSet(batch), Mesh!ToSet(<<m>>), R)
    BY <1>3, <1>5 DEF Before
  <2>5. Sorted(batch', R)
    BY <1>1, <1>5, <2>2, <2>4, MeshSorts
  <2>6. Before(Mesh!ToSet(batch'), C, R)
    BY <1>1, <1>3, <2>3 DEF Before
  <2>7. MeshLine(Mesh!Out, <<>>, Mesh!ToSet(batch') \cup C, R)
    BY <1>1, <1>3, <2>3, MeshEmpty DEF MeshLine, Before
  <2>8. MeshOrder(R)'
    BY <1>1, <2>1, <2>5, <2>6, <2>7 DEF MeshOrder, C
  <2>9. MeshAll(Mesh!Out, <<>>)' = MeshAll(Mesh!Out, <<>>)
    BY <2>1 DEF MeshAll
  <2> QED
    BY <2>1, <2>3, <2>8, <2>9 DEF MeshSaid, m
<1>7. CASE ~fits
  <2>1. MeshLine(Mesh!Out, <<>>, Mesh!ToSet(batch) \cup (Mesh!ToSet(<<m>>) \cup C), R)
    BY <1>1, <1>3, <1>5, MeshEmpty DEF MeshLine, Before
  <2>2. Before(Mesh!ToSet(batch), Mesh!ToSet(<<m>>) \cup C, R)
    BY <1>1, <1>3, <1>5 DEF Before
  <2>3. MeshLine(u, <<>>, Mesh!ToSet(<<m>>) \cup C, R)
        /\ MeshMoves(Mesh!Out, <<batch>>, u, <<>>, state)
    BY <1>1, <1>2, <2>1, <2>2, MeshFlushKeeps
  <2> HIDE DEF u
  <2>4. state = "open" => u.queue = <<>> \/ Symmetric(R)
    BY <1>2, <2>3 DEF MeshMoves
  <2>5. Before(Mesh!ToSet(<<m>>), C, R)
    BY <1>3, <1>5
  <2>6. MeshLine(v, <<>>, C, R) /\ MeshMoves(u, <<<<m>>>>, v, <<>>, state)
    BY <1>5, <2>3, <2>4, <2>5, MeshFlushKeeps
  <2> HIDE DEF v
  <2>7. Mesh!Out' = v /\ batch' = <<>> /\ queue' = v.queue
    <3>1. v \in MeshPages
      BY <2>6 DEF MeshLine
    <3> QED
      BY <1>4, <1>7, <3>1, MeshOuts
  <2>8. MeshOrder(R)'
    <3>1. MeshLine(v, <<>>, {} \cup C, R)
      BY <2>6
    <3>2. MeshLine(v, <<>>, Mesh!ToSet(<<>>) \cup C, R) /\ Sorted(<<>>, R)
          /\ Before(Mesh!ToSet(<<>>), C, R)
      BY <3>1, MeshEmpty DEF Before
    <3> QED
      BY <1>1, <2>7, <3>2 DEF MeshOrder, C
  <2>9. MeshAll(v, <<>>) = MeshAll(Mesh!Out, <<>>) \cup Mesh!ToSet(batch) \cup {m}
    <3>1. Mesh!InRaws(<<batch>>) = Mesh!ToSet(batch) /\ Mesh!InRaws(<<<<m>>>>) = {m}
      BY <1>5, MeshOne
    <3> QED
      BY <2>3, <2>6, <3>1, MeshEmpty DEF MeshMoves, MeshAll
  <2>10. state \in {"open", "closing"} => queue' = queue
    BY <2>3, <2>6, <2>7, MeshOuts DEF MeshMoves
  <2>11. Mesh!ToSet(batch') = {} /\ MeshAll(Mesh!Out, <<>>)' = MeshAll(v, <<>>)
    BY <2>7, MeshEmpty
  <2> QED
    BY <2>8, <2>9, <2>10, <2>11 DEF MeshSaid, m, state
<1> QED
  BY <1>6, <1>7

LEMMA MeshRestsEnd ==
  ASSUME NEW X, NEW lists \in Seq(X), NEW list \in X, NEW R,
         MeshRests(lists, R), Ranked(list, R), Before(InLists(lists), Mesh!InRaws(list), R)
  PROVE  MeshRests(Append(lists, list), R)
<1> DEFINE u == Append(lists, list)
           n == Len(lists) + 1
<1>1. /\ DOMAIN u = DOMAIN lists \cup {n}
      /\ \A i \in DOMAIN lists : u[i] = lists[i] /\ i < n /\ i \in Nat
      /\ u[n] = list /\ n \in Nat
  BY MeshEnds
<1> HIDE DEF u, n
<1>2. \A i \in DOMAIN u : Ranked(u[i], R)
  BY <1>1 DEF MeshRests
<1>3. ASSUME NEW i \in DOMAIN u, NEW j \in DOMAIN u, i < j
      PROVE  Before(Mesh!InRaws(u[i]), Mesh!InRaws(u[j]), R)
  <2>1. i \in DOMAIN lists /\ u[i] = lists[i]
    BY <1>1, <1>3
  <2>2. CASE j \in DOMAIN lists
    BY <1>1, <1>3, <2>1, <2>2 DEF MeshRests
  <2>3. CASE j = n
    <3>1. \A x \in Mesh!InRaws(u[i]) : x \in InLists(lists)
      BY <2>1, MeshIn
    <3> QED
      BY <1>1, <2>3, <3>1 DEF Before
  <2> QED
    BY <1>1, <2>2, <2>3
<1>4. MeshRests(u, R)
  BY <1>2, <1>3 DEF MeshRests
<1> QED
  BY <1>4 DEF u

LEMMA MeshRestsTail ==
  ASSUME NEW X, NEW lists \in Seq(X), lists # <<>>, NEW R, MeshRests(lists, R)
  PROVE  /\ Ranked(Head(lists), R) /\ MeshRests(Tail(lists), R)
         /\ Before(Mesh!InRaws(Head(lists)), InLists(Tail(lists)), R)
<1> DEFINE u == Tail(lists)
           h == Head(lists)
<1>1. /\ h = lists[1] /\ 1 \in DOMAIN lists
      /\ \A i \in DOMAIN u : i + 1 \in DOMAIN lists /\ u[i] = lists[i + 1] /\ i \in Nat /\ 1 < i + 1
  BY MeshHead
<1> HIDE DEF u, h
<1>2. Ranked(h, R)
  BY <1>1 DEF MeshRests
<1>3. MeshRests(u, R)
  <2>1. \A i \in DOMAIN u : Ranked(u[i], R)
    BY <1>1 DEF MeshRests
  <2>2. ASSUME NEW i \in DOMAIN u, NEW j \in DOMAIN u, i < j
        PROVE  Before(Mesh!InRaws(u[i]), Mesh!InRaws(u[j]), R)
    <3>1. i + 1 < j + 1
      BY <1>1, <2>2
    <3> QED
      BY <1>1, <3>1 DEF MeshRests
  <2> QED
    BY <2>1, <2>2 DEF MeshRests
<1>4. ASSUME NEW a \in Mesh!InRaws(h), NEW b \in InLists(u)
      PROVE  <<a, b>> \in R
  <2>1. PICK i \in DOMAIN u : b \in Mesh!InRaws(u[i])
    BY MeshIn
  <2>2. Before(Mesh!InRaws(lists[1]), Mesh!InRaws(lists[i + 1]), R)
    BY <1>1 DEF MeshRests
  <2> QED
    BY <1>1, <2>1, <2>2 DEF Before
<1> QED
  BY <1>2, <1>3, <1>4 DEF Before, u, h

(* What hi has sent, queued again or left to a later turn is what it had.  *)
MeshPassed ==
  MeshAll(Mesh!Out, <<>>)' \cup InLists(rests') = MeshAll(Mesh!Out, <<>>) \cup InLists(rests)

LEMMA MeshHiStep ==
  ASSUME MeshInv, NEW R, MeshFits(R), MeshFits(R)', MeshOrder(R), Mesh!HiSends
  PROVE  /\ MeshOrder(R)' /\ MeshPassed
         /\ Mesh!StateOf(wire) \in {"open", "closing"} => queue' = <<>>
<1> DEFINE o == [Mesh!Out EXCEPT !.queue = <<>>]
           state == Mesh!StateOf(wire)
           u == Mesh!SendFirst(o, queue, state)
           rest == Mesh!Rest(queue)
           C == InLists(rests)
           B == Mesh!ToSet(batch) \cup C
<1>1. /\ o.queue = <<>> /\ o.sent = mesh_sent /\ o.gone = gone /\ o \in MeshPages
      /\ queue \in Seq(Seq(Nat)) /\ rests \in Seq(Seq(Seq(Nat)))
  <2>1. o = [queue |-> <<>>, sent |-> mesh_sent, gone |-> gone]
    BY DEF Mesh!Out
  <2>2. /\ <<>> \in Seq(Seq(Nat)) /\ mesh_sent \in Seq(Nat) /\ gone \in SUBSET Nat
        /\ queue \in Seq(Seq(Nat)) /\ rests \in Seq(Seq(Seq(Nat)))
    BY DEF MeshInv, MeshType
  <2> HIDE DEF o
  <2> QED
    BY <2>1, <2>2 DEF MeshPages
<1>2. /\ queue' = u.queue /\ mesh_sent' = u.sent /\ gone' = u.gone
      /\ rests' = IF rest = <<>> THEN rests ELSE Append(rests, rest)
      /\ mesh_cut' = (mesh_cut \/ rest # <<>>) /\ batch' = batch
  BY DEF Mesh!HiSends
<1> HIDE DEF state
<1>3. /\ MeshLine(Mesh!Out, <<>>, B, R) /\ Sorted(batch, R) /\ Before(Mesh!ToSet(batch), C, R)
      /\ MeshRests(rests, R)
  BY DEF MeshOrder
<1> HIDE DEF o, B
<1>4. MeshLine(o, queue, B, R)
  BY <1>1, <1>3, MeshEmpty, MeshOuts DEF MeshLine, Before
<1>5. MeshLine(u, rest, B, R) /\ MeshMoves(o, queue, u, rest, state)
  BY <1>1, <1>4, MeshSendFirstKeeps
<1> HIDE DEF u, rest
<1>6. Mesh!Out' = u
  <2>1. u \in MeshPages
    BY <1>5 DEF MeshLine
  <2> QED
    BY <1>2, <2>1, MeshOuts
<1>7. MeshAll(o, queue) = MeshAll(Mesh!Out, <<>>)
  BY <1>1, MeshEmpty, MeshOuts DEF MeshAll
<1>8. state \in {"open", "closing"} => queue' = <<>>
  BY <1>1, <1>2, <1>5 DEF MeshMoves
<1>9. CASE rest = <<>>
  <2>1. rests' = rests
    BY <1>2, <1>9
  <2>2. MeshOrder(R)'
    BY <1>2, <1>3, <1>5, <1>6, <1>9, <2>1 DEF MeshOrder, B, C
  <2>3. MeshPassed
    BY <1>5, <1>6, <1>7, <1>9, <2>1 DEF MeshPassed, MeshMoves
  <2> QED
    BY <1>8, <2>2, <2>3 DEF state
<1>10. CASE rest # <<>>
  <2>1. R = Differ /\ Symmetric(R)
    BY <1>2, <1>10, MeshRelations DEF MeshFits
  <2>2. /\ rest \in Seq(Seq(Nat)) /\ Ranked(rest, R) /\ Before(Mesh!InRaws(rest), B, R)
        /\ Before(Mesh!ToSet(u.sent), Mesh!InRaws(rest) \cup B, R)
        /\ Before(Mesh!InRaws(u.queue), Mesh!InRaws(rest) \cup B, R)
        /\ u \in MeshPages /\ Sorted(u.sent, R) /\ Ranked(u.queue, R)
        /\ Before(Mesh!ToSet(u.sent), Mesh!InRaws(u.queue), R)
    BY <1>5 DEF MeshLine, Before
  <2>3. rests' = Append(rests, rest)
    BY <1>2, <1>10
  <2>4. InLists(rests') = C \cup Mesh!InRaws(rest)
    <3>1. InLists(Append(rests, rest)) = InLists(rests) \cup Mesh!InRaws(rest)
      BY <1>1, <2>2, MeshAppends
    <3> QED
      BY <2>3, <3>1 DEF C
  <2>5. Before(C, Mesh!InRaws(rest), R) /\ Before(Mesh!ToSet(batch), Mesh!InRaws(rest), R)
    BY <2>1, <2>2 DEF Before, Symmetric, B
  <2>6. MeshRests(rests', R)
    BY <1>1, <1>3, <2>2, <2>3, <2>5, MeshRestsEnd DEF C
  <2>7. Before(Mesh!ToSet(batch), InLists(rests'), R)
    BY <1>3, <2>4, <2>5 DEF Before
  <2>8. MeshLine(u, <<>>, Mesh!ToSet(batch) \cup InLists(rests'), R)
    <3>1. <<>> \in Seq(Seq(Nat))
      OBVIOUS
    <3>2. Mesh!ToSet(batch) \cup InLists(rests') = Mesh!InRaws(rest) \cup B
      BY <2>4 DEF B
    <3> HIDE DEF C
    <3> QED
      BY <2>2, <3>1, <3>2, MeshEmpty DEF MeshLine, Before
  <2>9. MeshOrder(R)'
    BY <1>2, <1>3, <1>6, <2>6, <2>7, <2>8 DEF MeshOrder
  <2>10. MeshPassed
    <3>1. MeshAll(u, rest) = MeshAll(u, <<>>) \cup Mesh!InRaws(rest)
      BY MeshEmpty DEF MeshAll
    <3> QED
      BY <1>5, <1>6, <1>7, <2>4, <3>1 DEF MeshPassed, MeshMoves, C
  <2> QED
    BY <1>8, <2>9, <2>10 DEF state
<1> QED
  BY <1>9, <1>10

LEMMA MeshHiGoesOnStep ==
  ASSUME MeshInv, Mesh!HiGoesOn
  PROVE  MeshOrder(Differ)' /\ MeshPassed
<1> DEFINE R == Differ
           list == Head(rests)
           state == Mesh!StateOf(wire)
           u == Mesh!SendFirst(Mesh!Out, list, state)
           rest == Mesh!Rest(list)
           C == InLists(Tail(rests))
           B == Mesh!ToSet(batch) \cup C
<1>1. /\ rests # <<>> /\ rests \in Seq(Seq(Seq(Nat)))
      /\ queue' = u.queue /\ mesh_sent' = u.sent /\ gone' = u.gone
      /\ rests' = IF rest = <<>> THEN Tail(rests) ELSE Append(Tail(rests), rest)
      /\ batch' = batch
  BY DEF MeshInv, MeshType, Mesh!HiGoesOn, Mesh!out
<1>2. Symmetric(R)
  BY MeshRelations
<1>3. /\ MeshLine(Mesh!Out, <<>>, Mesh!ToSet(batch) \cup InLists(rests), R) /\ Sorted(batch, R)
      /\ Before(Mesh!ToSet(batch), InLists(rests), R) /\ MeshRests(rests, R)
  BY DEF MeshInv, MeshOrder
<1>4. /\ list \in Seq(Seq(Nat)) /\ Tail(rests) \in Seq(Seq(Seq(Nat)))
      /\ InLists(rests) = Mesh!InRaws(list) \cup C
  BY <1>1, MeshTails
<1>5. Ranked(list, R) /\ MeshRests(Tail(rests), R) /\ Before(Mesh!InRaws(list), C, R)
  BY <1>1, <1>3, MeshRestsTail
<1> HIDE DEF R, list, u, rest, C
<1>6. MeshLine(Mesh!Out, list, B, R)
  <2>1. Before(Mesh!InRaws(list), B, R)
    BY <1>2, <1>3, <1>4, <1>5 DEF Before, Symmetric
  <2> QED
    BY <1>3, <1>4, <1>5, <2>1, MeshEmpty DEF MeshLine, Before
<1>7. MeshLine(u, rest, B, R) /\ MeshMoves(Mesh!Out, list, u, rest, state)
  BY <1>2, <1>6, MeshSendFirstKeeps DEF u, rest
<1>8. Mesh!Out' = u
  <2>1. u \in MeshPages
    BY <1>7 DEF MeshLine
  <2> QED
    BY <1>1, <2>1, MeshOuts
<1>9. MeshAll(Mesh!Out, list) = MeshAll(Mesh!Out, <<>>) \cup Mesh!InRaws(list)
  BY MeshEmpty DEF MeshAll
<1>10. MeshAll(u, rest) = MeshAll(u, <<>>) \cup Mesh!InRaws(rest)
  BY MeshEmpty DEF MeshAll
<1>11. /\ rest \in Seq(Seq(Nat)) /\ Ranked(rest, R)
       /\ Before(Mesh!ToSet(u.sent), Mesh!InRaws(rest) \cup B, R)
       /\ Before(Mesh!InRaws(u.queue), Mesh!InRaws(rest) \cup B, R)
       /\ Before(Mesh!InRaws(rest), B, R)
       /\ u \in MeshPages /\ Sorted(u.sent, R) /\ Ranked(u.queue, R)
       /\ Before(Mesh!ToSet(u.sent), Mesh!InRaws(u.queue), R)
  BY <1>7 DEF MeshLine, Before
<1>12. Before(C, Mesh!InRaws(rest), R) /\ Before(Mesh!ToSet(batch), Mesh!InRaws(rest), R)
  BY <1>2, <1>11 DEF Before, Symmetric
<1>13. InLists(rests') = C \cup Mesh!InRaws(rest) /\ MeshRests(rests', R)
  <2>1. CASE rest = <<>>
    BY <1>1, <1>5, <2>1, MeshEmpty DEF C
  <2>2. CASE rest # <<>>
    <3>1. InLists(Append(Tail(rests), rest)) = InLists(Tail(rests)) \cup Mesh!InRaws(rest)
      <4> DEFINE l == Tail(rests)
      <4>1. l \in Seq(Seq(Seq(Nat))) /\ rest \in Seq(Seq(Nat))
        BY <1>4, <1>11
      <4> HIDE DEF l
      <4>2. InLists(Append(l, rest)) = InLists(l) \cup Mesh!InRaws(rest)
        BY <4>1, MeshAppends
      <4> QED
        BY <4>2 DEF l
    <3>2. MeshRests(Append(Tail(rests), rest), R)
      BY <1>4, <1>5, <1>11, <1>12, MeshRestsEnd, Zenon DEF C
    <3> QED
      BY <1>1, <2>2, <3>1, <3>2 DEF C
  <2> QED
    BY <2>1, <2>2
<1>14. Before(Mesh!ToSet(batch), InLists(rests'), R)
  BY <1>3, <1>4, <1>12, <1>13 DEF Before
<1>15. MeshLine(u, <<>>, Mesh!ToSet(batch) \cup InLists(rests'), R)
  <2>1. <<>> \in Seq(Seq(Nat))
    OBVIOUS
  <2>2. Mesh!ToSet(batch) \cup InLists(rests') = Mesh!InRaws(rest) \cup B
    BY <1>13
  <2> HIDE DEF B
  <2> QED
    BY <1>11, <2>1, <2>2, MeshEmpty DEF MeshLine, Before
<1>16. MeshOrder(R)'
  BY <1>1, <1>3, <1>8, <1>13, <1>14, <1>15 DEF MeshOrder, R
<1>17. MeshPassed
  BY <1>4, <1>7, <1>8, <1>9, <1>10, <1>13 DEF MeshPassed, MeshMoves
<1> QED
  BY <1>16, <1>17 DEF R

LEMMA MeshInit == Mesh!Init => MeshInv
<1> SUFFICES ASSUME Mesh!Init PROVE MeshInv
  OBVIOUS
<1>1. /\ messages = 0 /\ missed = {} /\ queue = <<>> /\ mesh_sent = <<>> /\ gone = {}
      /\ batch = <<>> /\ rests = <<>> /\ opened = 0 /\ wire = 0
      /\ socket = [s \in 1 .. MeshMaxSockets |-> "none"] /\ defer = 0 /\ loose = 0
      /\ open = FALSE /\ mesh_cut = FALSE /\ aside = FALSE
  BY DEF Mesh!Init, Mesh!None, Mesh!Sockets
<1>2. /\ <<>> \in Seq(Nat) /\ <<>> \in Seq(Seq(Nat)) /\ <<>> \in Seq(Seq(Seq(Nat)))
  OBVIOUS
<1>3. MeshType
  BY <1>1, <1>2 DEF MeshType
<1>4. MeshMaxSockets \in Nat
  BY NetworkAssumption DEF Mesh!MeshAssumption
<1>5. MeshSockets
  <2>1. socket \in [1 .. MeshMaxSockets -> MeshStates]
    BY <1>1 DEF MeshStates
  <2>2. \A s \in 1 .. MeshMaxSockets : socket[s] = "none" /\ ~Mesh!Live(s)
    BY <1>1 DEF Mesh!Live
  <2>3. /\ opened \in 0 .. MeshMaxSockets /\ wire \in 0 .. opened
        /\ defer \in {0, 1} /\ loose \in Nat /\ ~(defer > 0)
    BY <1>1, <1>4
  <2>4. open \in BOOLEAN /\ mesh_cut \in BOOLEAN /\ aside \in BOOLEAN
    BY <1>1
  <2> QED
    BY <2>1, <2>2, <2>3, <2>4 DEF MeshSockets
<1>6. MeshCalm
  BY <1>1 DEF MeshCalm
<1>7. MeshBooks
  BY <1>1, MeshEmpty, MeshOuts DEF MeshBooks, MeshAll
<1>8. ASSUME NEW R
      PROVE  MeshOrder(R)
  <2>1. Mesh!Out \in MeshPages
    BY <1>1, <1>2 DEF Mesh!Out, MeshPages
  <2>2. MeshLine(Mesh!Out, <<>>, Mesh!ToSet(batch) \cup InLists(rests), R)
    BY <1>1, <1>2, <2>1, MeshEmpty, MeshOuts DEF MeshLine, Before
  <2> QED
    BY <1>1, <2>2, MeshEmpty DEF MeshOrder, MeshRests, Before
<1> QED
  BY <1>3, <1>5, <1>6, <1>7, <1>8 DEF MeshInv

(* Sockets, timers and flags.                                              *)
LEMMA MeshSayToSockets ==
  ASSUME MeshSockets, NEW m, Mesh!SayTo(m), UNCHANGED <<defer, loose, mesh_cut>>
  PROVE  MeshSockets' /\ (Mesh!StateOf(wire)' \in {"open", "closing"} =>
                            wire # 0 /\ Mesh!StateOf(wire)' = Mesh!StateOf(wire))
<1>1. MeshMaxSockets \in Nat
  BY NetworkAssumption DEF Mesh!MeshAssumption
<1>2. CASE wire = 0
  <2>1. /\ opened < MeshMaxSockets /\ opened' = opened + 1 /\ wire' = opened + 1
        /\ socket' = [socket EXCEPT ![opened + 1] = "connecting"]
        /\ aside' = (aside \/ defer + loose > 0) /\ open' = TRUE
    BY <1>2 DEF Mesh!SayTo, Mesh!None
  <2>2. opened + 1 \in 1 .. MeshMaxSockets
    BY <1>1, <2>1 DEF MeshSockets
  <2>3. /\ socket' \in [1 .. MeshMaxSockets -> MeshStates]
        /\ socket'[opened + 1] = "connecting"
        /\ \A s \in 1 .. MeshMaxSockets : s # opened + 1 => socket'[s] = socket[s]
    BY <2>1, <2>2 DEF MeshSockets, MeshStates
  <2>4. \A s \in 1 .. MeshMaxSockets : s > opened' => socket'[s] = "none"
    BY <2>1, <2>3 DEF MeshSockets
  <2>5. ~aside' => /\ \A s \in 1 .. MeshMaxSockets : Mesh!Live(s)' => s = wire'
                   /\ ~(defer' > 0)
    <3>1. ~aside' => ~aside /\ ~(defer' > 0)
      <4>1. ~aside' => ~aside /\ ~(defer + loose > 0)
        BY <2>1
      <4>2. ~(defer + loose > 0) => ~(defer > 0)
        BY DEF MeshSockets
      <4> QED
        BY <4>1, <4>2
    <3>2. ~aside => \A s \in 1 .. MeshMaxSockets : Mesh!Live(s)' => s = wire'
      BY <1>2, <2>1, <2>3 DEF MeshSockets, Mesh!Live
    <3> QED
      BY <3>1, <3>2
  <2>6. MeshSockets'
    BY <1>1, <2>1, <2>3, <2>4, <2>5 DEF MeshSockets
  <2>7. Mesh!StateOf(wire)' = "connecting"
    BY <2>1, <2>2, <2>3 DEF Mesh!StateOf, Mesh!None
  <2> QED
    BY <2>6, <2>7
<1>3. CASE wire # 0
  <2>1. /\ opened' = opened /\ wire' = wire /\ socket' = socket /\ aside' = aside
        /\ open' = TRUE
    BY <1>3 DEF Mesh!SayTo, Mesh!None, MeshSockets
  <2>2. MeshSockets'
    BY <2>1 DEF MeshSockets, Mesh!Live
  <2> QED
    BY <1>3, <2>1, <2>2 DEF Mesh!StateOf
<1> QED
  BY <1>2, <1>3

LEMMA MeshOpenSockets ==
  ASSUME MeshSockets, Mesh!OpenSocket, UNCHANGED <<open, mesh_cut>>,
         defer' \in {0, 1}, loose' \in Nat, aside' \in BOOLEAN,
         ~aside' => ~aside /\ wire = 0 /\ ~(defer' > 0)
  PROVE  MeshSockets' /\ Mesh!StateOf(wire)' = "connecting"
<1>1. MeshMaxSockets \in Nat
  BY NetworkAssumption DEF Mesh!MeshAssumption
<1>2. /\ opened < MeshMaxSockets /\ opened' = opened + 1 /\ wire' = opened + 1
      /\ socket' = [socket EXCEPT ![opened + 1] = "connecting"]
  BY DEF Mesh!OpenSocket
<1>3. opened + 1 \in 1 .. MeshMaxSockets
  BY <1>1, <1>2 DEF MeshSockets
<1>4. /\ socket' \in [1 .. MeshMaxSockets -> MeshStates]
      /\ socket'[opened + 1] = "connecting"
      /\ \A s \in 1 .. MeshMaxSockets : s # opened + 1 => socket'[s] = socket[s]
  BY <1>2, <1>3 DEF MeshSockets, MeshStates
<1>5. \A s \in 1 .. MeshMaxSockets : s > opened' => socket'[s] = "none"
  BY <1>2, <1>4 DEF MeshSockets
<1>6. ~aside' => \A s \in 1 .. MeshMaxSockets : Mesh!Live(s)' => s = wire'
  BY <1>2, <1>4 DEF MeshSockets, Mesh!Live
<1>7. MeshSockets'
  BY <1>1, <1>2, <1>4, <1>5, <1>6 DEF MeshSockets
<1>8. Mesh!StateOf(wire)' = "connecting"
  BY <1>2, <1>3, <1>4 DEF Mesh!StateOf, Mesh!None
<1> QED
  BY <1>7, <1>8

LEMMA MeshClosedSockets ==
  ASSUME MeshSockets, NEW s \in 1 .. MeshMaxSockets, NEW error \in BOOLEAN, NEW quick \in BOOLEAN,
         Mesh!Closed(s, error, quick)
  PROVE  MeshSockets' /\ Mesh!StateOf(wire)' = "none"
<1>1. /\ wire' = 0 /\ defer' \in {0, 1} /\ loose' = loose /\ opened' = opened /\ aside' = aside
      /\ socket' = [t \in 1 .. MeshMaxSockets |-> IF t = s THEN "closed"
                                    ELSE IF t = wire /\ Mesh!Live(t) THEN "closing"
                                    ELSE socket[t]]
      /\ open' = open /\ mesh_cut' = mesh_cut
      /\ socket[s] # "none"
  BY DEF Mesh!Closed, Mesh!Bye, Mesh!Reconnect, Mesh!None, Mesh!Sockets, Mesh!out, Mesh!past
<1>2. socket' \in [1 .. MeshMaxSockets -> MeshStates]
  BY <1>1 DEF MeshSockets, MeshStates
<1>3. \A t \in 1 .. MeshMaxSockets : t > opened' => socket'[t] = "none"
  BY <1>1 DEF MeshSockets, Mesh!Live
<1>4. ~aside' => \A t \in 1 .. MeshMaxSockets : ~Mesh!Live(t)'
  BY <1>1 DEF MeshSockets, Mesh!Live
<1>5. MeshSockets'
  BY <1>1, <1>2, <1>3, <1>4 DEF MeshSockets
<1> QED
  BY <1>1, <1>5 DEF Mesh!StateOf, Mesh!None

LEMMA MeshTypeStep ==
  ASSUME NEW R, MeshOrder(R)', messages' \in Nat, missed' \in SUBSET Nat,
         batch' \in Seq(Nat), rests' \in Seq(Seq(Seq(Nat)))
  PROVE  MeshType'
<1>1. Mesh!Out' \in MeshPages
  BY DEF MeshOrder, MeshLine
<1>2. queue' \in Seq(Seq(Nat)) /\ mesh_sent' \in Seq(Nat) /\ gone' \in SUBSET Nat
  BY <1>1, MeshOuts DEF MeshPages
<1> QED
  BY <1>2 DEF MeshType

(* The messages stay where they are.                                       *)
LEMMA MeshStays ==
  ASSUME MeshInv, UNCHANGED <<messages, missed, queue, mesh_sent, gone, batch, rests>>,
         mesh_cut => mesh_cut'
  PROVE  MeshType' /\ MeshBooks' /\ MeshOrder(Differ)' /\ (~mesh_cut' => MeshOrder(Less)')
<1>1. Mesh!Out' = Mesh!Out
  BY DEF Mesh!Out
<1>2. \A R : MeshOrder(R) => MeshOrder(R)'
  BY <1>1 DEF MeshOrder
<1>3. MeshBooks'
  BY <1>1 DEF MeshInv, MeshBooks, MeshAll
<1>4. MeshType'
  BY DEF MeshInv, MeshType
<1> QED
  BY <1>2, <1>3, <1>4 DEF MeshInv

LEMMA MeshSayToInv ==
  ASSUME MeshInv, hello # 0, Mesh!SayTo(messages + 1), messages' = messages + 1,
         UNCHANGED <<rests, missed, mesh_cut, defer, loose>>
  PROVE  MeshInv'
<1>1. \A R : MeshFits(R) /\ MeshOrder(R) => MeshSaid(R, {messages + 1})
  BY MeshSayToStep
<1>2. MeshSaid(Differ, {messages + 1}) /\ (~mesh_cut => MeshSaid(Less, {messages + 1}))
  BY <1>1 DEF MeshFits, MeshInv
<1>3. MeshOrder(Differ)' /\ (~mesh_cut' => MeshOrder(Less)')
  BY <1>2 DEF MeshSaid
<1>4. messages \in Nat /\ missed \in SUBSET Nat /\ batch \in Seq(Nat) /\ rests \in Seq(Seq(Seq(Nat)))
  BY DEF MeshInv, MeshType
<1>5. /\ batch' = IF open /\ Len(batch) < MeshPack THEN Append(batch, messages + 1) ELSE <<>>
      /\ open' = TRUE
  BY DEF Mesh!SayTo
<1>6. batch' \in Seq(Nat)
  <2>1. <<>> \in Seq(Nat) /\ Append(batch, messages + 1) \in Seq(Nat)
    BY <1>4
  <2> QED
    BY <1>5, <2>1
<1>7. MeshType'
  BY <1>3, <1>4, <1>6, MeshTypeStep
<1>8. 1 .. messages' = 1 .. messages \cup {messages + 1}
  BY <1>4
<1>9. MeshBooks'
  <2>1. MeshAll(Mesh!Out, <<>>)' \cup Mesh!ToSet(batch') =
          MeshAll(Mesh!Out, <<>>) \cup Mesh!ToSet(batch) \cup {messages + 1}
    BY <1>2 DEF MeshSaid
  <2>2. 1 .. messages = MeshAll(Mesh!Out, <<>>) \cup Mesh!ToSet(batch) \cup InLists(rests) \cup missed
    BY DEF MeshInv, MeshBooks
  <2>3. 1 .. messages' = MeshAll(Mesh!Out, <<>>)' \cup Mesh!ToSet(batch') \cup InLists(rests') \cup missed'
    BY <1>8, <2>1, <2>2
  <2> QED
    BY <2>3 DEF MeshBooks
<1>10. MeshSockets' /\ (Mesh!StateOf(wire)' \in {"open", "closing"} =>
                            wire # 0 /\ Mesh!StateOf(wire)' = Mesh!StateOf(wire))
  BY MeshSayToSockets DEF MeshInv
<1>11. MeshCalm'
  <2>1. ASSUME ~mesh_cut', Mesh!StateOf(wire)' \in {"open", "closing"}
        PROVE  queue' = <<>>
    <3>1. MeshWireState \in {"open", "closing"} /\ Mesh!StateOf(wire) \in {"open", "closing"}
      BY <1>10, <2>1 DEF MeshWireState
    <3> QED
      BY <1>2, <2>1, <3>1 DEF MeshSaid, MeshInv, MeshCalm
  <2> QED
    BY <1>5, <2>1 DEF MeshCalm, MeshInv
<1> QED
  BY <1>3, <1>7, <1>9, <1>10, <1>11 DEF MeshInv

LEMMA MeshFlushInv ==
  ASSUME MeshInv, hello # 0,
         LET after == Mesh!FlushOf(Mesh!Out, batch, Mesh!StateOf(wire)) IN
         /\ queue' = after.queue
         /\ mesh_sent' = after.sent
         /\ gone' = after.gone,
         batch' = <<>>, open' = FALSE,
         UNCHANGED <<rests, messages, missed, mesh_cut, defer, loose, wire, socket, opened, aside>>
  PROVE  MeshInv'
<1> DEFINE state == Mesh!StateOf(wire)
<1>1. ASSUME NEW R, MeshFits(R), MeshOrder(R)
      PROVE  /\ MeshOrder(R)'
             /\ MeshAll(Mesh!Out, <<>>)' = MeshAll(Mesh!Out, <<>>) \cup Mesh!ToSet(batch)
             /\ state \in {"open", "closing"} => queue' = queue
  BY <1>1, MeshFlushStep
<1>2. /\ MeshOrder(Differ)' /\ (~mesh_cut' => MeshOrder(Less)')
      /\ MeshAll(Mesh!Out, <<>>)' = MeshAll(Mesh!Out, <<>>) \cup Mesh!ToSet(batch)
      /\ state \in {"open", "closing"} => queue' = queue
  BY <1>1 DEF MeshFits, MeshInv
<1>3. messages \in Nat /\ missed \in SUBSET Nat /\ <<>> \in Seq(Nat) /\ rests \in Seq(Seq(Seq(Nat)))
  BY DEF MeshInv, MeshType
<1>4. MeshType'
  BY <1>2, <1>3, MeshTypeStep
<1>5. MeshBooks'
  BY <1>2, MeshEmpty DEF MeshInv, MeshBooks
<1>6. MeshSockets' /\ state' = state
  BY DEF MeshInv, MeshSockets, Mesh!Live, Mesh!StateOf
<1>7. MeshCalm'
  BY <1>2, <1>6 DEF MeshInv, MeshCalm
<1> QED
  BY <1>2, <1>4, <1>5, <1>6, <1>7 DEF MeshInv

LEMMA MeshPassInv ==
  ASSUME MeshInv, MeshPassed, MeshOrder(Differ)', rests' \in Seq(Seq(Seq(Nat))),
         UNCHANGED <<batch, messages, missed>>
  PROVE  MeshType' /\ MeshBooks'
<1>1. messages \in Nat /\ missed \in SUBSET Nat /\ batch \in Seq(Nat)
  BY DEF MeshInv, MeshType
<1>2. MeshType'
  BY <1>1, MeshTypeStep
<1>3. MeshBooks'
  <2>1. 1 .. messages = MeshAll(Mesh!Out, <<>>) \cup Mesh!ToSet(batch) \cup InLists(rests) \cup missed
    BY DEF MeshInv, MeshBooks
  <2>2. 1 .. messages' = MeshAll(Mesh!Out, <<>>)' \cup Mesh!ToSet(batch') \cup InLists(rests') \cup missed'
    BY <2>1 DEF MeshPassed
  <2> QED
    BY <2>2 DEF MeshBooks
<1> QED
  BY <1>2, <1>3

(* What is left of a list is a list.  *)
LEMMA MeshRestType ==
  ASSUME NEW list \in Seq(Seq(Nat))
  PROVE  Mesh!Rest(list) \in Seq(Seq(Nat))
<1>1. Mesh!Least(MeshS, Len(list)) \in Nat
  BY NetworkAssumption DEF Mesh!MeshAssumption, Mesh!Least
<1> QED
  BY <1>1 DEF Mesh!Rest

LEMMA MeshWire ==
  ASSUME MeshInv
  PROVE  wire = 0 \/ wire \in 1 .. MeshMaxSockets
<1>1. MeshMaxSockets \in Nat
  BY NetworkAssumption DEF Mesh!MeshAssumption
<1>2. opened \in 0 .. MeshMaxSockets /\ wire \in 0 .. opened
  BY DEF MeshInv, MeshSockets
<1> QED
  BY <1>1, <1>2

(* A socket opens: hi begins, with nothing sent yet.                       *)
LEMMA MeshOpensInv ==
  ASSUME MeshInv, NEW s \in 1 .. MeshMaxSockets, Mesh!Opens(s)
  PROVE  MeshInv'
<1>1. /\ socket[s] = "connecting" /\ socket' = [socket EXCEPT ![s] = "open"]
      /\ UNCHANGED <<wire, opened, messages, aside, batch, open, defer, loose, missed,
                     queue, mesh_sent, gone, rests>>
  BY DEF Mesh!Opens, Mesh!timer, Mesh!out
<1>2. PICK n \in 0 .. MeshMaxMessages - messages :
         hello' = n /\ mesh_cut' = (mesh_cut \/ (n > 0 /\ queue # <<>>))
  BY DEF Mesh!Opens
<1>3. /\ mesh_cut' \in BOOLEAN /\ (mesh_cut => mesh_cut')
      /\ ~mesh_cut' /\ hello' # 0 => queue = <<>>
  <2>1. mesh_cut \in BOOLEAN /\ messages \in Nat /\ MeshMaxMessages \in Nat
    BY NetworkAssumption DEF MeshInv, MeshSockets, MeshType, Mesh!MeshAssumption
  <2>2. n # 0 => n > 0
    BY <2>1
  <2> QED
    BY <1>2, <2>1, <2>2
<1>4. MeshSockets'
  <2>1. /\ socket' \in [1 .. MeshMaxSockets -> MeshStates] /\ socket'[s] = "open"
        /\ \A t \in 1 .. MeshMaxSockets : t # s => socket'[t] = socket[t]
    BY <1>1 DEF MeshInv, MeshSockets, MeshStates
  <2>2. \A t \in 1 .. MeshMaxSockets : Mesh!Live(t)' <=> Mesh!Live(t)
    BY <1>1, <2>1 DEF Mesh!Live
  <2>3. \A t \in 1 .. MeshMaxSockets : t > opened => t # s
    BY <1>1 DEF MeshInv, MeshSockets
  <2> QED
    BY <1>1, <1>3, <2>1, <2>2, <2>3 DEF MeshInv, MeshSockets
<1>5. MeshType' /\ MeshBooks' /\ MeshOrder(Differ)' /\ (~mesh_cut' => MeshOrder(Less)')
  BY <1>1, <1>3, MeshStays
<1>6. MeshCalm'
  BY <1>1, <1>3 DEF MeshInv, MeshCalm
<1> QED
  BY <1>4, <1>5, <1>6 DEF MeshInv

LEMMA MeshHiSendsInv ==
  ASSUME MeshInv, Mesh!HiSends
  PROVE  MeshInv'
<1> DEFINE state == Mesh!StateOf(wire)
<1>1. /\ UNCHANGED <<wire, socket, opened, messages, aside, batch, open, defer, loose, missed>>
      /\ mesh_cut' = (mesh_cut \/ Mesh!Rest(queue) # <<>>)
      /\ rests' = IF Mesh!Rest(queue) = <<>> THEN rests ELSE Append(rests, Mesh!Rest(queue))
  BY DEF Mesh!HiSends, Mesh!timer
<1>2. MeshSockets' /\ state' = state
  BY <1>1 DEF MeshInv, MeshSockets, Mesh!Live, Mesh!StateOf
<1>3. ASSUME NEW R, MeshFits(R), MeshFits(R)', MeshOrder(R)
      PROVE  /\ MeshOrder(R)' /\ MeshPassed
             /\ state \in {"open", "closing"} => queue' = <<>>
  BY <1>3, MeshHiStep
<1> HIDE DEF state
<1>4. /\ MeshOrder(Differ)' /\ MeshPassed /\ (~mesh_cut' => MeshOrder(Less)')
      /\ state \in {"open", "closing"} => queue' = <<>>
  BY <1>1, <1>3 DEF MeshFits, MeshInv
<1>5. rests' \in Seq(Seq(Seq(Nat)))
  <2>1. rests \in Seq(Seq(Seq(Nat))) /\ Mesh!Rest(queue) \in Seq(Seq(Nat))
    BY MeshRestType DEF MeshInv, MeshType
  <2>2. Append(rests, Mesh!Rest(queue)) \in Seq(Seq(Seq(Nat)))
    BY <2>1
  <2> QED
    BY <1>1, <2>1, <2>2
<1>6. MeshType' /\ MeshBooks'
  BY <1>1, <1>4, <1>5, MeshPassInv
<1>7. MeshCalm'
  BY <1>1, <1>2, <1>4 DEF MeshInv, MeshCalm, state
<1> QED
  BY <1>2, <1>4, <1>6, <1>7 DEF MeshInv

LEMMA MeshHiGoesOnInv ==
  ASSUME MeshInv, Mesh!HiGoesOn
  PROVE  MeshInv'
<1>1. /\ rests # <<>>
      /\ rests' = IF Mesh!Rest(Head(rests)) = <<>> THEN Tail(rests)
                  ELSE Append(Tail(rests), Mesh!Rest(Head(rests)))
      /\ UNCHANGED <<wire, socket, opened, messages, aside, batch, open, defer, loose,
                     missed, mesh_cut>>
  BY DEF Mesh!HiGoesOn, Mesh!timer, Mesh!past
<1>2. MeshOrder(Differ)' /\ MeshPassed
  BY MeshHiGoesOnStep
<1>3. rests' \in Seq(Seq(Seq(Nat)))
  <2>1. /\ Tail(rests) \in Seq(Seq(Seq(Nat))) /\ Head(rests) \in Seq(Seq(Nat))
    BY <1>1 DEF MeshInv, MeshType
  <2>2. Mesh!Rest(Head(rests)) \in Seq(Seq(Nat))
    BY <2>1, MeshRestType
  <2>3. Append(Tail(rests), Mesh!Rest(Head(rests))) \in Seq(Seq(Seq(Nat)))
    BY <2>1, <2>2
  <2> QED
    BY <1>1, <2>1, <2>3
<1>4. MeshType' /\ MeshBooks'
  BY <1>1, <1>2, <1>3, MeshPassInv
<1>5. mesh_cut'
  BY <1>1 DEF MeshInv, MeshCalm, MeshSockets
<1>6. MeshSockets'
  BY <1>1 DEF MeshInv, MeshSockets, Mesh!Live
<1>7. MeshCalm'
  BY <1>1, <1>5 DEF MeshInv, MeshCalm
<1> QED
  BY <1>2, <1>4, <1>5, <1>6, <1>7 DEF MeshInv

LEMMA MeshStep == MeshInv /\ [Mesh!Next]_(Mesh!vars) => MeshInv'
<1> SUFFICES ASSUME MeshInv, [Mesh!Next]_(Mesh!vars) PROVE MeshInv'
  OBVIOUS
<1> USE DEF Mesh!out, Mesh!timer, Mesh!past, Mesh!turn
<1>0. Mesh!Idle => hello # 0
  BY DEF Mesh!Idle, Mesh!NoHi
<1>1. CASE Mesh!Say
  <2>1. CASE listed
    <3>1. /\ Mesh!SayTo(messages + 1) /\ messages' = messages + 1 /\ hello # 0
          /\ UNCHANGED <<rests, missed, mesh_cut, defer, loose>>
      BY <1>0, <1>1, <2>1 DEF Mesh!Say
    <3> QED
      BY <3>1, MeshSayToInv
  <2>2. CASE ~listed
    <3>1. /\ messages' = messages + 1 /\ missed' = missed \cup {messages + 1}
          /\ UNCHANGED <<wire, socket, opened, rests, aside, batch, open, queue, mesh_sent, gone,
                         defer, loose, hello, mesh_cut>>
      BY <1>1, <2>2 DEF Mesh!Say
    <3>2. Mesh!Out' = Mesh!Out
      BY <3>1 DEF Mesh!Out
    <3>3. \A R : MeshOrder(R) => MeshOrder(R)'
      BY <3>1, <3>2 DEF MeshOrder
    <3>4. MeshType' /\ 1 .. messages' = 1 .. messages \cup {messages + 1}
      BY <3>1 DEF MeshInv, MeshType
    <3>5. MeshBooks'
      <4>1. 1 .. messages =
              MeshAll(Mesh!Out, <<>>) \cup Mesh!ToSet(batch) \cup InLists(rests) \cup missed
        BY DEF MeshInv, MeshBooks
      <4>2. 1 .. messages' = MeshAll(Mesh!Out, <<>>)' \cup Mesh!ToSet(batch')
                                \cup InLists(rests') \cup missed'
        BY <3>1, <3>2, <3>4, <4>1
      <4> QED
        BY <4>2 DEF MeshBooks
    <3>6. MeshSockets' /\ MeshCalm'
      BY <3>1 DEF MeshInv, MeshSockets, MeshCalm, Mesh!Live, Mesh!StateOf
    <3> QED
      BY <3>1, <3>3, <3>4, <3>5, <3>6 DEF MeshInv
  <2> QED
    BY <2>1, <2>2
<1>2. CASE Mesh!Answer
  BY <1>0, <1>2, MeshSayToInv DEF Mesh!Answer
<1>3. CASE Mesh!Flush
  BY <1>0, <1>3, MeshFlushInv DEF Mesh!Flush
<1>4. CASE Mesh!HearBatch
  BY <1>0, <1>4, MeshFlushInv DEF Mesh!HearBatch
<1>5. CASE Mesh!HiGoesOn
  BY <1>5, MeshHiGoesOnInv
<1>6. ASSUME NEW s \in 1 .. MeshMaxSockets, Mesh!Opens(s)
      PROVE  MeshInv'
  BY <1>6, MeshOpensInv
<1>7. ASSUME UNCHANGED <<messages, missed, queue, mesh_sent, gone, batch, open, rests, mesh_cut,
                         hello>>,
             MeshSockets',
             Mesh!StateOf(wire)' \in {"open", "closing"} =>
               Mesh!StateOf(wire) \in {"open", "closing"}
      PROVE  MeshInv'
  <2>1. MeshType' /\ MeshBooks' /\ MeshOrder(Differ)' /\ (~mesh_cut' => MeshOrder(Less)')
    BY <1>7, MeshStays
  <2>2. MeshCalm'
    BY <1>7 DEF MeshInv, MeshCalm
  <2> QED
    BY <1>7, <2>1, <2>2 DEF MeshInv
<1>8. ASSUME NEW s \in 1 .. MeshMaxSockets, Mesh!Closes(s)
      PROVE  MeshInv'
  <2>1. /\ socket[s] = "open" /\ socket' = [socket EXCEPT ![s] = "closing"]
        /\ UNCHANGED <<wire, opened, aside, open, defer, loose, mesh_cut>>
        /\ UNCHANGED <<messages, missed, queue, mesh_sent, gone, batch, open, rests, mesh_cut,
                       hello>>
    BY <1>8 DEF Mesh!Closes
  <2>2. /\ socket' \in [1 .. MeshMaxSockets -> MeshStates] /\ socket'[s] = "closing"
        /\ \A t \in 1 .. MeshMaxSockets : t # s => socket'[t] = socket[t]
    BY <2>1 DEF MeshInv, MeshSockets, MeshStates
  <2>3. /\ \A t \in 1 .. MeshMaxSockets : Mesh!Live(t)' => Mesh!Live(t)
        /\ \A t \in 1 .. MeshMaxSockets : t > opened => t # s
    BY <2>1, <2>2 DEF Mesh!Live, MeshInv, MeshSockets
  <2>4. MeshSockets'
    BY <2>1, <2>2, <2>3 DEF MeshInv, MeshSockets
  <2>5. wire = 0 \/ wire \in 1 .. MeshMaxSockets
    BY MeshWire
  <2>6. Mesh!StateOf(wire)' \in {"open", "closing"} =>
          Mesh!StateOf(wire) \in {"open", "closing"}
    BY <2>1, <2>2, <2>5 DEF Mesh!StateOf, Mesh!None
  <2> QED
    BY <1>7, <2>1, <2>4, <2>6
<1>9. ASSUME NEW s \in 1 .. MeshMaxSockets, NEW error \in BOOLEAN, NEW quick \in BOOLEAN,
             Mesh!Closed(s, error, quick)
      PROVE  MeshInv'
  <2>1. MeshSockets' /\ Mesh!StateOf(wire)' = "none"
    BY <1>9, MeshClosedSockets DEF MeshInv
  <2>2. UNCHANGED <<messages, missed, queue, mesh_sent, gone, batch, open, rests, mesh_cut,
                       hello>>
    BY <1>9 DEF Mesh!Closed
  <2> QED
    BY <1>7, <2>1, <2>2
<1>10. CASE Mesh!Defer
  <2>1. /\ defer > 0 /\ defer' = defer - 1 /\ Mesh!OpenSocket
        /\ UNCHANGED <<open, aside, loose>>
        /\ UNCHANGED <<messages, missed, queue, mesh_sent, gone, batch, open, rests, mesh_cut,
                       hello>>
    BY <1>10 DEF Mesh!Defer
  <2>2. /\ defer' = 0 /\ loose' \in Nat /\ aside' \in BOOLEAN
        /\ ~aside' => ~aside /\ wire = 0
    BY <2>1 DEF MeshInv, MeshSockets
  <2>3. defer' \in {0, 1} /\ ~(defer' > 0)
    BY <2>2
  <2>4. MeshSockets
    BY DEF MeshInv
  <2>5. MeshSockets' /\ Mesh!StateOf(wire)' = "connecting"
    BY <2>1, <2>2, <2>3, <2>4, MeshOpenSockets, Zenon
  <2> QED
    BY <1>7, <2>1, <2>5
<1>11. CASE Mesh!DeferHidden
  <2>1. /\ defer > 0 /\ defer' = defer - 1 /\ loose' = loose + 1
        /\ UNCHANGED <<wire, socket, opened, aside, open, mesh_cut>>
        /\ UNCHANGED <<messages, missed, queue, mesh_sent, gone, batch, open, rests, mesh_cut,
                       hello>>
    BY <1>11 DEF Mesh!DeferHidden
  <2>2. defer' = 0 /\ loose' \in Nat
    BY <2>1 DEF MeshInv, MeshSockets
  <2>3. MeshSockets' /\ Mesh!StateOf(wire)' = Mesh!StateOf(wire)
    BY <2>1, <2>2 DEF MeshInv, MeshSockets, Mesh!Live, Mesh!StateOf
  <2> QED
    BY <1>7, <2>1, <2>3
<1>12. CASE Mesh!DeferLoose
  <2>1. /\ loose > 0 /\ loose' = loose - 1 /\ Mesh!OpenSocket /\ defer' = defer
        /\ aside' = (aside \/ defer > 0 \/ loose > 1 \/ wire # 0)
        /\ UNCHANGED <<messages, missed, queue, mesh_sent, gone, batch, open, rests, mesh_cut,
                       hello>>
    BY <1>12 DEF Mesh!DeferLoose, Mesh!None
  <2>2. defer' \in {0, 1} /\ loose' \in Nat
    BY <2>1 DEF MeshInv, MeshSockets
  <2>3. aside' \in BOOLEAN /\ (~aside' => ~aside /\ wire = 0 /\ ~(defer' > 0))
    BY <2>1
  <2>4. MeshSockets' /\ Mesh!StateOf(wire)' = "connecting"
    BY <2>1, <2>2, <2>3, MeshOpenSockets DEF MeshInv
  <2> QED
    BY <1>7, <2>1, <2>4
<1>13. CASE UNCHANGED Mesh!vars
  <2>1. /\ UNCHANGED <<wire, socket, opened, aside, open, mesh_cut, defer, loose>>
        /\ UNCHANGED <<messages, missed, queue, mesh_sent, gone, batch, open, rests, mesh_cut,
                       hello>>
    BY <1>13 DEF Mesh!vars
  <2>2. MeshSockets' /\ Mesh!StateOf(wire)' = Mesh!StateOf(wire)
    BY <2>1 DEF MeshInv, MeshSockets, Mesh!Live, Mesh!StateOf
  <2> QED
    BY <1>7, <2>1, <2>2
<1>14. CASE Mesh!HiAsks
  <2>1. /\ Mesh!SayTo(messages + 1) /\ messages' = messages + 1 /\ hello > 0
        /\ UNCHANGED <<rests, missed, mesh_cut, defer, loose>>
    BY <1>14 DEF Mesh!HiAsks
  <2>2. hello # 0
    BY <2>1
  <2> QED
    BY <2>1, <2>2, MeshSayToInv
<1>15. CASE Mesh!HiSends
  BY <1>15, MeshHiSendsInv
<1> QED
  BY <1>1, <1>2, <1>3, <1>4, <1>5, <1>6, <1>8, <1>9, <1>10, <1>11, <1>12, <1>13, <1>14, <1>15
     DEF Mesh!Next, Mesh!Sockets

LEMMA MeshCardinality ==
  ASSUME NEW X
  PROVE  /\ Mesh!IsFiniteSet(X) <=> IsFiniteSet(X)
         /\ Mesh!Cardinality(X) = Cardinality(X)
  BY DEF Mesh!IsFiniteSet, IsFiniteSet, Mesh!Cardinality, Cardinality

LEMMA MeshPromise ==
  MeshInv => Mesh!NothingVanishes /\ Mesh!SentInOrder /\ Mesh!OneSocket
<1> SUFFICES ASSUME MeshInv
             PROVE  Mesh!NothingVanishes /\ Mesh!SentInOrder /\ Mesh!OneSocket
  OBVIOUS
<1>1. Mesh!NothingVanishes
  BY MeshEmpty, MeshOuts
     DEF MeshInv, MeshBooks, MeshAll, InLists, Mesh!NothingVanishes, Mesh!Waiting
<1>2. Sorted(mesh_sent, Differ) /\ (~mesh_cut => Sorted(mesh_sent, Less))
  BY MeshOuts DEF MeshInv, MeshOrder, MeshLine
<1>3. mesh_sent \in Seq(Nat)
  BY DEF MeshInv, MeshType
<1>4. Mesh!SentInOrder
  <2>1. \A i \in DOMAIN mesh_sent : i \in Nat /\ mesh_sent[i] \in Nat
    BY <1>3
  <2>2. ASSUME NEW i \in DOMAIN mesh_sent, NEW j \in DOMAIN mesh_sent, i # j
        PROVE  mesh_sent[i] # mesh_sent[j]
    <3>1. i < j \/ j < i
      BY <2>1, <2>2
    <3> QED
      BY <1>2, <2>1, <3>1, MeshRelations DEF Sorted
  <2>3. ASSUME ~mesh_cut, NEW i \in DOMAIN mesh_sent, NEW j \in DOMAIN mesh_sent, i < j
        PROVE  mesh_sent[i] < mesh_sent[j]
    BY <1>2, <2>1, <2>3, MeshRelations DEF Sorted
  <2> QED
    BY <2>2, <2>3 DEF Mesh!SentInOrder
<1>5. ASSUME ~aside
      PROVE  Mesh!Cardinality({s \in Mesh!Sockets : Mesh!Live(s)}) <= 1
  <2> DEFINE L == {s \in Mesh!Sockets : Mesh!Live(s)}
  <2>1. L \subseteq {wire}
    BY <1>5 DEF MeshInv, MeshSockets, Mesh!Sockets
  <2>2. IsFiniteSet({wire}) /\ Cardinality({wire}) = 1
    BY FS_Singleton
  <2> HIDE DEF L
  <2>3. Cardinality(L) <= 1
    BY <2>1, <2>2, FS_Subset
  <2> QED
    BY <2>3, MeshCardinality DEF L
<1> QED
  BY <1>1, <1>4, <1>5 DEF Mesh!OneSocket

(* MeshKeepsMessages of MCGun, of the link to a peer in gun.js (say,       *)
(* flush, send, hi, bye, open, reconnect): for any number of messages,     *)
(* sockets and retries, and any sizes of batches and turns, what was said  *)
(* is sent once or still waits, in order unless hi has given up its turn   *)
(* or asked before it sent, and over one socket unless one was asked for   *)
(* outside of reconnect.                                                   *)
THEOREM MeshCorrect == Mesh!Spec => []MeshKeepsMessages
<1>1. Mesh!Init => MeshInv
  BY MeshInit
<1>2. MeshInv /\ [Mesh!Next]_(Mesh!vars) => MeshInv'
  BY MeshStep
<1>3. MeshInv => MeshKeepsMessages
  BY MeshPromise DEF MeshKeepsMessages
<1> QED
  BY <1>1, <1>2, <1>3, PTL DEF Mesh!Spec
=============================================================================
