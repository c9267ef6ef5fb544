-------------------------------- MODULE RouterProofs --------------------------------
(***************************************************************************)
(* Router's invariants about who is sent what, and how many, proved for    *)
(* any actors, topics, messages, window and fan-out; and, in the second    *)
(* half, the router with its history, for any bound on that: it implements *)
(* SeenCache, and what SeenCacheProofs proves of that is proved of it.     *)
(***************************************************************************)
EXTENDS RouterHistory, FiniteSetTheorems, WellFoundedInduction, TLAPS

(* The number of copies an actor gets is the number of waves it is in.     *)
LEMMA CopiesCount ==
  ASSUME NEW waves, NEW n \in Nat, DOMAIN waves = 1..n, NEW a \in Addrs
  PROVE  /\ Copies(waves)[a] \in Nat
         /\ Copies(waves)[a] = 0 <=> \A i \in 1..n : a \notin waves[i] \ closed
         /\ (\A i, j \in 1..n : a \in waves[i] \ closed /\ a \in waves[j] \ closed => i = j)
              => Copies(waves)[a] <= 1
<1> DEFINE sent == {i \in DOMAIN waves : a \in waves[i] \ closed}
<1>1. Copies(waves)[a] = Cardinality(sent)
  BY DEF Copies
<1>2. sent \in SUBSET (1..n) /\ IsFiniteSet(1..n)
  BY FS_Interval
<1>3. IsFiniteSet(sent)
  BY <1>2, FS_Subset
<1>4. Cardinality(sent) \in Nat
  BY <1>3, FS_CardinalityType
<1>5. Cardinality(sent) = 0 <=> sent = {}
  BY <1>3, FS_EmptySet
<1>6. ASSUME \A i, j \in 1..n : a \in waves[i] \ closed /\ a \in waves[j] \ closed => i = j
      PROVE  Cardinality(sent) <= 1
  <2>1. CASE sent = {}
    BY <1>5, <2>1
  <2>2. CASE sent # {}
    <3>1. PICK i \in sent : TRUE
      BY <2>2
    <3>2. sent = {i}
      BY <1>2, <1>6, <3>1
    <3>3. Cardinality({i}) = 1
      BY FS_Singleton
    <3> HIDE DEF sent
    <3> QED
      BY <3>2, <3>3
  <2> QED
    BY <2>1, <2>2
<1> QED
  BY <1>1, <1>4, <1>5, <1>6

(* Three waves followed by others.                                         *)
LEMMA WavesInFront ==
  ASSUME NEW S, NEW A \in S, NEW B \in S, NEW C \in S, NEW w \in Seq(S),
         NEW all, all = <<A, B, C>> \o w
  PROVE  /\ Len(w) \in Nat
         /\ DOMAIN all = 1..(3 + Len(w))
         /\ all[1] = A /\ all[2] = B /\ all[3] = C
         /\ \A i \in 1..Len(w) : all[3 + i] = w[i]
<1>1. <<A, B, C>> \in Seq(S) /\ Len(<<A, B, C>>) = 3
  OBVIOUS
<1>2. Len(w) \in Nat /\ Len(all) = 3 + Len(w) /\ all \in Seq(S)
  BY <1>1
<1>3. DOMAIN all = 1..(3 + Len(w))
  BY <1>2
<1>4. all[1] = A /\ all[2] = B /\ all[3] = C
  BY <1>2
<1>5. \A i \in 1..Len(w) : all[3 + i] = w[i]
  BY <1>1, <1>2
<1> QED
  BY <1>2, <1>3, <1>4, <1>5

LEMMA Draw == ASSUME NEW S, NEW n, NEW drawn \in DrawnFrom(S, n) PROVE drawn \subseteq S
BY DEF DrawnFrom

LEMMA Sample == ASSUME NEW S, NEW sample \in Samples(S) PROVE sample \subseteq S
BY DEF Samples, kSubset

(* No more are drawn than there are draws.                                 *)
LEMMA DrawCount ==
  ASSUME NEW S, NEW n \in Nat, NEW drawn \in DrawnFrom(S, n)
  PROVE  Cardinality(drawn) <= n
<1>1. Cardinality({}) = 0
  BY FS_EmptySet
<1> QED
  BY <1>1 DEF DrawnFrom

LEMMA SampleCount ==
  ASSUME NEW S, IsFiniteSet(S), NEW sample \in Samples(S)
  PROVE  Cardinality(sample) <= FanOut
<1>1. Cardinality(S) \in Nat /\ FanOut \in Nat
  BY FS_CardinalityType, FanOutAssumption
<1>2. Cardinality(sample) = IF Cardinality(S) < FanOut THEN Cardinality(S) ELSE FanOut
  BY DEF Samples, kSubset
<1> QED
  BY <1>1, <1>2

LEMMA DrawsType == ASSUME NEW n \in Nat PROVE Draws(n) \in 0..(FanOut - 1)
BY FanOutAssumption DEF Draws

(* Every set of actors is finite; a part has no more elements.             *)
LEMMA FiniteActors ==
  ASSUME NEW S \in SUBSET Addrs, NEW T \in SUBSET S
  PROVE  /\ IsFiniteSet(S) /\ IsFiniteSet(T)
         /\ Cardinality(S) \in Nat /\ Cardinality(T) \in Nat
         /\ Cardinality(T) <= Cardinality(S)
<1>1. IsFiniteSet(S)
  BY AddrsAssumption, FS_Subset
<1>2. IsFiniteSet(T) /\ Cardinality(T) <= Cardinality(S)
  BY <1>1, FS_Subset
<1> QED
  BY <1>1, <1>2, FS_CardinalityType

LEMMA Actors ==
  /\ Conns \subseteq Sources /\ ServerPeers \subseteq Sources /\ Sources \subseteq Addrs
  /\ StorageAdapters \subseteq Addrs /\ StorageAdapters \cap Sources = {}
  /\ ServerPeers \cap Conns = {}
  /\ None \notin Addrs
BY AddrsAssumption DEF Sources, Addrs

LEMMA NoCopies == Quiet.copies \in [Addrs -> Nat] /\ \A a \in Addrs : Quiet.copies[a] = 0
BY DEF Quiet
-------------------------------------------------------------------------------------
(* What the proofs need to know of a get's handling.                       *)
LEMMA GetStep ==
  ASSUME TypeOK, NEW get \in Gets, NEW from \in Sources, HandleGet(get, from)
  PROVE  \E sampled \in SUBSET (Sources \ ServerPeers), random \in SUBSET Conns, errored \in SUBSET closed :
           /\ random \cap sampled = {}
           /\ subscribers_by_topic' =
                [subscribers_by_topic EXCEPT
                   ![get.topic] = (subscribers_by_topic[get.topic] \cup {from}) \ errored]
           /\ known_peers' \subseteq known_peers
           /\ Cardinality(sampled \ closed) + Cardinality(random) <= FanOut
           /\ out' = Sent("get", get, from, <<StorageAdapters, ServerPeers, sampled, random>>)
<1> DEFINE subscribers == subscribers_by_topic[get.topic] \cup {from}
           sampled(sample) == sample \ ({from} \cup ServerPeers)
           errored(sample) == sampled(sample) \cap closed
           peers(sample) == known_peers \ errored(sample)
           random(sample, drawn) == drawn \ ({from} \cup ServerPeers \cup sampled(sample))
<1>1. PICK sample \in Samples(subscribers) :
        /\ subscribers_by_topic' =
             [subscribers_by_topic EXCEPT ![get.topic] = subscribers \ errored(sample)]
        /\ \E drawn \in DrawnFrom(peers(sample), Draws(Cardinality(sampled(sample) \ closed))) :
             /\ known_peers' = peers(sample) \ (random(sample, drawn) \cap closed)
             /\ out' = Sent("get", get, from,
                            <<StorageAdapters, ServerPeers, sampled(sample), random(sample, drawn)>>)
  BY DEF HandleGet
<1>2. PICK drawn \in DrawnFrom(peers(sample), Draws(Cardinality(sampled(sample) \ closed))) :
        /\ known_peers' = peers(sample) \ (random(sample, drawn) \cap closed)
        /\ out' = Sent("get", get, from,
                       <<StorageAdapters, ServerPeers, sampled(sample), random(sample, drawn)>>)
  BY <1>1
<1>3. get.topic \in Topics /\ subscribers \subseteq Sources
  BY MessagesAssumption DEF TypeOK
<1>4. sample \subseteq subscribers /\ drawn \subseteq peers(sample)
  BY Sample, Draw
<1>5. known_peers \subseteq Conns
  BY DEF TypeOK
<1>6. sampled(sample) \in SUBSET (Sources \ ServerPeers)
  BY <1>3, <1>4
<1>7. random(sample, drawn) \in SUBSET Conns /\ random(sample, drawn) \cap sampled(sample) = {}
  BY <1>4, <1>5
<1>8. errored(sample) \in SUBSET closed /\ known_peers' \subseteq known_peers
  BY <1>2
<1>9. Cardinality(sampled(sample) \ closed) + Cardinality(random(sample, drawn)) <= FanOut
  <2> DEFINE took == Cardinality(sampled(sample) \ closed)
  <2>1. subscribers \in SUBSET Addrs /\ sample \in SUBSET Addrs /\ drawn \in SUBSET Addrs
    BY <1>3, <1>4, <1>5, Actors
  <2>2. took \in Nat /\ took <= Cardinality(sample) /\ Cardinality(sample) \in Nat
    <3>1. sampled(sample) \ closed \in SUBSET sample
      OBVIOUS
    <3> HIDE DEF sampled
    <3> QED
      BY <2>1, <3>1, FiniteActors
  <2>3. Cardinality(sample) <= FanOut
    <3>1. IsFiniteSet(subscribers)
      BY <2>1, FiniteActors
    <3> QED
      BY <3>1, SampleCount
  <2>4. /\ Cardinality(random(sample, drawn)) <= Cardinality(drawn)
        /\ Cardinality(random(sample, drawn)) \in Nat /\ Cardinality(drawn) \in Nat
    <3>1. random(sample, drawn) \in SUBSET drawn
      OBVIOUS
    <3> HIDE DEF random
    <3> QED
      BY <2>1, <3>1, FiniteActors
  <2>5. Draws(took) \in Nat /\ Cardinality(drawn) <= Draws(took)
    <3>1. Draws(took) \in Nat
      BY <2>2, DrawsType, FanOutAssumption
    <3> HIDE DEF peers
    <3> QED
      BY <3>1, DrawCount
  <2> HIDE DEF took, random
  <2>6. took + Draws(took) <= FanOut
    BY <2>2, <2>3, FanOutAssumption DEF Draws
  <2>7. took + Cardinality(random(sample, drawn)) <= FanOut
    BY <2>2, <2>4, <2>5, <2>6, FanOutAssumption
  <2> QED
    BY <2>7 DEF took
<1> HIDE DEF sampled, random, errored
<1> QED
  BY <1>1, <1>2, <1>6, <1>7, <1>8, <1>9

(* The waves of a publication: sets of actors that do not overlap and leave *)
(* out its source.                                                         *)
LEMMA SubscriberWaves ==
  ASSUME TypeOK, NEW put \in Puts, NEW from \in Sources
  PROVE  /\ Len(put.topics) \in Nat /\ DOMAIN put.topics = 1..Len(put.topics)
         /\ \A i \in DOMAIN put.topics : put.topics[i] \in Topics
         /\ \A i \in DOMAIN put.topics :
              SubscriberWave(put, from, i) \subseteq Sources \ (ServerPeers \cup {from})
         /\ \A i, j \in DOMAIN put.topics :
              i < j => SubscriberWave(put, from, i) \cap SubscriberWave(put, from, j) = {}
<1>1. put.topics \in Seq(Topics)
  BY MessagesAssumption
<1>2. Len(put.topics) \in Nat /\ DOMAIN put.topics = 1..Len(put.topics)
  BY <1>1
<1>3. \A i \in DOMAIN put.topics : put.topics[i] \in Topics
  BY <1>1
<1>4. ASSUME NEW i \in DOMAIN put.topics
      PROVE  SubscriberWave(put, from, i) \subseteq Sources \ (ServerPeers \cup {from})
  BY <1>3 DEF SubscriberWave, TypeOK
<1>5. ASSUME NEW i \in DOMAIN put.topics, NEW j \in DOMAIN put.topics, i < j
      PROVE  SubscriberWave(put, from, i) \cap SubscriberWave(put, from, j) = {}
  <2>1. i \in 1..(j - 1)
    BY <1>2, <1>5
  <2>2. SubscriberWave(put, from, i) \subseteq subscribers_by_topic[put.topics[i]]
    BY DEF SubscriberWave
  <2>3. subscribers_by_topic[put.topics[i]] \cap SubscriberWave(put, from, j) = {}
    BY <2>1 DEF SubscriberWave
  <2> QED
    BY <2>2, <2>3
<1> QED
  BY <1>2, <1>3, <1>4, <1>5

(* A nonempty set of indices has a least one: the intervals up to its      *)
(* elements are finite sets, on which strict inclusion is well-founded.    *)
LEMMA LeastIndex ==
  ASSUME NEW n \in Nat, NEW T \in SUBSET (1..n), T # {}
  PROVE  \E i \in T : \A j \in T : i <= j
<1> DEFINE R == StrictSubsetOrdering(1..n)
           upto == {1..i : i \in T}
<1>1. IsWellFoundedOn(R, FiniteSubsetsOf(1..n))
  BY FS_StrictSubsetOrderingWellFounded
<1>2. FiniteSubsetsOf(1..n) = SUBSET (1..n)
  <2>1. IsFiniteSet(1..n)
    BY FS_Interval
  <2> QED
    BY <2>1, FS_FiniteSubsetsOfFinite, Zenon
<1>3. upto \subseteq SUBSET (1..n) /\ upto # {}
  <2>1. \A i \in T : 1..i \in SUBSET (1..n)
    OBVIOUS
  <2> QED
    BY <2>1, Zenon
<1>4. \E s \in upto : \A r \in upto : ~(<<r, s>> \in R)
  <2> HIDE DEF R, upto
  <2>1. IsWellFoundedOn(R, SUBSET (1..n))
    BY <1>1, <1>2
  <2> QED
    BY <2>1, <1>3, WFMin, Zenon
<1>5. PICK i \in T, s \in upto : s = 1..i /\ \A r \in upto : ~(<<r, s>> \in R)
  BY <1>4
<1>6. ASSUME NEW j \in T, j < i
      PROVE  FALSE
  <2>1. 1..j \in upto /\ 1..j \in SUBSET (1..n) /\ s \in SUBSET (1..n)
    BY <1>3
  <2>2. 1..j \subseteq s /\ i \in s /\ i \notin 1..j
    BY <1>5, <1>6
  <2>3. <<1..j, s>> \in R
    BY <2>1, <2>2 DEF StrictSubsetOrdering
  <2> QED
    BY <1>5, <2>1, <2>3
<1> QED
  BY <1>6

(* Every subscriber of a put's topics is in a wave, but for its source and *)
(* the server peers: the wave of the first topic it is subscribed to.      *)
LEMMA SubscribersCovered ==
  ASSUME TypeOK, NEW put \in Puts, NEW from \in Sources,
         NEW k \in DOMAIN put.topics,
         NEW a \in subscribers_by_topic[put.topics[k]], a # from, a \notin ServerPeers
  PROVE  \E i \in DOMAIN put.topics : a \in SubscriberWave(put, from, i)
<1> DEFINE T == {i \in DOMAIN put.topics : a \in subscribers_by_topic[put.topics[i]]}
<1>1. DOMAIN put.topics = 1..Len(put.topics) /\ Len(put.topics) \in Nat
  BY SubscriberWaves
<1>2. T \in SUBSET (1..Len(put.topics)) /\ T # {}
  BY <1>1
<1>3. PICK i \in T : \A j \in T : i <= j
  <2> HIDE DEF T
  <2> QED
    BY <1>1, <1>2, LeastIndex
<1>4. \A j \in 1..(i - 1) : j \in DOMAIN put.topics /\ ~(j >= i)
  BY <1>1, <1>3
<1>5. \A j \in 1..(i - 1) : a \notin subscribers_by_topic[put.topics[j]]
  <2> TAKE j \in 1..(i - 1)
  <2>1. j \notin T
    BY <1>1, <1>3, <1>4
  <2> QED
    BY <1>4, <2>1
<1>6. a \in SubscriberWave(put, from, i)
  BY <1>3, <1>5 DEF SubscriberWave
<1> QED
  BY <1>3, <1>6

Waves(put, from) == [i \in DOMAIN put.topics |-> SubscriberWave(put, from, i)]

Deliveries(put, from, random) ==
  <<StorageAdapters \ {from}, ServerPeers \ {from}, random>> \o Waves(put, from)

(* What a publication is sent to, wave by wave.                            *)
LEMMA DeliveryWaves ==
  ASSUME TypeOK, NEW put \in Puts, NEW from \in Sources, NEW random \in SUBSET Conns,
         NEW all, all = Deliveries(put, from, random)
  PROVE  /\ DOMAIN all = 1..(3 + Len(put.topics))
         /\ all[1] = StorageAdapters \ {from}
         /\ all[2] = ServerPeers \ {from}
         /\ all[3] = random
         /\ \A i \in DOMAIN put.topics : all[3 + i] = SubscriberWave(put, from, i)
<1> DEFINE w == Waves(put, from)
           n == Len(put.topics)
<1>1. n \in Nat /\ DOMAIN put.topics = 1..n
  BY SubscriberWaves
<1>2. \A i \in 1..n : SubscriberWave(put, from, i) \in SUBSET Addrs
  BY <1>1, SubscriberWaves, Actors
<1>3. w \in [1..n -> SUBSET Addrs] /\ \A i \in 1..n : w[i] = SubscriberWave(put, from, i)
  BY <1>1, <1>2 DEF Waves
<1>4. /\ StorageAdapters \ {from} \in SUBSET Addrs
      /\ ServerPeers \ {from} \in SUBSET Addrs
      /\ random \in SUBSET Addrs
  BY Actors
<1>5. all = <<StorageAdapters \ {from}, ServerPeers \ {from}, random>> \o w
  BY DEF Deliveries
<1> HIDE DEF w, n
<1>6. w \in Seq(SUBSET Addrs) /\ Len(w) = n
  BY <1>1, <1>3
<1>7. /\ DOMAIN all = 1..(3 + Len(w))
      /\ all[1] = StorageAdapters \ {from} /\ all[2] = ServerPeers \ {from} /\ all[3] = random
      /\ \A i \in 1..Len(w) : all[3 + i] = w[i]
  BY <1>4, <1>5, <1>6, WavesInFront
<1> QED
  BY <1>1, <1>3, <1>6, <1>7 DEF n

(* What the proofs need to know of a publication's handling.               *)
LEMMA PublicationStep ==
  ASSUME TypeOK, NEW put \in Puts, NEW from \in Sources, HandlePublication(put, from)
  PROVE  /\ \E random \in SUBSET (Conns \ {from}) :
              /\ \A i \in DOMAIN put.topics : random \cap SubscriberWave(put, from, i) = {}
              /\ Cardinality(random) < FanOut
              /\ out' = Sent("publication", put, from, Deliveries(put, from, random))
         /\ known_peers' \subseteq known_peers
         /\ subscribers_by_topic' = [t \in Topics |-> Retained(put, Waves(put, from), t)]
<1> DEFINE waves == Waves(put, from)
           relayed == UNION {waves[i] : i \in DOMAIN put.topics}
           addressed == (ServerPeers \ {from}) \cup relayed
           random(drawn) == drawn \ ({from} \cup addressed)
           choices == IF Cardinality(addressed) < FanOut
                        THEN DrawnFrom(known_peers, Draws(Cardinality(relayed \ closed)))
                        ELSE {{}}
<1>1. /\ subscribers_by_topic' = [t \in Topics |-> Retained(put, waves, t)]
      /\ \E drawn \in choices :
           /\ known_peers' = known_peers \ (random(drawn) \cap closed)
           /\ out' = Sent("publication", put, from,
                          <<StorageAdapters \ {from}, ServerPeers \ {from}, random(drawn)>> \o waves)
  BY DEF HandlePublication, Waves
<1>2. PICK drawn \in choices :
           /\ known_peers' = known_peers \ (random(drawn) \cap closed)
           /\ out' = Sent("publication", put, from,
                          <<StorageAdapters \ {from}, ServerPeers \ {from}, random(drawn)>> \o waves)
  BY <1>1
<1>3. drawn \subseteq known_peers
  BY Draw
<1>4. random(drawn) \in SUBSET (Conns \ {from})
  BY <1>3 DEF TypeOK
<1>5. ASSUME NEW i \in DOMAIN put.topics
      PROVE  random(drawn) \cap SubscriberWave(put, from, i) = {}
  <2>1. waves[i] = SubscriberWave(put, from, i)
    BY DEF Waves
  <2>2. waves[i] \subseteq relayed
    OBVIOUS
  <2> QED
    BY <2>1, <2>2
<1>6. out' = Sent("publication", put, from, Deliveries(put, from, random(drawn)))
  BY <1>2 DEF Deliveries
<1>7. known_peers' \subseteq known_peers
  BY <1>2
<1>8. Cardinality(random(drawn)) < FanOut
  <2>1. drawn \in SUBSET Addrs /\ relayed \ closed \in SUBSET Addrs
    <3>1. \A i \in DOMAIN put.topics : waves[i] \subseteq Addrs
      BY SubscriberWaves, Actors DEF Waves
    <3> QED
      BY <1>3, <3>1, Actors DEF TypeOK
  <2>2. Cardinality(drawn) <= FanOut - 1
    <3>1. Cardinality(relayed \ closed) \in Nat
      <4> HIDE DEF relayed
      <4> QED
        BY <2>1, FiniteActors
    <3>2. Draws(Cardinality(relayed \ closed)) \in 0..(FanOut - 1)
      BY <3>1, DrawsType
    <3>3. Cardinality({}) = 0
      BY FS_EmptySet
    <3>4. CASE drawn \in DrawnFrom(known_peers, Draws(Cardinality(relayed \ closed)))
      <4> HIDE DEF relayed
      <4>1. Cardinality(drawn) <= Draws(Cardinality(relayed \ closed))
        BY <3>2, <3>4, DrawCount, FanOutAssumption
      <4>2. Cardinality(drawn) \in Nat
        BY <2>1, FiniteActors
      <4> QED
        BY <3>2, <4>1, <4>2, FanOutAssumption
    <3>5. CASE drawn = {}
      BY <3>3, <3>5, FanOutAssumption
    <3> QED
      BY <3>4, <3>5
  <2>3. random(drawn) \in SUBSET drawn
    OBVIOUS
  <2> HIDE DEF random
  <2>4. /\ Cardinality(random(drawn)) <= Cardinality(drawn)
        /\ Cardinality(random(drawn)) \in Nat /\ Cardinality(drawn) \in Nat
    BY <2>1, <2>3, FiniteActors
  <2> QED
    BY <2>2, <2>4, FanOutAssumption
<1> HIDE DEF random
<1> QED
  BY <1>1, <1>4, <1>5, <1>6, <1>7, <1>8
-------------------------------------------------------------------------------------
OutType ==
  /\ out.kind \in {"quiet", "get", "publication", "reply"}
  /\ out.from \in Sources \cup {None}
  /\ out.copies \in [Addrs -> Nat]

LEMMA SentType ==
  ASSUME NEW kind \in {"get", "publication", "reply"}, NEW msg, NEW from \in Sources,
         NEW waves, NEW n \in Nat, DOMAIN waves = 1..n,
         out' = Sent(kind, msg, from, waves)
  PROVE  OutType'
<1>1. \A a \in Addrs : Copies(waves)[a] \in Nat
  BY CopiesCount
<1>2. Copies(waves) \in [Addrs -> Nat]
  BY <1>1 DEF Copies
<1>3. out'.kind = kind /\ out'.from = from /\ out'.copies = Copies(waves)
  BY DEF Sent
<1> QED
  BY <1>2, <1>3 DEF OutType

LEMMA QuietType == ASSUME out' = Quiet PROVE OutType'
BY NoCopies DEF OutType, Quiet

LEMMA GetType ==
  ASSUME TypeOK, NEW get \in Gets, NEW from \in Sources, HandleGet(get, from)
  PROVE  TypeOK'
<1>1. PICK sampled \in SUBSET (Sources \ ServerPeers), random \in SUBSET Conns,
           errored \in SUBSET closed :
        /\ subscribers_by_topic' =
             [subscribers_by_topic EXCEPT
                ![get.topic] = (subscribers_by_topic[get.topic] \cup {from}) \ errored]
        /\ known_peers' \subseteq known_peers
        /\ out' = Sent("get", get, from, <<StorageAdapters, ServerPeers, sampled, random>>)
  BY GetStep
<1> DEFINE waves == <<StorageAdapters, ServerPeers, sampled, random>>
           entry == [from |-> from, last_reply_checksum |-> get.checksum]
<1>2. DOMAIN waves = 1..4
  OBVIOUS
<1>3. OutType'
  <2> HIDE DEF waves
  <2>1. out' = Sent("get", get, from, waves)
    BY <1>1 DEF waves
  <2> QED
    BY <1>2, <2>1, SentType
<1>4. get.id \in GetIds /\ get.id \in Ids /\ get.topic \in Topics /\ get.checksum \in Checksums
  BY MessagesAssumption DEF GetIds, Ids, Checksums
<1>5. seen_messages'.set \subseteq Ids
  BY <1>4 DEF HandleGet, Accept, SetInsert, TypeOK
<1>6. seen_get_messages' = MapInsert(seen_get_messages, get.id, entry, SeenMsgsMaxSize)
  BY DEF HandleGet
<1>7. DOMAIN seen_get_messages'.map \subseteq GetIds
  BY <1>4, <1>6 DEF MapInsert, TypeOK
<1>8. ASSUME NEW g \in DOMAIN seen_get_messages'.map
      PROVE  seen_get_messages'.map[g] \in [from : Sources, last_reply_checksum : Checksums]
  <2>1. entry \in [from : Sources, last_reply_checksum : Checksums]
    BY <1>4
  <2>2. g # get.id => g \in DOMAIN seen_get_messages.map
    BY <1>6 DEF MapInsert
  <2>3. seen_get_messages'.map[g] = IF g = get.id THEN entry ELSE seen_get_messages.map[g]
    BY <1>6 DEF MapInsert
  <2> QED
    BY <2>1, <2>2, <2>3 DEF TypeOK
<1>9. known_peers' \subseteq Conns /\ subscribers_by_topic' \in [Topics -> SUBSET Sources]
  BY <1>1, <1>4 DEF TypeOK
<1>10. closed' \subseteq Conns /\ asked' \subseteq Sources \X Topics
  BY <1>4 DEF HandleGet, TypeOK
<1> QED
  BY <1>3, <1>5, <1>7, <1>8, <1>9, <1>10 DEF TypeOK, OutType

LEMMA PublicationType ==
  ASSUME TypeOK, NEW put \in Puts, NEW from \in Sources, HandlePublication(put, from)
  PROVE  TypeOK'
<1>1. PICK random \in SUBSET (Conns \ {from}) :
        out' = Sent("publication", put, from, Deliveries(put, from, random))
  BY PublicationStep
<1> DEFINE all == Deliveries(put, from, random)
<1>2. OutType'
  <2>1. 3 + Len(put.topics) \in Nat /\ DOMAIN all = 1..(3 + Len(put.topics))
    BY SubscriberWaves, DeliveryWaves
  <2> HIDE DEF all
  <2>2. out' = Sent("publication", put, from, all)
    BY <1>1 DEF all
  <2> QED
    BY <2>1, <2>2, SentType
<1>3. seen_messages'.set \subseteq Ids
  BY DEF HandlePublication, Accept, SetInsert, TypeOK, PutIds, Ids
<1>4. known_peers' \subseteq Conns
  BY PublicationStep DEF TypeOK
<1>5. subscribers_by_topic' \in [Topics -> SUBSET Sources]
  <2>1. \A t \in Topics : Retained(put, Waves(put, from), t) \subseteq subscribers_by_topic[t]
    BY DEF Retained
  <2> QED
    BY <2>1, PublicationStep DEF TypeOK
<1>6. UNCHANGED <<seen_get_messages, closed, asked>>
  BY DEF HandlePublication
<1> QED
  BY <1>2, <1>3, <1>4, <1>5, <1>6 DEF TypeOK, OutType

LEMMA ReplyType ==
  ASSUME TypeOK, NEW put \in Puts, NEW from \in Sources, HandleReply(put, from)
  PROVE  TypeOK'
<1> DEFINE g == put.in_response_to
           route == Route(g)
           waves == <<{route.from}>>
<1>1. /\ g \in DOMAIN seen_get_messages.map
      /\ seen_get_messages' =
           MapUpdate(seen_get_messages, g, [route EXCEPT !.last_reply_checksum = put.checksum])
      /\ out' = Sent("reply", put, from, waves)
      /\ UNCHANGED <<known_peers, subscribers_by_topic, closed, asked>>
  BY DEF HandleReply
<1>2. DOMAIN waves = 1..1
  OBVIOUS
<1>3. OutType'
  <2> HIDE DEF waves
  <2> QED
    BY <1>1, <1>2, SentType
<1>4. seen_messages'.set \subseteq Ids
  BY DEF HandleReply, Accept, SetInsert, TypeOK, PutIds, Ids
<1>5. route \in [from : Sources, last_reply_checksum : Checksums] /\ put.checksum \in Checksums
  BY <1>1 DEF TypeOK, Route, Checksums
<1> HIDE DEF route
<1>6. [route EXCEPT !.last_reply_checksum = put.checksum]
        \in [from : Sources, last_reply_checksum : Checksums]
  BY <1>5
<1>7. seen_get_messages'.map =
        [seen_get_messages.map EXCEPT ![g] = [route EXCEPT !.last_reply_checksum = put.checksum]]
  BY <1>1 DEF MapUpdate
<1>8. DOMAIN seen_get_messages'.map = DOMAIN seen_get_messages.map
  BY <1>7
<1>9. \A k \in DOMAIN seen_get_messages'.map :
        seen_get_messages'.map[k] \in [from : Sources, last_reply_checksum : Checksums]
  BY <1>6, <1>7, <1>8 DEF TypeOK
<1> QED
  BY <1>1, <1>3, <1>4, <1>8, <1>9 DEF TypeOK, OutType

LEMMA StepType == ASSUME TypeOK, [Next]_vars PROVE TypeOK'
<1>1. ASSUME NEW conn \in Conns, HandleHi(conn)
      PROVE  TypeOK'
  BY <1>1, QuietType DEF HandleHi, TypeOK, OutType
<1>2. ASSUME NEW conn \in Conns, Close(conn)
      PROVE  TypeOK'
  BY <1>2, QuietType DEF Close, TypeOK, OutType
<1>3. ASSUME NEW id \in Ids, RefuseDuplicate(id)
      PROVE  TypeOK'
  BY <1>3, QuietType DEF RefuseDuplicate, TypeOK, OutType
<1>4. ASSUME NEW put \in Puts, DropReply(put)
      PROVE  TypeOK'
  <2>1. OutType' /\ UNCHANGED <<known_peers, seen_get_messages, subscribers_by_topic, closed, asked>>
    BY <1>4, QuietType DEF DropReply
  <2>2. seen_messages'.set \subseteq Ids
    BY <1>4 DEF DropReply, Accept, SetInsert, TypeOK, PutIds, Ids
  <2> QED
    BY <2>1, <2>2 DEF TypeOK, OutType
<1>5. ASSUME NEW from \in Sources, NEW get \in Gets, HandleGet(get, from)
      PROVE  TypeOK'
  BY <1>5, GetType
<1>6. ASSUME NEW from \in Sources, NEW put \in Puts, HandlePublication(put, from)
      PROVE  TypeOK'
  BY <1>6, PublicationType
<1>7. ASSUME NEW from \in Sources, NEW put \in Puts, HandleReply(put, from)
      PROVE  TypeOK'
  BY <1>7, ReplyType
<1>8. CASE UNCHANGED vars
  BY <1>8 DEF vars, TypeOK
<1> QED
  BY <1>1, <1>2, <1>3, <1>4, <1>5, <1>6, <1>7, <1>8 DEF Next

LEMMA InitType == Init => TypeOK
<1> SUFFICES ASSUME Init PROVE TypeOK
  OBVIOUS
<1>1. OutType
  BY NoCopies DEF Init, OutType, Quiet
<1> QED
  BY <1>1 DEF Init, TypeOK, OutType, EmptyBoundedSet, EmptyBoundedMap

(* The router's tables hold what they are meant to, whatever is sent.      *)
THEOREM TypeCorrect == Spec => []TypeOK
<1>1. TypeOK /\ [Next]_vars => TypeOK'
  BY StepType
<1> QED
  BY <1>1, InitType, PTL DEF Spec
-------------------------------------------------------------------------------------
LEMMA StepInterest == ASSUME TypeOK, InterestKept, [Next]_vars PROVE InterestKept'
<1> SUFFICES ASSUME NEW a \in Sources, a \notin closed', NEW t \in Topics, <<a, t>> \in asked'
             PROVE  a \in subscribers_by_topic'[t]
  BY DEF InterestKept
<1>1. a \notin closed
  BY DEF Next, HandleHi, Close, RefuseDuplicate, DropReply, HandleGet, HandlePublication,
         HandleReply, vars
<1>2. <<a, t>> \in asked => a \in subscribers_by_topic[t]
  BY <1>1 DEF InterestKept
<1>3. ASSUME NEW from \in Sources, NEW get \in Gets, HandleGet(get, from)
      PROVE  a \in subscribers_by_topic'[t]
  <2>1. PICK errored \in SUBSET closed :
          subscribers_by_topic' =
            [subscribers_by_topic EXCEPT
               ![get.topic] = (subscribers_by_topic[get.topic] \cup {from}) \ errored]
    BY <1>3, GetStep
  <2>2. asked' = asked \cup {<<from, get.topic>>}
    BY <1>3 DEF HandleGet
  <2>3. <<a, t>> \in asked \/ (a = from /\ t = get.topic)
    BY <2>2
  <2>4. a \notin errored /\ subscribers_by_topic \in [Topics -> SUBSET Sources]
    BY <1>1 DEF TypeOK
  <2>5. CASE t = get.topic
    BY <1>2, <2>1, <2>3, <2>4, <2>5
  <2>6. CASE t # get.topic
    BY <1>2, <2>1, <2>3, <2>4, <2>6
  <2> QED
    BY <2>5, <2>6
<1>4. ASSUME NEW from \in Sources, NEW put \in Puts, HandlePublication(put, from)
      PROVE  a \in subscribers_by_topic'[t]
  <2>1. subscribers_by_topic' = [u \in Topics |-> Retained(put, Waves(put, from), u)]
    BY <1>4, PublicationStep
  <2>2. a \in subscribers_by_topic[t]
    BY <1>2, <1>4 DEF HandlePublication
  <2>3. a \in Retained(put, Waves(put, from), t)
    BY <1>1, <2>2 DEF Retained
  <2> QED
    BY <2>1, <2>3
<1>5. CASE UNCHANGED <<subscribers_by_topic, asked>>
  BY <1>2, <1>5
<1> QED
  BY <1>3, <1>4, <1>5
     DEF Next, HandleHi, Close, RefuseDuplicate, DropReply, HandleReply, vars

(* Weeding out closed subscribers never loses one whose task runs          *)
(* (router.rs:139-142, 187-194, 265-283).                                  *)
THEOREM InterestCorrect == Spec => []InterestKept
<1>1. Init => InterestKept
  BY DEF Init, InterestKept
<1>2. TypeOK /\ InterestKept /\ [Next]_vars => InterestKept'
  BY StepInterest
<1> QED
  BY <1>1, <1>2, TypeCorrect, PTL DEF Spec
-------------------------------------------------------------------------------------
(* No two waves of a publication overlap.                                  *)
LEMMA DeliveriesDisjoint ==
  ASSUME TypeOK, NEW put \in Puts, NEW from \in Sources, NEW random \in SUBSET (Conns \ {from}),
         \A i \in DOMAIN put.topics : random \cap SubscriberWave(put, from, i) = {},
         NEW all, all = Deliveries(put, from, random),
         NEW i \in DOMAIN all, NEW j \in DOMAIN all, i < j
  PROVE  all[i] \cap all[j] = {}
<1> DEFINE n == Len(put.topics)
<1>1. n \in Nat /\ DOMAIN put.topics = 1..n
  BY SubscriberWaves
<1>2. /\ DOMAIN all = 1..(3 + n)
      /\ all[1] = StorageAdapters \ {from} /\ all[2] = ServerPeers \ {from} /\ all[3] = random
      /\ \A k \in 1..n : all[3 + k] = SubscriberWave(put, from, k)
  BY <1>1, DeliveryWaves
<1>3. \A k \in 1..n : SubscriberWave(put, from, k) \subseteq Sources \ (ServerPeers \cup {from})
  BY <1>1, SubscriberWaves
<1> HIDE DEF n
<1>4. \A k \in 4..(3 + n) : k - 3 \in 1..n /\ all[k] = SubscriberWave(put, from, k - 3)
  <2> TAKE k \in 4..(3 + n)
  <2>1. k - 3 \in 1..n /\ 3 + (k - 3) = k
    BY <1>1
  <2> QED
    BY <1>2, <2>1
<1>5. i \in 1..(3 + n) /\ j \in 1..(3 + n) /\ (j = 2 \/ j = 3 \/ j \in 4..(3 + n))
  BY <1>1, <1>2
<1>6. j \in 4..(3 + n) => all[j] \subseteq Sources \ (ServerPeers \cup {from})
  BY <1>3, <1>4
<1>7. CASE i = 1
  <2>1. all[j] \subseteq Sources
    BY <1>2, <1>5, <1>6, Actors
  <2> QED
    BY <1>2, <1>7, <2>1, Actors
<1>8. CASE i = 2
  <2>1. j = 3 \/ j \in 4..(3 + n)
    BY <1>5, <1>8
  <2>2. all[j] \cap ServerPeers = {}
    BY <1>2, <1>6, <2>1, Actors
  <2> QED
    BY <1>2, <1>8, <2>2
<1>9. CASE i = 3
  <2>1. j \in 4..(3 + n)
    BY <1>5, <1>9
  <2> QED
    BY <1>1, <1>2, <1>4, <1>9, <2>1
<1>10. CASE i \in 4..(3 + n)
  <2>1. j \in 4..(3 + n) /\ i - 3 < j - 3
    BY <1>5, <1>10
  <2>2. SubscriberWave(put, from, i - 3) \cap SubscriberWave(put, from, j - 3) = {}
    BY <1>1, <1>4, <1>10, <2>1, SubscriberWaves
  <2> QED
    BY <1>4, <1>10, <2>1, <2>2
<1> QED
  BY <1>5, <1>7, <1>8, <1>9, <1>10

(* What the properties say of a message that was just handled.             *)
Delivered == AtMostOneCopy /\ PublicationNotEchoed /\ PublicationReachesInterested

LEMMA QuietDelivered == ASSUME out' = Quiet PROVE Delivered'
<1>1. AtMostOneCopy'
  BY NoCopies DEF AtMostOneCopy
<1>2. out'.kind # "publication"
  BY DEF Quiet
<1>3. PublicationNotEchoed'
  BY <1>2 DEF PublicationNotEchoed
<1>4. PublicationReachesInterested'
  BY <1>2 DEF PublicationReachesInterested
<1> QED
  BY <1>1, <1>3, <1>4 DEF Delivered

LEMMA SentFields ==
  ASSUME NEW kind, NEW msg, NEW from, NEW waves, out' = Sent(kind, msg, from, waves)
  PROVE  out'.kind = kind /\ out'.msg = msg /\ out'.from = from /\ out'.copies = Copies(waves)
BY DEF Sent

LEMMA GetDelivered ==
  ASSUME TypeOK, NEW get \in Gets, NEW from \in Sources, HandleGet(get, from)
  PROVE  Delivered'
<1>1. PICK sampled \in SUBSET (Sources \ ServerPeers), random \in SUBSET Conns :
        /\ random \cap sampled = {}
        /\ out' = Sent("get", get, from, <<StorageAdapters, ServerPeers, sampled, random>>)
  BY GetStep
<1> DEFINE waves == <<StorageAdapters, ServerPeers, sampled, random>>
<1>2. DOMAIN waves = 1..4
  OBVIOUS
<1>3. /\ waves[1] = StorageAdapters /\ waves[2] = ServerPeers
      /\ waves[3] = sampled /\ waves[4] = random
  OBVIOUS
<1>4. out' = Sent("get", get, from, waves)
  BY <1>1
<1> HIDE DEF waves
<1>5. \A i, j \in 1..4 : i # j => waves[i] \cap waves[j] = {}
  BY <1>1, <1>3, Actors
<1>6. out'.kind = "get" /\ out'.copies = Copies(waves)
  BY <1>4, SentFields
<1>7. AtMostOneCopy'
  <2> SUFFICES ASSUME NEW a \in Addrs
               PROVE  Copies(waves)[a] <= 1
    BY <1>6 DEF AtMostOneCopy
  <2>1. \A i, j \in 1..4 : a \in waves[i] \ closed /\ a \in waves[j] \ closed => i = j
    BY <1>5
  <2> QED
    BY <1>2, <2>1, CopiesCount
<1> QED
  BY <1>6, <1>7 DEF Delivered, PublicationNotEchoed, PublicationReachesInterested

LEMMA ReplyDelivered ==
  ASSUME NEW put \in Puts, NEW from \in Sources, HandleReply(put, from)
  PROVE  Delivered'
<1> DEFINE waves == <<{Route(put.in_response_to).from}>>
<1>1. out' = Sent("reply", put, from, waves)
  BY DEF HandleReply
<1>2. DOMAIN waves = 1..1
  OBVIOUS
<1> HIDE DEF waves
<1>3. out'.kind = "reply" /\ out'.copies = Copies(waves)
  BY <1>1, SentFields
<1>4. \A i, j \in 1..1 : i = j
  OBVIOUS
<1>5. AtMostOneCopy'
  <2> SUFFICES ASSUME NEW a \in Addrs
               PROVE  Copies(waves)[a] <= 1
    BY <1>3 DEF AtMostOneCopy
  <2>1. 1 \in Nat
    OBVIOUS
  <2>2. \A i, j \in 1..1 : a \in waves[i] \ closed /\ a \in waves[j] \ closed => i = j
    BY <1>4
  <2> QED
    BY <1>2, <2>1, <2>2, CopiesCount, Zenon
<1> QED
  BY <1>3, <1>5 DEF Delivered, PublicationNotEchoed, PublicationReachesInterested

LEMMA PublicationDelivered ==
  ASSUME TypeOK, InterestKept, NEW put \in Puts, NEW from \in Sources,
         HandlePublication(put, from)
  PROVE  Delivered'
<1>1. PICK random \in SUBSET (Conns \ {from}) :
        /\ \A i \in DOMAIN put.topics : random \cap SubscriberWave(put, from, i) = {}
        /\ out' = Sent("publication", put, from, Deliveries(put, from, random))
  BY PublicationStep
<1> DEFINE all == Deliveries(put, from, random)
           n == Len(put.topics)
<1>2. n \in Nat /\ DOMAIN put.topics = 1..n
  BY SubscriberWaves
<1>3. /\ DOMAIN all = 1..(3 + n)
      /\ all[1] = StorageAdapters \ {from} /\ all[2] = ServerPeers \ {from} /\ all[3] = random
      /\ \A k \in 1..n : all[3 + k] = SubscriberWave(put, from, k)
  BY <1>2, DeliveryWaves
<1>4. \A i, j \in DOMAIN all : i < j => all[i] \cap all[j] = {}
  BY <1>1, DeliveriesDisjoint
<1>5. out' = Sent("publication", put, from, all)
  BY <1>1
<1> HIDE DEF all, n
<1>6. /\ out'.kind = "publication" /\ out'.msg = put /\ out'.from = from
      /\ out'.copies = Copies(all)
  BY <1>5, SentFields
<1>7. 3 + n \in Nat
  BY <1>2
<1>8. closed' = closed /\ asked' = asked
  BY DEF HandlePublication
<1>9. AtMostOneCopy'
  <2> SUFFICES ASSUME NEW a \in Addrs
               PROVE  Copies(all)[a] <= 1
    BY <1>6 DEF AtMostOneCopy
  <2>1. ASSUME NEW i \in 1..(3 + n), NEW j \in 1..(3 + n),
               a \in all[i] \ closed, a \in all[j] \ closed
        PROVE  i = j
    <3>1. ~(i < j) /\ ~(j < i)
      BY <1>3, <1>4, <2>1
    <3> QED
      BY <1>2, <3>1
  <2> QED
    BY <1>3, <1>7, <2>1, CopiesCount
<1>10. PublicationNotEchoed'
  <2>1. ASSUME NEW i \in 1..(3 + n)
        PROVE  from \notin all[i]
    <3>1. CASE i \in 1..3
      BY <1>3, <3>1
    <3>2. CASE i \notin 1..3
      <4>1. i - 3 \in 1..n /\ 3 + (i - 3) = i
        BY <1>2, <3>2
      <4>2. all[i] = SubscriberWave(put, from, i - 3)
        BY <1>3, <4>1
      <4> QED
        BY <1>2, <4>1, <4>2, SubscriberWaves
    <3> QED
      BY <3>1, <3>2
  <2>2. from \in Addrs
    BY Actors
  <2>3. Copies(all)[from] = 0
    BY <1>3, <1>7, <2>1, <2>2, CopiesCount
  <2> QED
    BY <1>6, <2>3 DEF PublicationNotEchoed
<1>11. PublicationReachesInterested'
  <2> SUFFICES ASSUME NEW a \in StorageAdapters \cup ServerPeers \cup Interested(TopicsOf(put))',
                      a \notin closed, a # from
               PROVE  a \in Addrs /\ Copies(all)[a] > 0
    BY <1>6, <1>8 DEF PublicationReachesInterested, Receivers
  <2>1. a \in Addrs
    BY Actors DEF Interested
  <2>2. \E i \in 1..(3 + n) : a \in all[i]
    <3>1. CASE a \in StorageAdapters
      BY <1>2, <1>3, <3>1
    <3>2. CASE a \in ServerPeers
      BY <1>2, <1>3, <3>2
    <3>3. CASE a \notin StorageAdapters /\ a \notin ServerPeers
      <4>1. PICK k \in DOMAIN put.topics : a \in Sources /\ <<a, put.topics[k]>> \in asked
        BY <1>8, <3>3 DEF Interested, TopicsOf
      <4>2. a \in subscribers_by_topic[put.topics[k]]
        BY <4>1, SubscriberWaves DEF InterestKept
      <4>3. PICK i \in DOMAIN put.topics : a \in SubscriberWave(put, from, i)
        BY <3>3, <4>1, <4>2, SubscribersCovered
      <4>4. 3 + i \in 1..(3 + n) /\ all[3 + i] = SubscriberWave(put, from, i)
        BY <1>2, <1>3, <4>3
      <4> QED
        BY <4>3, <4>4
    <3> QED
      BY <3>1, <3>2, <3>3
  <2>3. Copies(all)[a] # 0 /\ Copies(all)[a] \in Nat
    BY <1>3, <1>7, <2>1, <2>2, CopiesCount
  <2> QED
    BY <2>1, <2>3
<1> QED
  BY <1>9, <1>10, <1>11 DEF Delivered

LEMMA StepDelivered == ASSUME TypeOK, InterestKept, Delivered, [Next]_vars PROVE Delivered'
<1>1. ASSUME out' = Quiet
      PROVE  Delivered'
  BY <1>1, QuietDelivered
<1>2. ASSUME NEW from \in Sources, NEW get \in Gets, HandleGet(get, from)
      PROVE  Delivered'
  BY <1>2, GetDelivered
<1>3. ASSUME NEW from \in Sources, NEW put \in Puts,
             HandlePublication(put, from) \/ HandleReply(put, from)
      PROVE  Delivered'
  BY <1>3, PublicationDelivered, ReplyDelivered
<1>4. CASE UNCHANGED vars
  <2>1. out' = out /\ closed' = closed /\ asked' = asked
    BY <1>4 DEF vars
  <2>2. AtMostOneCopy'
    BY <2>1 DEF Delivered, AtMostOneCopy
  <2>3. PublicationNotEchoed'
    BY <2>1 DEF Delivered, PublicationNotEchoed
  <2>4. PublicationReachesInterested'
    BY <2>1 DEF Delivered, PublicationReachesInterested, Receivers, Interested
  <2> QED
    BY <2>2, <2>3, <2>4 DEF Delivered
<1> QED
  BY <1>1, <1>2, <1>3, <1>4 DEF Next, HandleHi, Close, RefuseDuplicate, DropReply

LEMMA DeliveredCorrect == Spec => []Delivered
<1>1. Init => Delivered
  BY NoCopies DEF Init, Delivered, AtMostOneCopy, PublicationNotEchoed,
                  PublicationReachesInterested, Quiet
<1>2. TypeOK /\ InterestKept /\ Delivered /\ [Next]_vars => Delivered'
  BY StepDelivered
<1> QED
  BY <1>1, <1>2, TypeCorrect, InterestCorrect, PTL DEF Spec

(* The loops of a handler never serve one actor twice (router.rs:145-219,  *)
(* 242-314).                                                               *)
THEOREM OneCopyCorrect == Spec => []AtMostOneCopy
<1>1. Delivered => AtMostOneCopy
  BY DEF Delivered
<1> QED
  BY <1>1, DeliveredCorrect, PTL

(* A publication does not go back to its source.                           *)
THEOREM NoEchoCorrect == Spec => []PublicationNotEchoed
<1>1. Delivered => PublicationNotEchoed
  BY DEF Delivered
<1> QED
  BY <1>1, DeliveredCorrect, PTL

(* A publication reaches storage, the server peers and every running actor *)
(* that has asked for one of its topics, the source excepted.              *)
THEOREM ReachCorrect == Spec => []PublicationReachesInterested
<1>1. Delivered => PublicationReachesInterested
  BY DEF Delivered
<1> QED
  BY <1>1, DeliveredCorrect, PTL

(* Subscribers are actors, and who still listens stays subscribed.          *)
THEOREM SubscriptionsCorrect == Spec => []SubscriptionsKept
<1> QED
  BY TypeCorrect, InterestCorrect, PTL DEF SubscriptionsKept

(* A publication is sent to an actor once, and not back to its source.      *)
THEOREM SentOnceCorrect == Spec => []PublicationSentOnce
<1> QED
  BY OneCopyCorrect, NoEchoCorrect, PTL DEF PublicationSentOnce
-------------------------------------------------------------------------------------
(* Nobody is subscribed to what it has not asked for: with it, whoever is  *)
(* sent a publication without having asked was drawn at random.            *)
SubscribersAsked == \A t \in Topics : \A a \in subscribers_by_topic[t] : <<a, t>> \in asked

LEMMA StepSubscribersAsked ==
  ASSUME TypeOK, SubscribersAsked, [Next]_vars
  PROVE  SubscribersAsked'
<1> SUFFICES ASSUME NEW t \in Topics, NEW a \in subscribers_by_topic'[t]
             PROVE  <<a, t>> \in asked'
  BY DEF SubscribersAsked
<1>1. a \in subscribers_by_topic[t] => <<a, t>> \in asked
  BY DEF SubscribersAsked
<1>2. ASSUME NEW from \in Sources, NEW get \in Gets, HandleGet(get, from)
      PROVE  <<a, t>> \in asked'
  <2>1. PICK errored \in SUBSET closed :
          subscribers_by_topic' =
            [subscribers_by_topic EXCEPT
               ![get.topic] = (subscribers_by_topic[get.topic] \cup {from}) \ errored]
    BY <1>2, GetStep
  <2>2. asked' = asked \cup {<<from, get.topic>>}
    BY <1>2 DEF HandleGet
  <2>3. subscribers_by_topic \in [Topics -> SUBSET Sources]
    BY DEF TypeOK
  <2>4. CASE t = get.topic
    BY <1>1, <2>1, <2>2, <2>3, <2>4
  <2>5. CASE t # get.topic
    BY <1>1, <2>1, <2>2, <2>3, <2>5
  <2> QED
    BY <2>4, <2>5
<1>3. ASSUME NEW from \in Sources, NEW put \in Puts, HandlePublication(put, from)
      PROVE  <<a, t>> \in asked'
  <2>1. subscribers_by_topic' = [u \in Topics |-> Retained(put, Waves(put, from), u)]
    BY <1>3, PublicationStep
  <2>2. a \in subscribers_by_topic[t]
    BY <2>1 DEF Retained
  <2>3. asked' = asked
    BY <1>3 DEF HandlePublication
  <2> QED
    BY <1>1, <2>2, <2>3
<1>4. CASE UNCHANGED <<subscribers_by_topic, asked>>
  BY <1>1, <1>4
<1> QED
  BY <1>2, <1>3, <1>4
     DEF Next, HandleHi, Close, RefuseDuplicate, DropReply, HandleReply, vars

LEMMA SubscribersAskedCorrect == Spec => []SubscribersAsked
<1>1. Init => SubscribersAsked
  BY DEF Init, SubscribersAsked
<1>2. TypeOK /\ SubscribersAsked /\ [Next]_vars => SubscribersAsked'
  BY StepSubscribersAsked
<1> QED
  BY <1>1, <1>2, TypeCorrect, PTL DEF Spec

(* Storage and server peers all get a get; of the others at most those the *)
(* sample reached and those drawn to make up for the rest.                 *)
LEMMA GetFew ==
  ASSUME TypeOK, NEW get \in Gets, NEW from \in Sources, HandleGet(get, from)
  PROVE  RelayedToFew'
<1>1. PICK sampled \in SUBSET (Sources \ ServerPeers), random \in SUBSET Conns :
        /\ Cardinality(sampled \ closed) + Cardinality(random) <= FanOut
        /\ out' = Sent("get", get, from, <<StorageAdapters, ServerPeers, sampled, random>>)
  BY GetStep
<1> DEFINE waves == <<StorageAdapters, ServerPeers, sampled, random>>
           took == sampled \ closed
           others == Receivers' \cap (Conns \cup GraphNodes)
<1>2. DOMAIN waves = 1..4 /\ 4 \in Nat
  OBVIOUS
<1>3. /\ waves[1] = StorageAdapters /\ waves[2] = ServerPeers
      /\ waves[3] = sampled /\ waves[4] = random
  OBVIOUS
<1>4. out' = Sent("get", get, from, waves)
  BY <1>1
<1> HIDE DEF waves
<1>5. out'.kind = "get" /\ out'.copies = Copies(waves)
  BY <1>4, SentFields
<1>6. \A a \in Addrs : /\ Copies(waves)[a] \in Nat
                       /\ Copies(waves)[a] = 0 <=> \A i \in 1..4 : a \notin waves[i] \ closed
  BY <1>2, CopiesCount
<1>7. \A a \in Addrs : a \in Receivers' <=> \E i \in 1..4 : a \in waves[i] \ closed
  BY <1>5, <1>6 DEF Receivers
<1>8. StorageAdapters \cup ServerPeers \subseteq Receivers'
  <2>1. (StorageAdapters \cup ServerPeers) \cap closed = {}
    BY Actors DEF TypeOK
  <2> QED
    BY <1>3, <1>7, <2>1, Actors
<1>9. Cardinality(others) <= FanOut
  <2>1. (Conns \cup GraphNodes) \cap (StorageAdapters \cup ServerPeers) = {}
    BY AddrsAssumption DEF Sources
  <2>2. others \in SUBSET (took \cup random)
    <3> SUFFICES ASSUME NEW a \in others
                 PROVE  a \in took \cup random
      OBVIOUS
    <3>1. a \in Addrs
      BY DEF Receivers
    <3>2. PICK i \in 1..4 : a \in waves[i] \ closed
      BY <1>7, <3>1
    <3>3. i = 3 \/ i = 4
      BY <1>3, <2>1, <3>2
    <3> QED
      BY <1>3, <3>2, <3>3
  <2>3. took \in SUBSET Addrs /\ random \in SUBSET Addrs
    BY Actors
  <2> HIDE DEF took, others
  <2>4. /\ IsFiniteSet(took) /\ Cardinality(took) \in Nat
        /\ IsFiniteSet(random) /\ Cardinality(random) \in Nat
        /\ Cardinality(took \cap random) \in Nat
    BY <2>3, FiniteActors
  <2>5. Cardinality(took \cup random) <= Cardinality(took) + Cardinality(random)
    <3>1. Cardinality(took \cup random)
            = Cardinality(took) + Cardinality(random) - Cardinality(took \cap random)
      BY <2>4, FS_Union, Zenon
    <3> QED
      BY <2>4, <3>1
  <2>6. /\ Cardinality(others) <= Cardinality(took \cup random)
        /\ Cardinality(others) \in Nat /\ Cardinality(took \cup random) \in Nat
    BY <2>2, <2>3, FiniteActors
  <2>7. Cardinality(took) + Cardinality(random) <= FanOut
    BY <1>1 DEF took
  <2> QED
    BY <2>4, <2>5, <2>6, <2>7, FanOutAssumption
<1>10. GetReachesFew'
  BY <1>8, <1>9 DEF GetReachesFew
<1> QED
  BY <1>5, <1>10 DEF RelayedToFew, FewStrangers

(* Every wave of a publication but the random one reaches only storage,    *)
(* server peers and actors that asked.                                     *)
LEMMA PublicationFew ==
  ASSUME TypeOK, SubscribersAsked, NEW put \in Puts, NEW from \in Sources,
         HandlePublication(put, from)
  PROVE  RelayedToFew'
<1>1. PICK random \in SUBSET (Conns \ {from}) :
        /\ Cardinality(random) < FanOut
        /\ out' = Sent("publication", put, from, Deliveries(put, from, random))
  BY PublicationStep
<1> DEFINE all == Deliveries(put, from, random)
           n == Len(put.topics)
           strangers == (Receivers' \cap Conns) \ Interested(TopicsOf(put))'
<1>2. n \in Nat /\ DOMAIN put.topics = 1..n /\ 3 + n \in Nat
  BY SubscriberWaves
<1>3. /\ DOMAIN all = 1..(3 + n)
      /\ all[1] = StorageAdapters \ {from} /\ all[2] = ServerPeers \ {from} /\ all[3] = random
      /\ \A k \in 1..n : all[3 + k] = SubscriberWave(put, from, k)
  BY <1>2, DeliveryWaves
<1>4. out' = Sent("publication", put, from, all)
  BY <1>1
<1> HIDE DEF all, n
<1>5. out'.kind = "publication" /\ out'.msg = put /\ out'.copies = Copies(all)
  BY <1>4, SentFields
<1>6. \A a \in Addrs : Copies(all)[a] > 0 => \E i \in 1..(3 + n) : a \in all[i] \ closed
  BY <1>2, <1>3, CopiesCount
<1>7. ASSUME NEW a \in strangers
      PROVE  a \in random
  <2>1. a \in Conns /\ a \in Addrs /\ a \in Sources /\ Copies(all)[a] > 0
    BY <1>5, Actors DEF Receivers
  <2>2. PICK i \in 1..(3 + n) : a \in all[i]
    BY <1>6, <2>1
  <2>3. CASE i = 1 \/ i = 2
    BY <1>3, <2>1, <2>2, <2>3, Actors
  <2>4. CASE i = 3
    BY <1>3, <2>2, <2>4
  <2>5. CASE i \in 4..(3 + n)
    <3>1. i - 3 \in 1..n /\ 3 + (i - 3) = i
      BY <1>2, <2>5
    <3>2. a \in SubscriberWave(put, from, i - 3)
      BY <1>3, <2>2, <3>1
    <3>3. a \in subscribers_by_topic[put.topics[i - 3]]
      BY <3>2 DEF SubscriberWave
    <3>4. put.topics[i - 3] \in Topics /\ i - 3 \in DOMAIN put.topics
      BY <1>2, <3>1, SubscriberWaves
    <3>5. <<a, put.topics[i - 3]>> \in asked'
      BY <3>3, <3>4 DEF SubscribersAsked, HandlePublication
    <3>6. a \in Interested(TopicsOf(put))'
      BY <2>1, <3>4, <3>5 DEF Interested, TopicsOf
    <3> QED
      BY <3>6
  <2> QED
    BY <1>2, <2>2, <2>3, <2>4, <2>5
<1>8. Cardinality(strangers) < FanOut
  <2>1. strangers \in SUBSET random /\ random \in SUBSET Addrs
    BY <1>7, Actors
  <2> HIDE DEF strangers
  <2>2. /\ Cardinality(strangers) <= Cardinality(random)
        /\ Cardinality(strangers) \in Nat /\ Cardinality(random) \in Nat
    BY <2>1, FiniteActors
  <2> QED
    BY <1>1, <2>2, FanOutAssumption
<1>9. FewStrangers'
  BY <1>5, <1>8 DEF FewStrangers
<1> QED
  BY <1>5, <1>9 DEF RelayedToFew, GetReachesFew

LEMMA StepFew == ASSUME TypeOK, SubscribersAsked, RelayedToFew, [Next]_vars PROVE RelayedToFew'
<1>1. ASSUME out'.kind \notin {"get", "publication"}
      PROVE  RelayedToFew'
  BY <1>1 DEF RelayedToFew, GetReachesFew, FewStrangers
<1>2. CASE out' = Quiet
  BY <1>1, <1>2 DEF Quiet
<1>3. ASSUME NEW from \in Sources, NEW get \in Gets, HandleGet(get, from)
      PROVE  RelayedToFew'
  BY <1>3, GetFew
<1>4. ASSUME NEW from \in Sources, NEW put \in Puts, HandlePublication(put, from)
      PROVE  RelayedToFew'
  BY <1>4, PublicationFew
<1>5. ASSUME NEW from \in Sources, NEW put \in Puts, HandleReply(put, from)
      PROVE  RelayedToFew'
  <2>1. out'.kind = "reply"
    BY <1>5 DEF HandleReply, Sent
  <2> QED
    BY <1>1, <2>1
<1>6. CASE UNCHANGED vars
  BY <1>6 DEF vars, RelayedToFew, GetReachesFew, FewStrangers, Receivers, Interested, TopicsOf
<1> QED
  BY <1>2, <1>3, <1>4, <1>5, <1>6 DEF Next, HandleHi, Close, RefuseDuplicate, DropReply

(* However many subscribers and known peers there are, a get goes to no    *)
(* more than FanOut actors besides storage and the server peers, which all *)
(* get it, and a publication to fewer than FanOut that never asked for it  *)
(* (router.rs:158-219, 286-314).                                           *)
THEOREM RelayedToFewCorrect == Spec => []RelayedToFew
<1>1. Init => RelayedToFew
  BY DEF Init, Quiet, RelayedToFew, GetReachesFew, FewStrangers
<1>2. TypeOK /\ SubscribersAsked /\ RelayedToFew /\ [Next]_vars => RelayedToFew'
  BY StepFew
<1> QED
  BY <1>1, <1>2, TypeCorrect, SubscribersAskedCorrect, PTL DEF Spec
-------------------------------------------------------------------------------------
CacheProofs == INSTANCE SeenCacheProofs

(* A step of the router with its history is a step of the router.          *)
LEMMA HistoryAside == [HNext]_hvars => [Next]_vars
<1>1. HNext => Next \/ UNCHANGED vars
  BY DEF HNext, Next, RecordedGet, RecordedPublication, RecordedReply, RecordedDrop, Unrecorded
<1> QED
  BY <1>1 DEF hvars

LEMMA HistoryTyped == HSpec => []TypeOK
<1>1. HInit => TypeOK
  BY InitType DEF HInit
<1>2. TypeOK /\ [HNext]_hvars => TypeOK'
  BY StepType, HistoryAside
<1> QED
  BY <1>1, <1>2, PTL DEF HSpec

LEMMA SameContainers ==
  /\ \A b, s, max : Cache!SetInsert(b, s, max) = SetInsert(b, s, max)
  /\ \A b, k, v, max : Cache!MapInsert(b, k, v, max) = MapInsert(b, k, v, max)
  /\ \A b, k, v : Cache!MapUpdate(b, k, v) = MapUpdate(b, k, v)
BY DEF Cache!SetInsert, SetInsert, Cache!MapInsert, MapInsert, Cache!MapUpdate, MapUpdate,
       Cache!Evicted, Evicted, Cache!Kept, Kept, Cache!PushFront, PushFront

LEMMA GetRefines ==
  ASSUME NEW get \in Gets, NEW from \in Sources, RecordedGet(get, from)
  PROVE  Cache!Next
<1>1. get.id \in GetIds /\ from \in Addrs /\ get.checksum \in Cache!MaybeChecksum
  BY DEF GetIds, Addrs, Checksums, Cache!MaybeChecksum
<1>2. Cache!Accept(get.id, from)
  BY SameContainers DEF RecordedGet, HandleGet, Accept, Record, Cache!Accept
<1>3. seen_get_messages' =
        MapInsert(seen_get_messages, get.id,
                  [from |-> from, last_reply_checksum |-> get.checksum], SeenMsgsMaxSize)
  BY DEF RecordedGet, HandleGet
<1>4. Cache!AcceptGet(get.id, from, get.checksum)
  BY <1>2, <1>3, SameContainers DEF Cache!AcceptGet
<1> QED
  BY <1>1, <1>4 DEF Cache!Next

LEMMA PutRefines ==
  ASSUME NEW put \in Puts,
         (\E from \in Sources : RecordedPublication(put, from)) \/ RecordedDrop(put)
  PROVE  Cache!Next
<1>1. put.id \in PutIds
  BY DEF PutIds
<1>2. Cache!Accept(put.id, None) /\ UNCHANGED seen_get_messages
  BY SameContainers
  DEF RecordedPublication, HandlePublication, RecordedDrop, DropReply, Accept, Record, Cache!Accept
<1> QED
  BY <1>1, <1>2 DEF Cache!Next, Cache!AcceptPut

LEMMA ReplyRefines ==
  ASSUME TypeOK, NEW put \in Puts, NEW from \in Sources, RecordedReply(put, from)
  PROVE  Cache!Next
<1> DEFINE g == put.in_response_to
           route == seen_get_messages.map[g]
<1>1. put.id \in PutIds /\ put.checksum \in Cache!MaybeChecksum
  BY DEF PutIds, Checksums, Cache!MaybeChecksum
<1>2. Cache!Accept(put.id, None)
  BY SameContainers DEF RecordedReply, HandleReply, Accept, Record, Cache!Accept
<1>3. /\ g \in DOMAIN seen_get_messages.map
      /\ put.checksum = None \/ put.checksum # route.last_reply_checksum
      /\ seen_get_messages' = MapUpdate(seen_get_messages, g,
                                        [route EXCEPT !.last_reply_checksum = put.checksum])
  BY DEF RecordedReply, HandleReply, Repeats, Route
<1>4. g \in GetIds
  BY <1>3 DEF TypeOK
<1>5. Cache!AcceptReply(put.id, g, put.checksum)
  BY <1>2, <1>3, SameContainers DEF Cache!AcceptReply
<1> QED
  BY <1>1, <1>4, <1>5 DEF Cache!Next

LEMMA StepRefines == ASSUME TypeOK, [HNext]_hvars PROVE [Cache!Next]_Cache!vars
<1>1. CASE Unrecorded \/ UNCHANGED hvars
  BY <1>1
  DEF Unrecorded, HandleHi, Close, RefuseDuplicate, hvars, vars, Cache!vars
<1> QED
  BY <1>1, GetRefines, PutRefines, ReplyRefines DEF HNext

LEMMA InitRefines == HInit => Cache!Init
BY DEF HInit, Init, Cache!Init, EmptyBoundedSet, EmptyBoundedMap, Cache!EmptyBoundedSet,
       Cache!EmptyBoundedMap

(* Each handler makes one step of the two caches, the one SeenCache says,  *)
(* or none (router.rs:122-329).                                            *)
THEOREM Implements == HSpec => ImplementsSeenCache
<1>1. TypeOK /\ [HNext]_hvars => [Cache!Next]_Cache!vars
  BY StepRefines
<1> QED
  BY <1>1, InitRefines, HistoryTyped, PTL DEF HSpec, ImplementsSeenCache, Cache!Spec
-------------------------------------------------------------------------------------
(* What is proved of SeenCache holds of the router: the invariants go over *)
(* step by step.                                                           *)
LEMMA SameNext == [Cache!Next]_Cache!vars <=> [CacheProofs!Next]_CacheProofs!vars
<1>1. Cache!Next <=> CacheProofs!Next
  BY DEF Cache!Next, CacheProofs!Next, Cache!RefuseDuplicate, CacheProofs!RefuseDuplicate,
         Cache!AcceptGet, CacheProofs!AcceptGet, Cache!AcceptPut, CacheProofs!AcceptPut,
         Cache!AcceptReply, CacheProofs!AcceptReply, Cache!Accept, CacheProofs!Accept,
         Cache!SetInsert, CacheProofs!SetInsert, Cache!MapInsert, CacheProofs!MapInsert,
         Cache!MapUpdate, CacheProofs!MapUpdate, Cache!Evicted, CacheProofs!Evicted,
         Cache!Kept, CacheProofs!Kept, Cache!PushFront, CacheProofs!PushFront,
         Cache!MaybeChecksum, CacheProofs!MaybeChecksum, Cache!Ids, CacheProofs!Ids,
         Cache!vars, CacheProofs!vars
<1> QED
  BY <1>1 DEF Cache!vars, CacheProofs!vars

CacheInv == CacheProofs!CacheInv /\ CacheProofs!RouteAgeInv

LEMMA CacheConstants ==
  /\ SeenMsgsMaxSize \in Nat \ {0}
  /\ GetIds \cap PutIds = {}
  /\ MaxAccepted \in Nat
  /\ None \notin Addrs
BY SizeAssumption, MessagesAssumption, BoundAssumption, AddrsAssumption

LEMMA InitCache == HInit => CacheInv
<1>1. HInit => CacheProofs!Init
  BY DEF HInit, Init, CacheProofs!Init, EmptyBoundedSet, EmptyBoundedMap,
         CacheProofs!EmptyBoundedSet, CacheProofs!EmptyBoundedMap
<1>2. CacheProofs!Init => CacheProofs!CacheInv
  BY CacheConstants, CacheProofs!InitCacheInv
<1>3. CacheProofs!Init => CacheProofs!RouteAgeInv
  BY CacheConstants, CacheProofs!InitRouteAge
<1> QED
  BY <1>1, <1>2, <1>3 DEF CacheInv

LEMMA StepCache == ASSUME TypeOK, CacheInv, [HNext]_hvars PROVE CacheInv'
<1>1. [CacheProofs!Next]_CacheProofs!vars
  BY StepRefines, SameNext
<1>2. CacheProofs!CacheInv'
  BY <1>1, CacheConstants, CacheProofs!NextKeepsCacheInv DEF CacheInv
<1>3. CacheProofs!RouteAgeInv'
  BY <1>1, CacheConstants, CacheProofs!NextKeepsRouteAge DEF CacheInv
<1> QED
  BY <1>2, <1>3 DEF CacheInv

LEMMA CacheCorrect == HSpec => [](TypeOK /\ CacheInv)
<1>1. TypeOK /\ CacheInv /\ [HNext]_hvars => CacheInv'
  BY StepCache
<1> QED
  BY <1>1, InitCache, HistoryTyped, PTL DEF HSpec

(* A get that has a route was accepted, and the route leads to the actor   *)
(* it was accepted from last.                                              *)
LEMMA RouteIsKnown ==
  ASSUME CacheInv, NEW g \in DOMAIN seen_get_messages.map
  PROVE  \E i \in DOMAIN accepted : /\ LatestAcceptanceOf(g, i)
                                    /\ Route(g).from = accepted[i].from
<1> DEFINE n == Len(accepted)
           queue == seen_get_messages.queue
           S == {i \in 1..n : accepted[i].id = g}
<1>1. n \in Nat /\ DOMAIN accepted = 1..n
  BY DEF CacheInv, CacheProofs!CacheInv, CacheProofs!TypeOK
<1>2. PICK k \in 1..Len(queue) : queue[k] = g
  BY DEF CacheInv, CacheProofs!CacheInv, CacheProofs!RoutesConsistent
<1>3. S # {}
  BY <1>2 DEF CacheInv, CacheProofs!RouteAgeInv, CacheProofs!RoutesWereAccepted
<1>4. PICK i \in S : \A j \in S : j <= i
  <2> DEFINE T == {n + 1 - j : j \in S}
  <2>1. T \in SUBSET (1..n) /\ T # {}
    BY <1>1, <1>3
  <2>2. PICK m \in T : \A t \in T : m <= t
    <3> HIDE DEF T, n
    <3> QED
      BY <1>1, <2>1, LeastIndex
  <2>3. PICK i \in S : m = n + 1 - i
    OBVIOUS
  <2>4. \A j \in S : n + 1 - i <= n + 1 - j
    BY <2>2, <2>3
  <2> QED
    BY <1>1, <2>4
<1>5. accepted[i].id = g /\ \A j \in 1..n : accepted[j].id = g => j <= i
  BY <1>4
<1>6. Route(g).from = accepted[i].from
  BY <1>5 DEF CacheInv, CacheProofs!CacheInv, CacheProofs!RouteIsLatestRequester,
              CacheProofs!LatestAcceptance, Route
<1> QED
  BY <1>1, <1>5, <1>6 DEF LatestAcceptanceOf

LEMMA ReplyReaches ==
  ASSUME TypeOK, CacheInv, NEW put \in Puts, NEW from \in Sources, RecordedReply(put, from)
  PROVE  \E i \in DOMAIN accepted :
           /\ LatestAcceptanceOf(put.in_response_to, i)
           /\ Receivers' = {accepted[i].from} \ closed
<1> DEFINE g == put.in_response_to
           requester == Route(g).from
           waves == <<{requester}>>
<1>1. g \in DOMAIN seen_get_messages.map /\ out' = Sent("reply", put, from, waves)
  BY DEF RecordedReply, HandleReply
<1>2. requester \in Addrs
  BY <1>1 DEF TypeOK, Route, Addrs
<1>3. DOMAIN waves = 1..1 /\ waves[1] = {requester}
  OBVIOUS
<1> HIDE DEF waves, requester
<1>4. out'.copies = Copies(waves)
  BY <1>1, SentFields
<1>5. ASSUME NEW a \in Addrs
      PROVE  out'.copies[a] > 0 <=> a \in {requester} \ closed
  <2>1. 1 \in Nat
    OBVIOUS
  <2>2. /\ Copies(waves)[a] \in Nat
        /\ Copies(waves)[a] = 0 <=> \A i \in 1..1 : a \notin waves[i] \ closed
    BY <1>3, <2>1, CopiesCount, Zenon
  <2> QED
    BY <1>3, <1>4, <2>2
<1>6. Receivers' = {requester} \ closed
  BY <1>2, <1>5 DEF Receivers
<1>7. PICK i \in DOMAIN accepted : LatestAcceptanceOf(g, i) /\ requester = accepted[i].from
  BY <1>1, RouteIsKnown DEF requester
<1> QED
  BY <1>6, <1>7

(* A reply goes to the actor whose get was accepted last, whatever came    *)
(* between the two (router.rs:129-134, 228-239).                           *)
THEOREM ReplyCorrect == HSpec => ReplyReachesRequesterOnly
<1>1. TypeOK /\ CacheInv /\ [HNext]_hvars =>
        [\A put \in Puts, from \in Sources :
           RecordedReply(put, from) =>
             \E i \in DOMAIN accepted :
               /\ LatestAcceptanceOf(put.in_response_to, i)
               /\ Receivers' = {accepted[i].from} \ closed]_hvars
  BY ReplyReaches
<1> QED
  BY <1>1, CacheCorrect, PTL DEF HSpec, ReplyReachesRequesterOnly

(* A reply to a get still remembered is dropped only as a repetition, as   *)
(* long as no get has come back (router.rs:230-235, 319-329).              *)
THEOREM FreshReplyCorrect == HSpec => FreshReplyForwarded
<1>1. ASSUME TypeOK, CacheInv, NEW put \in Puts, RecordedDrop(put),
             Cache!NoGetAcceptedTwice, put.in_response_to \in seen_messages.set
      PROVE  /\ put.checksum # None
             /\ put.checksum = Route(put.in_response_to).last_reply_checksum
  <2>1. put.in_response_to \in GetIds
    BY <1>1, MessagesAssumption DEF RecordedDrop, DropReply, TypeOK, Ids
  <2>2. CacheProofs!FreshGetsHaveRoutes
    BY <1>1, CacheConstants, CacheProofs!AgeGivesRoutes DEF CacheInv
  <2>3. CacheProofs!NoGetAcceptedTwice
    BY <1>1 DEF Cache!NoGetAcceptedTwice, CacheProofs!NoGetAcceptedTwice
  <2>4. put.in_response_to \in DOMAIN seen_get_messages.map
    BY <1>1, <2>1, <2>2, <2>3
    DEF CacheProofs!FreshGetsHaveRoutes, CacheProofs!SeenGetsHaveRoutes
  <2> QED
    BY <1>1, <2>4 DEF RecordedDrop, DropReply, Repeats
<1>2. TypeOK /\ CacheInv /\ [HNext]_hvars =>
        [\A put \in Puts :
           /\ RecordedDrop(put)
           /\ Cache!NoGetAcceptedTwice
           /\ put.in_response_to \in seen_messages.set
           => put.checksum # None /\ put.checksum = Route(put.in_response_to).last_reply_checksum]_hvars
  BY <1>1
<1> QED
  BY <1>2, CacheCorrect, PTL DEF HSpec, FreshReplyForwarded
-------------------------------------------------------------------------------------
(* A message's id is drawn at random when the message is made, and a get   *)
(* that is passed on keeps its checksum: gets with one id are one get.     *)
GetsDiffer == \A g, h \in Gets : g.id = h.id => g.checksum = h.checksum

(* What a requester has of its get: what it said, and every answer since.  *)
Got(get) == <<get.checksum>> \o answers[get.id]

NothingTwice(got) == \A i \in 1..(Len(got) - 1) : got[i] # None => got[i + 1] # got[i]

(* A route remembers the end of that, for as long as there is a route.     *)
RouteRemembersLast ==
  \A get \in Gets : get.id \in DOMAIN seen_get_messages.map =>
    Route(get.id).last_reply_checksum = Got(get)[Len(Got(get))]

AnswersInv ==
  /\ answers \in [GetIds -> Seq(Checksums)]
  /\ NoRepeatedAnswer
  /\ RouteRemembersLast

LEMMA GotType ==
  ASSUME answers \in [GetIds -> Seq(Checksums)], NEW get \in Gets
  PROVE  /\ get.id \in GetIds /\ answers[get.id] \in Seq(Checksums)
         /\ Got(get) \in Seq(Checksums) /\ Len(Got(get)) \in Nat \ {0}
<1>1. get.id \in GetIds /\ get.checksum \in Checksums
  BY DEF GetIds, Checksums
<1>2. answers[get.id] \in Seq(Checksums) /\ <<get.checksum>> \in Seq(Checksums)
  BY <1>1
<1> QED
  BY <1>1, <1>2 DEF Got

LEMMA OneMore ==
  ASSUME NEW S, NEW got \in Seq(S), Len(got) # 0, NothingTwice(got), NEW c \in S,
         got[Len(got)] # None => c # got[Len(got)]
  PROVE  LET more == Append(got, c)
         IN NothingTwice(more) /\ more[Len(more)] = c
<1> DEFINE n == Len(got)
           more == Append(got, c)
<1>1. n \in Nat \ {0} /\ Len(more) = n + 1 /\ more[n + 1] = c
  OBVIOUS
<1>2. \A i \in 1..n : more[i] = got[i]
  OBVIOUS
<1>3. ASSUME NEW i \in 1..n, more[i] # None
      PROVE  more[i + 1] # more[i]
  <2>1. CASE i = n
    BY <1>1, <1>2, <1>3, <2>1
  <2>2. CASE i # n
    <3>1. i \in 1..(n - 1) /\ i + 1 \in 1..n
      BY <1>1, <2>2
    <3>2. got[i] # None => got[i + 1] # got[i]
      BY <3>1 DEF NothingTwice
    <3> QED
      BY <1>2, <1>3, <3>1, <3>2
  <2> QED
    BY <2>1, <2>2
<1> HIDE DEF n, more
<1>4. Len(more) - 1 = n
  BY <1>1
<1>5. NothingTwice(more)
  BY <1>3, <1>4 DEF NothingTwice
<1> QED
  BY <1>1, <1>5 DEF more

(* The get's answers start anew, and so does what its route remembers; all *)
(* other routes are as they were or gone.                                  *)
LEMMA GetAnswers ==
  ASSUME GetsDiffer, AnswersInv, NEW get \in Gets, NEW from \in Sources,
         RecordedGet(get, from)
  PROVE  AnswersInv'
<1>1. /\ answers' = [answers EXCEPT ![get.id] = <<>>]
      /\ seen_get_messages' =
           MapInsert(seen_get_messages, get.id,
                     [from |-> from, last_reply_checksum |-> get.checksum], SeenMsgsMaxSize)
  BY DEF RecordedGet, HandleGet
<1>2. answers \in [GetIds -> Seq(Checksums)] /\ get.id \in GetIds
  BY GotType DEF AnswersInv
<1>3. answers' \in [GetIds -> Seq(Checksums)]
  BY <1>1, <1>2
<1>4. ASSUME NEW g \in DOMAIN seen_get_messages'.map
      PROVE  /\ g = get.id => Route(g)'.last_reply_checksum = get.checksum
             /\ g # get.id => g \in DOMAIN seen_get_messages.map /\ Route(g)' = Route(g)
  BY <1>1 DEF MapInsert, Route
<1>5. ASSUME NEW other \in Gets
      PROVE  /\ NothingTwice(Got(other))'
             /\ other.id \in DOMAIN seen_get_messages'.map =>
                  Route(other.id)'.last_reply_checksum = (Got(other)[Len(Got(other))])'
  <2>1. CASE other.id = get.id
    <3>1. other.checksum = get.checksum
      BY <2>1 DEF GetsDiffer
    <3>2. answers'[other.id] = <<>>
      BY <1>1, <1>2, <2>1
    <3>3. Got(other)' = <<other.checksum>> \o <<>>
      BY <3>2 DEF Got
    <3>4. Got(other)' = <<other.checksum>>
      BY <3>3
    <3>5. Len(Got(other)') = 1 /\ Got(other)'[1] = other.checksum
      BY <3>4
    <3> QED
      BY <1>4, <2>1, <3>1, <3>5 DEF NothingTwice
  <2>2. CASE other.id # get.id
    <3>1. Got(other)' = Got(other)
      BY <1>1, <2>2 DEF Got
    <3>2. NothingTwice(Got(other))
      BY DEF AnswersInv, NoRepeatedAnswer, NothingTwice, Got
    <3> QED
      BY <1>4, <2>2, <3>1, <3>2 DEF AnswersInv, RouteRemembersLast, NothingTwice
  <2> QED
    BY <2>1, <2>2
<1>6. NoRepeatedAnswer'
  BY <1>5 DEF NoRepeatedAnswer, NothingTwice, Got
<1>7. RouteRemembersLast'
  BY <1>5 DEF RouteRemembersLast
<1> QED
  BY <1>3, <1>6, <1>7 DEF AnswersInv

(* A reply that goes through differs from what the route remembers.        *)
LEMMA ReplyAnswers ==
  ASSUME TypeOK, CacheInv, AnswersInv, NEW put \in Puts, NEW from \in Sources,
         RecordedReply(put, from)
  PROVE  AnswersInv'
<1> DEFINE g == put.in_response_to
           c == put.checksum
<1>1. /\ g \in DOMAIN seen_get_messages.map
      /\ c = None \/ c # Route(g).last_reply_checksum
      /\ answers' = [answers EXCEPT ![g] = Append(answers[g], c)]
      /\ seen_get_messages' =
           MapUpdate(seen_get_messages, g, [Route(g) EXCEPT !.last_reply_checksum = c])
  BY DEF RecordedReply, HandleReply, Repeats
<1>2. g \in GetIds /\ Route(g) \in [from : Sources, last_reply_checksum : Checksums]
  BY <1>1 DEF TypeOK, Route
<1>3. answers \in [GetIds -> Seq(Checksums)] /\ c \in Checksums
  BY DEF AnswersInv, Checksums
<1> HIDE DEF g, c
<1>4. answers' \in [GetIds -> Seq(Checksums)]
  BY <1>1, <1>2, <1>3
<1>5. /\ DOMAIN seen_get_messages'.map = DOMAIN seen_get_messages.map
      /\ Route(g)'.last_reply_checksum = c
      /\ \A h \in DOMAIN seen_get_messages.map \ {g} :
           seen_get_messages'.map[h] = seen_get_messages.map[h]
  <2>1. seen_get_messages = [map |-> seen_get_messages.map, queue |-> seen_get_messages.queue]
    BY DEF CacheInv, CacheProofs!CacheInv, CacheProofs!TypeOK, CacheProofs!RoutesTypeOK
  <2>2. seen_get_messages'.map =
          [seen_get_messages.map EXCEPT ![g] = [Route(g) EXCEPT !.last_reply_checksum = c]]
    BY <1>1, <2>1 DEF MapUpdate
  <2>3. seen_get_messages'.map[g].last_reply_checksum = c
    BY <1>1, <1>2, <2>2
  <2> QED
    BY <2>2, <2>3 DEF Route, g
<1>6. ASSUME NEW get \in Gets
      PROVE  /\ NothingTwice(Got(get))'
             /\ get.id \in DOMAIN seen_get_messages'.map =>
                  seen_get_messages'.map[get.id].last_reply_checksum =
                    (Got(get)[Len(Got(get))])'
  <2> DEFINE got == Got(get)
  <2>1. /\ got \in Seq(Checksums) /\ Len(got) # 0
        /\ answers[get.id] \in Seq(Checksums)
    BY <1>3, GotType
  <2>2. NothingTwice(got)
    BY DEF AnswersInv, NoRepeatedAnswer, NothingTwice, Got
  <2>3. get.id \in DOMAIN seen_get_messages.map =>
          seen_get_messages.map[get.id].last_reply_checksum = got[Len(got)]
    BY DEF AnswersInv, RouteRemembersLast, Route
  <2>4. CASE get.id = g
    <3>1. got[Len(got)] # None => c # got[Len(got)]
      BY <1>1, <2>3, <2>4 DEF Route
    <3>2. Got(get)' = Append(got, c)
      <4>1. get.checksum \in Checksums
        BY DEF Checksums
      <4>2. Got(get)' = <<get.checksum>> \o Append(answers[g], c)
        BY <1>1, <1>2, <1>3, <2>4 DEF Got
      <4>3. got = <<get.checksum>> \o answers[g]
        BY <2>4 DEF Got
      <4> HIDE DEF got
      <4> QED
        BY <1>3, <2>1, <2>4, <4>1, <4>2, <4>3
    <3> HIDE DEF got
    <3>3. NothingTwice(Append(got, c)) /\ Append(got, c)[Len(Append(got, c))] = c
      BY <1>3, <2>1, <2>2, <3>1, OneMore
    <3>4. seen_get_messages'.map[g].last_reply_checksum = c
      BY <1>1, <1>3, <1>5 DEF Route, g
    <3> QED
      BY <2>4, <3>2, <3>3, <3>4 DEF NothingTwice
  <2>5. CASE get.id # g
    <3>1. Got(get)' = Got(get)
      BY <1>1, <2>5 DEF Got
    <3> QED
      BY <1>5, <2>2, <2>3, <2>5, <3>1 DEF NothingTwice
  <2> QED
    BY <2>4, <2>5
<1>7. NoRepeatedAnswer'
  BY <1>6 DEF NoRepeatedAnswer, NothingTwice, Got
<1>8. RouteRemembersLast'
  BY <1>6 DEF RouteRemembersLast, Route
<1> QED
  BY <1>4, <1>7, <1>8 DEF AnswersInv

LEMMA SameAnswers ==
  ASSUME AnswersInv, UNCHANGED <<answers, seen_get_messages>>
  PROVE  AnswersInv'
BY DEF AnswersInv, NoRepeatedAnswer, RouteRemembersLast, Got, Route

LEMMA StepAnswers ==
  ASSUME GetsDiffer, TypeOK, CacheInv, AnswersInv, [HNext]_hvars
  PROVE  AnswersInv'
<1>1. ASSUME NEW get \in Gets, NEW from \in Sources, RecordedGet(get, from)
      PROVE  AnswersInv'
  BY <1>1, GetAnswers
<1>2. ASSUME NEW put \in Puts, NEW from \in Sources, RecordedReply(put, from)
      PROVE  AnswersInv'
  BY <1>2, ReplyAnswers
<1>3. CASE \/ \E put \in Puts, from \in Sources : RecordedPublication(put, from)
           \/ \E put \in Puts : RecordedDrop(put)
           \/ Unrecorded
           \/ UNCHANGED hvars
  <2>1. UNCHANGED <<answers, seen_get_messages>>
    BY <1>3 DEF RecordedPublication, HandlePublication, RecordedDrop, DropReply, Unrecorded,
                HandleHi, Close, RefuseDuplicate, hvars, vars
  <2> QED
    BY <2>1, SameAnswers
<1> QED
  BY <1>1, <1>2, <1>3 DEF HNext

(* No requester is sent the same checksum twice in a row, nor the one it   *)
(* said it has, for any number of gets, replies and forgotten routes       *)
(* (router.rs:129-134, 231-236).                                           *)
THEOREM NoRepetition ==
  ASSUME GetsDiffer
  PROVE  HSpec => []NoRepeatedAnswer
<1>1. HInit => AnswersInv
  <2> SUFFICES ASSUME HInit PROVE AnswersInv
    OBVIOUS
  <2>1. answers \in [GetIds -> Seq(Checksums)] /\ DOMAIN seen_get_messages.map = {}
    BY DEF HInit, Init, EmptyBoundedMap
  <2>2. ASSUME NEW get \in Gets
        PROVE  Len(<<get.checksum>> \o answers[get.id]) = 1
    BY DEF HInit, GetIds
  <2>3. NoRepeatedAnswer
    BY <2>2 DEF NoRepeatedAnswer
  <2> QED
    BY <2>1, <2>3 DEF AnswersInv, RouteRemembersLast
<1>2. TypeOK /\ CacheInv /\ AnswersInv /\ [HNext]_hvars => AnswersInv'
  BY StepAnswers
<1>3. AnswersInv => NoRepeatedAnswer
  BY DEF AnswersInv
<1> QED
  BY <1>1, <1>2, <1>3, CacheCorrect, PTL DEF HSpec
====================================================================================
