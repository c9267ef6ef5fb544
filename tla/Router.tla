--------------------------------- MODULE Router ---------------------------------
(***************************************************************************)
(* The router actor (src/src/router.rs): every network connection, local   *)
(* graph node, server peer and storage adapter is an actor with an         *)
(* unbounded mailbox, and the router is the one actor that decides which   *)
(* of them a message is passed on to.  It handles one message at a time;   *)
(* each action below is one call of its handle.                            *)
(*                                                                         *)
(* What is sent is recorded in out: for the message handled last, how      *)
(* many copies went into the mailbox of each actor.  A send to an actor    *)
(* whose task has ended (closed) fails; all others succeed.                *)
(***************************************************************************)
EXTENDS BoundedCollections, FiniteSets, FiniteSetsExt

CONSTANTS Conns,            \* WsConn actors: they announce themselves with Hi
          GraphNodes,       \* Node actors of the local API
          ServerPeers,      \* network adapters that subscribe_to_everything
          StorageAdapters,  \* storage actors; they never write to the router
          Topics,           \* first path component of a node id
          Gets,             \* gets that may arrive
          Puts,             \* puts that may arrive
          SeenMsgsMaxSize,  \* SEEN_MSGS_MAX_SIZE
          FanOut,           \* the literal 4 that limits whom a message is passed on to
          None              \* Option::None

Sources == Conns \cup GraphNodes \cup ServerPeers

Addrs == Sources \cup StorageAdapters

GetIds == {get.id : get \in Gets}

PutIds == {put.id : put \in Puts}

Ids == GetIds \cup PutIds

Checksums == {get.checksum : get \in Gets} \cup {put.checksum : put \in Puts}

GetMessage(id, topic, checksum) == [id |-> id, topic |-> topic, checksum |-> checksum]

PutMessage(id, topics, in_response_to, checksum) ==
  [id |-> id, topics |-> topics, in_response_to |-> in_response_to, checksum |-> checksum]

ASSUME SizeAssumption == SeenMsgsMaxSize \in Nat \ {0}
ASSUME FanOutAssumption == FanOut \in Nat \ {0}
ASSUME AddrsAssumption == /\ IsFiniteSet(Addrs)
                          /\ StorageAdapters \cap Sources = {}
                          /\ ServerPeers \cap (Conns \cup GraphNodes) = {}
                          /\ None \notin Addrs
ASSUME MessagesAssumption ==
  /\ \A get \in Gets : /\ get = GetMessage(get.id, get.topic, get.checksum)
                       /\ get.topic \in Topics
  /\ \A put \in Puts : /\ put = PutMessage(put.id, put.topics, put.in_response_to, put.checksum)
                       /\ put.topics \in Seq(Topics)
                       /\ put.in_response_to # None => put.in_response_to \notin PutIds
  /\ GetIds \cap PutIds = {}
  /\ None \notin GetIds

VARIABLES known_peers, seen_messages, seen_get_messages, subscribers_by_topic,
          closed,   \* the actors whose task has ended
          out,      \* what the message handled last was and who got copies of it
          asked     \* history: <<actor, topic>> of every get handled

vars == <<known_peers, seen_messages, seen_get_messages, subscribers_by_topic,
          closed, out, asked>>

Quiet == [kind |-> "quiet", msg |-> None, from |-> None, copies |-> [a \in Addrs |-> 0]]

(* Sending to every actor of each wave in turn.                            *)
Copies(waves) ==
  [a \in Addrs |-> Cardinality({i \in DOMAIN waves : a \in waves[i] \ closed})]

Sent(kind, msg, from, waves) ==
  [kind |-> kind, msg |-> msg, from |-> from, copies |-> Copies(waves)]

Init == /\ known_peers = {}
        /\ seen_messages = EmptyBoundedSet
        /\ seen_get_messages = EmptyBoundedMap
        /\ subscribers_by_topic = [t \in Topics |-> {}]
        /\ closed = {}
        /\ out = Quiet
        /\ asked = {}
---------------------------------------------------------------------------------
(* Mutant: one draw too many.                                              *)
DrawsOneMore(already) == IF already < FanOut THEN FanOut - already ELSE 0

(* The loop that draws known peers at random, with replacement: it gives   *)
(* up after FanOut - 1 draws, of which already were spent before.          *)
Draws(already) == IF already < FanOut - 1 THEN FanOut - 1 - already ELSE 0

DrawnFrom(S, n) ==
  IF S = {} \/ n = 0 THEN {{}} ELSE {P \in SUBSET S : P # {} /\ Cardinality(P) <= n}

(* choose_multiple: a sample of FanOut elements, or all when there are less *)
Samples(S) == kSubset(IF Cardinality(S) < FanOut THEN Cardinality(S) ELSE FanOut, S)

(* Mutant: the answer of is_message_seen is ignored.                       *)
AcceptAgain(id) == seen_messages' = SetInsert(seen_messages, id, SeenMsgsMaxSize)

(* is_message_seen *)
Accept(id) ==
  /\ id \notin seen_messages.set
  /\ seen_messages' = SetInsert(seen_messages, id, SeenMsgsMaxSize)

HandleHi(from) ==
  /\ known_peers' = known_peers \cup {from}
  /\ out' = Quiet
  /\ UNCHANGED <<seen_messages, seen_get_messages, subscribers_by_topic, closed, asked>>

RefuseDuplicate(id) ==
  /\ id \in seen_messages.set
  /\ out' = Quiet
  /\ UNCHANGED <<known_peers, seen_messages, seen_get_messages, subscribers_by_topic,
                 closed, asked>>

(* handle_get: remember the requester, subscribe it, ask storage, the      *)
(* server peers, a sample of the topic's subscribers and, when fewer than  *)
(* FanOut of those took it, random known peers.                            *)
HandleGet(get, from) ==
  LET subscribers == subscribers_by_topic[get.topic] \cup {from}
  IN
  /\ Accept(get.id)
  /\ seen_get_messages' =
       MapInsert(seen_get_messages, get.id,
                 [from |-> from, last_reply_checksum |-> get.checksum], SeenMsgsMaxSize)
  /\ asked' = asked \cup {<<from, get.topic>>}
  /\ \E sample \in Samples(subscribers) :
       LET sampled == sample \ ({from} \cup ServerPeers)
           errored == sampled \cap closed
           peers == known_peers \ errored
       IN /\ subscribers_by_topic' =
               [subscribers_by_topic EXCEPT ![get.topic] = subscribers \ errored]
          /\ \E drawn \in DrawnFrom(peers, Draws(Cardinality(sampled \ closed))) :
               LET random == drawn \ ({from} \cup ServerPeers \cup sampled)
               IN /\ known_peers' = peers \ (random \cap closed)
                  /\ out' = Sent("get", get, from,
                                 <<StorageAdapters, ServerPeers, sampled, random>>)
  /\ UNCHANGED closed

(* Mutants: already_sent_to is not consulted; only the first updated node  *)
(* is looked at.                                                           *)
SubscriberWaveAgain(put, from, i) ==
  subscribers_by_topic[put.topics[i]] \ ({from} \cup ServerPeers)

SubscriberWaveOfFirst(put, from, i) ==
  IF i = 1 THEN subscribers_by_topic[put.topics[1]] \ ({from} \cup ServerPeers) ELSE {}

(* The subscribers of the i-th updated node's topic that have not been     *)
(* sent the put for an earlier one.                                        *)
SubscriberWave(put, from, i) ==
  subscribers_by_topic[put.topics[i]]
    \ ({from} \cup ServerPeers
         \cup UNION {subscribers_by_topic[put.topics[j]] : j \in 1..(i - 1)})

(* Mutant: retain keeps only the subscribers it has just sent to.          *)
RetainedIfSent(put, waves, t) ==
  IF t \in {put.topics[i] : i \in DOMAIN waves}
    THEN UNION {waves[i] : i \in {j \in DOMAIN waves : put.topics[j] = t}} \ closed
    ELSE subscribers_by_topic[t]

(* Who stays subscribed to a topic: retain drops those the send failed for. *)
Retained(put, waves, t) ==
  subscribers_by_topic[t]
    \ (closed \cap UNION {waves[i] : i \in {j \in DOMAIN waves : put.topics[j] = t}})

(* handle_put without in_response_to: save to storage, send to the server  *)
(* peers and to all subscribers of the topics, dropping closed ones, and   *)
(* while fewer than FanOut actors have been addressed to known peers.      *)
HandlePublication(put, from) ==
  LET topics == DOMAIN put.topics
      waves == [i \in topics |-> SubscriberWave(put, from, i)]
      relayed == UNION {waves[i] : i \in topics}
      servers == ServerPeers \ {from}
      addressed == servers \cup relayed
  IN
  /\ put.in_response_to = None
  /\ Accept(put.id)
  /\ subscribers_by_topic' = [t \in Topics |-> Retained(put, waves, t)]
  /\ \E drawn \in IF Cardinality(addressed) < FanOut
                    THEN DrawnFrom(known_peers, Draws(Cardinality(relayed \ closed)))
                    ELSE {{}} :
       LET random == drawn \ ({from} \cup addressed)
       IN /\ known_peers' = known_peers \ (random \cap closed)
          /\ out' = Sent("publication", put, from,
                         <<StorageAdapters \ {from}, servers, random>> \o waves)
  /\ UNCHANGED <<seen_get_messages, closed, asked>>

Route(get) == seen_get_messages.map[get]

(* Mutants: nothing counts as a repetition; None is compared like any      *)
(* checksum.                                                               *)
RepeatsNever(put) == FALSE

RepeatsNone(put) == put.checksum = Route(put.in_response_to).last_reply_checksum

(* "same reply already sent" *)
Repeats(put) ==
  /\ put.checksum # None
  /\ put.checksum = Route(put.in_response_to).last_reply_checksum

(* handle_put with in_response_to: the reply goes to whoever sent the get, *)
(* unless the get is unknown or the reply repeats the last one.            *)
HandleReply(put, from) ==
  /\ put.in_response_to \in DOMAIN seen_get_messages.map
  /\ ~Repeats(put)
  /\ Accept(put.id)
  /\ seen_get_messages' =
       MapUpdate(seen_get_messages, put.in_response_to,
                 [Route(put.in_response_to) EXCEPT !.last_reply_checksum = put.checksum])
  /\ out' = Sent("reply", put, from, <<{Route(put.in_response_to).from}>>)
  /\ UNCHANGED <<known_peers, subscribers_by_topic, closed, asked>>

DropReply(put) ==
  /\ put.in_response_to # None
  /\ put.in_response_to \in DOMAIN seen_get_messages.map => Repeats(put)
  /\ Accept(put.id)
  /\ out' = Quiet
  /\ UNCHANGED <<known_peers, seen_get_messages, subscribers_by_topic, closed, asked>>

(* Environment: a connection's task ends and its mailbox is dropped.  Its  *)
(* earlier messages may still be in the router's queue.                    *)
Close(conn) ==
  /\ conn \notin closed
  /\ closed' = closed \cup {conn}
  /\ out' = Quiet
  /\ UNCHANGED <<known_peers, seen_messages, seen_get_messages, subscribers_by_topic, asked>>

Next ==
  \/ \E conn \in Conns : HandleHi(conn) \/ Close(conn)
  \/ \E id \in Ids : RefuseDuplicate(id)
  \/ \E from \in Sources :
       \/ \E get \in Gets : HandleGet(get, from)
       \/ \E put \in Puts : HandlePublication(put, from) \/ HandleReply(put, from)
  \/ \E put \in Puts : DropReply(put)

Spec == Init /\ [][Next]_vars
---------------------------------------------------------------------------------
TypeOK ==
  /\ known_peers \subseteq Conns
  /\ seen_messages.set \subseteq Ids
  /\ DOMAIN seen_get_messages.map \subseteq GetIds
  /\ \A g \in DOMAIN seen_get_messages.map :
       seen_get_messages.map[g] \in [from : Sources, last_reply_checksum : Checksums]
  /\ subscribers_by_topic \in [Topics -> SUBSET Sources]
  /\ closed \subseteq Conns
  /\ out.kind \in {"quiet", "get", "publication", "reply"}
  /\ out.from \in Sources \cup {None}
  /\ out.copies \in [Addrs -> Nat]
  /\ asked \subseteq Sources \X Topics

Receivers == {a \in Addrs : out.copies[a] > 0}

Interested(topics) == {a \in Sources : \E t \in topics : <<a, t>> \in asked}

TopicsOf(put) == {put.topics[i] : i \in DOMAIN put.topics}

(* A message enters each mailbox at most once per handling, although       *)
(* storage, server peers, subscribers of several topics and random known   *)
(* peers are served by separate loops over overlapping sets                *)
(* (already_sent_to).                                                      *)
AtMostOneCopy == \A a \in Addrs : out.copies[a] <= 1

(* A publication does not come back to where it came from, whichever of    *)
(* the loops would have reached it.                                        *)
PublicationNotEchoed == out.kind = "publication" => out.copies[out.from] = 0

(* An actor that has once asked for a topic stays subscribed to it for as  *)
(* long as its task runs: closed addresses are weeded out in handle_get    *)
(* and in handle_put, the others never are.                                *)
InterestKept ==
  \A a \in Sources \ closed, t \in Topics : <<a, t>> \in asked => a \in subscribers_by_topic[t]

(* An accepted publication reaches storage, every server peer and every    *)
(* running actor that asked for one of its topics, its source excepted.    *)
PublicationReachesInterested ==
  out.kind = "publication" =>
    (StorageAdapters \cup ServerPeers \cup Interested(TopicsOf(out.msg)))
      \ (closed \cup {out.from}) \subseteq Receivers

(* An accepted get is put to all of storage and all server peers, and to   *)
(* no more than FanOut other actors.                                       *)
GetReachesFew ==
  out.kind = "get" =>
    /\ StorageAdapters \cup ServerPeers \subseteq Receivers
    /\ Cardinality(Receivers \cap (Conns \cup GraphNodes)) <= FanOut

(* A publication goes to fewer than FanOut actors that never asked for one *)
(* of its topics and do not subscribe to everything.                       *)
FewStrangers ==
  out.kind = "publication" =>
    Cardinality((Receivers \cap Conns) \ Interested(TopicsOf(out.msg))) < FanOut

(* The tables of subscribers hold actors, and all that still listen.       *)
SubscriptionsKept == TypeOK /\ InterestKept

(* The four loops of a publication overlap and still no actor is sent it   *)
(* twice, nor its source at all.                                           *)
PublicationSentOnce == AtMostOneCopy /\ PublicationNotEchoed

(* Of actors that need not have a message, no more than fan-out get it.    *)
RelayedToFew == GetReachesFew /\ FewStrangers
=================================================================================
