-------------------------------- MODULE SeenCache --------------------------------
(***************************************************************************)
(* The router's memory of messages (src/src/router.rs): seen_messages, the *)
(* bounded set of ids that makes it handle a message once, and             *)
(* seen_get_messages, the bounded map from a get's id to the actor that    *)
(* sent it, along which replies travel back.  Both share one size.         *)
(*                                                                         *)
(* accepted is a history variable: the messages is_message_seen let        *)
(* through, oldest first.                                                  *)
(***************************************************************************)
EXTENDS BoundedCollections

CONSTANTS GetIds,           \* ids of the gets that may arrive
          PutIds,           \* ids of the puts that may arrive
          Addrs,            \* actors messages come from
          Checksums,        \* checksums replies carry
          None,             \* Option::None
          SeenMsgsMaxSize,  \* SEEN_MSGS_MAX_SIZE
          MaxAccepted       \* bound on the length of the history

ASSUME SizeAssumption == SeenMsgsMaxSize \in Nat \ {0}
ASSUME IdsAssumption == GetIds \cap PutIds = {}
ASSUME BoundAssumption == MaxAccepted \in Nat
ASSUME NoneAssumption == None \notin Addrs

VARIABLES seen_messages, seen_get_messages, accepted

vars == <<seen_messages, seen_get_messages, accepted>>

Ids == GetIds \cup PutIds

MaybeChecksum == Checksums \cup {None}

SeenGetMessage == [from : Addrs, last_reply_checksum : MaybeChecksum]

Acceptance == [id : Ids, from : Addrs \cup {None}]

Init == /\ seen_messages = EmptyBoundedSet
        /\ seen_get_messages = EmptyBoundedMap
        /\ accepted = <<>>

(* Router::is_message_seen, when it answers true: the handler returns.     *)
RefuseDuplicate(id) ==
  /\ id \in seen_messages.set
  /\ UNCHANGED vars

(* Router::is_message_seen, when it answers false: the id is recorded.     *)
Accept(id, from) ==
  /\ Len(accepted) < MaxAccepted
  /\ id \notin seen_messages.set
  /\ seen_messages' = SetInsert(seen_messages, id, SeenMsgsMaxSize)
  /\ accepted' = Append(accepted, [id |-> id, from |-> from])

(* The part of handle_get that remembers who asked.                        *)
AcceptGet(id, from, checksum) ==
  /\ Accept(id, from)
  /\ seen_get_messages' =
       MapInsert(seen_get_messages, id,
                 [from |-> from, last_reply_checksum |-> checksum], SeenMsgsMaxSize)

(* handle_put for a publication, for a reply to a get that is not known    *)
(* (any more), and for a reply that repeats the last one.                  *)
AcceptPut(id) ==
  /\ Accept(id, None)
  /\ UNCHANGED seen_get_messages

(* handle_put for a reply to a known get that differs from the last one:   *)
(* its checksum is remembered.                                             *)
AcceptReply(id, get, checksum) ==
  /\ get \in DOMAIN seen_get_messages.map
  /\ checksum = None \/ checksum # seen_get_messages.map[get].last_reply_checksum
  /\ Accept(id, None)
  /\ seen_get_messages' =
       MapUpdate(seen_get_messages, get,
                 [seen_get_messages.map[get] EXCEPT !.last_reply_checksum = checksum])

Next ==
  \/ \E id \in Ids : RefuseDuplicate(id)
  \/ \E id \in GetIds, from \in Addrs, checksum \in MaybeChecksum :
       AcceptGet(id, from, checksum)
  \/ \E id \in PutIds : AcceptPut(id)
  \/ \E id \in PutIds, get \in GetIds, checksum \in MaybeChecksum :
       AcceptReply(id, get, checksum)

Spec == Init /\ [][Next]_vars
-----------------------------------------------------------------------------------
RoutesTypeOK ==
  LET routes == seen_get_messages.map
  IN /\ seen_get_messages = [map |-> routes, queue |-> seen_get_messages.queue]
     /\ DOMAIN routes \subseteq GetIds
     /\ \A g \in DOMAIN routes : routes[g] \in SeenGetMessage
     /\ seen_get_messages.queue \in Seq(GetIds)

TypeOK ==
  /\ seen_messages \in [set : SUBSET Ids, queue : Seq(Ids)]
  /\ RoutesTypeOK
  /\ accepted \in Seq(Acceptance)

(* The set of seen ids is exactly a window on the history: the queue lists *)
(* the last SeenMsgsMaxSize accepted messages, newest first, and the set   *)
(* has the same ids.  No id is forgotten early, none is kept too long.     *)
SeenIsTheRecentWindow ==
  LET queue == seen_messages.queue
      n == Len(accepted)
  IN /\ Len(queue) = IF n < SeenMsgsMaxSize THEN n ELSE SeenMsgsMaxSize
     /\ \A i \in 1..Len(queue) : queue[i] = accepted[n + 1 - i].id
     /\ seen_messages.set = {queue[i] : i \in 1..Len(queue)}

(* A message is handled again only when SeenMsgsMaxSize other messages     *)
(* have been handled in between (is_message_seen deduplicates).            *)
NoEarlyRepeat ==
  \A i, j \in 1..Len(accepted) :
     i < j /\ accepted[i].id = accepted[j].id => j - i > SeenMsgsMaxSize

(* seen_get_messages keeps its map and its queue in step: same keys, each  *)
(* queued once, never more than the size, although insert evicts before it *)
(* knows whether the key is new.                                           *)
RoutesConsistent ==
  LET queue == seen_get_messages.queue
  IN /\ DOMAIN seen_get_messages.map = {queue[i] : i \in 1..Len(queue)}
     /\ \A i, j \in 1..Len(queue) : queue[i] = queue[j] => i = j
     /\ Len(queue) <= SeenMsgsMaxSize

(* A reply is routed to whoever sent the get the last time it was          *)
(* accepted: an entry left over from an earlier acceptance never survives. *)
LatestAcceptance(i) ==
  \A j \in 1..Len(accepted) : accepted[j].id = accepted[i].id => j <= i

RouteIsLatestRequester ==
  \A i \in 1..Len(accepted) :
     /\ LatestAcceptance(i)
     /\ accepted[i].id \in DOMAIN seen_get_messages.map
     => seen_get_messages.map[accepted[i].id].from = accepted[i].from

(* While a get would still be refused as a duplicate it also still has its *)
(* route: replies to it are deliverable.                                   *)
SeenGetsHaveRoutes ==
  seen_messages.set \cap GetIds \subseteq DOMAIN seen_get_messages.map

(* SeenGetsHaveRoutes does hold as long as no get has ever been accepted   *)
(* twice, i.e. until an id comes back after its window has passed.         *)
NoGetAcceptedTwice ==
  \A i, j \in 1..Len(accepted) :
     accepted[i].id = accepted[j].id /\ accepted[i].id \in GetIds => i = j

FreshGetsHaveRoutes == NoGetAcceptedTwice => SeenGetsHaveRoutes

(* Both caches are well formed, and windows on what was accepted last.     *)
CachesAreWindows == TypeOK /\ SeenIsTheRecentWindow /\ RoutesConsistent

(* Replies find their way: a route leads to the latest requester, and is   *)
(* there for as long as the get is remembered, until an id comes back.     *)
RepliesAreRoutable == RouteIsLatestRequester /\ FreshGetsHaveRoutes
===================================================================================
