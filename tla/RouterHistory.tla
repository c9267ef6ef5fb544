------------------------------ MODULE RouterHistory ------------------------------
(***************************************************************************)
(* Router with its history: the messages it accepted and the answers it    *)
(* has given to each get since that get was accepted last.  Seen through   *)
(* the two caches the router implements SeenCache, so what SeenCache       *)
(* promises about deduplication and routes it promises of the router.      *)
(***************************************************************************)
EXTENDS Router

CONSTANT MaxAccepted   \* bound on the length of the history

ASSUME BoundAssumption == MaxAccepted \in Nat

VARIABLES accepted,    \* <<[id, from], ...>>, oldest first; from is None for a put
          answers      \* get id -> checksums of the replies forwarded, oldest first

hvars == <<vars, accepted, answers>>

HInit == /\ Init
         /\ accepted = <<>>
         /\ answers = [g \in GetIds |-> <<>>]

Record(id, from) ==
  /\ Len(accepted) < MaxAccepted
  /\ accepted' = Append(accepted, [id |-> id, from |-> from])

RecordedGet(get, from) ==
  /\ HandleGet(get, from)
  /\ Record(get.id, from)
  /\ answers' = [answers EXCEPT ![get.id] = <<>>]

RecordedPublication(put, from) ==
  /\ HandlePublication(put, from)
  /\ Record(put.id, None)
  /\ UNCHANGED answers

RecordedReply(put, from) ==
  /\ HandleReply(put, from)
  /\ Record(put.id, None)
  /\ answers' = [answers EXCEPT ![put.in_response_to] = Append(@, put.checksum)]

RecordedDrop(put) ==
  /\ DropReply(put)
  /\ Record(put.id, None)
  /\ UNCHANGED answers

Unrecorded ==
  /\ \/ \E conn \in Conns : HandleHi(conn) \/ Close(conn)
     \/ \E id \in Ids : RefuseDuplicate(id)
  /\ UNCHANGED <<accepted, answers>>

HNext ==
  \/ \E from \in Sources :
       \/ \E get \in Gets : RecordedGet(get, from)
       \/ \E put \in Puts : RecordedPublication(put, from) \/ RecordedReply(put, from)
  \/ \E put \in Puts : RecordedDrop(put)
  \/ Unrecorded

HSpec == HInit /\ [][HNext]_hvars
----------------------------------------------------------------------------------
Cache == INSTANCE SeenCache

(* The router's two caches behave as SeenCache says: each handler makes    *)
(* one cache step (is_message_seen and what it guards) or none.            *)
ImplementsSeenCache == Cache!Spec

LatestAcceptanceOf(g, i) ==
  /\ accepted[i].id = g
  /\ \A j \in DOMAIN accepted : accepted[j].id = g => j <= i

(* handle_put relays a reply "to original requester" (router.rs:222): it   *)
(* reaches nobody but the actor whose get with that id was accepted last,  *)
(* and it does reach it unless its task has ended.                         *)
ReplyReachesRequesterOnly ==
  [][\A put \in Puts, from \in Sources :
       RecordedReply(put, from) =>
         \E i \in DOMAIN accepted :
           /\ LatestAcceptanceOf(put.in_response_to, i)
           /\ Receivers' = {accepted[i].from} \ closed]_hvars

(* A requester is never sent the same checksum twice in a row, nor the one *)
(* it said it already has (last_reply_checksum), even when its get comes   *)
(* to be accepted again or other requesters' replies come in between.      *)
NoRepeatedAnswer ==
  \A get \in Gets :
    LET got == <<get.checksum>> \o answers[get.id]
    IN \A i \in 1..(Len(got) - 1) : got[i] # None => got[i + 1] # got[i]

(* While no get id has been accepted twice, a reply to a get that is still *)
(* among the last SeenMsgsMaxSize messages is dropped only as a repetition.*)
FreshReplyForwarded ==
  [][\A put \in Puts :
       /\ RecordedDrop(put)
       /\ Cache!NoGetAcceptedTwice
       /\ put.in_response_to \in seen_messages.set
       => put.checksum # None /\ put.checksum = Route(put.in_response_to).last_reply_checksum]_hvars
==================================================================================
