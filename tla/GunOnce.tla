------------------------------- MODULE GunOnce ------------------------------
(***************************************************************************)
(* chain.once of assets/stats/gun.js: a callback for what a chain has,     *)
(* called at once if that is a simple value, and for a node, or nothing,   *)
(* when no message has come for a while (99 ms); for a link only when what *)
(* it links to is known.                                                   *)
(*                                                                         *)
(* A message names the chain that it is about: the chain itself, the       *)
(* chains that it echoes, or, for the chain of a map, its items.  All      *)
(* timers take equally long, so they end in the order in which they were   *)
(* set.  No message is about the chain of a map itself: it handles no      *)
(* "not found" (ack, gun.js:793).                                          *)
(***************************************************************************)
EXTENDS Integers, Sequences, FiniteSets

CONSTANTS
    Others,         \* chains that messages may be about, other than its own
    MaxMessages     \* bound on the messages

Self == "self"
Ats == Others \cup {Self}

(* What a chain may have; a link is to one node.  *)
Values == {"nothing", "simple", "node", "link"}

OnceAssumption ==
    /\ Self \notin Others
    /\ IsFiniteSet(Others)
    /\ MaxMessages \in Nat

VARIABLES
    core,       \* the chain has a soul or a key: it is not one of a map
    put,        \* what a chain has
    there,      \* the node that is linked to is known
    due,        \* the timers, in order
    done,       \* the chains with '' in one
    stun,       \* the listener is off
    told,       \* history: how the callback was called
    heard,      \* history: the last message about a chain, for the chain
                \* itself the last one of all: of data, of nothing, or none
    count       \* messages so far

vars == <<core, put, there, due, done, stun, told, heard, count>>

Init == /\ core \in BOOLEAN
        /\ put = [a \in Ats |-> "nothing"]
        /\ there = FALSE
        /\ due = <<>>
        /\ done = {}
        /\ stun = FALSE
        /\ told = <<>>
        /\ heard = [a \in Ats |-> "none"]
        /\ count = 0

Page == [put |-> put, there |-> there, due |-> due, done |-> done,
         stun |-> stun, told |-> told, heard |-> heard]

Becomes(p) == /\ put' = p.put
              /\ there' = p.there
              /\ due' = p.due
              /\ done' = p.done
              /\ stun' = p.stun
              /\ told' = p.told
              /\ heard' = p.heard

Done(p, a) == p.stun \/ a \in p.done

(* at.put, or what it links to; r.via: message r came through a link.  *)
Data(p, r) ==
    IF p.there /\ (p.put[r.at] = "link" \/ (p.put[r.at] = "nothing" /\ r.via))
    THEN "node" ELSE p.put[r.at]

(* Mutant: the chain is done with before a link is followed.               *)
OnceDoneFirst(p, r) ==
    LET data == Data(p, r) IN
    IF Done(p, r.at) THEN p
    ELSE [p EXCEPT !.done = @ \cup {r.at}, !.stun = core,
                   !.told = IF data = "link" THEN @
                            ELSE Append(@, [at |-> r.at, data |-> data])]

(* once(): not for a link to what is not known; a listener of a core chain *)
(* is off afterwards.                                                      *)
once(p, r) ==
    LET data == Data(p, r) IN
    IF data = "link" \/ Done(p, r.at) THEN p
    ELSE [p EXCEPT !.done = @ \cup {r.at}, !.stun = core,
                   !.told = Append(@, [at |-> r.at, data |-> data])]

(* A message about any chain clears the timer of the chain itself, too,    *)
(* which may be there because nothing was found.                           *)
Clear(q, a) ==
    LET kept[n \in 0 .. Len(q)] ==
            IF n = 0 THEN <<>>
            ELSE IF q[n].at \in {a, Self} THEN kept[n - 1] ELSE Append(kept[n - 1], q[n])
    IN kept[Len(q)]

(* The listener, for a message about a with this data.  *)
Listen(p, a, data, via) ==
    LET r == [at |-> a, via |-> via]
        kind == IF data = "nothing" THEN "nothing" ELSE "data"
        q == [p EXCEPT !.heard[a] = kind, !.heard[Self] = kind]
    IN IF Done(p, a) \/ (data = "link" /\ ~p.there) THEN p
       ELSE IF data = "simple" THEN once(q, r)
       ELSE [q EXCEPT !.due = Append(Clear(@, a), r)]

(* All that have the link hear of what it links to, one after the other.  *)
ListenAll(p, order, data) ==
    LET heardby[n \in 0 .. Len(order)] ==
            IF n = 0 THEN p ELSE Listen(heardby[n - 1], order[n], data, TRUE)
    IN heardby[Len(order)]

(* The chains with a link, in the order in which they came to have it.  *)
Linked == {a \in Ats : put[a] = "link"}

Orders == {order \in [1 .. Cardinality(Linked) -> Linked] :
              \A a \in Linked : \E n \in DOMAIN order : order[n] = a}

Counts == /\ count < MaxMessages
          /\ count' = count + 1
          /\ UNCHANGED core

(* A message tells what a has.  *)
Hear(a, v) == /\ a = Self => core
              /\ Becomes(Listen([Page EXCEPT !.put[a] = v], a, v, FALSE))
              /\ Counts

(* A message tells of the node that is linked to, or that there is none.  *)
HearNode == /\ Linked # {}
            /\ \E order \in Orders :
                  Becomes(ListenAll([Page EXCEPT !.there = TRUE], order, "node"))
            /\ Counts

HearNoNode == /\ Linked # {}
              /\ ~there
              /\ \E order \in Orders : Becomes(ListenAll(Page, order, "nothing"))
              /\ Counts

Timer == /\ due # <<>>
         /\ Becomes(once([Page EXCEPT !.due = Tail(@)], Head(due)))
         /\ UNCHANGED <<core, count>>

Next == \/ \E a \in Ats, v \in Values : Hear(a, v)
        \/ HearNode
        \/ HearNoNode
        \/ Timer

Spec == Init /\ [][Next]_vars

-----------------------------------------------------------------------------
Told(a) == \E i \in DOMAIN told : told[i].at = a

(* The callback of a core chain is called once, whichever of the chains it *)
(* echoes the message is about, and that of a map once for every item      *)
(* (gun.js:1189, 1198-1199).                                               *)
CalledOnce ==
    /\ core => Len(told) <= 1
    /\ \A i, j \in DOMAIN told : told[i].at = told[j].at => i = j

(* When nothing is waited for, the callback has been called, also when     *)
(* nothing was found, if any message has come that is not a link, or there *)
(* is a link to something that is not known; a callback for such a link is *)
(* not called even when nothing is found there (gun.js:1180-1203).         *)
CalledInTheEnd ==
    due = <<>> =>
        LET waits(a) == put[a] = "link" /\ ~there IN
        IF core THEN heard[Self] # "none" => told # <<>> \/ \E a \in Ats : waits(a)
        ELSE \A a \in Others : heard[a] # "none" => Told(a) \/ waits(a)

(* A callback is not told that nothing was found when the last message     *)
(* about the chain had data, or, if it is the chain itself, when that of   *)
(* any chain had: a timer set before is cleared (gun.js:1192-1193).        *)
NothingOnlyIfNothing ==
    [][\A i \in DOMAIN told' \ DOMAIN told :
          told'[i].data = "nothing" => heard'[told'[i].at] = "nothing"]_vars
=============================================================================
