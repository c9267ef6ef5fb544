----------------------------- MODULE GunEvents ------------------------------
(***************************************************************************)
(* The events of a browser peer: onto and ask of assets/stats/gun.js.      *)
(*                                                                         *)
(* The listeners of a tag form a doubly linked list that starts at the     *)
(* tag's object; an event is handed from listener to listener, each of     *)
(* which may add and remove listeners before it hands on.  A listener that *)
(* is turned off is unlinked and becomes one that only hands on; that it   *)
(* is off already is recognised by comparing its function with the one of  *)
(* the tag made last, of any emitter.  ask registers a listener under the  *)
(* id of a request, with a timer that is started again by every answer.    *)
(*                                                                         *)
(* Tag objects are numbered in the order they are made.  One event is      *)
(* handed on at a time.                                                    *)
(***************************************************************************)
EXTENDS Integers, Sequences, SequencesExt

CONSTANTS
    Tags,
    Listeners,
    MaxObjects,     \* bound on the tag objects made
    MaxEvents       \* bound on the events

None == 0
End  == -1
Idle == -2

Objects == 1 .. MaxObjects

EventsAssumption == /\ MaxObjects \in Nat
                    /\ MaxEvents \in Nat
                    /\ Listeners \cap (Objects \cup {None, End, Idle}) = {}

VARIABLES
    table,      \* this.tag: the current object of a tag
    tag_of,     \* the tag an object was made for
    made,       \* the number of objects made: it stands for onto._
    to, back,   \* the links; to also of objects
    last_of,    \* tag.last, the object itself while it has no listener
    the,        \* the object a listener was added to
    off_at,     \* how many objects had been made when it was turned off
    err,        \* the timer of a listener: "none", "lack" or "quiet"
    at,         \* where the event is
    calling,    \* the function of the listener there was called
    rearm,      \* the listener whose timer the event starts when it ends
    events,
    order,      \* history: the live listeners of an object, oldest first
    due,        \* history: live since the event began
    heard,      \* history: called for this event
    expired,    \* history: listeners whose ask got no answer in time
    again       \* history: an unlinked listener was unlinked again

links == <<table, tag_of, made, to, back, last_of, the, off_at, order>>
event == <<at, calling, rearm, events, heard>>
vars  == <<links, event, err, due, expired, again>>

Live(l) == the[l] # None /\ off_at[l] = 0

Init == /\ table = [t \in Tags |-> None]
        /\ tag_of = [o \in Objects |-> None]
        /\ made = 0
        /\ to = [n \in Listeners \cup Objects |-> End]
        /\ back = [l \in Listeners |-> End]
        /\ last_of = [o \in Objects |-> o]
        /\ the = [l \in Listeners |-> None]
        /\ off_at = [l \in Listeners |-> 0]
        /\ err = [l \in Listeners |-> "none"]
        /\ at = Idle
        /\ calling = FALSE
        /\ rearm = None
        /\ events = 0
        /\ order = [o \in Objects |-> <<>>]
        /\ due = {}
        /\ heard = {}
        /\ expired = {}
        /\ again = FALSE

(* A list that l is in once, or not at all, without it.  *)
Without(s, l) ==
    IF l \in ToSet(s) THEN RemoveAt(s, CHOOSE i \in DOMAIN s : s[i] = l) ELSE s

(* Code runs between events or in the listener that is called.  *)
CodeRuns == at = Idle \/ calling

(* onto(tag, function): the tag's object is made if there is none, and the *)
(* listener is linked in at the end.                                       *)
Link(t, l) ==
    LET o == IF table[t] = None THEN made + 1 ELSE table[t] IN
    /\ the[l] = None
    /\ o <= MaxObjects
    /\ table' = [table EXCEPT ![t] = o]
    /\ tag_of' = [tag_of EXCEPT ![o] = t]
    /\ made' = IF table[t] = None THEN made + 1 ELSE made
    /\ to' = [to EXCEPT ![last_of[o]] = l]
    /\ back' = [back EXCEPT ![l] = last_of[o]]
    /\ last_of' = [last_of EXCEPT ![o] = l]
    /\ the' = [the EXCEPT ![l] = o]
    /\ order' = [order EXCEPT ![o] = Append(@, l)]
    /\ UNCHANGED off_at

On(t, l) == /\ CodeRuns
            /\ Link(t, l)
            /\ UNCHANGED <<event, err, due, expired, again>>

(* ask(callback): a listener with a timer.  *)
Ask(t, l) == /\ CodeRuns
             /\ Link(t, l)
             /\ err' = [err EXCEPT ![l] = "lack"]
             /\ UNCHANGED <<event, due, expired, again>>

(* off is a no-op for a listener whose function is that of the tag made    *)
(* last.                                                                   *)
IsOff(l) == off_at[l] = made

(* Mutant: the listener turned off loses its link to the next.             *)
UnlinkBothWays(l) ==
    IF IsOff(l) THEN UNCHANGED <<links, due, again>>
    ELSE LET o == the[l]
             rest == IF last_of[o] = l THEN back[l] ELSE last_of[o] IN
         /\ last_of' = [last_of EXCEPT ![o] = rest]
         /\ back' = IF to[l] = End THEN back ELSE [back EXCEPT ![to[l]] = back[l]]
         /\ to' = [to EXCEPT ![back[l]] = to[l], ![l] = End]
         /\ off_at' = [off_at EXCEPT ![l] = made]
         /\ table' = IF rest = o THEN [table EXCEPT ![tag_of[o]] = None] ELSE table
         /\ order' = [order EXCEPT ![o] = Without(@, l)]
         /\ due' = due \ {l}
         /\ again' = (again \/ off_at[l] # 0)
         /\ UNCHANGED <<made, tag_of, the>>

(* be.off()  *)
Unlink(l) ==
    IF IsOff(l) THEN UNCHANGED <<links, due, again>>
    ELSE LET o == the[l]
             rest == IF last_of[o] = l THEN back[l] ELSE last_of[o] IN
         /\ last_of' = [last_of EXCEPT ![o] = rest]
         /\ back' = IF to[l] = End THEN back ELSE [back EXCEPT ![to[l]] = back[l]]
         /\ to' = [to EXCEPT ![back[l]] = to[l]]
         /\ off_at' = [off_at EXCEPT ![l] = made]
         /\ table' = IF rest = o THEN [table EXCEPT ![tag_of[o]] = None] ELSE table
         /\ order' = [order EXCEPT ![o] = Without(@, l)]
         /\ due' = due \ {l}
         /\ again' = (again \/ off_at[l] # 0)
         /\ UNCHANGED <<made, tag_of, the>>

Off(l) == /\ CodeRuns
          /\ the[l] # None
          /\ Unlink(l)
          /\ UNCHANGED <<event, err, expired>>

(* The event comes to n: a live listener is called, the others hand on.    *)
Visit(n) == /\ at' = n
            /\ calling' = (n # End /\ Live(n))
            /\ heard' = IF n # End /\ Live(n) THEN heard \cup {n} ELSE heard

(* onto(tag, argument): an event without answer.  *)
Emit(t) == /\ at = Idle
           /\ events < MaxEvents
           /\ table[t] # None
           /\ events' = events + 1
           /\ Visit(to[table[t]])
           /\ due' = ToSet(order[table[t]])
           /\ rearm' = None
           /\ UNCHANGED <<links, err, expired, again>>

(* ask(id, answer): the event of an answer; the timer of the listener that *)
(* was first is started again when it has been handed on.                  *)
Answer(t) == /\ at = Idle
             /\ events < MaxEvents
             /\ table[t] # None
             /\ events' = events + 1
             /\ Visit(to[table[t]])
             /\ due' = ToSet(order[table[t]])
             /\ rearm' = at'
             /\ UNCHANGED <<links, err, expired, again>>

HandOn == /\ at \in Listeners
          /\ Visit(to[at])
          /\ UNCHANGED <<links, rearm, events, err, due, expired, again>>

EventEnds == /\ at = End
             /\ at' = Idle
             /\ err' = IF rearm = None THEN err ELSE [err EXCEPT ![rearm] = "quiet"]
             /\ rearm' = None
             /\ heard' = {}
             /\ due' = {}
             /\ UNCHANGED <<links, calling, events, expired, again>>

(* What an ask without an answer in time does to its listener: it is       *)
(* turned off, and the error is given to what it has become, which hands   *)
(* it on to the next.                                                      *)
TellLack(l) == /\ Unlink(l)
               /\ Visit(to[l])

(* The timer of an ask fires.  *)
Lack(l) == /\ at = Idle
           /\ err[l] = "lack"
           /\ err' = [err EXCEPT ![l] = "none"]
           /\ TellLack(l)
           /\ expired' = expired \cup {l}
           /\ UNCHANGED <<rearm, events>>

(* The timer that an answer has started fires.  *)
Quiet(l) == /\ at = Idle
            /\ err[l] = "quiet"
            /\ err' = [err EXCEPT ![l] = "none"]
            /\ Unlink(l)
            /\ UNCHANGED <<event, expired>>

Next == \/ \E t \in Tags, l \in Listeners : On(t, l) \/ Ask(t, l)
        \/ \E l \in Listeners : Off(l) \/ Lack(l) \/ Quiet(l)
        \/ \E t \in Tags : Emit(t) \/ Answer(t)
        \/ HandOn
        \/ EventEnds

Spec == Init /\ [][Next]_vars

-----------------------------------------------------------------------------
(* The list of a tag is exactly its live listeners, oldest first, both     *)
(* ways, and a tag without listeners has no object, as long as no          *)
(* listener is turned off again after a tag was made in between (onto,     *)
(* gun.js:97-128; the timer of ask does that, gun.js:221).                 *)
ListIsLive ==
    ~again => /\ \A l \in Listeners : Live(l) => table[tag_of[the[l]]] = the[l]
              /\ \A t \in Tags :
                    table[t] # None =>
                        LET o == table[t]
                            s == <<o>> \o order[o] IN
                        /\ Len(s) > 1
                        /\ last_of[o] = Last(s)
                        /\ to[Last(s)] = End
                        /\ \A i \in 2 .. Len(s) : /\ to[s[i - 1]] = s[i]
                                                 /\ back[s[i]] = s[i - 1]

(* Whoever listens from the beginning to the end of an event is called,    *)
(* whatever the listeners called before it add and turn off, themselves    *)
(* included (onto, gun.js:106-127).                                        *)
EventReachesAll == ~again /\ at = End => due \subseteq heard

(* A callback whose ask has run out is not called any more, not even with  *)
(* the error that nobody has answered: off comes before next (ask,         *)
(* gun.js:228-229).                                                        *)
ExpiredIsSilent == heard \cap expired = {}
=============================================================================
