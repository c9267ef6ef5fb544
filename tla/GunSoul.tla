------------------------------- MODULE GunSoul ------------------------------
(***************************************************************************)
(* soul(gun, cb) of assets/stats/gun.js, by which a chain without a known  *)
(* soul finds it: the first caller asks, the others wait in a jam, and all *)
(* are told the soul when it is found, or nothing when there have been     *)
(* more answers without it than there are peers: one of each, and one of   *)
(* the page's own storage.                                                 *)
(*                                                                         *)
(* A core chain is that of a key of a node; another, such as that of a     *)
(* map, does not hear of answers without data, and does not keep the soul. *)
(* A value that is no link, of which callers are told true, is left out.   *)
(***************************************************************************)
EXTENDS Integers, Sequences, FiniteSets, SequencesExt

CONSTANTS
    Callers,
    Peers,
    MaxFound    \* bound on the messages with the soul

Store == "store"    \* localStorage, which answers like a peer

SoulAssumption ==
    /\ Store \notin Peers
    /\ IsFiniteSet(Peers)
    /\ MaxFound \in Nat

VARIABLES
    core,
    peers,      \* opt.peers
    asked,      \* who still has to answer, as <<request, peer>>
    jam,        \* the callers that wait, or <<>>
    going,      \* the acks of each go that listens
    requests,
    link,       \* the chain has its soul
    told,       \* history: whom it told what
    found,      \* history: the number of messages with the soul
    moved,      \* history: peers have come or gone
    threw       \* history: go was called without a jam

vars == <<core, peers, asked, jam, going, requests, link, told, found, moved, threw>>

Init == /\ core \in BOOLEAN
        /\ peers \in SUBSET Peers
        /\ asked = {}
        /\ jam = <<>>
        /\ going = <<>>
        /\ requests = 0
        /\ link = FALSE
        /\ told = <<>>
        /\ found = 0
        /\ moved = FALSE
        /\ threw = FALSE

Page == [jam |-> jam, going |-> going, told |-> told, threw |-> threw]

Becomes(p) == /\ jam' = p.jam
              /\ going' = p.going
              /\ told' = p.told
              /\ threw' = p.threw

Tell(cs, what) == [i \in DOMAIN cs |-> [who |-> cs[i], what |-> what]]

(* go waits for more answers without data.  *)
Waits(acks) == peers # {} /\ acks <= Cardinality(peers)

(* eve.rid(msg): the listener of a core chain is off.  *)
Rid(q) == IF core THEN Tail(q) ELSE q

(* Mutant: the jam is left to those who come later.                        *)
ServeKeeps(p, what) == [p EXCEPT !.told = @ \o Tell(p.jam, what),
                                 !.going = Rid(@)]

(* All callers in the jam are told; without one go throws.  *)
Serve(p, what) == [p EXCEPT !.jam = <<>>,
                            !.told = @ \o Tell(p.jam, what),
                            !.going = Rid(@),
                            !.threw = @ \/ p.jam = <<>>]

(* A message comes to the go that listens first, and then to the others,   *)
(* unless it throws; those of a core chain are one at a time.              *)
GoSoul(p) ==
    IF p.going = <<>> THEN p
    ELSE LET q == Serve(p, "soul")
         IN [q EXCEPT !.threw = @ \/ Len(q.going) > 1]

GoNothing(p) ==
    IF p.going = <<>> THEN p
    ELSE LET acks == IF peers = {} THEN p.going[1] ELSE p.going[1] + 1
         IN IF Waits(acks) THEN [p EXCEPT !.going[1] = acks] ELSE Serve(p, "nothing")

(* soul(gun, cb)  *)
Soul(c) ==
    /\ \A i \in DOMAIN told : told[i].who # c
    /\ ~Contains(jam, c)
    /\ IF link
       THEN /\ told' = Append(told, [who |-> c, what |-> "soul"])
            /\ UNCHANGED <<asked, jam, going, requests>>
       ELSE /\ jam' = Append(jam, c)
            /\ IF jam # <<>> THEN UNCHANGED <<asked, going, requests>>
               ELSE /\ requests' = requests + 1
                    /\ going' = Append(going, 0)
                    /\ asked' = asked \cup {<<requests', w>> : w \in peers \cup {Store}}
            /\ told' = told
    /\ UNCHANGED <<core, peers, link, found, moved, threw>>

(* An answer without data.  *)
Nothing(a) ==
    /\ a \in asked
    /\ asked' = asked \ {a}
    /\ IF core /\ ~link THEN Becomes(GoNothing(Page))
       ELSE UNCHANGED <<jam, going, told, threw>>
    /\ UNCHANGED <<core, peers, requests, link, found, moved>>

(* The soul comes, with an answer or of itself; then the chain is linked.  *)
Found == /\ found < MaxFound
         /\ found' = found + 1
         /\ \E a \in asked \cup {<<0, Store>>} : asked' = asked \ {a}
         /\ Becomes(GoSoul(Page))
         /\ link' = core
         /\ UNCHANGED <<core, peers, requests, moved>>

(* A peer leaves and its answers with it; one that comes is not asked.     *)
Leave(p) == /\ p \in peers
            /\ peers' = peers \ {p}
            /\ asked' = {a \in asked : a[2] # p}
            /\ moved' = TRUE
            /\ UNCHANGED <<core, jam, going, requests, link, told, found, threw>>

Come(p) == /\ p \notin peers
           /\ peers' = peers \cup {p}
           /\ moved' = TRUE
           /\ UNCHANGED <<core, asked, jam, going, requests, link, told, found, threw>>

Next == \/ \E c \in Callers : Soul(c)
        \/ \E a \in asked : Nothing(a)
        \/ Found
        \/ \E p \in Peers : Leave(p) \/ Come(p)

Spec == Init /\ [][Next]_vars

-----------------------------------------------------------------------------
(* Nobody is told twice, and the listener of a core chain is off when it   *)
(* has told: that of a map's chain is not, and throws at the next message, *)
(* since there is no jam (gun.js:945-952, 956-964).                        *)
ToldOnce ==
    /\ \A i, j \in DOMAIN told : told[i].who = told[j].who => i = j
    /\ core => ~threw

(* While peers neither come nor go, callers are told nothing only after    *)
(* all peers and the store have answered (gun.js:942-944).                 *)
NothingIfNobodyHas ==
    [][\A i \in DOMAIN told' \ DOMAIN told :
          told'[i].what = "nothing" /\ ~moved => asked' = {}]_vars

(* While peers neither come nor go, nobody waits when all have answered,   *)
(* whether they called before or after; if a peer leaves without an answer *)
(* or one comes, there may be fewer answers than go waits for, and the     *)
(* callers are told when the next message comes (gun.js:939-944).          *)
NobodyWaitsInTheEnd == core /\ ~moved /\ asked = {} => jam = <<>>
=============================================================================
