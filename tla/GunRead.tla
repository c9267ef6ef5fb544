------------------------------- MODULE GunRead ------------------------------
(***************************************************************************)
(* Reading while writing: the listeners of a chain, any in chain.get, with *)
(* the batches (hatch) of put and fire and the stun of chain.put, all of   *)
(* assets/stats/gun.js.                                                    *)
(*                                                                         *)
(* Data comes in entry by entry, in turns, from several writes at a time.  *)
(* A listener that is called for an entry waits in the list of the write   *)
(* that began last, until that write fires.  One that was added after a    *)
(* local write began is put off until that write has fired.  data counts   *)
(* the entries of the one chain that is listened to.                       *)
(***************************************************************************)
EXTENDS Integers, Sequences, FiniteSets

CONSTANTS
    Listeners,
    Writes,
    Local,      \* those of chain.put; the others come from peers
    Size        \* how many entries a write has

None == "none"

ReadAssumption ==
    /\ Local \subseteq Writes
    /\ Size \in [Writes -> Nat \ {0}]
    /\ None \notin Writes

VARIABLES
    data,
    once,       \* root.once
    id,         \* any.id of a listener, 0 before it is added
    run,        \* as.run of a local write
    stuns,      \* the writes that the chain's stun event tells of
    phase,      \* a write is "new", then "stun" if local, "walk", and "done"
    left,       \* entries still to walk
    hatch,      \* root.hatch, by the write whose list it is
    latch,      \* ctx.latch
    match,      \* ctx.match
    add,        \* the listeners put off by the stun of a write
    wait,       \* a listener waits in a list
    got,        \* history: the data a listener was called with last
    failed,     \* history: the local writes that were invalid
    crowd       \* history: three writes were walked at a time

vars == <<data, once, id, run, stuns, phase, left, hatch, latch, match, add, wait,
          got, failed, crowd>>

Init == /\ data = 0
        /\ once = 1
        /\ id = [l \in Listeners |-> 0]
        /\ run = [w \in Writes |-> 0]
        /\ stuns = {}
        /\ phase = [w \in Writes |-> "new"]
        /\ left = Size
        /\ hatch = None
        /\ latch = [w \in Writes |-> None]
        /\ match = [w \in Writes |-> {}]
        /\ add = [w \in Writes |-> {}]
        /\ wait = [l \in Listeners |-> FALSE]
        /\ got = [l \in Listeners |-> 0]
        /\ failed = {}
        /\ crowd = FALSE

(* The local writes whose stun is heard of on the chain and has not ended. *)
Stunning(p, ph) == {w \in p.stuns : ph[w] \in {"stun", "walk"}}

(* Mutant: a listener is put off by the stun that began last.              *)
FirstStunLast(p, ph) ==
    {w \in Stunning(p, ph) : \A v \in Stunning(p, ph) : run[w] >= run[v]}

(* tmp.on(id, test): the earliest of them, if there is one.                *)
FirstStun(p, ph) ==
    {w \in Stunning(p, ph) : \A v \in Stunning(p, ph) : run[w] <= run[v]}

(* any(msg, eve, f) of each listener of ls: it is put off by a write that  *)
(* began before it was added, it waits in the list of the hatch, or it is  *)
(* called.                                                                 *)
any(p, ls, f, ph) ==
    LET off   == {l \in ls : \E w \in FirstStun(p, ph) : run[w] < p.id[l]}
        waits == IF p.hatch = None \/ (f /\ p.data > 0) THEN {}
                 ELSE IF ph[p.hatch] = "done" THEN {} ELSE ls \ off
    IN [p EXCEPT
          !.add   = [w \in Writes |-> IF w \in FirstStun(p, ph) THEN @[w] \cup off ELSE @[w]],
          !.match = [w \in Writes |-> IF w = p.hatch
                        THEN @[w] \cup {l \in waits : ~p.wait[l]} ELSE @[w]],
          !.wait  = [l \in Listeners |-> l \in waits \/ (l \notin ls \ off /\ @[l])],
          !.got   = [l \in Listeners |-> IF l \in ls \ (off \cup waits) THEN p.data ELSE @[l]]]

Page == [data |-> data, id |-> id, stuns |-> stuns, hatch |-> hatch,
         latch |-> latch, match |-> match, add |-> add, wait |-> wait, got |-> got]

Becomes(p) == /\ data' = p.data
              /\ id' = p.id
              /\ stuns' = p.stuns
              /\ hatch' = p.hatch
              /\ latch' = p.latch
              /\ match' = p.match
              /\ add' = p.add
              /\ wait' = p.wait
              /\ got' = p.got

Added == {l \in Listeners : id[l] # 0}

(* input: an entry comes in, and the listeners are called for it.          *)
Entry(p, ph) == any([p EXCEPT !.data = @ + 1], Added, FALSE, ph)

(* The list that root.hatch becomes when the list of w ends.               *)
Unlatch(p, w, ph) ==
    IF p.hatch # w THEN p.hatch
    ELSE IF p.latch[w] = None THEN None
    ELSE IF ph[p.latch[w]] = "done" THEN None ELSE p.latch[w]

(* fire(ctx): the list of the write before is gone back to, those that the *)
(* stun has put off are called, and those in the list are.                 *)
fire(p, w, ph) ==
    LET q == any([p EXCEPT !.hatch = Unlatch(p, w, ph)], p.add[w], TRUE, ph)
    IN any(q, q.match[w], TRUE, ph)

(* A turn of the walk over w: an entry, and fire after the last.           *)
Walk(p, w) ==
    /\ left' = [left EXCEPT ![w] = @ - 1]
    /\ phase' = [phase EXCEPT ![w] = IF left[w] = 1 THEN "done" ELSE "walk"]
    /\ \E q \in {Entry(p, [phase EXCEPT ![w] = "walk"])} :
          Becomes(IF left[w] = 1 THEN fire(q, w, phase') ELSE q)

(* put(msg): the write gets a list of its own, and its first turn.         *)
Put(w) ==
    /\ Walk([Page EXCEPT !.hatch = w, !.latch[w] = hatch], w)
    /\ crowd' = (crowd \/ Cardinality({v \in Writes : phase[v] = "walk"}) >= 2)

(* A write of a peer.  *)
Hear(w) == /\ w \notin Local
           /\ phase[w] = "new"
           /\ Put(w)
           /\ UNCHANGED <<once, run, failed>>

(* chain.put(data): the chain is stunned, unless the stun of a put with    *)
(* the same run is under way.                                              *)
Stun(w) == /\ w \in Local
           /\ phase[w] = "new"
           /\ run' = [run EXCEPT ![w] = once]
           /\ phase' = [phase EXCEPT ![w] = "stun"]
           /\ stuns' = IF \E v \in Stunning(Page, phase) : run[v] = once
                       THEN stuns ELSE stuns \cup {w}
           /\ UNCHANGED <<data, once, id, left, hatch, latch, match, add, wait,
                          got, failed, crowd>>

(* ran(as): the data is complete, and goes out.  *)
Ran(w) == /\ phase[w] = "stun"
          /\ Put(w)
          /\ UNCHANGED <<once, run, failed>>

(* The data is invalid: the stun ends, and that is all.                    *)
RanErr(w) == /\ phase[w] = "stun"
             /\ phase' = [phase EXCEPT ![w] = "done"]
             /\ failed' = failed \cup {w}
             /\ UNCHANGED <<data, once, id, run, stuns, left, hatch, latch, match,
                            add, wait, got, crowd>>

Turn(w) == /\ phase[w] = "walk"
           /\ Walk(Page, w)
           /\ UNCHANGED <<once, run, failed, crowd>>

(* chain.get(cb): a listener is added, and called if there is data.        *)
Get(l) == /\ id[l] = 0
          /\ once' = once + 1
          /\ \E p \in {[Page EXCEPT !.id[l] = once + 1]} :
                Becomes(IF data = 0 THEN p ELSE any(p, {l}, FALSE, phase))
          /\ UNCHANGED <<run, phase, left, failed, crowd>>

Next == \/ \E w \in Writes : Hear(w) \/ Stun(w) \/ Ran(w) \/ RanErr(w) \/ Turn(w)
        \/ \E l \in Listeners : Get(l)

Spec == Init /\ [][Next]_vars

-----------------------------------------------------------------------------
Resting == \A w \in Writes : phase[w] \in {"new", "done"}

(* When no write is under way, every listener has been called with the     *)
(* latest data, whichever lists and stuns it had to wait for, except those *)
(* that were put off by a local write that turned out invalid: they are    *)
(* not called again (ran, gun.js:1072; any, gun.js:851-881).               *)
NobodyWaitsForever ==
    Resting => \A l \in Added : \/ got[l] = data
                                \/ \E w \in failed : l \in add[w]

(* A listener added after a local write began is not called before that    *)
(* write has fired, unless the write began right after another one, which  *)
(* then is the only one that the chain tells of (gun.js:1054, 851-870).    *)
NoReadWhileWrite ==
    [][\A l \in Listeners, w \in stuns :
          got'[l] # got[l] /\ run[w] < id'[l] => phase'[w] = "done"]_vars

(* While a write is walked there is a list for the listeners to wait in,   *)
(* so that they are called after each batch, unless three were walked at a *)
(* time: the list gone back to may have ended while an earlier one has not *)
(* (fire, gun.js:388).                                                     *)
BatchesAreKept ==
    ~crowd => ((\E w \in Writes : phase[w] = "walk") <=> hatch # None)
=============================================================================
