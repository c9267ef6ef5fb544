------------------------------- MODULE GunPut -------------------------------
(***************************************************************************)
(* How a browser peer takes in writes: put, ham, map, fire, ack and back   *)
(* of assets/stats/gun.js, with its localStorage adapter, in the order     *)
(* their calls nest.                                                       *)
(*                                                                         *)
(* A message carries the entries of one node.  put walks them, at most     *)
(* Chunk in a turn; ham drops an entry, puts it off, or hands it to map,   *)
(* which overwrites the graph, and to the adapter, which overwrites its    *)
(* copy of the disk and has it written a little later as a whole.  When    *)
(* the walk ends the message is relayed, and when every accepted entry is  *)
(* acknowledged the message is answered.                                   *)
(***************************************************************************)
EXTENDS Integers, Sequences, SequencesExt

CONSTANTS
    Keys,
    Messages,
    Entries,    \* Entries[m]: sequence of [key, val, state, valid]
    Answers,    \* the messages with '@'
    Misses,     \* those of Answers that answer an ask of this peer
    Chunk,      \* entries walked in a turn: 9 in the code
    MaxTime,    \* bound on the time
    MaxFaults   \* bound on failures of setItem, reloads of the page and offs

PutAssumption ==
    /\ Misses \subseteq Answers
    /\ Answers \subseteq Messages
    /\ Entries \in [Messages -> Seq([key : Keys, val : Nat, state : Nat,
                                     valid : BOOLEAN])]
    /\ Chunk \in Nat \ {0}
    /\ {MaxTime, MaxFaults} \subseteq Nat

VARIABLES
    now,        \* State()
    graph, disk, store,
    ctx,        \* a message's context; its told is what back has answered,
                \* and its errs are the errors that were answers themselves
    at,         \* how many entries of a message are walked; more if it is given up
    later,      \* entries put off, as <<message, index>>
    acks,       \* the adapter's: entries to be acknowledged, by message
    to,         \* the adapter's timer is set
    acking,     \* acknowledgements on their way
    peers,      \* opt.peers is not empty
    fails, reloads, offs,
    rolled,     \* history: keys that an answer has put back
    deferred,   \* history: entries that have been put off
    taken       \* history: entries that ham let through

time    == <<now, fails, reloads, offs, peers>>
data    == <<graph, disk, store, rolled, deferred, taken>>
pending == <<at, later, acks, to, acking>>
vars    == <<time, data, pending, ctx>>

(* No entry: its state is -Infinity.  *)
Nothing == [state |-> -1, val |-> 0]

Fresh == [all |-> 0, stun |-> 1, acks |-> 0, err |-> FALSE, stop |-> FALSE,
          crack |-> FALSE, out |-> 0, told |-> <<>>, errs |-> 0]

Init == /\ now = 1
        /\ graph = [k \in Keys |-> Nothing]
        /\ disk = graph
        /\ store = graph
        /\ ctx = [m \in Messages |-> Fresh]
        /\ at = [m \in Messages |-> -1]
        /\ later = {}
        /\ acks = <<>>
        /\ to = FALSE
        /\ acking = <<>>
        /\ peers \in BOOLEAN
        /\ fails = 0
        /\ reloads = 0
        /\ offs = 0
        /\ rolled = {}
        /\ deferred = {}
        /\ taken = {}

(* back(ctx): the answer for all entries together; acks is undefined at    *)
(* first.                                                                  *)
Back(c) == IF c.stun # 0 \/ c.acks # c.all \/ c.acks = 0
           THEN c
           ELSE [c EXCEPT !.told = Append(@, IF c.err THEN "err" ELSE "ok")]

(* fire(ctx): with an error at once, and otherwise the last to fire, stops *)
(* the context, makes the calls that wait for that, and relays.            *)
Fire(c) ==
    IF c.stop THEN c
    ELSE IF ~c.err /\ c.stun > 1 THEN [c EXCEPT !.stun = @ - 1]
    ELSE LET d == [c EXCEPT !.stun = IF c.err THEN @ ELSE @ - 1, !.stop = TRUE]
             e == IF d.crack THEN Back(d) ELSE d
         IN IF e.err THEN e ELSE [e EXCEPT !.out = @ + 1]

(* Mutant: acknowledgements before the end of the walk are not made up     *)
(* for.                                                                    *)
AckLate(c, err) ==
    LET d == [c EXCEPT !.acks = @ + 1, !.err = err]
        g == Back(IF err THEN Fire(d) ELSE d)
    IN IF err THEN [g EXCEPT !.errs = @ + 1] ELSE g

(* ack(msg): an acknowledgement of one entry.  An error is made an answer  *)
(* to the message, and goes on to whoever asked when ack returns.          *)
Ack(c, err) ==
    LET d == [c EXCEPT !.acks = @ + 1, !.err = err]
        e == IF err THEN Fire(d) ELSE d
        f == IF e.stop THEN e ELSE [e EXCEPT !.crack = TRUE]
        g == Back(f)
    IN IF err THEN [g EXCEPT !.errs = @ + 1] ELSE g

(* Mutant: ham takes what is old.                                          *)
DropsSame(e, was, miss) == ~miss /\ e.state = was.state /\ e.val <= was.val

(* What ham drops: the old, and the same or, by their JSON, the lesser of  *)
(* two values with one state, unless it answers an ask.                    *)
Drops(e, was, miss) ==
    /\ ~miss
    /\ \/ e.state < was.state
       \/ e.state = was.state /\ e.val <= was.val

(* State.ify(n, k, s, v): the key's value and state on the node.  *)
StateIfy(n, e) == [n EXCEPT ![e.key] = [state |-> e.state, val |-> e.val]]

(* e is later than w, or greater with the same state.                      *)
Above(e, w) == \/ e.state > w.state
               \/ e.state = w.state /\ e.val > w.val

(* map: the entry overwrites the graph, whatever is there, and fire takes  *)
(* back the stun that ham has given, unless the context has stopped.       *)
Map(p, e, miss) ==
    [p EXCEPT !.ctx = Fire(@),
              !.rolled = IF miss /\ Above(p.graph[e.key], e)
                         THEN @ \cup {e.key} ELSE @,
              !.graph = StateIfy(@, e)]

(* The adapter's put: an answer is stored, but not acknowledged.  *)
StorePut(p, m, e) ==
    [p EXCEPT !.disk = StateIfy(@, e),
              !.acks = IF m \in Answers THEN @ ELSE Append(@, m),
              !.to = TRUE]

(* The rest of ham, for what it lets through.  *)
Accept(p, m, i) ==
    LET q == [p EXCEPT !.ctx.all = @ + 1, !.ctx.stun = @ + 1,
                       !.taken = @ \cup {<<m, i>>}]
    IN StorePut(Map(q, Entries[m][i], m \in Misses), m, Entries[m][i])

(* ham(val, key, soul, state, msg) for the i-th entry of m.  *)
Ham(p, m, i) ==
    LET e == Entries[m][i] IN
    IF e.state > now
    THEN [p EXCEPT !.later = @ \cup {<<m, i>>}, !.deferred = @ \cup {<<m, i>>}]
    ELSE IF Drops(e, p.graph[e.key], m \in Misses) THEN p
    ELSE Accept(p, m, i)

Peer(m) == [ctx |-> ctx[m], graph |-> graph, disk |-> disk, acks |-> acks,
            to |-> to, later |-> later, rolled |-> rolled,
            deferred |-> deferred, taken |-> taken]

Becomes(m, p) == /\ ctx' = [ctx EXCEPT ![m] = p.ctx]
                 /\ graph' = p.graph
                 /\ disk' = p.disk
                 /\ acks' = p.acks
                 /\ to' = p.to
                 /\ later' = p.later
                 /\ rolled' = p.rolled
                 /\ deferred' = p.deferred
                 /\ taken' = p.taken

Count(m) == Len(Entries[m])

Bad(m) == {i \in 1 .. Count(m) : ~Entries[m][i].valid}

(* The walk ends or breaks off: at an invalid entry it skips to the end,   *)
(* and finds the error in its next turn if any entry is left.              *)
Walked(p, from, n, m) ==
    LET ham[i \in from .. n] == IF i = from THEN p ELSE Ham(ham[i - 1], m, i)
    IN ham[n]

(* A turn of the walk, over the entries from + 1 .. n, of which only the   *)
(* last may be invalid.                                                    *)
Turn(m, from, n) ==
    /\ n \in from + 1 .. from + Chunk
    /\ n <= Count(m)
    /\ (from + 1 .. n - 1) \cap Bad(m) = {}
    /\ at' = [at EXCEPT ![m] = n]
    /\ \E p \in {Walked(Peer(m), from, IF n \in Bad(m) THEN n - 1 ELSE n, m)} :
          Becomes(m, IF n = Count(m) THEN [p EXCEPT !.ctx = Fire(@)] ELSE p)
    /\ UNCHANGED <<time, store, acking>>

(* put(msg): the message comes in, and the first turn is taken at once.  *)
Put(m, n) == /\ at[m] = -1
             /\ Turn(m, 0, n)

(* pop(): another turn, even if the context has stopped.  *)
Pop(m, n) == /\ at[m] \in 1 .. Count(m) - 1
             /\ at[m] \notin Bad(m)
             /\ Turn(m, at[m], n)

(* The turn after an invalid entry.  *)
PopError(m) ==
    /\ at[m] \in Bad(m) \ {Count(m)}
    /\ at' = [at EXCEPT ![m] = Count(m) + 1]
    /\ ctx' = [ctx EXCEPT ![m] = Fire([@ EXCEPT !.err = TRUE])]
    /\ UNCHANGED <<time, data, later, acks, to, acking>>

(* The timer of an entry put off.  *)
HamLater(m, i) ==
    /\ <<m, i>> \in later
    /\ Entries[m][i].state <= now
    /\ \E p \in {Ham([Peer(m) EXCEPT !.later = @ \ {<<m, i>>}], m, i)} :
          Becomes(m, p)
    /\ UNCHANGED <<time, store, at, acking>>

Faults == fails + reloads + offs

(* flush(): the adapter's timer.  *)
Flush(err) ==
    /\ to
    /\ to' = FALSE
    /\ err => Faults < MaxFaults
    /\ fails' = IF err THEN fails + 1 ELSE fails
    /\ store' = IF err THEN store ELSE disk
    /\ acking' = IF ~err /\ peers THEN acking
                 ELSE acking \o [i \in 1 .. Len(acks) |-> [m |-> acks[i], err |-> err]]
    /\ acks' = <<>>
    /\ UNCHANGED <<now, reloads, offs, peers, graph, disk, rolled, deferred, taken, at,
                   later, ctx>>

(* The adapter's acknowledgement comes in; the adapter hands them over in  *)
(* batches with turns in between.                                          *)
Acknowledge ==
    /\ acking # <<>>
    /\ LET a == Head(acking) IN ctx' = [ctx EXCEPT ![a.m] = Ack(@, a.err)]
    /\ acking' = Tail(acking)
    /\ UNCHANGED <<time, data, at, later, acks, to>>

(* The page is loaded again: only what the store has survives.  A message  *)
(* that was being walked is lost.                                          *)
Reload ==
    /\ Faults < MaxFaults
    /\ reloads' = reloads + 1
    /\ graph' = [k \in Keys |-> Nothing]
    /\ disk' = store
    /\ at' = [m \in Messages |-> IF at[m] = -1 THEN -1 ELSE Count(m) + 1]
    /\ later' = {}
    /\ acks' = <<>>
    /\ to' = FALSE
    /\ acking' = <<>>
    /\ UNCHANGED <<now, fails, offs, peers, store, ctx, rolled, deferred, taken>>

(* chain.off of the node: the page forgets what it knows of it, not what   *)
(* is on the disk.                                                         *)
Off ==
    /\ Faults < MaxFaults
    /\ offs' = offs + 1
    /\ graph' = [k \in Keys |-> Nothing]
    /\ UNCHANGED <<now, fails, reloads, peers, disk, store, rolled, deferred,
                   taken, pending, ctx>>

Tick == /\ now < MaxTime
        /\ now' = now + 1
        /\ UNCHANGED <<fails, reloads, offs, peers, data, pending, ctx>>

(* What the event loop of the page has to do.  *)
Turns == \/ \E m \in Messages : \/ \E n \in 1 .. Count(m) : Pop(m, n)
                                \/ PopError(m)
                                \/ \E i \in 1 .. Count(m) : HamLater(m, i)
         \/ \E err \in BOOLEAN : Flush(err)
         \/ Acknowledge

Next == \/ \E m \in Messages : \E n \in 1 .. Count(m) : Put(m, n)
        \/ Turns
        \/ Reload
        \/ Off
        \/ Tick

Spec == Init /\ [][Next]_vars

-----------------------------------------------------------------------------
(* The entries of k that have come in: those before a message's first      *)
(* invalid one.                                                            *)
Came(k) == UNION {{Entries[m][i] : i \in {j \in 1 .. Count(m) :
                                            /\ j <= at[m]
                                            /\ Entries[m][j].key = k
                                            /\ Bad(m) \cap (1 .. j) = {}}} :
                  m \in Messages}

(* The graph has not been emptied.  *)
Kept == reloads = 0 /\ offs = 0

(* Whatever the order in which writes come in, are put off and are walked, *)
(* the graph ends with the latest of them, and the greatest of the values  *)
(* with that state, unless an answer to an ask has rolled a key back, to   *)
(* an older state or to a lesser value with the same state, the page was   *)
(* loaded again, or the node is off (ham, gun.js:352-372).                 *)
LatestWins ==
    Kept =>
        \A k \in Keys \ rolled :
            \A e \in Came(k) : Above(e, graph[k]) => e.state > now \/ later # {}

(* Only an answer to an ask of this peer rolls a key back: ham lets        *)
(* everything through then, in case another chain has to hear of it        *)
(* (gun.js:364), and map overwrites newer data.  What is stored is         *)
(* otherwise replaced by something older only after a reload or an off,    *)
(* when ham compares with an empty graph and not with the disk             *)
(* (gun.js:354, 1233, 1741).                                               *)
OnlyAnswersRollBack ==
    [][\A k \in Keys \ rolled' :
          /\ UNCHANGED <<reloads, offs>> => graph'[k].state >= graph[k].state
          /\ Kept => store'[k].state >= store[k].state]_vars

(* When a message is answered with ok the store has every entry that ham   *)
(* let through, or something later, except those put off, which are not    *)
(* waited for, and keys rolled back.  A store that failed in between does  *)
(* not matter, since the disk is written as a whole.  Of an entry dropped  *)
(* for a newer one the answer says nothing: the newer may not be stored    *)
(* yet (gun.js:364, 406-410, 1747-1758).                                   *)
OkMeansStored ==
    Kept =>
    \A x \in taken \ deferred :
        LET e == Entries[x[1]][x[2]] IN
        "ok" \in ToSet(ctx[x[1]].told) /\ e.key \notin rolled =>
            store[e.key].state >= e.state

(* However acknowledgements fall among the turns of the walk, a message is *)
(* relayed once, and back answers it once, for all entries together.       *)
(* Besides, each acknowledgement with an error is an answer of its own:    *)
(* one entry or many, before or after the walk ends, and before an ok if   *)
(* the store takes the next write.  So answers are no more than the        *)
(* entries and one, and without a failure of the store only back's is left *)
(* (gun.js:286, 296, 382-410).                                             *)
Once == \A m \in Messages :
           /\ ctx[m].out <= 1
           /\ Len(ctx[m].told) <= 1
           /\ ctx[m].errs <= ctx[m].all
           /\ ctx[m].errs > 0 => fails > 0

(* Invalid data errors and stuns its message: it is not relayed.  Not if   *)
(* the invalid entry is the last one: the walk is over before the error is *)
(* looked at (put, gun.js:319-347).                                        *)
InvalidIsNotRelayed ==
    \A m \in Messages : Bad(m) \ {Count(m)} # {} => ctx[m].out = 0

(* The event loop has nothing left to do for m.  *)
Settled(m) == /\ ctx[m].stop
              /\ at[m] = Count(m)
              /\ ~to
              /\ acking = <<>>

(* A write of this peer, of which nothing is put off, has been answered    *)
(* with ok and with nothing else when all turns and timers are over, if it *)
(* changed anything, there is no other peer to answer it and the store did *)
(* not fail: an acknowledgement that comes before the walk ends is made up *)
(* for.  So has one whose last entry is invalid (gun.js:319-347, 382-405). *)
WritesAreAnswered ==
    \A m \in Messages \ Answers :
        /\ Settled(m)
        /\ ctx[m].all > 0
        /\ ~peers /\ fails = 0 /\ reloads = 0
        /\ \A i \in 1 .. Count(m) : <<m, i>> \notin deferred
        => ctx[m].told = <<"ok">> /\ ctx[m].errs = 0
=============================================================================
