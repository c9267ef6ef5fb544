------------------------------ MODULE GunWalk ------------------------------
(***************************************************************************)
(* chain.put of assets/stats/gun.js: an object, with the objects in it, is *)
(* walked one key a turn and becomes a graph of nodes that link to each    *)
(* other.  Which soul an object gets may have to be asked for, so answers  *)
(* come in while the walk goes on; the graph is sent when all is known.    *)
(*                                                                         *)
(* The program does not change the objects while they are walked.          *)
(***************************************************************************)
EXTENDS Integers, Sequences, SequencesExt, FiniteSets

CONSTANTS
    Objects,
    Root,       \* the object that is put
    Keys,       \* a sequence, the order of the walk
    Shapes,     \* what the objects may look like: a key has a value, an object,
                \* or Invalid; an object lacks the keys that have Nothing
    Values,
    Own,        \* the objects that carry a soul
    Found       \* the souls that the answers may name

Nothing == "nothing"
Invalid == "invalid"
Unknown == <<>>

WalkAssumption ==
    /\ IsFiniteSet(Objects)
    /\ Root \in Objects
    /\ Own \subseteq Objects
    /\ Keys \in Seq({Keys[i] : i \in DOMAIN Keys})
    /\ Shapes \subseteq [Objects -> [{Keys[i] : i \in DOMAIN Keys} ->
                                     Objects \cup Values \cup {Nothing, Invalid}]]

VARIABLES
    shape,
    todo,       \* as.todo, the last is on top
    rest,       \* todo of an object: its keys still to walk, the next is last
    seen,       \* as.seen
    up,         \* the object an object was first found in
    soul,       \* link['#'] of an object
    node,       \* node of an object, links by object
    wait,       \* as.wait
    held,       \* the objects that wait for the soul of the one above
    graph,      \* as.graph: the object whose node a soul has
    err,
    sent        \* how often the graph was sent

vars == <<shape, todo, rest, seen, up, soul, node, wait, held, graph, err, sent>>

(* The soul of the path an object was found at.  *)
PathSoul(o) == <<"path", o>>
OwnSoul(o) == <<"own", o>>
FoundSoul(f) == <<"found", f>>

AllSouls == {PathSoul(o) : o \in Objects} \cup {OwnSoul(o) : o \in Own}
            \cup {FoundSoul(f) : f \in Found}
Answers == {Unknown} \cup {FoundSoul(f) : f \in Found}

(* The keys of an object, sorted and reversed.  *)
KeysOf(o) == LET ks[n \in 0 .. Len(Keys)] ==
                     IF n = 0 THEN <<>>
                     ELSE IF shape[o][Keys[n]] = Nothing THEN ks[n - 1]
                     ELSE <<Keys[n]>> \o ks[n - 1]
             IN ks[Len(Keys)]

(* The part of the state that resolve changes.  *)
Walked == [soul |-> soul, wait |-> wait, held |-> held, graph |-> graph]

(* resolve: o has its soul now, and so have those below that waited for it *)
(* (over says which those are).                                            *)
Settle(p, o, s, over) ==
    LET f[n \in 0..Cardinality(Objects)] ==
            IF n = 0 THEN {o} ELSE {x \in p.held : over[x] \in f[n - 1]}
        all == UNION {f[n] : n \in DOMAIN f}
        new == [x \in all |-> IF x = o THEN s ELSE PathSoul(x)]
    IN [soul |-> [x \in Objects |-> IF x \in all THEN new[x] ELSE p.soul[x]],
        wait |-> p.wait \ all,
        held |-> p.held \ all,
        graph |-> [t \in AllSouls |-> IF \E x \in all : new[x] = t
                                      THEN CHOOSE x \in all : new[x] = t
                                      ELSE p.graph[t]]]

RootSoul == IF Root \in Own THEN OwnSoul(Root) ELSE PathSoul(Root)

(* The first turn, in chain.put itself: the root has the soul of the chain, *)
(* and is sent at once if it is empty.                                      *)
Init == /\ shape \in Shapes
        /\ todo = IF KeysOf(Root) = <<>> THEN <<>> ELSE <<Root>>
        /\ rest = [o \in Objects |-> IF o = Root THEN KeysOf(o) ELSE <<>>]
        /\ seen = {Root}
        /\ up = [o \in Objects |-> o]
        /\ soul = [o \in Objects |-> IF o = Root THEN RootSoul ELSE Unknown]
        /\ node = [o \in Objects |-> [k \in DOMAIN shape[o] |-> Nothing]]
        /\ wait = {}
        /\ held = {}
        /\ graph = [s \in AllSouls |-> IF s = RootSoul THEN Root ELSE Nothing]
        /\ err = FALSE
        /\ sent = IF KeysOf(Root) = <<>> THEN 1 ELSE 0

(* Mutant: the answers are not waited for.                                 *)
RanHasty(td, p) == td = <<>>

(* ran(as) sends the graph, if it is the time for it.                      *)
Ran(td, p) == td = <<>> /\ p.wait = {}

Becomes(td, p) ==
    /\ todo' = td
    /\ soul' = p.soul
    /\ wait' = p.wait
    /\ held' = p.held
    /\ graph' = p.graph
    /\ sent' = IF ~err' /\ sent = 0 /\ Ran(td, p) THEN 1 ELSE sent

IsSeen(v) == v \in seen

(* A turn of walk: the next key of the object on top.                      *)
Walk ==
    LET o == Last(todo)
        k == Last(rest[o])
        v == shape[o][k]
        left == Front(rest[o])
        td == IF left = <<>> THEN Front(todo) ELSE todo
    IN /\ todo # <<>>
       /\ ~err
       /\ rest' = [x \in Objects |-> IF x = v /\ ~IsSeen(v) THEN KeysOf(v)
                                  ELSE IF x = o THEN left ELSE rest[x]]
       /\ node' = [node EXCEPT ![o][k] = v]
       /\ err' = (v = Invalid)
       /\ UNCHANGED shape
       /\ IF v \in Objects /\ ~IsSeen(v)
          THEN /\ seen' = seen \cup {v}
               /\ up' = [up EXCEPT ![v] = o]
               /\ \E p \in {[Walked EXCEPT !.wait = @ \cup {v}]} :
                  Becomes(IF KeysOf(v) = <<>> THEN td ELSE Append(td, v),
                          IF v \in Own THEN Settle(p, v, OwnSoul(v), up') ELSE p)
          ELSE /\ UNCHANGED <<seen, up>>
               /\ Becomes(td, Walked)

(* resolve(msg): the answer to the question which soul is at the path of   *)
(* o.  If none is, o waits until the soul of the object above is known.    *)
Resolve(o, s) ==
    /\ o \in wait \ held
    /\ UNCHANGED <<shape, rest, seen, up, node, err>>
    /\ IF s = Unknown /\ soul[up[o]] = Unknown
       THEN Becomes(todo, [Walked EXCEPT !.held = @ \cup {o}])
       ELSE Becomes(todo, Settle(Walked, o, IF s = Unknown THEN PathSoul(o) ELSE s, up))

Next == \/ Walk
        \/ \E o \in Objects : \E s \in Answers : Resolve(o, s)

Fairness == /\ WF_vars(Walk)
            /\ \A o \in Objects : WF_vars(\E s \in Answers : Resolve(o, s))

Spec == Init /\ [][Next]_vars /\ Fairness

-----------------------------------------------------------------------------
(* The graph that is sent is the object that was put: every object seen    *)
(* has a soul, and its node has all of its keys.  This is so unless two of *)
(* the objects turned out to have the same soul: the node of one of them   *)
(* is not sent then, though nothing says so (gun.js:1036).                 *)
SentIsWhole ==
    sent > 0 => \A o \in seen :
        /\ \A k \in DOMAIN shape[o] : node[o][k] = shape[o][k] /\ node[o][k] # Invalid
        /\ soul[o] # Unknown
        /\ \/ graph[soul[o]] = o
           \/ \E x \in seen \ {o} : soul[x] = soul[o]

(* An object is sent or is found invalid, whatever order the answers come  *)
(* in and however its parts refer to each other.  A question is answered,  *)
(* with nothing if need be, by the localStorage adapter at least           *)
(* (gun.js:1724-1736).                                                     *)
PutEnds == <>(sent = 1 \/ err)
=============================================================================
