------------------------------ MODULE GunLink ------------------------------
(***************************************************************************)
(* The chains of assets/stats/gun.js: input, output, link and unlink.  A   *)
(* listener on a path (alice.car.color) hears of the graph as the links on *)
(* the way change, and whatever order the data comes in.                   *)
(*                                                                         *)
(* A chain is named by its path: a soul, then keys.  Data comes one entry  *)
(* at a time.  Each message runs through the chains without a turn, as it  *)
(* does while a chain has fewer than a hundred chains to tell; the batches *)
(* of put are those of GunRead.  The state is one record, which the        *)
(* handlers pass on.                                                       *)
(***************************************************************************)
EXTENDS Integers, Sequences, SequencesExt, FiniteSets

CONSTANTS
    Souls,
    Keys,
    Values,     \* the values of an entry: a function of soul and key
    Listened,   \* the chains that listeners are added to
    MaxWrites   \* bound on the writes

U == "u"            \* undefined
All == "all"        \* '' in ask: the whole node
None == <<>>

LinkAssumption ==
    /\ MaxWrites \in Nat
    /\ Listened \subseteq UNION {[1..n -> Souls \cup Keys] : n \in 2..5}
    /\ {U, All} \cap (Souls \cup Keys) = {}

Chains == {<<s>> : s \in Souls} \cup {<<s, k>> : s \in Souls, k \in Keys}
          \cup UNION {{SubSeq(l, 1, n) : n \in 1..Len(l)} : l \in Listened}

IsSoul(c) == Len(c) = 1
KeyList == SetToSeq(Keys)

VARIABLE page   \* graph; the chains that are, and each one's put, echo, link and
                \* ask; root.pass; the listeners and what they heard last;
                \* the requests that are out

vars == page

Init == page =
    [graph |-> [s \in Souls |-> [k \in Keys |-> U]],
     chains |-> {},
     node |-> [s \in Souls |-> [k \in Keys |-> U]],     \* put of a soul chain
     put |-> [c \in Chains |-> U],                       \* put of another
     echo |-> [c \in Chains |-> <<>>],
     link |-> [c \in Chains |-> U],
     ask |-> [c \in Chains |-> {}],
     seen |-> {},                                        \* msg.seen
     new |-> None, pass |-> {}, passed |-> {}, told |-> {},  \* root.pass
     on |-> {},
     heard |-> [c \in Listened |-> U],
     lack |-> FALSE, missed |-> {},                      \* history: told last by a "not found"
     asked |-> {},
     writes |-> 0]

(* cache(key, back): the chain is there from now on.  *)
Cache(p, c) == [p EXCEPT !.chains = @ \cup {c}]

Entry(s, k, v) == [soul |-> s, key |-> k, val |-> v]
NoEntry == Entry(U, U, U)
Msg(at, put) == [at |-> at, via |-> None, put |-> put, miss |-> FALSE, linked |-> U]

HasPut(p, c) == IF IsSoul(c) THEN \E k \in Keys : p.node[c[1]][k] # U ELSE p.put[c] # U

(* One of the listeners that any stands for is called.  *)
Tell(p, cat, m) ==
    IF \/ cat \notin p.on
       \/ p.new # None /\ (p.new # cat \/ m.at \in p.told)
    THEN p
    ELSE [p EXCEPT !.told = IF p.new = None THEN @ ELSE @ \cup {m.at},
                   !.heard[cat] = IF m.via # None THEN m.via[1] ELSE p.put[m.at],
                   !.missed = IF p.lack THEN @ \cup {cat} ELSE @ \ {cat}]

(* Mutant: an echo is never taken away.  *)
WithoutNot(q, c) == q

Without(q, c) == SelectSeq(q, LAMBDA x : x # c)
With(q, c) == IF Contains(q, c) THEN q ELSE Append(q, c)

(* on('in', msg) with a message that no chain has seen.  *)
RECURSIVE input(_, _, _), inputs(_, _, _), unlink(_, _, _), clear(_, _, _, _),
          link(_, _, _), loads(_, _, _, _), output(_, _, _, _, _), nodes(_, _, _, _)

Fresh(p, cat, m) == [input([p EXCEPT !.seen = {}], cat, m) EXCEPT !.seen = p.seen]

(* The entries of a node, one by one; from is the chain's put or the graph. *)
nodes(p, s, from, ks) ==
    IF ks = <<>> THEN p
    ELSE nodes(IF from[Head(ks)] = U THEN p
               ELSE Fresh(p, <<s>>, Msg(<<s>>, Entry(s, Head(ks), from[Head(ks)]))),
               s, from, Tail(ks))

(* root.ask(ack, msg) and root.on('in', msg): what is in the graph is      *)
(* answered at once, and peers may answer later.                           *)
Request(p, s, k, from) ==
    LET q == [p EXCEPT !.asked = @ \cup {<<from, s, k>>}]
    IN nodes(q, s, p.graph[s], IF k = All THEN KeyList ELSE <<k>>)

(* on('out', {get: ..}) of chain at; s and k are the '#' and '.' of get, U *)
(* if they are not there, and from is msg.$.                               *)
output(p0, at, s, k, from) ==
    LET p == IF p0.new = None THEN p0 ELSE [p0 EXCEPT !.pass = @ \cup {at}]
        soul == IF s # U THEN s ELSE at[1]
        q == Cache([p EXCEPT !.ask[<<soul>>] = @ \cup {IF k = U THEN All ELSE k}], <<soul>>)
        again == (IF k = U THEN All ELSE k) \in p.ask[<<soul>>]
        up == Front(at)
    IN CASE (s # U \/ IsSoul(at)) /\ k = U ->
               LET r == nodes(q, soul, q.node[soul], KeyList)
               IN IF ~HasPut(q, <<soul>>) THEN Request(q, soul, All, <<soul>>)
                  ELSE IF again THEN r ELSE Request(r, soul, All, <<soul>>)
         [] (s # U \/ IsSoul(at)) /\ k # U ->
               LET r == Fresh(Cache(q, <<soul, k>>), <<soul>>,
                              Msg(<<soul>>, Entry(soul, k, q.node[soul][k])))
               IN IF q.node[soul][k] = U THEN Request(q, soul, k, from)
                  ELSE IF again THEN r ELSE Request(r, soul, k, from)
         [] s = U /\ ~IsSoul(at) /\ k # U ->
               output([p EXCEPT !.ask[up] = @ \cup {Last(at)}], up, U, Last(at), at)
         [] OTHER ->
               output([p EXCEPT !.ask[at] = @ \cup {All}, !.ask[up] = @ \cup {Last(at)}],
                      up, U, Last(at), from)

(* The keys of cat.ask are asked of the node it is linked to.  *)
loads(p, cat, to, ks) ==
    IF ks = <<>> THEN p
    ELSE loads(output(p, Append(cat, Head(ks)), to, Head(ks), Append(cat, Head(ks))),
               cat, to, Tail(ks))

link(p, cat, m) ==
    LET tat == <<m.put.soul, m.put.key>>
        to == m.put.val
        q == [p EXCEPT !.chains = @ \cup {tat, <<to>>},
                       !.echo[tat] = With(@, cat),
                       !.link[cat] = to,
                       !.link[tat] = to]
        r == [q EXCEPT !.echo[<<to>>] = With(@, tat),
                       !.passed = IF p.new = None THEN @ ELSE @ \cup {<<to, cat>>}]
        all == IF All \in r.ask[cat] THEN output(r, <<to>>, to, U, <<to>>) ELSE r
    IN IF \/ m.via # None \/ m.put = NoEntry \/ IsSoul(cat) \/ to \notin Souls
          \/ Contains(p.echo[tat], cat) /\ cat \notin p.pass
          \/ <<to, cat>> \in p.passed
       THEN p
       ELSE loads(all, cat, to, SetToSeq(r.ask[cat] \ {All}))

(* The chains under cat are told that nothing is there.  *)
clear(p, cat, old, ks) ==
    LET sat == Append(cat, Head(ks))
        q == IF old = U THEN p
             ELSE [p EXCEPT !.echo[<<old, Head(ks)>>] = Without(@, sat)]
    IN IF ks = <<>> THEN p
       ELSE clear(IF sat \in p.chains THEN Fresh(q, sat, Msg(sat, NoEntry)) ELSE p,
                  cat, old, Tail(ks))

(* An entry that comes to cat with another link than its chain has, or in  *)
(* a pass with no link at all, unlinks cat; the first link it finds goes   *)
(* on with the message.                                                    *)
Unlinks(p, cat, m) ==
    LET v == m.put.val
        same == p.link[m.at] \in {U, v} IN
    /\ m.put # NoEntry /\ ~IsSoul(cat) /\ m.via = None
    /\ same => cat \in p.pass /\ v \notin Souls

Linked(p, cat, m) ==
    IF Unlinks(p, cat, m) /\ m.linked = U
    THEN [m EXCEPT !.linked = p.link[m.at]] ELSE m

unlink(p, cat, m) ==
    LET tmp == IF m.via # None THEN m.via ELSE m.at
        old == IF p.link[cat] # U THEN p.link[cat] ELSE m.linked
        q == [p EXCEPT !.echo = [c \in Chains |-> IF c = <<old>> THEN Without(@[c], cat) ELSE @[c]],
                       !.link[cat] = U,
                       !.put[cat] = U]
        r == [p EXCEPT !.echo[m.at] = Without(@, cat)]
    IN IF m.put = NoEntry
       THEN IF \/ IsSoul(cat) /\ HasPut(p, cat)
               \/ m.miss /\ (HasPut(p, tmp) \/ HasPut(p, cat))
            THEN p
            ELSE clear(q, cat, old, KeyList)
       ELSE IF Unlinks(p, cat, m)
            THEN unlink(r, cat, [Msg(m.at, NoEntry) EXCEPT !.linked = Linked(p, cat, m).linked])
            ELSE p

inputs(p, cats, m) ==
    IF cats = <<>> THEN p ELSE inputs(input(p, Head(cats), m), Tail(cats), m)

(* on('in', msg) of chain cat.  *)
input(p0, cat, m0) ==
    LET m1 == IF cat # m0.at /\ IsSoul(m0.at)
              THEN [m0 EXCEPT !.at = cat, !.via = IF @ = None THEN m0.at ELSE @] ELSE m0
        m == Linked(p0, cat, m1)
        s == m.put.soul
        k == m.put.key
        p1 == unlink([p0 EXCEPT !.seen = @ \cup {cat}], cat, m1)
        p2 == IF m.put # NoEntry /\ (IsSoul(cat) \/ m.via # None)
              THEN [Cache(p1, <<s>>) EXCEPT !.node[s][k] = m.put.val] ELSE p1
        p3 == IF m.put # NoEntry /\ ~IsSoul(m0.at) /\ <<s, k>> \in p2.chains
              THEN [p2 EXCEPT !.put[<<s, k>>] = m.put.val] ELSE p2
        p4 == Tell(p3, cat, m)
        p5 == inputs(p4, p4.echo[cat], m)
        up == IF m.via # None THEN m.via ELSE m0.at
        p6 == IF m.put # NoEntry /\ IsSoul(up) /\ Append(cat, k) \in p5.chains
              THEN input(Cache(p5, Append(up, k)), Append(cat, k),
                         [m EXCEPT !.at = Append(up, k), !.via = None])
              ELSE p5
    IN IF cat \in p0.seen THEN p0 ELSE link(p6, cat, m)

(* put, for one entry: map tells the chain of its soul, if there is one.   *)
Put(s, k, v) ==
    /\ page.writes < MaxWrites
    /\ page.graph[s][k] # v
    /\ \E p \in {[page EXCEPT !.graph[s][k] = v, !.writes = @ + 1]} :
          page' = IF <<s>> \in p.chains
                  THEN Fresh(p, <<s>>, Msg(<<s>>, Entry(s, k, v))) ELSE p

(* chain.get(key)....get(cb)  *)
Get(l) ==
    /\ l \in Listened \ page.on
    /\ \E p \in {[page EXCEPT !.chains = @ \cup {SubSeq(l, 1, n) : n \in 1..Len(l)},
                              !.on = @ \cup {l},
                              !.new = l, !.pass = {}, !.passed = {}, !.told = {}]} :
       page' = [output(p, l, U, U, l) EXCEPT !.new = None, !.pass = {},
                                         !.passed = {}, !.told = {}]

(* A peer or the disk answers a request with nothing.  *)
Miss(a) ==
    /\ a \in page.asked
    /\ ~HasPut(page, a[1])
    /\ page' = [Fresh([page EXCEPT !.lack = TRUE], a[1],
                      [Msg(a[1], NoEntry) EXCEPT !.miss = TRUE]) EXCEPT !.lack = FALSE]

Next == \/ \E s \in Souls, k \in Keys : \E v \in Values[s, k] : Put(s, k, v)
        \/ \E l \in Listened : Get(l)
        \/ \E a \in page.asked : Miss(a)

Spec == Init /\ [][Next]_vars

-----------------------------------------------------------------------------
(* What the graph has at the end of a path.  *)
Deref(c) == FoldLeft(LAMBDA s, k : IF s \in Souls THEN page.graph[s][k] ELSE U,
                     c[1], Tail(c))

(* A listener has been called with what the graph has at its path, through *)
(* the links there are now, unless a "not found" that came late has told   *)
(* it that nothing is there (gun.js:754 means to leave out that case, but  *)
(* the put of a chain below a link is never set).  This is so for paths    *)
(* with one link.  Below a second link the chain of the old soul goes on   *)
(* to echo, and a link from a node to itself is not followed any more when *)
(* it changes (gun.js:675, 776).                                           *)
HearsTheGraph == \A l \in page.on : page.heard[l] = Deref(l) \/ l \in page.missed
=============================================================================
