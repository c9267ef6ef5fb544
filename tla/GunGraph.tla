------------------------------ MODULE GunGraph -----------------------------
(***************************************************************************)
(* The graph helpers at the end of assets/stats/gun.js: Graph.ify makes a  *)
(* graph of nodes out of an object, Graph.is tells whether something is a  *)
(* graph, Graph.to makes an object out of a graph.                         *)
(*                                                                         *)
(* An object that carries no soul gets a random one, which is taken to be  *)
(* the object's own name.                                                  *)
(***************************************************************************)
EXTENDS Integers, Sequences, FiniteSets, TLC

CONSTANTS
    Objects,
    Root,
    Keys,       \* a sequence
    Shapes,     \* what the objects may look like
    Values,
    Own         \* a function: the souls of the objects that carry one

Invalid == "invalid"

GraphAssumption ==
    /\ Root \in Objects
    /\ DOMAIN Own \subseteq Objects
    /\ \A s \in Shapes, o \in Objects : \A k \in DOMAIN s[o] :
          s[o][k] \in Objects \cup Values \cup {Invalid}

VARIABLES
    shape,      \* a function of the objects: a function of the keys each has
    graph,      \* a function of souls, to nodes: values, and souls for links
    step

vars == <<shape, graph, step>>

Soul(o) == IF o \in DOMAIN Own THEN Own[o] ELSE o
Souls == {Soul(o) : o \in Objects}

RECURSIVE map(_, _, _), to(_, _), endless(_, _, _), Unfold(_)

(* Mutant: the link is set when the node is done.                          *)
LinkDone(p, o) == Soul(o) \in DOMAIN p.graph

(* seen(env, at): an object that is being walked has its link already.     *)
Link(p, o) == o \in p.seen

(* Node.ify(obj, o): a new node, and then what map makes of each key.      *)
NodeIfy(p, o) == map([p EXCEPT !.nodes = (o :> <<>>) @@ @], o, Keys)

(* node(env, at): an object is seen, and when its node is made, the node   *)
(* is stored under its soul.                                               *)
node(p, o) ==
    LET q == NodeIfy([p EXCEPT !.seen = @ \cup {o}], o)
    IN IF o \in p.seen THEN p ELSE [q EXCEPT !.graph = (Soul(o) :> q.nodes[o]) @@ @]

(* valid(v, k, n, at, env)  *)
Valid(v) == v # Invalid

(* map(v, k, n), for the keys ks of an object.                             *)
map(p, o, ks) ==
    LET k == Head(ks)
        v == shape[o][k]
        q == IF v \in Objects THEN node(p, v) ELSE p
        has == IF v \in Objects THEN Link(q, v) ELSE Valid(v)
    IN IF ks = <<>> THEN p
       ELSE IF k \notin DOMAIN shape[o] THEN map(p, o, Tail(ks))
       ELSE map(IF ~has THEN q
                ELSE [q EXCEPT !.nodes[o] =
                        (k :> IF v \in Objects THEN Soul(v) ELSE v) @@ @],
                o, Tail(ks))

(* Graph.ify(obj): its graph.                                              *)
ify == node([seen |-> {}, nodes |-> <<>>, graph |-> <<>>], Root).graph

(* Node.is and Graph.is  *)
IsNode(n) == \A k \in DOMAIN n : n[k] \in Values \cup Souls
IsGraph(g) == DOMAIN g # {} /\ \A s \in DOMAIN g : s \in Souls /\ IsNode(g[s])

(* Graph.to(graph, root): a soul is in opt.seen when its object is made,   *)
(* so a link to one of those that are being made (open) goes on for ever.  *)
endless(g, s, open) ==
    \/ s \in open
    \/ s \in DOMAIN g /\ \E k \in DOMAIN g[s] :
          g[s][k] \in Souls /\ endless(g, g[s][k], open \cup {s})

to(g, s) ==
    IF s \notin DOMAIN g THEN <<>>
    ELSE [k \in DOMAIN g[s] |-> IF g[s][k] \in Souls
                               THEN [val |-> Invalid, obj |-> to(g, g[s][k])]
                               ELSE [val |-> g[s][k], obj |-> <<>>]]

Init == /\ shape \in Shapes
        /\ graph = <<>>
        /\ step = "object"

Ify == /\ step = "object"
       /\ graph' = ify
       /\ step' = "graph"
       /\ UNCHANGED shape

Next == Ify

Spec == Init /\ [][Next]_vars

-----------------------------------------------------------------------------
(* Reference definitions: what the objects are.                            *)
Parts(o) == {shape[o][k] : k \in DOMAIN shape[o]} \cap Objects
Reach(os) == LET f[n \in 0..Cardinality(Objects)] ==
                     IF n = 0 THEN os ELSE f[n - 1] \cup UNION {Parts(o) : o \in f[n - 1]}
             IN f[Cardinality(Objects)]
All == Reach({Root})
Good(o) == {k \in DOMAIN shape[o] : shape[o][k] # Invalid}
Unfold(o) == [k \in Good(o) |-> IF shape[o][k] \in Objects
                                THEN [val |-> Invalid, obj |-> Unfold(shape[o][k])]
                                ELSE [val |-> shape[o][k], obj |-> <<>>]]

Apart == \A x, y \in All : Soul(x) = Soul(y) => x = y
Cyclic == \E o \in All : o \in Reach(Parts(o))

(* Graph.ify of an object, however its parts refer to each other, is a     *)
(* graph: each part that can be reached has a node under its soul, with    *)
(* its valid values and with links to its parts.  Parts that carry the     *)
(* same soul lose all but one of their nodes, though (gun.js:2112).        *)
IfyIsWhole ==
    step = "graph" /\ Apart =>
        /\ IsGraph(graph)
        /\ DOMAIN graph = {Soul(o) : o \in All}
        /\ \A o \in All : graph[Soul(o)] =
              [k \in Good(o) |-> IF shape[o][k] \in Objects
                                 THEN Soul(shape[o][k]) ELSE shape[o][k]]

(* Graph.to makes of the graph what the object was, unless it was cyclic.  *)
RoundTrip ==
    step = "graph" /\ Apart /\ ~Cyclic =>
        /\ ~endless(graph, Soul(Root), {})
        /\ to(graph, Soul(Root)) = Unfold(Root)

(* The graph of an object that refers back to itself is not made into an   *)
(* object again: Graph.to does not end (gun.js:2205-2209).                 *)
CyclesAreEndless ==
    step = "graph" /\ Cyclic => endless(graph, Soul(Root), {})
=============================================================================
