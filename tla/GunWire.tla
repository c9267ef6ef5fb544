------------------------------- MODULE GunWire ------------------------------
(***************************************************************************)
(* Browser peers that relay for each other: dup, universe and ask, hear,   *)
(* say and raw of assets/stats/gun.js, for one write and one request (get) *)
(* that both flood a network of peers, and the answers to the request,     *)
(* which go back the way it came.                                          *)
(*                                                                         *)
(* A message names peers it was sent to (><), which those who receive it   *)
(* leave out: not all of them, the list is cut.  An answer carries a hash of its data; a peer that has    *)
(* answered passes the request on with that hash, so that others with the  *)
(* same data need not answer.                                              *)
(*                                                                         *)
(* A value stands for data with its state, and its hash: the greater is    *)
(* the later.  Nothing is forgotten by dup: the run takes less than its    *)
(* nine seconds.  Peers know each other by the same names.  A message      *)
(* arrives: nothing in the code sends one again that is lost.              *)
(***************************************************************************)
EXTENDS Integers, Sequences, FiniteSets

CONSTANTS
    Nodes,
    Links,      \* sets of two nodes
    Listed,     \* the others that a node names in what it sends
    Asker,
    Writer,
    Held,       \* the value a node has at first, 0 if none
    Written     \* the value of the write

None == 0

Peers(n) == {m \in Nodes : m # n /\ {m, n} \in Links}

(* raw names the first seven of a peer's others, and hear reads the first  *)
(* 99 characters of the names.                                             *)
ListsAreCut ==
    /\ Listed \in [Nodes -> SUBSET Nodes]
    /\ \A n \in Nodes : Listed[n] \subseteq Peers(n) /\ Cardinality(Listed[n]) <= 7

(* There is a way from every peer to every other.  *)
Connected == \A S \in SUBSET Nodes :
                S # {} /\ (\A n \in S : Peers(n) \subseteq S) => S = Nodes

WireAssumption ==
    /\ IsFiniteSet(Nodes) /\ None \notin Nodes
    /\ Asker \in Nodes /\ Writer \in Nodes
    /\ Held \in [Nodes -> Nat]
    /\ Written \in Nat \ {0}
    /\ ListsAreCut
    /\ Connected

VARIABLES
    data,       \* the graph
    put_via,    \* who the write was heard from first, the writer itself
    get_via,    \* the same for the request
    ask,        \* the hash of the request that a node keeps
    seen,       \* the answers in dup, by the node that made them
    ash,        \* the hashes of this request's answers in dup
    net,        \* messages on their way
    took,       \* history: what the asker's callback was given
    rolled      \* history: the asker's data was rolled back

vars == <<data, put_via, get_via, ask, seen, ash, net, took, rolled>>

Init == /\ data = Held
        /\ put_via = [n \in Nodes |-> None]
        /\ get_via = [n \in Nodes |-> None]
        /\ ask = [n \in Nodes |-> 0]
        /\ seen = [n \in Nodes |-> {}]
        /\ ash = [n \in Nodes |-> {}]
        /\ net = {}
        /\ took = <<>>
        /\ rolled = FALSE

Message(kind, n, m, id, value, yo) ==
    [kind |-> kind, from |-> n, to |-> m, id |-> id, value |-> value, yo |-> yo]

(* The list that raw puts into a message, also of those who are not sent   *)
(* it: a peer with one other leaves the list that came.                    *)
Yo(n, yo) == IF Cardinality(Peers(n)) > 1 THEN Listed[n] ELSE yo

(* Whom say sends a message to that is for all.  *)
Targets(n, via, yo) == Peers(n) \ (yo \cup {via})

(* say(msg) without a peer, for a message from via.  *)
Flood(kind, n, via, value, yo) ==
    {Message(kind, n, m, None, value, Yo(n, yo)) : m \in Targets(n, via, yo)}

(* put and ham.  *)
Merge(old, new) == IF new > old THEN new ELSE old

Write == /\ put_via[Writer] = None
         /\ put_via' = [put_via EXCEPT ![Writer] = Writer]
         /\ data' = [data EXCEPT ![Writer] = Merge(@, Written)]
         /\ net' = net \cup Flood("put", Writer, Writer, Written, {})
         /\ UNCHANGED <<get_via, ask, seen, ash, took, rolled>>

Ask == /\ get_via[Asker] = None
       /\ get_via' = [get_via EXCEPT ![Asker] = Asker]
       /\ net' = net \cup Flood("get", Asker, Asker, 0, {})
       /\ UNCHANGED <<data, put_via, ask, seen, ash, took, rolled>>

HearPut(p) ==
    LET n == p.to IN
    /\ p.kind = "put"
    /\ put_via[n] = None
    /\ put_via' = [put_via EXCEPT ![n] = p.from]
    /\ data' = [data EXCEPT ![n] = Merge(@, p.value)]
    /\ net' = (net \ {p}) \cup Flood("put", n, p.from, p.value, p.yo)
    /\ UNCHANGED <<get_via, ask, seen, ash, took, rolled>>

(* The answer that n makes to a request from m: what it has, and its hash. *)
Answer(n, m) == {Message("answer", n, m, n, data[n], Yo(n, {}))}

(* Mutant: a request with a hash is not answered.  *)
AnswersFirst(n, hash) == data[n] # 0 /\ hash = 0

(* A node answers unless it has nothing, or what has been answered.        *)
AnswersGet(n, hash) == data[n] # 0 /\ data[n] # hash

(* Gun.on.get answers first, and puts the hash of its answer into the      *)
(* request; then the request is passed on.                                 *)
HearGet(p) ==
    LET n == p.to
        answers == AnswersGet(n, p.value)
        hash == IF answers /\ p.value = 0 THEN data[n] ELSE p.value IN
    /\ p.kind = "get"
    /\ get_via[n] = None
    /\ get_via' = [get_via EXCEPT ![n] = p.from]
    /\ ask' = [ask EXCEPT ![n] = hash]
    /\ ash' = [ash EXCEPT ![n] = IF p.value = 0 THEN @ ELSE @ \cup {p.value}]
    /\ net' = (net \ {p}) \cup Flood("get", n, p.from, hash, p.yo)
              \cup (IF answers THEN Answer(n, p.from) ELSE {})
    /\ UNCHANGED <<data, put_via, seen, took, rolled>>

(* dup: an answer is new by its id, and by its hash.  *)
IsNew(n, id, hash) == id \notin seen[n] /\ hash \notin ash[n]

(* Where say sends an answer on to: the way the request came, unless the   *)
(* answer is from there or was sent there, or has the hash of the request. *)
Back(n, p) == {get_via[n]} \ (p.yo \cup {p.from} \cup
                              IF p.value = ask[n] THEN Nodes ELSE {})

(* An answer is heard: the asker's callback puts it with a miss, so that   *)
(* ham does not look at its state; the others put it and pass it on.       *)
HearAnswer(p) ==
    LET n == p.to IN
    /\ p.kind = "answer"
    /\ IsNew(n, p.id, p.value)
    /\ seen' = [seen EXCEPT ![n] = @ \cup {p.id}]
    /\ ash' = [ash EXCEPT ![n] = @ \cup {p.value}]
    /\ IF n = Asker
       THEN /\ took' = Append(took, p.value)
            /\ data' = [data EXCEPT ![n] = p.value]
            /\ rolled' = (rolled \/ p.value < data[n])
            /\ net' = net \ {p}
            /\ ask' = ask
       ELSE /\ data' = [data EXCEPT ![n] = Merge(@, p.value)]
            /\ net' = (net \ {p}) \cup
                      {Message("answer", n, m, p.id, p.value, Yo(n, p.yo)) : m \in Back(n, p)}
            /\ ask' = [ask EXCEPT ![n] = IF @ = 0 THEN p.value ELSE @]
            /\ UNCHANGED <<took, rolled>>
    /\ UNCHANGED <<put_via, get_via>>

(* A message that dup knows is dropped.  *)
HearAgain(p) ==
    /\ \/ p.kind = "put" /\ put_via[p.to] # None
       \/ p.kind = "get" /\ get_via[p.to] # None
       \/ p.kind = "answer" /\ ~IsNew(p.to, p.id, p.value)
    /\ net' = net \ {p}
    /\ UNCHANGED <<data, put_via, get_via, ask, seen, ash, took, rolled>>

Next == \/ Write
        \/ Ask
        \/ \E p \in net : \/ HearPut(p)
                          \/ HearGet(p)
                          \/ HearAnswer(p)
                          \/ HearAgain(p)

Spec == Init /\ [][Next]_vars

-----------------------------------------------------------------------------
(* All that was sent has arrived.  *)
Quiet == net = {}

Asked == get_via[Asker] # None
Wrote == put_via[Writer] # None

(* A write reaches every peer although nobody sends it to a peer that is   *)
(* said to have it, and in the end every peer has the latest of what it    *)
(* had and heard, unless an answer has rolled the asker back: it takes an  *)
(* older answer that comes after a newer one or after the write            *)
(* (gun.js:1393, 1486, 364).                                               *)
WriteReachesAll ==
    Quiet /\ Wrote =>
        \A n \in Nodes :
            /\ put_via[n] # None
            /\ data[n] >= Merge(Held[n], Written) \/ (n = Asker /\ rolled)

(* Whoever a peer names names it, as they all do when no list is cut.      *)
Mutual == \A n \in Nodes : \A m \in Listed[n] : n \in Listed[m]

(* The latest that any peer had when the request was made, or later, is    *)
(* given to the asker, through peers that answered it themselves and with  *)
(* requests that carry a hash (gun.js:1391, 1514-1519), also when others   *)
(* write meanwhile; who has nothing does not answer.  Where lists are cut  *)
(* on one side only, an answer can be lost: it is not handed on to a peer  *)
(* that its list names, but that never got it (gun.js:1486, 1527).         *)
LatestIsTaken ==
    Mutual /\ Quiet /\ Asked =>
        \A n \in Nodes \ {Asker} :
            Held[n] = 0 \/ \E i \in DOMAIN took : took[i] >= Held[n]

(* The asker's callback is given no data twice, however many peers have    *)
(* it and whatever ways their answers take (hear, gun.js:1391, 1410).      *)
TakenOnce == \A i, j \in DOMAIN took : i # j => took[i] # took[j]
=============================================================================
