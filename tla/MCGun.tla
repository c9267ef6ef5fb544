-------------------------------- MODULE MCGun -------------------------------
(***************************************************************************)
(* The parts of a browser peer, those of GunPeer, GunNetwork,              *)
(* GunListeners, GunObjects and the others, each on a small instance of    *)
(* its own.  A behaviour is about one part, chosen at first; the variables *)
(* of the others do not change.                                            *)
(***************************************************************************)
EXTENDS GunPeer, GunNetwork, GunListeners, GunObjects, FiniteSets, TLC

(* Two writes that tie on k, one of them ahead of its time on l, the other *)
(* with an invalid entry at its end; an answer may put l back, from the    *)
(* one to an older state or from the other to a lesser value, and has an   *)
(* invalid entry before its last.                                          *)
PutEntry(k, v, t, ok) == [key |-> k, val |-> v, state |-> t, valid |-> ok]
ThreeMessages ==
    [m1 |-> <<PutEntry("k", 1, 1, TRUE), PutEntry("l", 2, 1, TRUE),
              PutEntry("m", 1, 1, FALSE)>>,
     m2 |-> <<PutEntry("k", 2, 1, TRUE), PutEntry("l", 1, 2, TRUE)>>,
     m3 |-> <<PutEntry("l", 1, 1, TRUE), PutEntry("k", 1, 1, FALSE),
              PutEntry("m", 1, 0, TRUE)>>]

(* Four peers in a diamond with a chord, whose ends do not list each       *)
(* other; one asks the others, whose versions differ, while one writes.    *)
Diamond == {{1, 2}, {1, 3}, {2, 3}, {2, 4}, {3, 4}}
CutLists == <<{2, 3}, {1, 4}, {1, 4}, {2, 3}>>
Versions == <<0, 1, 1, 2>>

(* Two local writes and one of a peer.  *)
ThreeSizes == [u |-> 2, v |-> 1, w |-> 2]

(* Two nodes that link to two others, or do not; paths through both links. *)
LinkSouls == {"a", "b", "A", "B"}
LinkValues ==
    [c \in LinkSouls, k \in {"k", "x"} |->
        CASE c = "a" /\ k = "k" -> {"A", "B", "p"}
          [] c = "b" /\ k = "k" -> {"A", "B"}
          [] c \in {"A", "B"} /\ k = "x" -> {"p", "q"}
          [] OTHER -> {}]
LinkListened == {<<"a", "k", "x">>, <<"b", "k", "x">>, <<"A", "x">>}

(* Objects with shared parts and cycles, a chain with a loop at its end,   *)
(* one with an invalid value, and an empty one.                            *)
WalkObject(v, w) == [x |-> v, y |-> w]
FourShapes ==
    {[o1 |-> WalkObject("o2", "o3"), o2 |-> WalkObject("o4", "v"),
      o3 |-> WalkObject("o4", "o1"), o4 |-> WalkObject("v", "o2")],
     [o1 |-> WalkObject("o2", "v"), o2 |-> WalkObject("o3", "nothing"),
      o3 |-> WalkObject("o4", "o3"), o4 |-> WalkObject("nothing", "v")],
     [o1 |-> WalkObject("o2", "o3"), o2 |-> WalkObject("nothing", "nothing"),
      o3 |-> WalkObject("o4", "invalid"), o4 |-> WalkObject("v", "nothing")],
     [o \in {"o1", "o2", "o3", "o4"} |-> WalkObject("nothing", "nothing")]}
TwoKeys == <<"x", "y">>

(* All ways in which three objects may refer to each other.  *)
GraphShapes ==
    {[o1 |-> [x |-> a, y |-> b], o2 |-> [x |-> c, y |-> d], o3 |-> [x |-> e]] :
        a \in {"o2", "o3"}, b \in {"o1", "o3", "v"},
        c \in {"o1", "o3", "v", "invalid"}, d \in {"o2", "o3", "v"},
        e \in {"o1", "v", "invalid"}}

(* Texts of two characters, one of which makes hashes overflow; each LEX   *)
(* that can be made of some of them; objects of three keys, in any order.  *)
TextChars == {1, 250}
ShortTexts == UNION {[1 .. n -> TextChars] : n \in 0 .. 3}
SomeLexes == UNION {[D -> {<<>>, <<1>>, <<1, 250>>}] :
                       D \in SUBSET {"=", "*", ">", "<"}}
ThreeKeys == {[n \in 1 .. 3 |-> [key |-> f[n], val |-> v[f[n]]]] :
                f \in {g \in [1 .. 3 -> 1 .. 3] : {g[1], g[2], g[3]} = 1 .. 3},
                v \in [1 .. 3 -> TextChars]}

VARIABLES
    page,
    graph_shape, graph_graph, step

Link == INSTANCE GunLink WITH
        Souls <- LinkSouls,
        Keys <- {"k", "x"}, Values <- LinkValues, Listened <- LinkListened,
        MaxWrites <- 4

Graph == INSTANCE GunGraph WITH
        Objects <- {"o1", "o2", "o3"},
        Root <- "o1", Keys <- <<"x", "y">>, Shapes <- GraphShapes,
        Values <- {"v"}, Own <- "o2" :> "A", shape <- graph_shape,
        graph <- graph_graph

(* What the modules ask of their constants.  *)
ASSUME GunAssumption ==
    /\ Link!LinkAssumption
    /\ Graph!GraphAssumption

(* The parts that the behaviour is not about stay as they are at first.    *)
Init == /\ part \in Parts
        /\ Clock!Init
        /\ Events!Init
        /\ Turn!Init
        /\ Put!Init
        /\ part # "put" => ~put_peers
        /\ Mesh!Init
        /\ Wire!Init
        /\ Dup!Init
        /\ Read!Init
        /\ IF part = "link" THEN Link!Init ELSE page = <<>>
        /\ Walk!Init
        /\ part # "walk" => walk_shape = CHOOSE h \in WalkShapes : TRUE
        /\ Graph!Init
        /\ part # "graph" => graph_shape = CHOOSE h \in GraphShapes : TRUE
        /\ Once!Init
        /\ part # "once" => ~once_core
        /\ Soul!Init
        /\ part # "soul" => ~soul_core /\ soul_peers = {}
        /\ Resync!Init
        /\ IF part = "text" THEN Text!Init
           ELSE text = <<>> /\ lex = <<>> /\ text_put = <<>> /\ text_out = <<>>
        /\ IF part = "valid" THEN Valid!Init ELSE value = <<>> /\ valid_out = <<>>

clockVars == <<clock_time, clock_last, N, calls, steady, burst>>
eventsVars == <<table, tag_of, made, events_to, back, last_of, the, off_at,
               events_err, events_at, calling, rearm, events, order,
               events_due, events_heard, expired, again>>
turnVars == <<turn_s, turn_i, poll, turn_left, ended, broke, turn_asked,
              ran, turn_threw>>
putVars == <<put_now, put_graph, disk, store, ctx, put_at, later, acks,
            put_to, acking, put_peers, fails, reloads, offs, put_rolled,
            deferred, taken>>
meshVars == <<listed, wire, socket, opened, batch, open, flushes, queue,
             rests, defer, loose, retry, mesh_gets, hello, hides, messages,
             mesh_sent, gone, missed, mesh_cut, aside>>
wireVars == <<wire_data, put_via, get_via, ask, wire_seen, ash, net, took,
             wire_rolled>>
dupVars == <<dup_time, was, dup_now, dup_to, list, begun, used>>
readVars == <<read_data, once, id, run, stuns, phase, read_left, hatch,
             latch, match, add, read_wait, got, failed, crowd>>
linkVars == <<page>>
walkVars == <<walk_shape, todo, walk_rest, walk_seen, walk_up, soul,
             node, walk_wait, held, walk_graph, walk_err, walk_sent>>
graphVars == <<graph_shape, graph_graph, step>>
onceVars == <<once_core, once_put, there, once_due, done, stun, once_told,
             once_heard, count>>
soulVars == <<soul_core, soul_peers, soul_asked, jam, going, requests, link,
             soul_told, found, moved, soul_threw>>
resyncVars == <<resync_time, resync_up, gets, timers, asks, resync_last,
               resync_cut>>
textVars == <<text, lex, text_put, text_out>>
validVars == <<value, valid_out>>

Still(p) == /\ part' = part
            /\ p # "clock" => UNCHANGED clockVars
            /\ p # "events" => UNCHANGED eventsVars
            /\ p # "turn" => UNCHANGED turnVars
            /\ p # "put" => UNCHANGED putVars
            /\ p # "mesh" => UNCHANGED meshVars
            /\ p # "wire" => UNCHANGED wireVars
            /\ p # "dup" => UNCHANGED dupVars
            /\ p # "read" => UNCHANGED readVars
            /\ p # "link" => UNCHANGED linkVars
            /\ p # "walk" => UNCHANGED walkVars
            /\ p # "graph" => UNCHANGED graphVars
            /\ p # "once" => UNCHANGED onceVars
            /\ p # "soul" => UNCHANGED soulVars
            /\ p # "resync" => UNCHANGED resyncVars
            /\ p # "text" => UNCHANGED textVars
            /\ p # "valid" => UNCHANGED validVars

Next == \/ part = "clock" /\ Clock!State /\ Still("clock")
        \/ part = "clock" /\ Clock!Tick /\ Still("clock")
        \/ part = "clock" /\ Clock!SetBack /\ Still("clock")
        \/ /\ part = "events"
           /\ \E l \in EventsListeners :
                 Events!On("a", l) /\ Still("events")
        \/ /\ part = "events"
           /\ \E l \in EventsListeners :
                 Events!Ask("a", l) /\ Still("events")
        \/ /\ part = "events"
           /\ \E l \in EventsListeners :
                 Events!Off(l) /\ Still("events")
        \/ /\ part = "events"
           /\ \E l \in EventsListeners :
                 Events!Lack(l) /\ Still("events")
        \/ /\ part = "events"
           /\ \E l \in EventsListeners :
                 Events!Quiet(l) /\ Still("events")
        \/ part = "events" /\ Events!Emit("a") /\ Still("events")
        \/ part = "events" /\ Events!Answer("a") /\ Still("events")
        \/ part = "events" /\ Events!HandOn /\ Still("events")
        \/ part = "events" /\ Events!EventEnds /\ Still("events")
        \/ /\ part = "turn"
           /\ \E f \in TurnTasks :
                 Turn!CallTurn(f) /\ Still("turn")
        \/ /\ part = "turn"
           /\ \E b \in BOOLEAN :
                 Turn!Each("j", b) /\ Still("turn")
        \/ part = "turn" /\ Turn!RunTask /\ Still("turn")
        \/ part = "turn" /\ Turn!RunBatch /\ Still("turn")
        \/ part = "turn" /\ Turn!Throw /\ Still("turn")
        \/ /\ part = "put"
           /\ \E m \in PutMessages : \E n \in 1 .. Put!Count(m) :
                 Put!Put(m, n) /\ Still("put")
        \/ /\ part = "put"
           /\ \E m \in PutMessages : \E n \in 1 .. Put!Count(m) :
                 Put!Pop(m, n) /\ Still("put")
        \/ /\ part = "put"
           /\ \E m \in PutMessages :
                 Put!PopError(m) /\ Still("put")
        \/ /\ part = "put"
           /\ \E e \in later :
                 Put!HamLater(e[1], e[2]) /\ Still("put")
        \/ part = "put" /\ \E b \in BOOLEAN : Put!Flush(b) /\ Still("put")
        \/ part = "put" /\ Put!Acknowledge /\ Still("put")
        \/ part = "put" /\ Put!Reload /\ Still("put")
        \/ part = "put" /\ Put!Off /\ Still("put")
        \/ part = "put" /\ Put!Tick /\ Still("put")
        \/ part = "mesh" /\ Mesh!Say /\ Still("mesh")
        \/ part = "mesh" /\ Mesh!Answer /\ Still("mesh")
        \/ part = "mesh" /\ Mesh!Flush /\ Still("mesh")
        \/ part = "mesh" /\ Mesh!HearBatch /\ Still("mesh")
        \/ part = "mesh" /\ Mesh!HiAsks /\ Still("mesh")
        \/ part = "mesh" /\ Mesh!HiSends /\ Still("mesh")
        \/ part = "mesh" /\ Mesh!HiGoesOn /\ Still("mesh")
        \/ part = "mesh" /\ \E n \in 1 .. 3 : Mesh!Opens(n) /\ Still("mesh")
        \/ part = "mesh" /\ \E n \in 1 .. 3 : Mesh!Closes(n) /\ Still("mesh")
        \/ /\ part = "mesh"
           /\ \E n \in 1 .. 3, e, q \in BOOLEAN :
                 Mesh!Closed(n, e, q) /\ Still("mesh")
        \/ part = "mesh" /\ Mesh!Defer /\ Still("mesh")
        \/ part = "mesh" /\ Mesh!DeferHidden /\ Still("mesh")
        \/ part = "mesh" /\ Mesh!DeferLoose /\ Still("mesh")
        \/ part = "wire" /\ Wire!Write /\ Still("wire")
        \/ part = "wire" /\ Wire!Ask /\ Still("wire")
        \/ part = "wire" /\ \E m \in net : Wire!HearPut(m) /\ Still("wire")
        \/ part = "wire" /\ \E m \in net : Wire!HearGet(m) /\ Still("wire")
        \/ /\ part = "wire"
           /\ \E m \in net :
                 Wire!HearAnswer(m) /\ Still("wire")
        \/ part = "wire" /\ \E m \in net : Wire!HearAgain(m) /\ Still("wire")
        \/ part = "dup" /\ \E n \in {"i", "j"} : Dup!Track(n) /\ Still("dup")
        \/ part = "dup" /\ \E n \in {"i", "j"} : Dup!Check(n) /\ Still("dup")
        \/ part = "dup" /\ Dup!Drop /\ Still("dup")
        \/ part = "dup" /\ Dup!DropMore /\ Still("dup")
        \/ part = "dup" /\ Dup!Tick /\ Still("dup")
        \/ /\ part = "read"
           /\ \E w \in ReadWrites :
                 Read!Hear(w) /\ Still("read")
        \/ /\ part = "read"
           /\ \E w \in ReadWrites :
                 Read!Stun(w) /\ Still("read")
        \/ /\ part = "read"
           /\ \E w \in ReadWrites :
                 Read!Ran(w) /\ Still("read")
        \/ /\ part = "read"
           /\ \E w \in ReadWrites :
                 Read!RanErr(w) /\ Still("read")
        \/ /\ part = "read"
           /\ \E w \in ReadWrites :
                 Read!Turn(w) /\ Still("read")
        \/ /\ part = "read"
           /\ \E l \in ReadListeners :
                 Read!Get(l) /\ Still("read")
        \/ /\ part = "link"
           /\ \E c \in LinkSouls, k \in {"k", "x"} : \E v \in LinkValues[c, k] :
                 Link!Put(c, k, v) /\ Still("link")
        \/ /\ part = "link"
           /\ \E l \in LinkListened :
                 Link!Get(l) /\ Still("link")
        \/ /\ part = "link"
           /\ \E a \in page.asked :
                 Link!Miss(a) /\ Still("link")
        \/ part = "walk" /\ Walk!Walk /\ Still("walk")
        \/ /\ part = "walk"
           /\ \E o \in {"o1", "o2", "o3", "o4"}, f \in Walk!Answers :
                 Walk!Resolve(o, f) /\ Still("walk")
        \/ part = "graph" /\ Graph!Ify /\ Still("graph")
        \/ /\ part = "once"
           /\ \E a \in Once!Ats, v \in Once!Values :
                 Once!Hear(a, v) /\ Still("once")
        \/ part = "once" /\ Once!HearNode /\ Still("once")
        \/ part = "once" /\ Once!HearNoNode /\ Still("once")
        \/ part = "once" /\ Once!Timer /\ Still("once")
        \/ /\ part = "soul"
           /\ \E c \in {"a", "b"} :
                 Soul!Soul(c) /\ Still("soul")
        \/ /\ part = "soul"
           /\ \E a \in soul_asked :
                 Soul!Nothing(a) /\ Still("soul")
        \/ part = "soul" /\ Soul!Found /\ Still("soul")
        \/ /\ part = "soul"
           /\ \E p \in {"p", "q"} :
                 Soul!Leave(p) /\ Still("soul")
        \/ /\ part = "soul"
           /\ \E p \in {"p", "q"} :
                 Soul!Come(p) /\ Still("soul")
        \/ part = "resync" /\ Resync!Bye /\ Still("resync")
        \/ part = "resync" /\ Resync!Hi /\ Still("resync")
        \/ part = "resync" /\ Resync!Forget /\ Still("resync")
        \/ part = "resync" /\ Resync!Tick /\ Still("resync")
        \/ part = "text" /\ Text!Run /\ Still("text")
        \/ part = "valid" /\ Valid!Check /\ Still("valid")

(* The fairness of the parts that have any, as their modules state it.     *)
Fairness ==
    /\ WF_turnVars(part = "turn" /\ (Turn!RunTask \/ Turn!RunBatch))
    /\ WF_meshVars(part = "mesh" /\ (Mesh!HiAsks \/ Mesh!HiSends))
    /\ WF_meshVars(part = "mesh" /\ (Mesh!Flush \/ Mesh!HiGoesOn))
    /\ WF_meshVars(part = "mesh" /\ (Mesh!Defer \/ Mesh!DeferLoose))
    /\ WF_meshVars(part = "mesh" /\ Mesh!SocketEnds)
    /\ WF_walkVars(part = "walk" /\ Walk!Walk)
    /\ \A o \in {"o1", "o2", "o3", "o4"} :
          WF_walkVars(/\ part = "walk"
                      /\ \E f \in Walk!Answers : Walk!Resolve(o, f))

Spec == Init /\ [][Next]_<<part, clockVars, eventsVars, turnVars, putVars,
                           meshVars, wireVars, dupVars, readVars, linkVars,
                           walkVars, graphVars, onceVars, soulVars,
                           resyncVars, textVars, validVars>>
             /\ Fairness

-----------------------------------------------------------------------------
(* What the modules of the parts say of them, together.                    *)

(* Listeners behind a link hear what it leads to now.                      *)
LinkHearsTheGraph == part = "link" => Link!HearsTheGraph

(* An object is made into a graph and back, unless it is cyclic.           *)
GraphIsTheObject ==
    part = "graph" =>
        /\ Graph!IfyIsWhole
        /\ Graph!RoundTrip
        /\ Graph!CyclesAreEndless
=============================================================================
