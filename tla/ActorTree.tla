-------------------------------- MODULE ActorTree --------------------------------
(***************************************************************************)
(* The lifecycle of actors (src/src/actor.rs) in the tree a Node builds:   *)
(* the application's ActorContext is the root; under it are the actors of  *)
(* graph nodes and the router, under the router its adapters, under the    *)
(* websocket adapters one actor per connection.                            *)
(*                                                                         *)
(* An actor runs pre_start, then chooses between its stop channel and its  *)
(* mailbox.  Stopping is a cascade: whoever sees the stop signal aborts    *)
(* its tasks, signals the actors it has started (and itself) and leaves.   *)
(* Meanwhile the accept loops of its tasks may still be starting actors.   *)
(***************************************************************************)
EXTENDS Integers, FiniteSets

CONSTANTS Root,       \* the application's context; not an actor
          Actors,
          Parent,     \* in whose context an actor is started
          Adapters,   \* started by their parent's pre_start
          Conns,      \* WsConn: started as connections are made; ended by their peer, too
          Servers,    \* actors with an accept loop as a child task
          Detached,   \* servers that finish accepting in a task of its own (TLS)
          Stats,      \* servers that keep statistics, as they do by default:
                      \* their pre_start gets a node, which waits for itself
          Endless,    \* actors whose pre_start does not return (OutgoingWebsocketManager)
          Multicasts  \* actors with a blocking receive loop

Contexts == Actors \cup {Root}

ASSUME TreeAssumption ==
  /\ Root \notin Actors
  /\ Parent \in [Actors -> Contexts]
  /\ Adapters \cup Conns \cup Servers \cup Endless \cup Multicasts \subseteq Actors
  /\ Adapters \cap Conns = {}
  /\ Conns \cap (Servers \cup Endless \cup Multicasts) = {}
  /\ Detached \cup Stats \subseteq Servers /\ Servers \cap Endless = {}
  /\ \A a \in Adapters : Parent[a] \notin Conns \cup {Root}
  /\ \A a \in Conns : Parent[a] \in Servers \cup Endless

VARIABLES phase,         \* how far each actor's task has got
          stop_signals,  \* context -> the actors it has a stop signal for
          signal,        \* the actors with a signal in their stop channel
          tasks,         \* the state of an actor's child task
          is_stopped,    \* one flag, shared by all contexts
          listening,     \* the multicast actors whose receive loop runs
          swept,         \* history: contexts that have signalled their actors
          late           \* history: actors started after their parent had done that

vars == <<phase, stop_signals, signal, tasks, is_stopped, listening, swept, late>>

Init == /\ phase = [a \in Actors |-> "unborn"]
        /\ stop_signals = [c \in Contexts |-> {}]
        /\ signal = {}
        /\ tasks = [a \in Actors |-> "none"]
        /\ is_stopped = FALSE
        /\ listening = {}
        /\ swept = {}
        /\ late = {}

Alive(a) == phase[a] \notin {"unborn", "ended"}

(* start_actor: the stop sender is registered with the parent and with the *)
(* actor itself before the actor's task is spawned.                        *)
Start(a) ==
  /\ phase[a] = "unborn"
  /\ phase' = [phase EXCEPT ![a] = "pre_start"]
  /\ stop_signals' = [stop_signals EXCEPT ![Parent[a]] = @ \cup {a}, ![a] = {a}]
  /\ late' = IF Parent[a] \in swept THEN late \cup {a} ELSE late
  /\ UNCHANGED <<signal, tasks, is_stopped, listening, swept>>

StartFromApi(a) == Parent[a] = Root /\ Start(a)

StartAdapter(a) == a \in Adapters /\ phase[Parent[a]] = "pre_start" /\ Start(a)

(* A connection is accepted, or made.  An abort takes effect only when the *)
(* accept loop comes to an await, and detached tasks are never aborted.    *)
Connect(a) ==
  /\ a \in Conns
  /\ \/ tasks[Parent[a]] \in {"running", "aborted"}
     \/ Parent[a] \in Detached /\ tasks[Parent[a]] # "none"
     \/ Parent[a] \in Endless /\ phase[Parent[a]] = "pre_start"
  /\ Start(a)

(* Those whose pre_start does not return.                                  *)
Stuck == Endless \cup Stats

PreStartDone(a) ==
  /\ phase[a] = "pre_start" /\ a \notin Stuck
  /\ \A b \in Adapters : Parent[b] = a => phase[b] # "unborn"
  /\ phase' = [phase EXCEPT ![a] = "running"]
  /\ tasks' = IF a \in Servers \cup Conns THEN [tasks EXCEPT ![a] = "running"] ELSE tasks
  /\ listening' = IF a \in Multicasts THEN listening \cup {a} ELSE listening
  /\ UNCHANGED <<stop_signals, signal, is_stopped, swept, late>>

(* The part of ActorContext::stop after the tasks have been aborted:       *)
(* try_send to every stop channel; those of ended actors are closed.       *)
Signalled(c) == signal \cup {a \in stop_signals[c] : phase[a] # "ended"}

(* The receive task of a connection ends: ctx2.stop().                     *)
ConnectionEnds(a) ==
  /\ a \in Conns /\ tasks[a] = "running"
  /\ tasks' = [tasks EXCEPT ![a] = "ended"]
  /\ signal' = Signalled(a)
  /\ is_stopped' = TRUE
  /\ UNCHANGED <<phase, stop_signals, listening, swept, late>>

(* Mutant: the loop is left without context.stop().                        *)
SeeStopAndLeave(a) ==
  /\ phase[a] = "running" /\ a \in signal
  /\ signal' = signal \ {a}
  /\ phase' = [phase EXCEPT ![a] = "stopping"]
  /\ tasks' = [tasks EXCEPT ![a] = IF @ = "running" THEN "aborted" ELSE @]
  /\ swept' = swept \cup {a}
  /\ UNCHANGED <<stop_signals, is_stopped, listening, late>>

(* run takes the stop branch; context.stop() aborts the tasks ...          *)
SeeStop(a) ==
  /\ phase[a] = "running" /\ a \in signal
  /\ signal' = signal \ {a}
  /\ phase' = [phase EXCEPT ![a] = "sweeping"]
  /\ tasks' = [tasks EXCEPT ![a] = IF @ = "running" THEN "aborted" ELSE @]
  /\ UNCHANGED <<stop_signals, is_stopped, listening, swept, late>>

(* ... and signals all that was started in this context so far.            *)
Sweep(a) ==
  /\ phase[a] = "sweeping"
  /\ signal' = Signalled(a)
  /\ is_stopped' = TRUE
  /\ swept' = swept \cup {a}
  /\ phase' = [phase EXCEPT ![a] = "stopping"]
  /\ UNCHANGED <<stop_signals, tasks, listening, late>>

(* run returns; the parent forgets the actor.                              *)
Leave(a) ==
  /\ phase[a] = "stopping"
  /\ phase' = [phase EXCEPT ![a] = "ended"]
  /\ stop_signals' = [stop_signals EXCEPT ![Parent[a]] = @ \ {a}]
  /\ signal' = signal \ {a}
  /\ UNCHANGED <<tasks, is_stopped, listening, swept, late>>

TaskAborted(a) ==
  /\ tasks[a] = "aborted"
  /\ tasks' = [tasks EXCEPT ![a] = "ended"]
  /\ UNCHANGED <<phase, stop_signals, signal, is_stopped, listening, swept, late>>

(* Node::stop *)
StopFromApi ==
  /\ signal' = Signalled(Root)
  /\ is_stopped' = TRUE
  /\ swept' = swept \cup {Root}
  /\ UNCHANGED <<phase, stop_signals, tasks, listening, late>>

(* Mutant: the loop ends after one message.                                *)
StopListeningAtOnce(a) ==
  /\ a \in listening
  /\ listening' = listening \ {a}
  /\ UNCHANGED <<phase, stop_signals, signal, tasks, is_stopped, swept, late>>

(* The multicast receive loop looks at the flag after a message; aborting  *)
(* the blocking task it runs in has no effect.                             *)
StopListening(a) ==
  /\ a \in listening /\ is_stopped
  /\ listening' = listening \ {a}
  /\ UNCHANGED <<phase, stop_signals, signal, tasks, is_stopped, swept, late>>

Run(a) == PreStartDone(a) \/ SeeStop(a) \/ Sweep(a) \/ Leave(a) \/ TaskAborted(a)

Next ==
  \/ \E a \in Actors :
       \/ StartFromApi(a) \/ StartAdapter(a) \/ Connect(a) \/ Run(a)
       \/ ConnectionEnds(a) \/ StopListening(a)
  \/ StopFromApi

Spec == Init /\ [][Next]_vars

(* Every spawned task is polled again and again, for as long as the        *)
(* runtime has a thread for it: a server that hangs in get keeps one.      *)
(* select! takes its ready branches in random order, so a stop signal is   *)
(* seen eventually by whoever has left pre_start.                          *)
FairSpec == /\ Spec
            /\ \A a \in Actors : WF_vars(Run(a)) /\ WF_vars(StartAdapter(a))
----------------------------------------------------------------------------------
TypeOK ==
  /\ phase \in [Actors -> {"unborn", "pre_start", "running", "sweeping", "stopping", "ended"}]
  /\ stop_signals \in [Contexts -> SUBSET Actors]
  /\ signal \subseteq Actors
  /\ tasks \in [Actors -> {"none", "running", "aborted", "ended"}]
  /\ is_stopped \in BOOLEAN
  /\ listening \subseteq Multicasts
  /\ swept \subseteq Contexts
  /\ late \subseteq Actors

Stopping(a) == phase[a] \in {"sweeping", "stopping", "ended"}

(* The end of one connection stops that connection's actor and no other:   *)
(* until the application calls stop, only connections come to an end.      *)
OnlyConnectionsEnd == Root \notin swept => \A a \in Actors : Stopping(a) => a \in Conns

(* The flag the multicast receive loops look at is shared by all contexts: *)
(* they run until the application stops or some connection has ended.      *)
ListeningUntilSomeEnd ==
  (\E a \in Multicasts : phase[a] = "running" /\ a \notin listening) =>
    \/ Root \in swept
    \/ \E a \in Conns : tasks[a] = "ended"

(* An actor can be signalled from its parent's context for as long as it   *)
(* lives, and not any more afterwards, however starts and ends interleave. *)
ParentKnowsTheLiving == \A a \in Actors : Alive(a) <=> a \in stop_signals[Parent[a]]

(* When a context has signalled its actors, each that is still alive has   *)
(* the signal waiting or has seen it, except those started afterwards.     *)
SweepReachesAll ==
  \A a \in Actors :
    Alive(a) /\ Parent[a] \in swept => a \in signal \/ Stopping(a) \/ a \in late

Line[a \in Actors] == {a} \cup (IF Parent[a] = Root THEN {} ELSE Line[Parent[a]])

(* After stop every actor ends, unless it or an actor above it was started *)
(* too late to be signalled, or never comes to look for the signal: the    *)
(* manager of outgoing websockets, whose pre_start is its loop, and every  *)
(* server that keeps statistics, as by default, whose pre_start hangs in   *)
(* get (ws_server.rs:151-153, node.rs:222).                                *)
StopCascades ==
  \A a \in Actors :
    (/\ Root \in swept
     /\ Alive(a)
     /\ Line[a] \cap (Stuck \cup late) = {})
      ~> phase[a] = "ended"

(* A stop finds every actor that lives: contexts know just their living    *)
(* actors, and a sweep leaves out none but those started after it.         *)
StopFindsAll == TypeOK /\ ParentKnowsTheLiving /\ SweepReachesAll

(* The end of a connection ends no other actor, and the only loops it ends *)
(* are those of multicast.                                                 *)
OneEndIsLocal == OnlyConnectionsEnd /\ ListeningUntilSomeEnd
==================================================================================
