------------------------------ MODULE ActorTreeProofs ------------------------------
(***************************************************************************)
(* ActorTree's invariants, proved for every tree of actors.  Liveness      *)
(* (StopCascades) is left to TLC.                                          *)
(***************************************************************************)
EXTENDS ActorTree, TLAPS

(* A child task is spawned at the end of pre_start.                        *)
TasksAfterPreStart ==
  \A a \in Actors : tasks[a] # "none" => phase[a] \notin {"unborn", "pre_start"}

(* An actor is started by one that is there.                               *)
ParentsFirst ==
  \A a \in Actors :
    phase[a] # "unborn" => Parent[a] = Root \/ phase[Parent[a]] # "unborn"

(* A connection starts nothing, so that its context signals only itself.   *)
ConnectionsAreLeaves == \A a \in Conns : stop_signals[a] \subseteq {a}

(* While the application has not called stop, whatever stops is a          *)
(* connection whose receive task has come to its end.                      *)
HasEnded(a) == a \in Conns /\ tasks[a] = "ended"

EndsAreCaused ==
  Root \notin swept => \A a \in Actors : a \in signal \/ Stopping(a) => HasEnded(a)

FlagIsCaused == is_stopped => Root \in swept \/ \E a \in Conns : HasEnded(a)

Structure == TypeOK /\ TasksAfterPreStart /\ ParentsFirst /\ ConnectionsAreLeaves
------------------------------------------------------------------------------------
(* Every way to start an actor is a Start by a parent that has been started *)
(* itself and is not a connection.                                         *)
LEMMA StartedByParent ==
  ASSUME TypeOK, TasksAfterPreStart, NEW a \in Actors,
         StartFromApi(a) \/ StartAdapter(a) \/ Connect(a)
  PROVE  /\ Start(a)
         /\ Parent[a] = Root \/ phase[Parent[a]] # "unborn"
         /\ Parent[a] \notin Conns
<1>1. CASE StartFromApi(a)
  BY <1>1, TreeAssumption DEF StartFromApi
<1>2. CASE StartAdapter(a)
  BY <1>2, TreeAssumption DEF StartAdapter
<1>3. CASE Connect(a)
  <2>1. a \in Conns /\ Start(a)
    BY <1>3 DEF Connect
  <2>2. Parent[a] \in Servers \cup Endless /\ Parent[a] \in Actors /\ Parent[a] \notin Conns
    BY <2>1, TreeAssumption
  <2>3. tasks[Parent[a]] # "none" \/ phase[Parent[a]] = "pre_start"
    BY <1>3 DEF Connect
  <2> QED
    BY <2>1, <2>2, <2>3 DEF TasksAfterPreStart
<1> QED
  BY <1>1, <1>2, <1>3

(* The steps of the system, starts taken together.                         *)
Starts(a) == /\ Start(a)
             /\ Parent[a] = Root \/ phase[Parent[a]] # "unborn"
             /\ Parent[a] \notin Conns

LEMMA Steps ==
  ASSUME Structure, [Next]_vars
  PROVE  \/ \E a \in Actors :
              \/ Starts(a) \/ PreStartDone(a) \/ SeeStop(a) \/ Sweep(a) \/ Leave(a)
              \/ TaskAborted(a) \/ ConnectionEnds(a) \/ StopListening(a)
         \/ StopFromApi
         \/ UNCHANGED vars
BY StartedByParent DEF Structure, Starts, Next, Run

LEMMA Tree ==
  /\ Parent \in [Actors -> Contexts]
  /\ Root \notin Actors /\ Root \in Contexts
  /\ Actors \subseteq Contexts
  /\ Conns \subseteq Actors /\ Multicasts \subseteq Actors /\ Endless \subseteq Actors
BY TreeAssumption DEF Contexts
------------------------------------------------------------------------------------
LEMMA InitStructure == Init => Structure
BY Tree DEF Init, Structure, TypeOK, TasksAfterPreStart, ParentsFirst, ConnectionsAreLeaves

LEMMA StepType == ASSUME Structure, [Next]_vars PROVE TypeOK'
<1>1. ASSUME NEW a \in Actors, Starts(a)
      PROVE  TypeOK'
  BY <1>1, Tree DEF Structure, TypeOK, Starts, Start
<1>2. ASSUME NEW a \in Actors, PreStartDone(a)
      PROVE  TypeOK'
  BY <1>2, Tree DEF Structure, TypeOK, PreStartDone
<1>3. ASSUME NEW a \in Actors, SeeStop(a)
      PROVE  TypeOK'
  BY <1>3, Tree DEF Structure, TypeOK, SeeStop
<1>4. ASSUME NEW a \in Actors, Sweep(a)
      PROVE  TypeOK'
  BY <1>4, Tree DEF Structure, TypeOK, Sweep, Signalled
<1>5. ASSUME NEW a \in Actors, Leave(a)
      PROVE  TypeOK'
  BY <1>5, Tree DEF Structure, TypeOK, Leave
<1>6. ASSUME NEW a \in Actors, TaskAborted(a)
      PROVE  TypeOK'
  BY <1>6 DEF Structure, TypeOK, TaskAborted
<1>7. ASSUME NEW a \in Actors, ConnectionEnds(a)
      PROVE  TypeOK'
  BY <1>7, Tree DEF Structure, TypeOK, ConnectionEnds, Signalled
<1>8. ASSUME NEW a \in Actors, StopListening(a)
      PROVE  TypeOK'
  BY <1>8 DEF Structure, TypeOK, StopListening
<1>9. CASE StopFromApi
  BY <1>9, Tree DEF Structure, TypeOK, StopFromApi, Signalled
<1>10. CASE UNCHANGED vars
  BY <1>10 DEF Structure, TypeOK, vars
<1> QED
  BY <1>1, <1>2, <1>3, <1>4, <1>5, <1>6, <1>7, <1>8, <1>9, <1>10, Steps
------------------------------------------------------------------------------------
LEMMA StepTasks == ASSUME Structure, [Next]_vars PROVE TasksAfterPreStart'
<1>1. ASSUME NEW a \in Actors, Starts(a)
      PROVE  TasksAfterPreStart'
  BY <1>1 DEF Structure, TypeOK, TasksAfterPreStart, Starts, Start
<1>2. ASSUME NEW a \in Actors, PreStartDone(a)
      PROVE  TasksAfterPreStart'
  BY <1>2 DEF Structure, TypeOK, TasksAfterPreStart, PreStartDone
<1>3. ASSUME NEW a \in Actors, SeeStop(a)
      PROVE  TasksAfterPreStart'
  BY <1>3 DEF Structure, TypeOK, TasksAfterPreStart, SeeStop
<1>4. ASSUME NEW a \in Actors, Sweep(a)
      PROVE  TasksAfterPreStart'
  BY <1>4 DEF Structure, TypeOK, TasksAfterPreStart, Sweep
<1>5. ASSUME NEW a \in Actors, Leave(a)
      PROVE  TasksAfterPreStart'
  BY <1>5 DEF Structure, TypeOK, TasksAfterPreStart, Leave
<1>6. ASSUME NEW a \in Actors, TaskAborted(a)
      PROVE  TasksAfterPreStart'
  BY <1>6 DEF Structure, TypeOK, TasksAfterPreStart, TaskAborted
<1>7. ASSUME NEW a \in Actors, ConnectionEnds(a)
      PROVE  TasksAfterPreStart'
  BY <1>7 DEF Structure, TypeOK, TasksAfterPreStart, ConnectionEnds
<1>8. CASE UNCHANGED <<phase, tasks>>
  BY <1>8 DEF Structure, TasksAfterPreStart
<1> QED
  BY <1>1, <1>2, <1>3, <1>4, <1>5, <1>6, <1>7, <1>8, Steps
     DEF StopListening, StopFromApi, vars

(* No actor becomes unborn again, and a new one has a parent.              *)
LEMMA StepParents == ASSUME Structure, [Next]_vars PROVE ParentsFirst'
<1> SUFFICES ASSUME NEW b \in Actors, phase'[b] # "unborn", Parent[b] # Root
             PROVE  phase'[Parent[b]] # "unborn"
  BY DEF ParentsFirst
<1>1. Parent[b] \in Actors
  BY Tree DEF Contexts
<1>2. ASSUME NEW c \in Actors, phase[c] # "unborn"
      PROVE  phase'[c] # "unborn"
  <2>1. ASSUME NEW a \in Actors, Starts(a)
        PROVE  phase'[c] # "unborn"
    BY <1>2, <2>1 DEF Structure, TypeOK, Starts, Start
  <2>2. ASSUME NEW a \in Actors,
               PreStartDone(a) \/ SeeStop(a) \/ Sweep(a) \/ Leave(a)
        PROVE  phase'[c] # "unborn"
    BY <1>2, <2>2 DEF Structure, TypeOK, PreStartDone, SeeStop, Sweep, Leave
  <2>3. CASE UNCHANGED phase
    BY <1>2, <2>3
  <2> QED
    BY <2>1, <2>2, <2>3, Steps DEF TaskAborted, ConnectionEnds, StopListening, StopFromApi, vars
<1>3. CASE phase[b] # "unborn"
  BY <1>1, <1>2, <1>3 DEF Structure, ParentsFirst
<1>4. CASE phase[b] = "unborn"
  <2>1. Starts(b)
    <3>1. ASSUME NEW a \in Actors, Starts(a)
          PROVE  a = b
      BY <1>4, <3>1 DEF Structure, TypeOK, Starts, Start
    <3>2. ASSUME NEW a \in Actors,
                 PreStartDone(a) \/ SeeStop(a) \/ Sweep(a) \/ Leave(a)
          PROVE  FALSE
      BY <1>4, <3>2 DEF Structure, TypeOK, PreStartDone, SeeStop, Sweep, Leave
    <3>3. phase' # phase
      BY <1>4
    <3> QED
      BY <3>1, <3>2, <3>3, Steps DEF TaskAborted, ConnectionEnds, StopListening, StopFromApi, vars
  <2> QED
    BY <1>1, <1>2, <2>1 DEF Starts
<1> QED
  BY <1>3, <1>4

LEMMA StepLeaves == ASSUME Structure, [Next]_vars PROVE ConnectionsAreLeaves'
<1>1. ASSUME NEW a \in Actors, Starts(a)
      PROVE  ConnectionsAreLeaves'
  BY <1>1, Tree DEF Structure, TypeOK, ConnectionsAreLeaves, Starts, Start
<1>2. ASSUME NEW a \in Actors, Leave(a)
      PROVE  ConnectionsAreLeaves'
  BY <1>2, Tree DEF Structure, TypeOK, ConnectionsAreLeaves, Leave
<1>3. CASE UNCHANGED stop_signals
  BY <1>3 DEF Structure, ConnectionsAreLeaves
<1> QED
  BY <1>1, <1>2, <1>3, Steps
     DEF PreStartDone, SeeStop, Sweep, TaskAborted, ConnectionEnds, StopListening, StopFromApi, vars

LEMMA StepStructure == ASSUME Structure, [Next]_vars PROVE Structure'
BY StepType, StepTasks, StepParents, StepLeaves DEF Structure

LEMMA StructureCorrect == Spec => []Structure
<1>1. Structure /\ [Next]_vars => Structure'
  BY StepStructure
<1> QED
  BY <1>1, InitStructure, PTL DEF Spec

(* The lifecycle's state is well typed, whatever the tree.                 *)
THEOREM TypeCorrect == Spec => []TypeOK
<1>1. Structure => TypeOK
  BY DEF Structure
<1> QED
  BY <1>1, StructureCorrect, PTL
------------------------------------------------------------------------------------
LEMMA StepKnown ==
  ASSUME Structure, ParentKnowsTheLiving, [Next]_vars
  PROVE  ParentKnowsTheLiving'
<1> SUFFICES ASSUME NEW b \in Actors
             PROVE  Alive(b)' <=> b \in stop_signals'[Parent[b]]
  BY DEF ParentKnowsTheLiving
<1>1. Alive(b) <=> b \in stop_signals[Parent[b]]
  BY DEF ParentKnowsTheLiving
<1>2. /\ Parent[b] \in Contexts
      /\ phase[b] # "unborn" => Parent[b] = Root \/ phase[Parent[b]] # "unborn"
  BY Tree DEF Structure, ParentsFirst
<1>3. ASSUME NEW a \in Actors, Starts(a)
      PROVE  Alive(b)' <=> b \in stop_signals'[Parent[b]]
  <2>1. phase[a] = "unborn" /\ Parent[a] \in Contexts /\ a \in Contexts /\ a # Root
    BY <1>3, Tree DEF Starts, Start
  <2>2. /\ phase' = [phase EXCEPT ![a] = "pre_start"]
        /\ stop_signals' = [stop_signals EXCEPT ![Parent[a]] = @ \cup {a}, ![a] = {a}]
    BY <1>3 DEF Starts, Start
  <2>3. CASE b = a
    <3>1. Alive(b)'
      BY <2>2, <2>3 DEF Alive, Structure, TypeOK
    <3>2. b \in stop_signals'[Parent[b]]
      BY <2>1, <2>2, <2>3 DEF Structure, TypeOK
    <3> QED
      BY <3>1, <3>2
  <2>4. CASE b # a /\ Parent[b] = a
    <3>1. ~Alive(b)'
      BY <1>2, <2>1, <2>2, <2>4 DEF Alive, Structure, TypeOK
    <3>2. stop_signals'[Parent[b]] = {a}
      BY <2>1, <2>2, <2>4 DEF Structure, TypeOK
    <3> QED
      BY <2>4, <3>1, <3>2
  <2>5. CASE b # a /\ Parent[b] # a
    <3>1. Alive(b)' <=> Alive(b)
      BY <2>2, <2>5 DEF Alive, Structure, TypeOK
    <3>2. \A c \in Contexts : c # a => stop_signals'[c] \in {stop_signals[c], stop_signals[c] \cup {a}}
      BY <2>2 DEF Structure, TypeOK
    <3>3. b \in stop_signals'[Parent[b]] <=> b \in stop_signals[Parent[b]]
      BY <1>2, <2>5, <3>2
    <3> QED
      BY <1>1, <3>1, <3>3
  <2> QED
    BY <2>3, <2>4, <2>5
<1>4. ASSUME NEW a \in Actors, Leave(a)
      PROVE  Alive(b)' <=> b \in stop_signals'[Parent[b]]
  <2>1. /\ phase' = [phase EXCEPT ![a] = "ended"]
        /\ stop_signals' = [stop_signals EXCEPT ![Parent[a]] = @ \ {a}]
    BY <1>4 DEF Leave
  <2>2. CASE b = a
    <3>1. ~Alive(b)'
      BY <2>1, <2>2 DEF Alive, Structure, TypeOK
    <3>2. b \notin stop_signals'[Parent[b]]
      BY <1>2, <2>1, <2>2 DEF Structure, TypeOK
    <3> QED
      BY <3>1, <3>2
  <2>3. CASE b # a
    <3>1. Alive(b)' <=> Alive(b)
      BY <2>1, <2>3 DEF Alive, Structure, TypeOK
    <3>2. \A c \in Contexts : stop_signals'[c] \in {stop_signals[c], stop_signals[c] \ {a}}
      BY <2>1 DEF Structure, TypeOK
    <3>3. b \in stop_signals'[Parent[b]] <=> b \in stop_signals[Parent[b]]
      BY <1>2, <2>3, <3>2
    <3> QED
      BY <1>1, <3>1, <3>3
  <2> QED
    BY <2>2, <2>3
<1>5. ASSUME NEW a \in Actors, PreStartDone(a) \/ SeeStop(a) \/ Sweep(a)
      PROVE  Alive(b)' <=> b \in stop_signals'[Parent[b]]
  <2>1. stop_signals' = stop_signals
    BY <1>5 DEF PreStartDone, SeeStop, Sweep
  <2>2. Alive(b)' <=> Alive(b)
    BY <1>5 DEF PreStartDone, SeeStop, Sweep, Alive, Structure, TypeOK
  <2> QED
    BY <1>1, <2>1, <2>2
<1>6. CASE UNCHANGED <<phase, stop_signals>>
  BY <1>1, <1>6 DEF Alive
<1> QED
  BY <1>3, <1>4, <1>5, <1>6, Steps
     DEF TaskAborted, ConnectionEnds, StopListening, StopFromApi, vars

(* A parent's stop signals are those of its actors that are alive, however *)
(* starts and ends interleave (actor.rs:118-144, 225-238).                 *)
THEOREM KnownCorrect == Spec => []ParentKnowsTheLiving
<1>1. Init => ParentKnowsTheLiving
  BY Tree DEF Init, ParentKnowsTheLiving, Alive
<1>2. Structure /\ ParentKnowsTheLiving /\ [Next]_vars => ParentKnowsTheLiving'
  BY StepKnown
<1> QED
  BY <1>1, <1>2, StructureCorrect, PTL DEF Spec
------------------------------------------------------------------------------------
(* A sweep of a context signals all its actors that are alive.             *)
LEMMA SweepSignals ==
  ASSUME ParentKnowsTheLiving, NEW b \in Actors, Alive(b)
  PROVE  b \in Signalled(Parent[b])
BY DEF ParentKnowsTheLiving, Signalled, Alive

LEMMA StepSweep ==
  ASSUME Structure, ParentKnowsTheLiving, SweepReachesAll, [Next]_vars
  PROVE  SweepReachesAll'
<1> DEFINE Reached(b) ==
             Alive(b) /\ Parent[b] \in swept => b \in signal \/ Stopping(b) \/ b \in late
<1> SUFFICES ASSUME NEW b \in Actors
             PROVE  Reached(b)'
  BY DEF SweepReachesAll
<1>1. Reached(b)
  BY DEF SweepReachesAll
<1>2. ASSUME NEW a \in Actors, Starts(a)
      PROVE  Reached(b)'
  <2>1. CASE b = a
    BY <1>2, <2>1 DEF Starts, Start
  <2>2. CASE b # a
    BY <1>1, <1>2, <2>2 DEF Starts, Start, Alive, Stopping, Structure, TypeOK
  <2> QED
    BY <2>1, <2>2
<1>3. ASSUME NEW a \in Actors, PreStartDone(a)
      PROVE  Reached(b)'
  BY <1>1, <1>3 DEF PreStartDone, Alive, Stopping, Structure, TypeOK
<1>4. ASSUME NEW a \in Actors, SeeStop(a)
      PROVE  Reached(b)'
  BY <1>1, <1>4 DEF SeeStop, Alive, Stopping, Structure, TypeOK
<1>5. ASSUME NEW a \in Actors, Sweep(a)
      PROVE  Reached(b)'
  <2>1. /\ signal \subseteq signal' /\ signal' = Signalled(a)
        /\ swept' = swept \cup {a} /\ late' = late
        /\ phase' = [phase EXCEPT ![a] = "stopping"] /\ phase[a] = "sweeping"
    BY <1>5 DEF Sweep, Signalled
  <2>2. (Alive(b)' <=> Alive(b)) /\ (Stopping(b) => Stopping(b)')
    BY <2>1 DEF Alive, Stopping, Structure, TypeOK
  <2>3. CASE Parent[b] \in swept
    BY <1>1, <2>1, <2>2, <2>3
  <2>4. CASE Parent[b] = a
    <3>1. Alive(b) => b \in signal'
      BY <2>1, <2>4, SweepSignals
    <3> QED
      BY <2>2, <3>1
  <2> QED
    BY <2>1, <2>3, <2>4
<1>6. ASSUME NEW a \in Actors, Leave(a)
      PROVE  Reached(b)'
  BY <1>1, <1>6 DEF Leave, Alive, Stopping, Structure, TypeOK
<1>7. ASSUME NEW a \in Actors, ConnectionEnds(a)
      PROVE  Reached(b)'
  BY <1>1, <1>7 DEF ConnectionEnds, Signalled, Alive, Stopping
<1>8. CASE StopFromApi
  <2>1. /\ signal \subseteq signal' /\ signal' = Signalled(Root)
        /\ swept' = swept \cup {Root} /\ late' = late /\ phase' = phase
    BY <1>8 DEF StopFromApi, Signalled
  <2>2. Parent[b] = Root /\ Alive(b) => b \in signal'
    BY <2>1, SweepSignals
  <2> QED
    BY <1>1, <2>1, <2>2 DEF Alive, Stopping
<1>9. CASE UNCHANGED <<phase, signal, swept, late>>
  BY <1>1, <1>9 DEF Alive, Stopping
<1> QED
  BY <1>2, <1>3, <1>4, <1>5, <1>6, <1>7, <1>8, <1>9, Steps DEF TaskAborted, StopListening, vars

(* Once a context has signalled its actors, each one alive has the signal  *)
(* or has seen it, but for those its tasks started later (actor.rs:146-160). *)
THEOREM SweepCorrect == Spec => []SweepReachesAll
<1>1. Init => SweepReachesAll
  BY DEF Init, SweepReachesAll
<1>2. Structure /\ ParentKnowsTheLiving /\ SweepReachesAll /\ [Next]_vars => SweepReachesAll'
  BY StepSweep
<1> QED
  BY <1>1, <1>2, StructureCorrect, KnownCorrect, PTL DEF Spec
------------------------------------------------------------------------------------
(* A connection whose receive task has ended never runs one again.         *)
LEMMA EndedStaysEnded ==
  ASSUME Structure, [Next]_vars, NEW b \in Actors, HasEnded(b)
  PROVE  HasEnded(b)'
<1>1. b \in Conns /\ tasks[b] = "ended" /\ phase[b] # "pre_start"
  BY DEF HasEnded, Structure, TasksAfterPreStart
<1>2. ASSUME NEW a \in Actors, PreStartDone(a)
      PROVE  HasEnded(b)'
  BY <1>1, <1>2 DEF HasEnded, PreStartDone, Structure, TypeOK
<1>3. ASSUME NEW a \in Actors, SeeStop(a)
      PROVE  HasEnded(b)'
  BY <1>1, <1>3 DEF HasEnded, SeeStop, Structure, TypeOK
<1>4. ASSUME NEW a \in Actors, TaskAborted(a) \/ ConnectionEnds(a)
      PROVE  HasEnded(b)'
  BY <1>1, <1>4 DEF HasEnded, TaskAborted, ConnectionEnds, Structure, TypeOK
<1>5. CASE UNCHANGED tasks
  BY <1>1, <1>5 DEF HasEnded
<1> QED
  BY <1>2, <1>3, <1>4, <1>5, Steps DEF Starts, Start, Sweep, Leave, StopListening, StopFromApi, vars

LEMMA StepEnds ==
  ASSUME Structure, EndsAreCaused, [Next]_vars
  PROVE  EndsAreCaused'
<1> SUFFICES ASSUME Root \notin swept', NEW b \in Actors, (b \in signal \/ Stopping(b))'
             PROVE  HasEnded(b)'
  BY DEF EndsAreCaused
<1>1. Root \notin swept => (b \in signal \/ Stopping(b) => HasEnded(b)')
  BY EndedStaysEnded DEF EndsAreCaused
<1>2. ASSUME NEW a \in Actors, Starts(a)
      PROVE  HasEnded(b)'
  BY <1>1, <1>2 DEF Starts, Start, Stopping, Structure, TypeOK
<1>3. ASSUME NEW a \in Actors, PreStartDone(a)
      PROVE  HasEnded(b)'
  BY <1>1, <1>3 DEF PreStartDone, Stopping, Structure, TypeOK
<1>4. ASSUME NEW a \in Actors, SeeStop(a)
      PROVE  HasEnded(b)'
  BY <1>1, <1>4 DEF SeeStop, Stopping, Structure, TypeOK
<1>5. ASSUME NEW a \in Actors, Sweep(a)
      PROVE  HasEnded(b)'
  <2>1. Root \notin swept /\ a \in Conns
    BY <1>5, Tree DEF Sweep, EndsAreCaused, Stopping, HasEnded
  <2>2. stop_signals[a] \subseteq {a} /\ Stopping(a)
    BY <1>5, <2>1 DEF Sweep, Stopping, Structure, ConnectionsAreLeaves
  <2>3. signal' \subseteq signal \cup {a}
    BY <1>5, <2>2 DEF Sweep, Signalled
  <2>4. Stopping(b)' => Stopping(b)
    BY <1>5 DEF Sweep, Stopping, Structure, TypeOK
  <2> QED
    BY <1>1, <2>1, <2>2, <2>3, <2>4
<1>6. ASSUME NEW a \in Actors, Leave(a)
      PROVE  HasEnded(b)'
  BY <1>1, <1>6 DEF Leave, Stopping, Structure, TypeOK
<1>7. ASSUME NEW a \in Actors, ConnectionEnds(a)
      PROVE  HasEnded(b)'
  <2>1. a \in Conns /\ stop_signals[a] \subseteq {a}
    BY <1>7 DEF ConnectionEnds, Structure, ConnectionsAreLeaves
  <2>2. signal' \subseteq signal \cup {a} /\ phase' = phase /\ swept' = swept
    BY <1>7, <2>1 DEF ConnectionEnds, Signalled
  <2>3. HasEnded(a)'
    BY <1>7, <2>1 DEF ConnectionEnds, HasEnded, Structure, TypeOK
  <2> QED
    BY <1>1, <2>2, <2>3 DEF Stopping
<1>8. CASE StopFromApi
  BY <1>8 DEF StopFromApi
<1>9. CASE UNCHANGED <<phase, signal, swept>>
  BY <1>1, <1>9 DEF Stopping
<1> QED
  BY <1>2, <1>3, <1>4, <1>5, <1>6, <1>7, <1>8, <1>9, Steps DEF TaskAborted, StopListening, vars

LEMMA EndsCorrect == Spec => []EndsAreCaused
<1>1. Init => EndsAreCaused
  BY DEF Init, EndsAreCaused, Stopping
<1>2. Structure /\ EndsAreCaused /\ [Next]_vars => EndsAreCaused'
  BY StepEnds
<1> QED
  BY <1>1, <1>2, StructureCorrect, PTL DEF Spec

(* Until the application calls stop, no actor but a connection stops, in   *)
(* any tree (actor.rs:146-160, ws_conn.rs:40-55).                          *)
THEOREM OnlyConnectionsCorrect == Spec => []OnlyConnectionsEnd
<1>1. EndsAreCaused => OnlyConnectionsEnd
  BY DEF EndsAreCaused, OnlyConnectionsEnd, HasEnded
<1> QED
  BY <1>1, EndsCorrect, PTL
------------------------------------------------------------------------------------
LEMMA StepFlag ==
  ASSUME Structure, EndsAreCaused, FlagIsCaused, [Next]_vars
  PROVE  FlagIsCaused'
<1>1. FlagIsCaused /\ is_stopped => Root \in swept \/ \E b \in Conns : HasEnded(b)'
  BY EndedStaysEnded, Tree DEF FlagIsCaused
<1>2. ASSUME NEW a \in Actors, Sweep(a)
      PROVE  FlagIsCaused'
  <2>1. Root \in swept \/ HasEnded(a)
    BY <1>2 DEF EndsAreCaused, Sweep, Stopping
  <2>2. Root \in swept' \/ (a \in Conns /\ HasEnded(a)')
    BY <1>2, <2>1, EndedStaysEnded DEF Sweep, HasEnded
  <2> QED
    BY <2>2 DEF FlagIsCaused
<1>3. ASSUME NEW a \in Actors, ConnectionEnds(a)
      PROVE  FlagIsCaused'
  <2>1. a \in Conns /\ HasEnded(a)'
    BY <1>3 DEF ConnectionEnds, HasEnded, Structure, TypeOK
  <2> QED
    BY <2>1 DEF FlagIsCaused
<1>4. CASE StopFromApi
  BY <1>4 DEF StopFromApi, FlagIsCaused
<1>5. CASE UNCHANGED <<is_stopped, swept>>
  BY <1>1, <1>5 DEF FlagIsCaused
<1> QED
  BY <1>2, <1>3, <1>4, <1>5, Steps
     DEF Starts, Start, PreStartDone, SeeStop, Leave, TaskAborted, StopListening, vars

LEMMA StepListening ==
  ASSUME Structure, FlagIsCaused, EndsAreCaused, ListeningUntilSomeEnd, [Next]_vars
  PROVE  ListeningUntilSomeEnd'
<1> DEFINE Caused == Root \in swept \/ \E b \in Conns : tasks[b] = "ended"
           Deaf(a) == phase[a] = "running" /\ a \notin listening
<1> SUFFICES ASSUME NEW m \in Multicasts, Deaf(m)'
             PROVE  Caused'
  BY DEF ListeningUntilSomeEnd
<1>1. Root \in swept => Root \in swept'
  BY Steps DEF Starts, Start, PreStartDone, SeeStop, Sweep, Leave, TaskAborted,
               ConnectionEnds, StopListening, StopFromApi, vars
<1>2. Caused => Caused'
  BY <1>1, EndedStaysEnded, Tree DEF HasEnded
<1>3. CASE Deaf(m)
  BY <1>2, <1>3 DEF ListeningUntilSomeEnd
<1>4. CASE ~Deaf(m)
  <2>1. ASSUME NEW a \in Actors, StopListening(a)
        PROVE  Caused'
    BY <1>2, <2>1 DEF StopListening, FlagIsCaused, HasEnded
  <2>2. ASSUME NEW a \in Actors, Starts(a)
        PROVE  FALSE
    BY <1>4, <2>2, Tree DEF Starts, Start, Structure, TypeOK
  <2>3. ASSUME NEW a \in Actors, PreStartDone(a)
        PROVE  FALSE
    BY <1>4, <2>3, Tree DEF PreStartDone, Structure, TypeOK
  <2>4. ASSUME NEW a \in Actors, SeeStop(a) \/ Sweep(a) \/ Leave(a)
        PROVE  FALSE
    BY <1>4, <2>4, Tree DEF SeeStop, Sweep, Leave, Structure, TypeOK
  <2>5. CASE UNCHANGED <<phase, listening>>
    BY <1>4, <2>5
  <2> QED
    BY <2>1, <2>2, <2>3, <2>4, <2>5, Steps DEF TaskAborted, ConnectionEnds, StopFromApi, vars
<1> QED
  BY <1>3, <1>4

(* The multicast receive loops go on until the application stops or a      *)
(* connection has ended (actor.rs:154, multicast.rs).                      *)
THEOREM ListeningCorrect == Spec => []ListeningUntilSomeEnd
<1>1. Init => FlagIsCaused /\ ListeningUntilSomeEnd
  BY TreeAssumption DEF Init, FlagIsCaused, ListeningUntilSomeEnd
<1>2. Structure /\ EndsAreCaused /\ FlagIsCaused /\ [Next]_vars => FlagIsCaused'
  BY StepFlag
<1>3. Structure /\ EndsAreCaused /\ FlagIsCaused /\ ListeningUntilSomeEnd /\ [Next]_vars
        => ListeningUntilSomeEnd'
  BY StepListening
<1> QED
  BY <1>1, <1>2, <1>3, StructureCorrect, EndsCorrect, PTL DEF Spec

(* A stop finds every actor that lives, in every tree.                      *)
THEOREM StopCorrect == Spec => []StopFindsAll
<1> QED
  BY TypeCorrect, KnownCorrect, SweepCorrect, PTL DEF StopFindsAll

(* The end of a connection is that of no other actor.                       *)
THEOREM OneEndCorrect == Spec => []OneEndIsLocal
<1> QED
  BY OnlyConnectionsCorrect, ListeningCorrect, PTL DEF OneEndIsLocal
====================================================================================
