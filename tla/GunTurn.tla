------------------------------- MODULE GunTurn -------------------------------
(***************************************************************************)
(* The scheduler of a browser peer: setTimeout.poll, turn and each of      *)
(* assets/stats/gun.js.  turn queues a function; one poller, T, runs the   *)
(* queued functions one by one, either straight on the stack or from a     *)
(* timer, whatever poll decides by the time that has passed.  each feeds a *)
(* list to a callback in batches of S, giving up its turn in between.      *)
(***************************************************************************)
EXTENDS Integers, Sequences, SequencesExt

CONSTANTS
    Tasks,      \* functions given to turn by other code
    Jobs,       \* lists given to each
    Items,      \* the length of every list
    S,          \* items of a batch: 9, 99 or more in the code
    K,          \* functions run before the queue is cut: 99 in the code
    MaxTurns    \* bound on the calls of turn by tasks and by other code

TurnAssumption ==
    /\ Tasks \cap Jobs = {}
    /\ Items \in Nat
    /\ S \in Nat \ {0}
    /\ K \in Nat \ {0}
    /\ MaxTurns \in Nat

VARIABLES
    s,      \* the queue; it is cut only when K have run or all have
    i,      \* how many of it have run
    poll,   \* T is called: "no", "stack" or "timer"
    left,   \* how many items of a list are left, Items + 1 before each
    ended,  \* how often a job's end callback was called
    broke,  \* the jobs whose callback has returned a value
    asked,  \* history: all that was given to turn
    ran,    \* history: all that T has run
    threw   \* history: a function has thrown

vars == <<s, i, poll, left, ended, broke, asked, ran, threw>>

Init == /\ s = <<>>
        /\ i = 0
        /\ poll = "no"
        /\ left = [j \in Jobs |-> Items + 1]
        /\ ended = [j \in Jobs |-> 0]
        /\ broke = {}
        /\ asked = <<>>
        /\ ran = <<>>
        /\ threw = FALSE

(* poll(T): at once while little time has passed, or by a timer.  *)
Polls == {"stack", "timer"}

Outside == poll # "stack"

(* turn(f) by code that T has not called; only the first polls.  *)
Turn(f) == /\ s' = Append(s, f)
           /\ asked' = Append(asked, f)
           /\ IF Len(s') = 1 THEN poll' \in Polls ELSE poll' = poll

CallTurn(f) == /\ Outside
               /\ Len(asked) < MaxTurns
               /\ Turn(f)
               /\ UNCHANGED <<i, left, ended, broke, ran, threw>>

Least(a, b) == IF a < b THEN a ELSE b

(* The next batch of a job: the callback gets n items, and returns a value *)
(* for the last of them if it breaks off.                                  *)
Batch(j, n, breaks) ==
    /\ n \in 0 .. Least(S, left[j])
    /\ breaks => n > 0
    /\ ~breaks => n = Least(S, left[j])
    /\ left' = [left EXCEPT ![j] = @ - n]
    /\ broke' = IF breaks THEN broke \cup {j} ELSE broke
    /\ ended' = IF breaks \/ n = 0 THEN [ended EXCEPT ![j] = @ + 1] ELSE ended

(* Mutant: a job whose batch was not full does not go on.  *)
GoesOnFull(n, breaks) == n = S /\ ~breaks

(* t queues itself again.  *)
GoesOn(n, breaks) == n > 0 /\ ~breaks

(* each(list, f, end): the first batch is run by the caller.  *)
Each(j, breaks) ==
    LET n == Least(S, Items) IN
    /\ Outside
    /\ left[j] = Items + 1
    /\ Len(asked) < MaxTurns
    /\ breaks => n > 0
    /\ left' = [left EXCEPT ![j] = Items - n]
    /\ broke' = IF breaks THEN broke \cup {j} ELSE broke
    /\ ended' = IF breaks \/ n = 0 THEN [ended EXCEPT ![j] = 1] ELSE ended
    /\ IF GoesOn(n, breaks) THEN Turn(j) ELSE UNCHANGED <<s, asked, poll>>
    /\ UNCHANGED <<i, ran, threw>>

(* The queue q, of which k have run, after a function: cut if it is time.  *)
Cut(q, k) == IF k = Len(q) \/ k = K
             THEN [s |-> SubSeq(q, k + 1, Len(q)), i |-> 0]
             ELSE [s |-> q, i |-> k]

(* Mutant: T does not go on once the queue was cut.  *)
ContinueUncut(new) ==
    LET cut == Cut(s \o new, i + 1) IN
    /\ s' = cut.s
    /\ i' = cut.i
    /\ asked' = asked \o new
    /\ ran' = Append(ran, s[i + 1])
    /\ IF cut.i = 0 THEN poll' = "no" ELSE poll' \in Polls

(* T after its function has queued new and returned.  *)
Continue(new) ==
    LET cut == Cut(s \o new, i + 1) IN
    /\ s' = cut.s
    /\ i' = cut.i
    /\ asked' = asked \o new
    /\ ran' = Append(ran, s[i + 1])
    /\ IF cut.s = <<>> THEN poll' = "no" ELSE poll' \in Polls

(* T runs a function, which may call turn itself.  *)
RunTask == /\ poll # "no"
           /\ s[i + 1] \in Tasks
           /\ \E new \in {<<>>} \cup {<<f>> : f \in Tasks} :
                 /\ new # <<>> => Len(asked) < MaxTurns
                 /\ Continue(new)
           /\ UNCHANGED <<left, ended, broke, threw>>

(* T runs the next batch of a job, which queues itself again.  *)
RunBatch == /\ poll # "no"
            /\ s[i + 1] \in Jobs
            /\ LET j == s[i + 1] IN
               \E n \in 0 .. S, breaks \in BOOLEAN :
                  /\ Batch(j, n, breaks)
                  /\ Continue(IF GoesOn(n, breaks) THEN <<j>> ELSE <<>>)
            /\ UNCHANGED threw

(* The function throws: the rest of T is not run.  *)
Throw == /\ poll # "no"
         /\ s[i + 1] \in Tasks
         /\ i' = i + 1
         /\ poll' = "no"
         /\ ran' = Append(ran, s[i + 1])
         /\ threw' = TRUE
         /\ UNCHANGED <<s, left, ended, broke, asked>>

Next == \/ \E f \in Tasks : CallTurn(f)
        \/ \E j \in Jobs, breaks \in BOOLEAN : Each(j, breaks)
        \/ RunTask
        \/ RunBatch
        \/ Throw

(* The poller's timer fires; calls on the stack are made.  *)
Fairness == WF_vars(RunTask \/ RunBatch)

Spec == Init /\ [][Next]_vars /\ Fairness

-----------------------------------------------------------------------------
(* Functions are run once each, in the order they were queued, whoever     *)
(* queued them (turn, gun.js:72-80).                                       *)
RunsInOrder == IsPrefix(ran, asked)

(* The poller is called while functions are waiting, unless one has        *)
(* thrown: then i is ahead, the queue is never empty again, and nobody     *)
(* calls the poller any more (turn, gun.js:74-79).                         *)
NobodyForgotten == ran # asked => poll # "no" \/ threw

(* A list is either fed to the end or broken off, and its end callback is  *)
(* called once, whatever else takes turns in between (each, gun.js:84-91). *)
EndsOnce == \A j \in Jobs : /\ ended[j] <= 1
                            /\ ended[j] = 1 => j \in broke \/ left[j] = 0

(* Every list that is begun ends unless a function throws.  *)
ListsEnd == \A j \in Jobs : left[j] <= Items ~> ended[j] = 1 \/ threw
=============================================================================
