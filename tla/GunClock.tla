------------------------------ MODULE GunClock ------------------------------
(***************************************************************************)
(* The clock of a browser peer, State() of assets/stats/gun.js.  It turns  *)
(* the milliseconds of the machine into states that order the writes of a  *)
(* peer: within a millisecond it counts calls in fractions of 1/D.  A      *)
(* state s is modelled by the integer s * D, so that a millisecond is D    *)
(* units; D is 999 in the code and small in the instances.                 *)
(***************************************************************************)
EXTENDS Integers

CONSTANTS
    D,          \* fractions of a millisecond
    MaxTime,    \* bound on the machine's time
    MaxCalls    \* bound on the calls within one millisecond

ClockAssumption ==
    /\ D \in Nat \ {0}
    /\ MaxTime \in Nat
    /\ MaxCalls \in Nat

VARIABLES
    time,       \* +new Date
    last,       \* the state returned last, times D
    N,          \* the counter of calls
    calls,      \* history: calls since the time changed last
    steady,     \* history: the machine's time was never set back
    burst       \* history: some millisecond saw more than D calls

vars == <<time, last, N, calls, steady, burst>>

(* -Infinity: less than every time times D.  *)
NI == -1

TypeOK == /\ time \in 0 .. MaxTime
          /\ last \in Nat \cup {NI}
          /\ N \in Nat
          /\ calls \in 0 .. MaxCalls
          /\ steady \in BOOLEAN
          /\ burst \in BOOLEAN

Init == /\ time = 0
        /\ last = NI
        /\ N = 0
        /\ calls = 0
        /\ steady = TRUE
        /\ burst = FALSE

(* Mutant: the count is compared with <=.                                  *)
NextNTie == IF last <= time * D THEN 0 ELSE N + 1

(* The count of the next state: it starts again when time has passed the   *)
(* last state.                                                             *)
NextN == IF last < time * D THEN 0 ELSE N + 1

(* State(): the call that stamps a write.  *)
State == /\ calls < MaxCalls
         /\ N' = NextN
         /\ last' = time * D + NextN
         /\ calls' = calls + 1
         /\ burst' = (burst \/ calls' > D)
         /\ UNCHANGED <<time, steady>>

(* The machine's time goes on.  *)
Tick == /\ time < MaxTime
        /\ time' = time + 1
        /\ calls' = 0
        /\ UNCHANGED <<last, N, steady, burst>>

(* The machine's time is set back, as a synchronisation may do.  *)
SetBack == /\ time > 0
           /\ steady
           /\ time' \in 0 .. time - 1
           /\ calls' = 0
           /\ steady' = FALSE
           /\ UNCHANGED <<last, N, burst>>

Next == State \/ Tick \/ SetBack

Spec == Init /\ [][Next]_vars

-----------------------------------------------------------------------------
(* While the machine's time does not go back, every state is later than    *)
(* all before it, so no two writes of a peer ever tie, however many calls  *)
(* a millisecond sees (State, gun.js:151-157).                             *)
StatesIncrease == [][calls' > calls /\ steady => last' > last]_vars

(* A peer whose millisecond never sees more than D calls stamps no write   *)
(* with a state of a later millisecond: such a write would be put off by   *)
(* the peers that receive it (gun.js:159 warns of machines fast enough).   *)
NotAheadOfTime == ~burst /\ steady => last < (time + 1) * D
=============================================================================
