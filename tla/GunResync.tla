------------------------------ MODULE GunResync -----------------------------
(***************************************************************************)
(* What a browser peer asks of a peer that comes back (gets in Mesh of     *)
(* assets/stats/gun.js): everything that its chains are about, if the      *)
(* peer has not been away for too long.  The requests go out in turns,     *)
(* which is left out here.                                                 *)
(*                                                                         *)
(* A peer goes (bye) when its socket closes, also one that has never       *)
(* opened: each attempt to connect that fails is another bye.              *)
(***************************************************************************)
EXTENDS Integers, Sequences

CONSTANTS
    Lack,       \* opt.lack
    MaxTime,    \* bound on the time
    MaxByes     \* bound on how often the peer goes

ResyncAssumption ==
    /\ Lack \in Nat \ {0}
    /\ {MaxTime, MaxByes} \subseteq Nat

VARIABLES
    time,
    up,         \* there has been a hi since the last bye
    gets,       \* gets[peer.url]
    timers,     \* when those of the byes end, in order
    asks,       \* history: how often the peer was asked for everything
    last,       \* history: the time of the last bye, or -1
    cut         \* history: a timer of an earlier bye has ended since then

vars == <<time, up, gets, timers, asks, last, cut>>

Init == /\ time = 0
        /\ up = FALSE
        /\ gets = FALSE
        /\ timers = <<>>
        /\ asks = 0
        /\ last = -1
        /\ cut = FALSE

(* Mutant: a peer that has gone is remembered for ever.                    *)
ByeForEver == /\ Len(timers) < MaxByes
              /\ up' = FALSE
              /\ gets' = TRUE
              /\ last' = time
              /\ cut' = FALSE
              /\ UNCHANGED <<time, asks, timers>>

Bye == /\ Len(timers) < MaxByes
       /\ up' = FALSE
       /\ gets' = TRUE
       /\ timers' = Append(timers, time + Lack)
       /\ last' = time
       /\ cut' = FALSE
       /\ UNCHANGED <<time, asks>>

Hi == /\ ~up
      /\ up' = TRUE
      /\ gets' = FALSE
      /\ asks' = IF gets THEN asks + 1 ELSE asks
      /\ UNCHANGED <<time, timers, last, cut>>

(* The timer of a bye, whichever bye that was.  *)
Forget == /\ timers # <<>>
          /\ Head(timers) <= time
          /\ gets' = FALSE
          /\ timers' = Tail(timers)
          /\ cut' = (cut \/ Head(timers) < last + Lack)
          /\ UNCHANGED <<time, up, asks, last>>

Tick == /\ time < MaxTime
        /\ \A i \in DOMAIN timers : timers[i] > time
        /\ time' = time + 1
        /\ UNCHANGED <<up, gets, timers, asks, last, cut>>

Next == Bye \/ Hi \/ Forget \/ Tick

Spec == Init /\ [][Next]_vars

-----------------------------------------------------------------------------
(* A peer that comes back before Lack is over is asked for everything, and *)
(* one that comes later, or for the first time, is not.  This is so unless *)
(* the timer of an earlier bye has ended since it last went, as it does    *)
(* every so often when attempts to connect have failed for longer than     *)
(* Lack: that timer forgets the later bye, too (gun.js:1624-1631).         *)
AskedWhenBack ==
    [][up' /\ ~up =>
          /\ asks' > asks => last >= 0 /\ time <= last + Lack
          /\ last >= 0 /\ time < last + Lack /\ ~cut => asks' > asks]_vars
=============================================================================
