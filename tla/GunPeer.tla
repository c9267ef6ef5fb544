------------------------------- MODULE GunPeer ------------------------------
(***************************************************************************)
(* The parts of a browser peer that work for themselves, of which theorems *)
(* are proved, each with constants and variables of its own, and what is   *)
(* promised of each; the name of a part comes before the names that        *)
(* modules have in common.  GunNetwork has the parts that speak to others. *)
(***************************************************************************)
EXTENDS Integers, Sequences, GunParts

CONSTANTS
    ClockD, ClockMaxTime, ClockMaxCalls,
    TurnTasks, TurnJobs, TurnItems, TurnS, TurnK, TurnMaxTurns,
    PutKeys, PutMessages, PutEntries, PutAnswers, PutMisses, PutChunk,
    PutMaxTime, PutMaxFaults,
    DupIds, DupAge, DupSlack, DupBatch, DupMaxTime,
    OnceOthers, OnceMaxMessages,
    SoulCallers, SoulPeers, SoulMaxFound,
    ResyncLack, ResyncMaxTime, ResyncMaxByes

VARIABLES
    clock_time, clock_last, N, calls, steady, burst,
    turn_s, turn_i, poll, turn_left, ended, broke, turn_asked, ran, turn_threw,
    put_now, put_graph, disk, store, ctx, put_at, later, acks, put_to,
    acking, put_peers, fails, reloads, offs, put_rolled, deferred, taken,
    dup_time, was, dup_now, dup_to, list, begun, used,
    once_core, once_put, there, once_due, done, stun, once_told, once_heard,
    count,
    soul_core, soul_peers, soul_asked, jam, going, requests, link, soul_told,
    found, moved, soul_threw,
    resync_time, resync_up, gets, timers, asks, resync_last, resync_cut

Clock == INSTANCE GunClock WITH
        D <- ClockD, MaxTime <- ClockMaxTime, MaxCalls <- ClockMaxCalls,
        time <- clock_time, last <- clock_last

Turn == INSTANCE GunTurn WITH
        Tasks <- TurnTasks, Jobs <- TurnJobs, Items <- TurnItems, S <- TurnS,
        K <- TurnK, MaxTurns <- TurnMaxTurns, s <- turn_s, i <- turn_i,
        left <- turn_left, asked <- turn_asked, threw <- turn_threw

Put == INSTANCE GunPut WITH
        Keys <- PutKeys, Messages <- PutMessages, Entries <- PutEntries,
        Answers <- PutAnswers, Misses <- PutMisses, Chunk <- PutChunk,
        MaxTime <- PutMaxTime, MaxFaults <- PutMaxFaults, now <- put_now,
        graph <- put_graph, at <- put_at, to <- put_to, peers <- put_peers,
        rolled <- put_rolled

Dup == INSTANCE GunDup WITH
        Ids <- DupIds, Age <- DupAge, Slack <- DupSlack, Batch <- DupBatch,
        MaxTime <- DupMaxTime, time <- dup_time, now <- dup_now, to <- dup_to

Once == INSTANCE GunOnce WITH
        Others <- OnceOthers, MaxMessages <- OnceMaxMessages,
        core <- once_core, put <- once_put, due <- once_due,
        told <- once_told, heard <- once_heard

Soul == INSTANCE GunSoul WITH
        Callers <- SoulCallers, Peers <- SoulPeers, MaxFound <- SoulMaxFound,
        core <- soul_core, peers <- soul_peers, asked <- soul_asked,
        told <- soul_told, threw <- soul_threw

Resync == INSTANCE GunResync WITH
        Lack <- ResyncLack, MaxTime <- ResyncMaxTime,
        MaxByes <- ResyncMaxByes, time <- resync_time, up <- resync_up,
        last <- resync_last, cut <- resync_cut

(* What the modules ask of their constants.  *)
ASSUME PeerAssumption ==
    /\ Clock!ClockAssumption
    /\ Turn!TurnAssumption
    /\ Put!PutAssumption
    /\ Dup!DupAssumption
    /\ Once!OnceAssumption
    /\ Soul!SoulAssumption
    /\ Resync!ResyncAssumption

-----------------------------------------------------------------------------
(* What the modules of the parts say of them, together.                    *)

(* Writes of one peer never tie, nor run ahead of its clock.               *)
ClockStatesAreUnique ==
    /\ [](part = "clock" => Clock!NotAheadOfTime)
    /\ Clock!StatesIncrease

(* Functions and lists take turns; none is left out, doubled or overtaken. *)
TurnForgetsNobody ==
    part = "turn" =>
        /\ Turn!RunsInOrder
        /\ Turn!NobodyForgotten
        /\ Turn!EndsOnce

(* A list that is worked off in turns comes to its end.                    *)
TurnListsEnd == Turn!ListsEnd

(* The latest write wins, and only answers and reloads undo that.          *)
PutLatestIsKept ==
    /\ [](part = "put" => Put!LatestWins)
    /\ Put!OnlyAnswersRollBack

(* What was written is answered truly, for all entries once, in the end;   *)
(* only a failing store adds errors to that.  Invalid messages are not     *)
(* handed on.                                                              *)
PutAnswersAreTrue ==
    part = "put" =>
        /\ Put!OkMeansStored
        /\ Put!Once
        /\ Put!InvalidIsNotRelayed
        /\ Put!WritesAreAnswered

(* Ids are known for as long as they should be, and no longer.             *)
DupKnowsTheRecent ==
    /\ [](part = "dup" => Dup!ForgetsStale)
    /\ Dup!KeepsFresh

(* The callback of once is called once, in the end, and with what there is.*)
OnceIsOnce ==
    /\ [](part = "once" => Once!CalledOnce /\ Once!CalledInTheEnd)
    /\ Once!NothingOnlyIfNothing

(* Who asks for a soul is told once, and nothing only if nobody has it.    *)
SoulToldToAll ==
    /\ [](part = "soul" => Soul!ToldOnce /\ Soul!NobodyWaitsInTheEnd)
    /\ Soul!NothingIfNobodyHas

(* A peer that comes back in time is asked for what was missed.            *)
ResyncAskedWhenBack == Resync!AskedWhenBack
=============================================================================
