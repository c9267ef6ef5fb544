----------------------------- MODULE GunListeners ----------------------------
(***************************************************************************)
(* The parts of a browser peer that call listeners, those of an event and  *)
(* those of a chain, each with constants and variables of its own, and     *)
(* what is promised of each.                                               *)
(***************************************************************************)
EXTENDS Integers, Sequences, GunParts

CONSTANTS
    EventsTags, EventsListeners, EventsMaxObjects, EventsMaxEvents,
    ReadListeners, ReadWrites, ReadLocal, ReadSize

VARIABLES
    table, tag_of, made, events_to, back, last_of, the, off_at, events_err,
    events_at, calling, rearm, events, order, events_due, events_heard,
    expired, again,
    read_data, once, id, run, stuns, phase, read_left, hatch, latch, match,
    add, read_wait, got, failed, crowd

Events == INSTANCE GunEvents WITH
        Tags <- EventsTags, Listeners <- EventsListeners,
        MaxObjects <- EventsMaxObjects, MaxEvents <- EventsMaxEvents,
        to <- events_to, err <- events_err, at <- events_at,
        due <- events_due, heard <- events_heard

Read == INSTANCE GunRead WITH
        Listeners <- ReadListeners, Writes <- ReadWrites, Local <- ReadLocal,
        Size <- ReadSize, data <- read_data, left <- read_left,
        wait <- read_wait

(* What the modules ask of their constants.  *)
ASSUME ListenersAssumption ==
    /\ Events!EventsAssumption
    /\ Read!ReadAssumption

-----------------------------------------------------------------------------
(* An event goes along the list of live listeners while they change it.    *)
EventsReachListeners ==
    part = "events" =>
        /\ Events!ListIsLive
        /\ Events!EventReachesAll
        /\ Events!ExpiredIsSilent

(* Listeners wait for the writes under way, and do not wait for ever.      *)
ReadWaitsForWrites ==
    /\ [](part = "read" => Read!NobodyWaitsForever /\ Read!BatchesAreKept)
    /\ Read!NoReadWhileWrite
=============================================================================
