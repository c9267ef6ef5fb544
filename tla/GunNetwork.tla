------------------------------ MODULE GunNetwork -----------------------------
(***************************************************************************)
(* The parts of a browser peer that speak to other peers, each with        *)
(* constants and variables of its own, and what is promised of each.       *)
(***************************************************************************)
EXTENDS Integers, Sequences, GunParts

CONSTANTS
    MeshPack, MeshS, MeshRetries, MeshMaxMessages, MeshMaxSockets, MeshMaxHides,
    WireNodes, WireLinks, WireListed, WireAsker, WireWriter, WireHeld, WireWritten

VARIABLES
    listed, wire, socket, opened, batch, open, flushes, queue, rests, defer,
    loose, retry, mesh_gets, hello, hides, messages, mesh_sent, gone, missed, mesh_cut, aside,
    wire_data, put_via, get_via, ask, wire_seen, ash, net, took, wire_rolled

Mesh == INSTANCE GunMesh WITH
        Pack <- MeshPack, S <- MeshS, Retries <- MeshRetries,
        MaxMessages <- MeshMaxMessages, MaxSockets <- MeshMaxSockets,
        MaxHides <- MeshMaxHides, sent <- mesh_sent, cut <- mesh_cut,
        gets <- mesh_gets

Wire == INSTANCE GunWire WITH
        Nodes <- WireNodes, Links <- WireLinks, Listed <- WireListed,
        Asker <- WireAsker, Writer <- WireWriter, Held <- WireHeld, Written <- WireWritten,
        data <- wire_data, seen <- wire_seen, rolled <- wire_rolled

(* What the modules ask of their constants.  *)
ASSUME NetworkAssumption ==
    /\ Mesh!MeshAssumption
    /\ Wire!WireAssumption

-----------------------------------------------------------------------------
(* Messages to a peer survive its sockets, in order unless hi asks before  *)
(* it sends or has too much to send, over one at a time.                   *)
MeshKeepsMessages ==
    part = "mesh" =>
        /\ Mesh!NothingVanishes
        /\ Mesh!SentInOrder
        /\ Mesh!OneSocket

(* A peer that was lost is connected to again.                             *)
MeshComesBack == Mesh!ComesBack

(* Relaying skips peers and drops duplicates, and still nothing is missed, *)
(* but answers where the lists of peers are cut.                           *)
WireReachesAll ==
    part = "wire" =>
        /\ Wire!WriteReachesAll
        /\ Wire!LatestIsTaken
        /\ Wire!TakenOnce
=============================================================================
