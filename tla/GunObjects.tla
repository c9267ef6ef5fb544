------------------------------ MODULE GunObjects -----------------------------
(***************************************************************************)
(* The parts of a browser peer that take what the application puts, the    *)
(* check of values, the walk over objects, and the texts and hashes of     *)
(* them, each with constants and variables of its own, and what is         *)
(* promised of each.                                                       *)
(***************************************************************************)
EXTENDS Integers, Sequences, GunParts

CONSTANTS
    WalkObjects, WalkRoot, WalkKeys, WalkShapes, WalkValues, WalkOwn, WalkFound,
    ValidNames, ValidSouls, ValidMaxEntries,
    TextTexts, TextLexes, TextPuts, TextModulus, TextChunk

VARIABLES
    walk_shape, todo, walk_rest, walk_seen, walk_up, soul, node, walk_wait, held,
    walk_graph, walk_err, walk_sent,
    value, valid_out,
    text, lex, text_put, text_out

Walk == INSTANCE GunWalk WITH
        Objects <- WalkObjects, Root <- WalkRoot, Keys <- WalkKeys,
        Shapes <- WalkShapes, Values <- WalkValues, Own <- WalkOwn,
        Found <- WalkFound, shape <- walk_shape, rest <- walk_rest,
        seen <- walk_seen, up <- walk_up, wait <- walk_wait, graph <- walk_graph,
        err <- walk_err, sent <- walk_sent

Valid == INSTANCE GunValid WITH
        Names <- ValidNames, Souls <- ValidSouls,
        MaxEntries <- ValidMaxEntries, out <- valid_out

Text == INSTANCE GunText WITH
        Texts <- TextTexts, Lexes <- TextLexes, Puts <- TextPuts,
        Modulus <- TextModulus, Chunk <- TextChunk, put <- text_put,
        out <- text_out

(* What the modules ask of their constants.  *)
ASSUME ObjectsAssumption ==
    /\ Walk!WalkAssumption
    /\ Valid!ValidAssumption
    /\ Text!TextAssumption

-----------------------------------------------------------------------------
(* An object that is put is sent in the end, and whole.                    *)
WalkSendsTheObject ==
    /\ [](part = "walk" => Walk!SentIsWhole)
    /\ (part = "walk" => Walk!PutEnds)

(* Data that is valid survives the wire, and is valid for older peers, too.*)
ValidDataSurvives ==
    part = "valid" =>
        /\ Valid!Survives
        /\ Valid!OldAgrees

(* A LEX chooses its texts, and peers hash the same data alike.            *)
TextAgrees ==
    part = "text" =>
        /\ Text!MatchesTheLex
        /\ Text!HashIsOfTheWhole
        /\ Text!OrderDoesNotMatter
=============================================================================
