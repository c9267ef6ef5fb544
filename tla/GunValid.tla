------------------------------ MODULE GunValid ------------------------------
(***************************************************************************)
(* Which values a node may have (assets/stats/gun.js): valid, and Val.is   *)
(* of the older helpers with the map over objects that it is built on.     *)
(*                                                                         *)
(* A value is a record of what it is, its text if it is one, and its       *)
(* entries, in the order in which they were set, if it is an object.       *)
(* "boxed" are Boolean and Number objects; arrays, functions and objects   *)
(* of other classes are "other".                                           *)
(***************************************************************************)
EXTENDS Naturals, Sequences, SequencesExt

CONSTANTS
    Names,      \* keys other than "#"
    Souls,      \* texts; "" is one, too
    MaxEntries  \* bound on the entries of an object

ValidAssumption ==
    /\ "#" \notin Names
    /\ "" \notin Souls
    /\ MaxEntries \in Nat

VARIABLES
    value,
    out         \* what came of it

vars == <<value, out>>

NoResult == <<>>
Nothing == ""   \* no id, or a false one

Value(is, text, entries) == [is |-> is, text |-> text, entries |-> entries]

Kinds == {"undefined", "null", "NaN", "Infinity", "-Infinity", "number",
          "boolean", "boxed", "other"}

(* The value of an entry: a text, or something else.  *)
Entry == [key : Names \cup {"#"}, text : Souls \cup {""}, is : {"text"}]
            \cup [key : Names \cup {"#"}, text : {""}, is : {"number"}]

Values == {Value(is, "", <<>>) : is \in Kinds}
            \cup {Value("text", t, <<>>) : t \in Souls \cup {""}}
            \cup {Value("object", "", es) :
                     es \in {s \in BoundedSeq(Entry, MaxEntries) :
                               \A i, j \in DOMAIN s : s[i].key = s[j].key => i = j}}

Init == /\ value \in Values
        /\ out = NoResult

-----------------------------------------------------------------------------
Answer(is, soul) == [is |-> is, soul |-> soul]

(* The text under "#" of an object, or Nothing.  *)
SoulOf(v) ==
    LET at == {i \in DOMAIN v.entries : v.entries[i].key = "#"}
    IN IF at = {} THEN Nothing ELSE v.entries[CHOOSE i \in at : TRUE].text

(* Object.empty(o, n): it has no keys but those of n.  *)
empty(v, n) == \A i \in DOMAIN v.entries : v.entries[i].key \in n

(* Mutant: what is no number is a number.  *)
ValidNaN(v) ==
    IF v.is \in {"null", "text", "boolean", "number", "-Infinity", "NaN"}
    THEN Answer(TRUE, Nothing)
    ELSE IF v.is = "object" /\ SoulOf(v) # Nothing /\ empty(v, {"#"})
         THEN Answer(TRUE, SoulOf(v))
         ELSE Answer(FALSE, Nothing)

(* valid(v): simple values are, and a link, of which the soul is returned. *)
valid(v) ==
    IF v.is \in {"null", "text", "boolean", "number", "-Infinity"}
    THEN Answer(TRUE, Nothing)
    ELSE IF v.is = "object" /\ SoulOf(v) # Nothing /\ empty(v, {"#"})
         THEN Answer(TRUE, SoulOf(v))
         ELSE Answer(FALSE, Nothing)

(* map of Val.link.is: an id with anything else, before or after it, is    *)
(* none.                                                                   *)
map(o, e) ==
    IF o.id # Nothing THEN [id |-> Nothing, end |-> TRUE]
    ELSE IF e.key = "#" /\ e.is = "text" THEN [id |-> e.text, end |-> FALSE]
    ELSE [id |-> Nothing, end |-> TRUE]

(* obj.map(l, map, o) for an object: map is called until it returns        *)
(* something; here it returns the o that it leaves, in which end tells     *)
(* that.                                                                   *)
objMap(l, o) ==
    LET p[n \in 0 .. Len(l)] == IF n = 0 THEN o
                                ELSE IF p[n - 1].end THEN p[n - 1]
                                ELSE map(p[n - 1], l[n])
    IN p[Len(l)]

(* v[key] is there, and not the empty text.  *)
Truthy(v, key) == \E i \in DOMAIN v.entries :
                     /\ v.entries[i].key = key
                     /\ v.entries[i].is = "text" => v.entries[i].text # ""

(* Val.link.is(v): its id.  A "#" that is not a text counts, at first.     *)
linkIs(v) ==
    IF v.is = "object" /\ Truthy(v, "#") /\ ~Truthy(v, "_")
    THEN objMap(v.entries, [id |-> Nothing, end |-> FALSE]).id
    ELSE Nothing

(* Val.is(v)  *)
valIs(v) ==
    IF v.is \in {"null", "text", "boolean", "number", "-Infinity", "boxed"}
    THEN Answer(TRUE, Nothing)
    ELSE Answer(linkIs(v) # Nothing, linkIs(v))

(* What a value is when it has been written as JSON and read again.        *)
Json(v) == CASE v.is \in {"NaN", "Infinity", "-Infinity"} -> Value("null", "", <<>>)
             [] v.is = "boxed" -> Value("number", "", <<>>)
             [] OTHER -> v

Check == /\ out = NoResult
         /\ out' = [valid |-> valid(value), old |-> valIs(value)]
         /\ UNCHANGED value

Next == Check

Spec == Init /\ [][Next]_vars

-----------------------------------------------------------------------------
(* What a peer takes for valid data is still the same when it comes back   *)
(* from localStorage or over the wire, as JSON.  Not so -Infinity, which   *)
(* passes and comes back as null, that is, deleted (gun.js:134-147).       *)
Survives ==
    out # NoResult /\ out.valid.is =>
        \/ Json(value) = value
        \/ value.is = "-Infinity" /\ Json(value).is = "null"

(* The older check takes the same values for valid, and the same for links *)
(* to the same souls, in whatever order the keys of an object come; but it *)
(* takes Boolean and Number objects, too (gun.js:1924-1955).               *)
OldAgrees ==
    out # NoResult =>
        out.old = IF value.is = "boxed" THEN Answer(TRUE, Nothing) ELSE out.valid
=============================================================================
