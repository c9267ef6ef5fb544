------------------------------- MODULE GunText ------------------------------
(***************************************************************************)
(* Texts in assets/stats/gun.js: String.match with its older form          *)
(* Type.text.match, by which chains choose the keys of a LEX, and          *)
(* String.hash with mesh.hash, which tells answers with the same data.     *)
(*                                                                         *)
(* A text is a sequence of character codes.  A LEX is a function of the    *)
(* operators that it has: "=" for equal, "*" for a prefix, ">" and "<" for *)
(* the ends of a range.  An object is the sequence of its keys and values  *)
(* in the order in which they were set.                                    *)
(***************************************************************************)
EXTENDS Integers, Sequences, SequencesExt

CONSTANTS
    Texts,
    Lexes,
    Puts,       \* objects
    Modulus,    \* the number of hashes: 2^32 in the code
    Chunk       \* codes hashed in a turn: 32768 in the code

Ops == {"=", "*", ">", "<"}

TextAssumption ==
    /\ Texts \subseteq Seq(Nat)
    /\ \A o \in Lexes : \E D \in SUBSET Ops : o \in [D -> Seq(Nat)]
    /\ \A p \in Puts : /\ p \in Seq([key : Nat, val : Nat])
                       /\ \A i, j \in DOMAIN p : p[i].key = p[j].key => i = j
    /\ Modulus \in Nat \ {0}
    /\ Chunk \in Nat \ {0}

VARIABLES
    text, lex, put,     \* what is matched, and what is hashed
    out                 \* what came of it

vars == <<text, lex, put, out>>

NoResult == <<>>

(* A case is about a text and a LEX, or about an object.  *)
Init == /\ out = NoResult
        /\ \/ text \in Texts /\ lex \in Lexes /\ put = <<>>
           \/ text = <<>> /\ lex = <<>> /\ put \in Puts

-----------------------------------------------------------------------------
(* The order of texts: t <= u.  *)
UpTo(t, u) ==
    \/ IsPrefix(t, u)
    \/ \E i \in DOMAIN t \cap DOMAIN u :
          /\ t[i] < u[i]
          /\ \A j \in 1 .. i - 1 : t[j] = u[j]

Has(o, op) == op \in DOMAIN o

(* o[p] || o[q] || ...: the first that is there and not empty, and         *)
(* otherwise the last, if it is there.                                     *)
Or(o, ops) ==
    LET good == {i \in DOMAIN ops : Has(o, ops[i]) /\ o[ops[i]] # <<>>}
        i == IF good = {} THEN Len(ops) ELSE CHOOSE j \in good : \A k \in good : j <= k
    IN IF Has(o, ops[i]) THEN {o[ops[i]]} ELSE {}

InRange(t, o) ==
    IF Has(o, ">") /\ Has(o, "<") THEN UpTo(o[">"], t) /\ UpTo(t, o["<"])
    ELSE \/ Has(o, ">") /\ UpTo(o[">"], t)
         \/ Has(o, "<") /\ UpTo(t, o["<"])

(* Type.text.match: the end of a range is a prefix, too.  *)
OldMatch(t, o) ==
    \/ t \in Or(o, <<"=", "*", ">", "<">>)
    \/ /\ ~Has(o, "=")
       /\ \/ \E p \in Or(o, <<"*", ">", "<">>) : IsPrefix(p, t)
          \/ ~Has(o, "*") /\ InRange(t, o)

(* String.match  *)
match(t, o) ==
    \/ t \in Or(o, <<"=", "*", ">", "<">>)
    \/ /\ ~Has(o, "=")
       /\ \/ \E p \in Or(o, <<"*", ">">>) : IsPrefix(p, t)
          \/ ~Has(o, "*") /\ InRange(t, o)

-----------------------------------------------------------------------------
(* c |= 0: an integer of 32 bits with a sign.  *)
Int32(n) == LET r == n % Modulus IN IF 2 * r < Modulus THEN r ELSE r - Modulus

(* ((c<<5)-c)+n  *)
HashNext(c, n) == Int32(Int32(32 * c) - c + n)

(* Mutant: every piece is hashed from the start.  *)
HashAnew(s, c) ==
    LET h[i \in 0 .. Len(s)] == IF i = 0 THEN 0 ELSE HashNext(h[i - 1], s[i])
    IN h[Len(s)]

(* String.hash(s, c)  *)
hash(s, c) ==
    LET h[i \in 0 .. Len(s)] == IF i = 0 THEN c ELSE HashNext(h[i - 1], s[i])
    IN h[Len(s)]

(* sort(k, v): the entries in the order of their keys.  *)
sort(p) ==
    LET order == CHOOSE f \in Bijection(DOMAIN p, DOMAIN p) :
                    \A i, j \in DOMAIN p : i < j => p[f[i]].key < p[f[j]].key
    IN [i \in DOMAIN p |-> p[order[i]]]

(* json(msg.put, hash, sort), for keys and values of one character.  *)
Json(p) ==
    LET s[i \in 0 .. Len(p)] == IF i = 0 THEN <<>>
                                ELSE s[i - 1] \o <<sort(p)[i].key, sort(p)[i].val>>
    IN s[Len(p)]

(* mesh.hash(msg): Chunk characters a turn, going on from the hash of the   *)
(* ones before; what the turns pass on is the message's own.               *)
MeshHash(s) ==
    LET turns == (Len(s) + Chunk - 1) \div Chunk
        Piece(i) == SubSeq(s, Chunk * (i - 1) + 1, Min({Chunk * i, Len(s)}))
        h[i \in 0 .. turns] == IF i = 0 THEN 0 ELSE hash(Piece(i), h[i - 1])
    IN h[turns]

Run == /\ out = NoResult
       /\ out' = [match |-> match(text, lex), old |-> OldMatch(text, lex),
                  hash |-> MeshHash(text), put |-> MeshHash(Json(put))]
       /\ UNCHANGED <<text, lex, put>>

Next == Run

Spec == Init /\ [][Next]_vars

-----------------------------------------------------------------------------
(* A LEX without empty texts.  *)
Proper(o) == o # <<>> /\ \A op \in DOMAIN o : o[op] # <<>>

(* A LEX with "=" chooses that text; with "*", those with that prefix;     *)
(* else the texts in the range, and those that have its lower end as a     *)
(* prefix even if they are beyond the upper end.  The older form chooses   *)
(* those that have an upper end without a lower one as a prefix, too       *)
(* (gun.js:25-41, 1789-1805).  An empty text counts as absent in some of   *)
(* the comparisons, so {'*': ''} chooses nothing.                          *)
MatchesTheLex ==
    out # NoResult /\ Proper(lex) =>
        LET range == ~Has(lex, "=") /\ ~Has(lex, "*") IN
        /\ out.match <=>
              \/ Has(lex, "=") /\ text = lex["="]
              \/ ~Has(lex, "=") /\ Has(lex, "*") /\ IsPrefix(lex["*"], text)
              \/ range /\ InRange(text, lex)
              \/ range /\ Has(lex, ">") /\ IsPrefix(lex[">"], text)
        /\ out.old <=>
              \/ out.match
              \/ range /\ ~Has(lex, ">") /\ IsPrefix(lex["<"], text)

(* The hash of a text that is hashed piece by piece is the polynomial in   *)
(* 31 of its codes, cut to 32 bits, however the intermediate sums overflow *)
(* and wherever it is cut (gun.js:42-52, 1420-1430).                       *)
HashIsOfTheWhole ==
    out # NoResult =>
        LET sum[i \in 0 .. Len(text)] == IF i = 0 THEN 0 ELSE 31 * sum[i - 1] + text[i]
        IN out.hash = Int32(sum[Len(text)])

(* Peers that have the same data hash it alike, in whatever order its keys *)
(* came (gun.js:1433-1437).                                                *)
OrderDoesNotMatter ==
    out # NoResult =>
        \A p \in Puts : ToSet(p) = ToSet(put) => MeshHash(Json(p)) = out.put
=============================================================================
