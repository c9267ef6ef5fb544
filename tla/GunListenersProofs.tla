------------------------- MODULE GunListenersProofs -------------------------
(***************************************************************************)
(* What GunListeners and GunObjects promise of the parts of a browser peer *)
(* that call listeners, and of those that take what is put, proved for all *)
(* values of their constants.                                              *)
(***************************************************************************)
EXTENDS GunListeners, GunObjects, FiniteSets, FiniteSetTheorems,
        SequenceTheorems, WellFoundedInduction, TLAPS

LEMMA LeastNatural ==
  ASSUME NEW S \in SUBSET Nat, S # {}
  PROVE  \E n \in S : \A k \in S : n <= k
<1>1. PICK n \in S : \A k \in S : <<k, n>> \notin OpToRel(<, Nat)
  BY WFMin, NatLessThanWellFounded, Zenon
<1>2. \A k \in S : ~(k < n)
  BY <1>1, Zenon DEF OpToRel
<1> QED
  BY <1>2

-----------------------------------------------------------------------------
(* Reading while writing.                                                  *)

ReadPhases == {"new", "stun", "walk", "done"}

(* Pages, by the names of GunRead's record.  *)
ReadPages ==
  [data : Nat, id : [ReadListeners -> Nat], stuns : SUBSET ReadWrites,
   hatch : ReadWrites \cup {Read!None},
   latch : [ReadWrites -> ReadWrites \cup {Read!None}],
   match : [ReadWrites -> SUBSET ReadListeners],
   add : [ReadWrites -> SUBSET ReadListeners],
   wait : [ReadListeners -> BOOLEAN], got : [ReadListeners -> Nat]]

(* A listener will be called later: it is in the list of a write that is   *)
(* walked, or put off by a local one that has not ended, or ended badly.   *)
ReadLater(p, ph, bad, l) ==
  \/ \E v \in ReadWrites : l \in p.match[v] /\ ph[v] = "walk"
  \/ \E v \in ReadWrites : l \in p.add[v] /\ (ph[v] \in {"stun", "walk"} \/ v \in bad)

(* It will be, or it has heard all that there is and does not wait.        *)
ReadKnows(p, ph, bad, l) ==
  \/ ReadLater(p, ph, bad, l)
  \/ (p.id[l] = 0 \/ p.got[l] = p.data) /\ ~p.wait[l]

(* The lists gone back to are those of writes that began.                  *)
ReadBegun(p, ph) ==
  /\ p.hatch # Read!None => ph[p.hatch] \in {"walk", "done"}
  /\ \A v \in ReadWrites : p.latch[v] # Read!None => ph[p.latch[v]] \in {"walk", "done"}

(* Of two writes at a time, one has the list and the other is gone back to.*)
ReadBatches(p, ph) ==
  \/ p.hatch = Read!None /\ \A v \in ReadWrites : ph[v] # "walk"
  \/ /\ p.hatch # Read!None
     /\ ph[p.hatch] = "walk"
     /\ \A v \in ReadWrites : ph[v] = "walk" /\ v # p.hatch => p.latch[p.hatch] = v

ReadSound(p, ph) ==
  /\ p \in ReadPages
  /\ \A l \in ReadListeners : p.got[l] <= p.data
  /\ ReadBegun(p, ph)
  /\ \A v \in p.stuns : ph[v] # "new"

ReadPage(p, ph, bad) ==
  /\ ReadSound(p, ph)
  /\ \A l \in ReadListeners : ReadKnows(p, ph, bad, l)

ReadInv ==
  /\ phase \in [ReadWrites -> ReadPhases]
  /\ run \in [ReadWrites -> Nat]
  /\ once \in Nat
  /\ failed \subseteq ReadWrites
  /\ crowd \in BOOLEAN
  /\ \A v \in failed : phase[v] = "done"
  /\ ReadPage(Read!Page, phase, failed)
  /\ ~crowd => ReadBatches(Read!Page, phase)

LEMMA ReadConstants ==
  /\ ReadLocal \subseteq ReadWrites
  /\ Read!None \notin ReadWrites
BY ListenersAssumption DEF Read!ReadAssumption

(* The earliest stun is one of those under way, and there is one if any is.*)
LEMMA ReadFirst ==
  ASSUME NEW p, NEW ph, p.stuns \subseteq ReadWrites, run \in [ReadWrites -> Nat]
  PROVE  /\ Read!FirstStun(p, ph) \subseteq {v \in p.stuns : ph[v] \in {"stun", "walk"}}
         /\ \A w \in p.stuns : ph[w] \in {"stun", "walk"} =>
              \E v \in Read!FirstStun(p, ph) : run[v] <= run[w]
<1>1. Read!FirstStun(p, ph) \subseteq {v \in p.stuns : ph[v] \in {"stun", "walk"}}
  BY DEF Read!FirstStun, Read!Stunning
<1>2. ASSUME NEW w \in p.stuns, ph[w] \in {"stun", "walk"}
      PROVE  \E v \in Read!FirstStun(p, ph) : run[v] <= run[w]
  <2> DEFINE S == {run[v] : v \in Read!Stunning(p, ph)}
  <2>1. S \in SUBSET Nat /\ run[w] \in S
    BY <1>2 DEF Read!Stunning
  <2>2. PICK n \in S : \A k \in S : n <= k
    BY <2>1, LeastNatural
  <2>3. PICK v \in Read!Stunning(p, ph) : run[v] = n
    BY <2>2
  <2>4. v \in Read!FirstStun(p, ph)
    BY <2>2, <2>3 DEF Read!FirstStun
  <2> QED
    BY <2>1, <2>2, <2>3, <2>4
<1> QED
  BY <1>1, <1>2

(* What a call of listeners leaves, and who is put off, waits, is called.  *)
ReadOff(p, ls, ph) == {l \in ls : \E w \in Read!FirstStun(p, ph) : run[w] < p.id[l]}
ReadStay(p, ls, f, ph) ==
  IF p.hatch = Read!None \/ (f /\ p.data > 0) THEN {}
  ELSE IF ph[p.hatch] = "done" THEN {} ELSE ls \ ReadOff(p, ls, ph)

ReadCalled(p, ls, f, ph, q) ==
  /\ q \in ReadPages
  /\ q.data = p.data /\ q.id = p.id /\ q.stuns = p.stuns
  /\ q.hatch = p.hatch /\ q.latch = p.latch
  /\ \A w \in ReadWrites :
       q.add[w] = IF w \in Read!FirstStun(p, ph)
                    THEN p.add[w] \cup ReadOff(p, ls, ph) ELSE p.add[w]
  /\ \A w \in ReadWrites :
       q.match[w] = IF w = p.hatch
                      THEN p.match[w] \cup {l \in ReadStay(p, ls, f, ph) : ~p.wait[l]}
                      ELSE p.match[w]
  /\ \A l \in ReadListeners :
       /\ q.wait[l] = \/ l \in ReadStay(p, ls, f, ph)
                      \/ l \notin ls \ ReadOff(p, ls, ph) /\ p.wait[l]
       /\ q.got[l] = IF l \in ls \ (ReadOff(p, ls, ph) \cup ReadStay(p, ls, f, ph))
                       THEN p.data ELSE p.got[l]

LEMMA ReadAny ==
  ASSUME NEW p \in ReadPages, NEW ls \in SUBSET ReadListeners, NEW f \in BOOLEAN,
         NEW ph \in [ReadWrites -> ReadPhases], run \in [ReadWrites -> Nat],
         NEW q, q = Read!any(p, ls, f, ph)
  PROVE  ReadCalled(p, ls, f, ph, q)
<1> DEFINE off == ReadOff(p, ls, ph)
           stay == ReadStay(p, ls, f, ph)
           A == [w \in ReadWrites |-> IF w \in Read!FirstStun(p, ph)
                       THEN p.add[w] \cup off ELSE p.add[w]]
           M == [w \in ReadWrites |-> IF w = p.hatch
                         THEN p.match[w] \cup {l \in stay : ~p.wait[l]} ELSE p.match[w]]
           W == [l \in ReadListeners |-> l \in stay \/ (l \notin ls \ off /\ p.wait[l])]
           G == [l \in ReadListeners |-> IF l \in ls \ (off \cup stay) THEN p.data ELSE p.got[l]]
<1>1. q = [p EXCEPT !.add = A, !.match = M, !.wait = W, !.got = G]
  BY Zenon DEF Read!any, ReadOff, ReadStay
<1>2. off \subseteq ls /\ stay \subseteq ls
  BY DEF ReadOff, ReadStay
<1>3. /\ p.add \in [ReadWrites -> SUBSET ReadListeners]
      /\ p.match \in [ReadWrites -> SUBSET ReadListeners]
      /\ p.wait \in [ReadListeners -> BOOLEAN] /\ p.got \in [ReadListeners -> Nat]
      /\ p.data \in Nat
  BY DEF ReadPages
<1> HIDE DEF off, stay
<1>4. A \in [ReadWrites -> SUBSET ReadListeners]
  BY <1>2, <1>3
<1>5. M \in [ReadWrites -> SUBSET ReadListeners]
  BY <1>2, <1>3
<1>6. G \in [ReadListeners -> Nat]
  BY <1>3
<1>7. W \in [ReadListeners -> BOOLEAN]
  OBVIOUS
<1> HIDE DEF A, M, G, W
<1>8. /\ q \in ReadPages
      /\ q.data = p.data /\ q.id = p.id /\ q.stuns = p.stuns
      /\ q.hatch = p.hatch /\ q.latch = p.latch
      /\ q.add = A /\ q.match = M /\ q.wait = W /\ q.got = G
  <2>1. q \in ReadPages
    BY <1>1, <1>4, <1>5, <1>6, <1>7 DEF ReadPages
  <2>2. q.data = p.data /\ q.id = p.id /\ q.stuns = p.stuns /\ q.hatch = p.hatch /\ q.latch = p.latch
    BY <1>1 DEF ReadPages
  <2>3. q.add = A /\ q.match = M /\ q.wait = W /\ q.got = G
    BY <1>1 DEF ReadPages
  <2> QED
    BY <2>1, <2>2, <2>3
<1>9. \A w \in ReadWrites :
        q.add[w] = IF w \in Read!FirstStun(p, ph)
                     THEN p.add[w] \cup ReadOff(p, ls, ph) ELSE p.add[w]
  BY <1>8 DEF A, off
<1>10. \A w \in ReadWrites :
         q.match[w] = IF w = p.hatch
                        THEN p.match[w] \cup {l \in ReadStay(p, ls, f, ph) : ~p.wait[l]}
                        ELSE p.match[w]
  BY <1>8 DEF M, stay
<1>11. \A l \in ReadListeners :
         q.wait[l] = \/ l \in ReadStay(p, ls, f, ph)
                     \/ l \notin ls \ ReadOff(p, ls, ph) /\ p.wait[l]
  BY <1>8 DEF W, off, stay
<1>12. \A l \in ReadListeners :
         q.got[l] = IF l \in ls \ (ReadOff(p, ls, ph) \cup ReadStay(p, ls, f, ph))
                      THEN p.data ELSE p.got[l]
  BY <1>8 DEF G, off, stay
<1> QED
  BY <1>8, <1>9, <1>10, <1>11, <1>12 DEF ReadCalled

(* A call leaves listeners that will be called, or know what there is.     *)
ReadCallable(p, ls, f, ph, bad, l) ==
  \/ l \notin ls /\ ReadKnows(p, ph, bad, l)
  \/ l \in ls /\ (p.wait[l] => ReadLater(p, ph, bad, l) \/ (f /\ p.data > 0))

LEMMA ReadAnyKnows ==
  ASSUME NEW p, NEW ls, NEW f, NEW ph, NEW q, NEW bad, NEW l \in ReadListeners,
         ph \in [ReadWrites -> ReadPhases], run \in [ReadWrites -> Nat],
         p \in ReadPages, ReadBegun(p, ph),
         ReadCalled(p, ls, f, ph, q), ReadCallable(p, ls, f, ph, bad, l)
  PROVE  ReadKnows(q, ph, bad, l)
<1> USE DEF ReadCallable, ReadBegun
<1> DEFINE off == ReadOff(p, ls, ph)
           stay == ReadStay(p, ls, f, ph)
<1>1. /\ q.data = p.data /\ q.id = p.id /\ q.hatch = p.hatch
      /\ \A w \in ReadWrites : p.add[w] \subseteq q.add[w]
      /\ \A w \in Read!FirstStun(p, ph) : w \in ReadWrites => off \subseteq q.add[w]
      /\ \A w \in ReadWrites : p.match[w] \subseteq q.match[w]
      /\ p.hatch \in ReadWrites => {k \in stay : ~p.wait[k]} \subseteq q.match[p.hatch]
      /\ q.wait[l] = (l \in stay \/ (l \notin ls \ off /\ p.wait[l]))
      /\ q.got[l] = IF l \in ls \ (off \cup stay) THEN p.data ELSE p.got[l]
  <2>1. ReadCalled(p, ls, f, ph, q)
    OBVIOUS
  <2>2. q.wait[l] = (l \in stay \/ (l \notin ls \ off /\ p.wait[l]))
    BY <2>1, Zenon DEF ReadCalled
  <2>3. /\ q.data = p.data /\ q.id = p.id /\ q.hatch = p.hatch
        /\ q.got[l] = IF l \in ls \ (off \cup stay) THEN p.data ELSE p.got[l]
    BY <2>1, Zenon DEF ReadCalled
  <2>4. /\ \A w \in ReadWrites : p.add[w] \subseteq q.add[w]
        /\ \A w \in Read!FirstStun(p, ph) : w \in ReadWrites => off \subseteq q.add[w]
    <3>1. ASSUME NEW w \in ReadWrites
          PROVE  q.add[w] = IF w \in Read!FirstStun(p, ph) THEN p.add[w] \cup off ELSE p.add[w]
      BY <2>1, Zenon DEF ReadCalled
    <3> HIDE DEF off
    <3> QED
      BY <3>1
  <2>5. /\ \A w \in ReadWrites : p.match[w] \subseteq q.match[w]
        /\ p.hatch \in ReadWrites => {k \in stay : ~p.wait[k]} \subseteq q.match[p.hatch]
    <3> DEFINE some == {k \in stay : ~p.wait[k]}
    <3>1. ASSUME NEW w \in ReadWrites
          PROVE  q.match[w] = IF w = p.hatch THEN p.match[w] \cup some ELSE p.match[w]
      BY <2>1, Zenon DEF ReadCalled
    <3> HIDE DEF some
    <3> \A w \in ReadWrites : p.match[w] \subseteq q.match[w]
      BY <3>1
    <3> p.hatch \in ReadWrites => some \subseteq q.match[p.hatch]
      BY <3>1
    <3> QED
      BY Zenon DEF some
  <2> QED
    BY <2>2, <2>3, <2>4, <2>5, Zenon
<1>2. ReadLater(p, ph, bad, l) => ReadLater(q, ph, bad, l)
  BY <1>1 DEF ReadLater
<1>3. CASE l \in off
  <2>1. PICK w \in Read!FirstStun(p, ph) : run[w] < p.id[l]
    BY <1>3 DEF ReadOff
  <2>2. w \in ReadWrites /\ ph[w] \in {"stun", "walk"}
    BY <2>1, ReadFirst DEF ReadPages
  <2> QED
    BY <1>1, <1>3, <2>1, <2>2 DEF ReadLater, ReadKnows
<1>4. CASE l \in stay
  <2>1. p.hatch # Read!None /\ ~(f /\ p.data > 0) /\ ph[p.hatch] # "done"
    BY <1>4 DEF ReadStay
  <2>2. p.hatch \in ReadWrites /\ ph[p.hatch] = "walk" /\ l \in ls
    BY <1>4, <2>1 DEF ReadPages, ReadStay
  <2> QED
    BY <1>1, <1>2, <1>4, <2>1, <2>2 DEF ReadLater, ReadKnows
<1>5. CASE l \in ls /\ l \notin off /\ l \notin stay
  BY <1>1, <1>5 DEF ReadKnows
<1>6. CASE l \notin ls
  <2>1. l \notin off /\ l \notin stay
    BY <1>6 DEF ReadOff, ReadStay
  <2> QED
    BY <1>1, <1>2, <1>6, <2>1 DEF ReadKnows
<1> QED
  BY <1>3, <1>4, <1>5, <1>6

(* One that is called is not one that a write has yet to put off.          *)
LEMMA ReadAnyWaits ==
  ASSUME NEW p, NEW ls, NEW f, NEW ph, NEW q, NEW l \in ReadListeners, NEW w \in p.stuns,
         run \in [ReadWrites -> Nat],
         p \in ReadPages, ReadCalled(p, ls, f, ph, q),
         q.got[l] # p.got[l], run[w] < p.id[l]
  PROVE  ph[w] \notin {"stun", "walk"}
<1>1. l \in ls \ ReadOff(p, ls, ph)
  BY DEF ReadCalled
<1>2. p.stuns \subseteq ReadWrites /\ p.id[l] \in Nat
  BY DEF ReadPages
<1>3. SUFFICES ASSUME ph[w] \in {"stun", "walk"} PROVE FALSE
  OBVIOUS
<1>4. PICK v \in Read!FirstStun(p, ph) : run[v] <= run[w]
  BY <1>2, <1>3, ReadFirst
<1>5. v \in ReadWrites
  BY <1>2, <1>4, ReadFirst
<1>6. run[v] < p.id[l]
  BY <1>2, <1>4, <1>5
<1> QED
  BY <1>1, <1>4, <1>6 DEF ReadOff

LEMMA ReadAnyPage ==
  ASSUME NEW p, NEW ls, NEW f, NEW ph, NEW q, ReadSound(p, ph), ReadCalled(p, ls, f, ph, q)
  PROVE  ReadSound(q, ph)
<1> USE DEF ReadSound
<1>1. \A l \in ReadListeners : q.got[l] = p.data \/ q.got[l] = p.got[l]
  BY DEF ReadCalled
<1>2. q \in ReadPages /\ q.data = p.data /\ q.stuns = p.stuns /\ q.hatch = p.hatch
        /\ q.latch = p.latch
  BY DEF ReadCalled
<1>3. p.data \in Nat
  BY DEF ReadPages
<1> QED
  BY <1>1, <1>2, <1>3 DEF ReadBegun

(* An entry comes in.  *)
ReadEntered(p, ph, bad, q) ==
  /\ ReadPage(q, ph, bad)
  /\ q.data > 0 /\ q.id = p.id /\ q.stuns = p.stuns /\ q.hatch = p.hatch
  /\ q.latch = p.latch
  /\ \A l \in ReadListeners, w \in p.stuns :
       q.got[l] # p.got[l] /\ run[w] < p.id[l] => ph[w] \notin {"stun", "walk"}

LEMMA ReadEntry ==
  ASSUME NEW p, NEW ph \in [ReadWrites -> ReadPhases], run \in [ReadWrites -> Nat],
         NEW bad, ReadPage(p, ph, bad), p.id = id,
         NEW q, q = Read!Entry(p, ph)
  PROVE  ReadEntered(p, ph, bad, q)
<1> DEFINE n == [p EXCEPT !.data = @ + 1]
<1>1. p \in ReadPages /\ p.data \in Nat /\ p.got \in [ReadListeners -> Nat]
  BY DEF ReadPage, ReadSound, ReadPages
<1>2. /\ n \in ReadPages /\ n.data = p.data + 1 /\ n.id = p.id /\ n.stuns = p.stuns
      /\ n.hatch = p.hatch /\ n.latch = p.latch /\ n.match = p.match /\ n.add = p.add
      /\ n.wait = p.wait /\ n.got = p.got
  BY <1>1 DEF ReadPages
<1>3. Read!Added \in SUBSET ReadListeners
  BY DEF Read!Added
<1>4. q = Read!any(n, Read!Added, FALSE, ph)
  BY Zenon DEF Read!Entry
<1> HIDE DEF n
<1>5. ReadCalled(n, Read!Added, FALSE, ph, q)
  BY <1>2, <1>3, <1>4, ReadAny
<1>5a. ReadSound(n, ph)
  BY <1>1, <1>2 DEF ReadPage, ReadSound, ReadBegun
<1>6. ASSUME NEW l \in ReadListeners PROVE ReadKnows(q, ph, bad, l)
  <2>1. ReadKnows(p, ph, bad, l)
    BY DEF ReadPage
  <2>2. ReadLater(p, ph, bad, l) <=> ReadLater(n, ph, bad, l)
    BY <1>2 DEF ReadLater
  <2>3. ReadCallable(n, Read!Added, FALSE, ph, bad, l)
    BY <1>2, <2>1, <2>2 DEF ReadKnows, ReadCallable, Read!Added
  <2> QED
    BY <1>5, <1>5a, <2>3, ReadAnyKnows DEF ReadSound
<1>7. ReadSound(q, ph)
  BY <1>5, <1>5a, ReadAnyPage
<1>8. q.data = n.data /\ q.id = n.id /\ q.stuns = n.stuns /\ q.hatch = n.hatch /\ q.latch = n.latch
  BY <1>5 DEF ReadCalled
<1>9. ASSUME NEW l \in ReadListeners, NEW w \in p.stuns, q.got[l] # p.got[l],
             run[w] < p.id[l]
      PROVE  ph[w] \notin {"stun", "walk"}
  <2>1. q.got[l] # n.got[l] /\ w \in n.stuns /\ run[w] < n.id[l]
    BY <1>2, <1>9
  <2> QED
    BY <1>2, <1>5, <2>1, ReadAnyWaits
<1> QED
  BY <1>1, <1>2, <1>6, <1>7, <1>8, <1>9 DEF ReadPage, ReadEntered

(* The list of w ends, and those that wait for it are called.              *)
ReadFired(p, w, ph2, bad, q) ==
  /\ ReadPage(q, ph2, bad)
  /\ q.data = p.data /\ q.id = p.id /\ q.stuns = p.stuns
  /\ q.hatch = Read!Unlatch(p, w, ph2) /\ q.latch = p.latch
  /\ \A l \in ReadListeners, v \in p.stuns :
       q.got[l] # p.got[l] /\ run[v] < p.id[l] => ph2[v] \notin {"stun", "walk"}

LEMMA ReadFire ==
  ASSUME NEW p, NEW ph \in [ReadWrites -> ReadPhases], run \in [ReadWrites -> Nat],
         NEW bad, ReadPage(p, ph, bad), p.data > 0,
         NEW w \in ReadWrites, ph[w] = "walk", w \notin bad,
         NEW ph2, ph2 = [ph EXCEPT ![w] = "done"],
         NEW q, q = Read!fire(p, w, ph2)
  PROVE  ReadFired(p, w, ph2, bad, q)
<1> DEFINE u == [p EXCEPT !.hatch = Read!Unlatch(p, w, ph2)]
           r == Read!any(u, p.add[w], TRUE, ph2)
<1>1. p \in ReadPages /\ ReadBegun(p, ph)
  BY DEF ReadPage, ReadSound
<1>2. Read!Unlatch(p, w, ph2) \in ReadWrites \cup {Read!None}
  BY <1>1 DEF Read!Unlatch, ReadPages
<1>3. /\ u \in ReadPages /\ u.data = p.data /\ u.id = p.id /\ u.stuns = p.stuns
      /\ u.hatch = Read!Unlatch(p, w, ph2) /\ u.latch = p.latch /\ u.match = p.match
      /\ u.add = p.add /\ u.wait = p.wait /\ u.got = p.got
  BY <1>1, <1>2 DEF ReadPages
<1>4. q = Read!any(r, r.match[w], TRUE, ph2)
  BY Zenon DEF Read!fire
<1>5. ph2 \in [ReadWrites -> ReadPhases] /\ ph2[w] = "done"
        /\ \A v \in ReadWrites : v # w => ph2[v] = ph[v]
  BY DEF ReadPhases
<1>6. p.add[w] \in SUBSET ReadListeners /\ p.data \in Nat
  BY <1>1 DEF ReadPages
<1> HIDE DEF u
<1>7. ReadBegun(u, ph2)
  <2>1. u.hatch # Read!None => ph2[u.hatch] \in {"walk", "done"}
    BY <1>1, <1>3, <1>5 DEF ReadBegun, Read!Unlatch, ReadPages
  <2>2. ASSUME NEW v \in ReadWrites, u.latch[v] # Read!None
        PROVE  ph2[u.latch[v]] \in {"walk", "done"}
    <3>1. u.latch[v] \in ReadWrites
      BY <1>3, <2>2 DEF ReadPages
    <3> QED
      BY <1>1, <1>3, <1>5, <2>2, <3>1 DEF ReadBegun
  <2> QED
    BY <2>1, <2>2 DEF ReadBegun
<1>8. ReadSound(u, ph2)
  BY <1>1, <1>3, <1>5, <1>7 DEF ReadPage, ReadPages, ReadSound
<1>9. ReadCalled(u, p.add[w], TRUE, ph2, r)
  BY <1>3, <1>5, <1>6, ReadAny, Zenon
<1> HIDE DEF r
<1>10. ReadSound(r, ph2) /\ r \in ReadPages
  <2>1. ReadSound(r, ph2)
    BY <1>8, <1>9, ReadAnyPage
  <2> QED
    BY <2>1 DEF ReadSound
<1>11. r.data = p.data /\ r.id = p.id /\ r.stuns = p.stuns /\ r.hatch = u.hatch /\ r.latch = p.latch
  BY <1>3, <1>9, Zenon DEF ReadCalled
<1>12. r.match[w] = p.match[w]
  <2>1. ReadStay(u, p.add[w], TRUE, ph2) = {}
    BY <1>3 DEF ReadStay
  <2>2. r.match[w] = p.match[w] \/ r.match[w] = p.match[w] \cup {l \in {} : ~u.wait[l]}
    BY <1>3, <1>9, <2>1, Zenon DEF ReadCalled
  <2> QED
    BY <2>2
<1>13. r.match[w] \in SUBSET ReadListeners
  BY <1>1, <1>12 DEF ReadPages
<1>14. ReadCalled(r, r.match[w], TRUE, ph2, q)
  BY <1>4, <1>5, <1>10, <1>13, ReadAny, Zenon
<1>15. ReadSound(q, ph2)
  BY <1>10, <1>14, ReadAnyPage
<1>16. q.data = p.data /\ q.id = p.id /\ q.stuns = p.stuns /\ q.hatch = u.hatch /\ q.latch = p.latch
  BY <1>11, <1>14, Zenon DEF ReadCalled
<1>17. ASSUME NEW l \in ReadListeners PROVE ReadKnows(q, ph2, bad, l)
  <2>1. ReadCallable(u, p.add[w], TRUE, ph2, bad, l) => ReadKnows(r, ph2, bad, l)
    BY <1>5, <1>8, <1>9, ReadAnyKnows DEF ReadSound
  <2>2. ReadCallable(r, r.match[w], TRUE, ph2, bad, l) => ReadKnows(q, ph2, bad, l)
    BY <1>5, <1>10, <1>14, ReadAnyKnows DEF ReadSound
  <2>3. CASE l \in p.match[w]
    BY <1>11, <1>12, <2>2, <2>3 DEF ReadCallable
  <2>4. CASE l \notin p.match[w]
    <3>1. ReadKnows(r, ph2, bad, l)
      <4>1. CASE l \in p.add[w]
        BY <1>3, <2>1, <4>1 DEF ReadCallable
      <4>2. CASE l \notin p.add[w]
        <5>1. ReadKnows(p, ph, bad, l)
          BY DEF ReadPage
        <5>2. ReadLater(p, ph, bad, l) => ReadLater(u, ph2, bad, l)
          BY <1>3, <1>5, <2>4, <4>2 DEF ReadLater
        <5>3. ReadKnows(u, ph2, bad, l)
          BY <1>3, <5>1, <5>2 DEF ReadKnows
        <5> QED
          BY <2>1, <4>2, <5>3 DEF ReadCallable
      <4> QED
        BY <4>1, <4>2
    <3> QED
      BY <1>12, <2>2, <2>4, <3>1 DEF ReadCallable
  <2> QED
    BY <2>3, <2>4
<1>18. ASSUME NEW l \in ReadListeners, NEW v \in p.stuns, q.got[l] # p.got[l],
              run[v] < p.id[l]
       PROVE  ph2[v] \notin {"stun", "walk"}
  <2>1. CASE r.got[l] # p.got[l]
    <3>1. r.got[l] # u.got[l] /\ v \in u.stuns /\ run[v] < u.id[l]
      BY <1>3, <1>18, <2>1
    <3> QED
      BY <1>3, <1>9, <3>1, ReadAnyWaits
  <2>2. CASE r.got[l] = p.got[l]
    <3>1. q.got[l] # r.got[l] /\ v \in r.stuns /\ run[v] < r.id[l]
      BY <1>11, <1>18, <2>2
    <3> QED
      BY <1>10, <1>14, <3>1, ReadAnyWaits
  <2> QED
    BY <2>1, <2>2
<1> QED
  BY <1>3, <1>15, <1>16, <1>17, <1>18 DEF ReadPage, ReadFired

(* A page that is assigned is the page afterwards.  *)
LEMMA ReadBecomes ==
  ASSUME NEW p \in ReadPages, Read!Becomes(p)
  PROVE  Read!Page' = p
BY DEF Read!Becomes, Read!Page, ReadPages

(* Batches, when a list is gone back to.  *)
LEMMA ReadUnlatch ==
  ASSUME NEW p \in ReadPages, NEW ph \in [ReadWrites -> ReadPhases], NEW w \in ReadWrites,
         ReadBegun(p, ph), ReadBatches(p, ph), ph[w] = "walk",
         NEW ph2, ph2 = [ph EXCEPT ![w] = "done"],
         NEW q, q.hatch = Read!Unlatch(p, w, ph2), q.latch = p.latch
  PROVE  ReadBatches(q, ph2)
<1>1. /\ p.hatch \in ReadWrites \cup {Read!None} /\ p.latch \in [ReadWrites -> ReadWrites \cup {Read!None}]
      /\ Read!None \notin ReadWrites
  BY ReadConstants DEF ReadPages
<1>2. ph2 \in [ReadWrites -> ReadPhases] /\ ph2[w] = "done"
        /\ \A v \in ReadWrites : v # w => ph2[v] = ph[v]
  BY DEF ReadPhases
<1>3. p.hatch # Read!None /\ p.hatch \in ReadWrites /\ ph[p.hatch] = "walk"
        /\ \A v \in ReadWrites : ph[v] = "walk" /\ v # p.hatch => p.latch[p.hatch] = v
  BY <1>1 DEF ReadBatches
<1>4. CASE p.hatch # w
  BY <1>1, <1>2, <1>3, <1>4 DEF ReadBatches, Read!Unlatch
<1>5. CASE p.hatch = w
  <2>1. CASE p.latch[w] = Read!None
    BY <1>1, <1>2, <1>3, <1>5, <2>1 DEF ReadBatches, Read!Unlatch
  <2>2. CASE p.latch[w] # Read!None
    <3>1. p.latch[w] \in ReadWrites /\ ph[p.latch[w]] \in {"walk", "done"}
      BY <1>1, <2>2 DEF ReadBegun
    <3> QED
      BY <1>1, <1>2, <1>3, <1>5, <2>2, <3>1 DEF ReadBatches, Read!Unlatch
  <2> QED
    BY <2>1, <2>2
<1> QED
  BY <1>4, <1>5

(* What a step of the walk does to the page of p.  *)
ReadWalks(p, w, q, ph2) ==
  /\ ReadPage(q, ph2, failed)
  /\ q.id = p.id /\ q.stuns = p.stuns
  /\ ReadBatches(p, [phase EXCEPT ![w] = "walk"]) => ReadBatches(q, ph2)
  /\ \A l \in ReadListeners, v \in p.stuns :
       q.got[l] # p.got[l] /\ run[v] < p.id[l] => ph2[v] \notin {"stun", "walk"}

LEMMA ReadWalk ==
  ASSUME NEW p, NEW w \in ReadWrites, phase \in [ReadWrites -> ReadPhases],
         run \in [ReadWrites -> Nat], failed \subseteq ReadWrites, w \notin failed,
         p.id = id, ReadPage(p, [phase EXCEPT ![w] = "walk"], failed),
         Read!Walk(p, w)
  PROVE  /\ phase' \in [ReadWrites -> ReadPhases]
         /\ phase' = [phase EXCEPT ![w] = "walk"] \/ phase' = [phase EXCEPT ![w] = "done"]
         /\ ReadWalks(p, w, Read!Page', phase')
<1> DEFINE ph == [phase EXCEPT ![w] = "walk"]
           e == Read!Entry(p, ph)
           q == IF read_left[w] = 1 THEN Read!fire(e, w, phase') ELSE e
<1>1. phase' = [phase EXCEPT ![w] = IF read_left[w] = 1 THEN "done" ELSE "walk"]
        /\ Read!Becomes(q)
  BY DEF Read!Walk
<1>2. /\ ph \in [ReadWrites -> ReadPhases] /\ ph[w] = "walk"
      /\ \A v \in ReadWrites : v # w => ph[v] = phase[v]
  BY DEF ReadPhases
<1>3. /\ ReadPage(e, ph, failed)
      /\ e.data > 0 /\ e.id = p.id /\ e.stuns = p.stuns /\ e.hatch = p.hatch
      /\ e.latch = p.latch
      /\ \A l \in ReadListeners, v \in p.stuns :
           e.got[l] # p.got[l] /\ run[v] < p.id[l] => ph[v] \notin {"stun", "walk"}
  <2>1. ReadPage(p, ph, failed)
    OBVIOUS
  <2>2. e = Read!Entry(p, ph)
    OBVIOUS
  <2> HIDE DEF e, ph
  <2>3. ReadEntered(p, ph, failed, e)
    BY <1>2, <2>1, <2>2, ReadEntry
  <2> QED
    BY <2>3, Zenon DEF ReadEntered
<1> HIDE DEF e
<1>4. phase' \in [ReadWrites -> ReadPhases]
  BY <1>1 DEF ReadPhases
<1>5. CASE read_left[w] # 1
  <2>1. phase' = ph /\ q = e
    BY <1>1, <1>5
  <2>2. ReadBatches(p, ph) => ReadBatches(e, ph)
    BY <1>3 DEF ReadBatches
  <2>3. ReadWalks(p, w, q, phase')
    BY <1>3, <2>1, <2>2 DEF ReadWalks
  <2> QED
    <3>1. Read!Becomes(q) /\ q \in ReadPages
      BY <1>1, <2>3 DEF ReadWalks, ReadPage, ReadSound
    <3> HIDE DEF q
    <3>2. Read!Page' = q
      BY <3>1, ReadBecomes
    <3> QED
      BY <1>4, <2>1, <2>3, <3>2
<1>6. CASE read_left[w] = 1
  <2>1. phase' = [ph EXCEPT ![w] = "done"] /\ phase' = [phase EXCEPT ![w] = "done"]
    BY <1>1, <1>6 DEF ReadPhases
  <2>2. q = Read!fire(e, w, phase')
    BY <1>6
  <2> HIDE DEF q
  <2>3. /\ ReadPage(q, phase', failed)
        /\ q.data = e.data /\ q.id = e.id /\ q.stuns = e.stuns
        /\ q.hatch = Read!Unlatch(e, w, phase') /\ q.latch = e.latch
        /\ \A l \in ReadListeners, v \in e.stuns :
             q.got[l] # e.got[l] /\ run[v] < e.id[l] => phase'[v] \notin {"stun", "walk"}
    <3> DEFINE ph2 == phase'
    <3>1. ph2 = [ph EXCEPT ![w] = "done"] /\ q = Read!fire(e, w, ph2)
      BY <2>1, <2>2
    <3> HIDE DEF ph, ph2
    <3>2. ReadFired(e, w, ph2, failed, q)
      BY <1>2, <1>3, <3>1, ReadFire
    <3> QED
      BY <3>2, Zenon DEF ReadFired, ph2
  <2>4. ReadBatches(p, ph) => ReadBatches(q, phase')
    <3>1. ReadBatches(p, ph) => ReadBatches(e, ph)
      BY <1>3 DEF ReadBatches
    <3>2. e \in ReadPages /\ ReadBegun(e, ph)
      BY <1>3 DEF ReadPage, ReadSound
    <3> QED
      BY <1>2, <2>1, <2>3, <3>1, <3>2, ReadUnlatch
  <2>5. ASSUME NEW l \in ReadListeners, NEW v \in p.stuns, q.got[l] # p.got[l],
               run[v] < p.id[l]
        PROVE  phase'[v] \notin {"stun", "walk"}
    <3>1. CASE e.got[l] # p.got[l]
      <4>1. ph[v] \notin {"stun", "walk"} /\ v \in ReadWrites
        BY <1>3, <2>5, <3>1 DEF ReadPage, ReadSound, ReadPages
      <4> QED
        BY <1>2, <2>1, <4>1 DEF ReadPhases
    <3>2. CASE e.got[l] = p.got[l]
      BY <1>3, <2>3, <2>5, <3>2
    <3> QED
      BY <3>1, <3>2
  <2>6. ReadWalks(p, w, q, phase')
    BY <1>3, <2>3, <2>4, <2>5 DEF ReadWalks
  <2> QED
    <3>1. Read!Becomes(q) /\ q \in ReadPages
      BY <1>1, <2>6 DEF ReadWalks, ReadPage, ReadSound, q
    <3>2. Read!Page' = q
      BY <3>1, ReadBecomes
    <3> QED
      BY <1>4, <2>1, <2>6, <3>2
<1> QED
  BY <1>5, <1>6

LEMMA ReadTwo ==
  ASSUME NEW S, IsFiniteSet(S), NEW a \in S, NEW b \in S, a # b
  PROVE  Read!Cardinality(S) >= 2
<1>1. Read!Cardinality(S) = Cardinality(S)
  BY DEF Read!Cardinality, Cardinality, Read!IsFiniteSet, IsFiniteSet
<1>2. Cardinality({a, b}) = 2
  <2>1. IsFiniteSet({a}) /\ Cardinality({a}) = 1
    BY FS_Singleton
  <2>2. Cardinality({a} \cup {b}) = Cardinality({a}) + 1
    BY <2>1, FS_AddElement
  <2>3. {a} \cup {b} = {a, b}
    OBVIOUS
  <2> QED
    BY <2>1, <2>2, <2>3
<1>3. Cardinality({a, b}) <= Cardinality(S)
  BY FS_Subset
<1>4. Cardinality(S) \in Nat
  BY FS_CardinalityType
<1> QED
  BY <1>1, <1>2, <1>3, <1>4

(* Writes under way begin walking, or go on, with a list of their own.     *)
LEMMA ReadPut ==
  ASSUME ReadInv, NEW w \in ReadWrites, phase[w] \in {"new", "stun"},
         crowd' = (crowd \/ Read!Cardinality({v \in ReadWrites : phase[v] = "walk"}) >= 2),
         NEW p, p = [Read!Page EXCEPT !.hatch = w, !.latch[w] = hatch]
  PROVE  /\ ReadPage(p, [phase EXCEPT ![w] = "walk"], failed)
         /\ p.id = id /\ p.stuns = stuns /\ p.got = got
         /\ crowd' \in BOOLEAN
         /\ ~crowd' => ReadBatches(p, [phase EXCEPT ![w] = "walk"])
<1> DEFINE ph == [phase EXCEPT ![w] = "walk"]
<1>0. /\ Read!Page \in ReadPages /\ ReadSound(Read!Page, phase)
      /\ phase \in [ReadWrites -> ReadPhases]
      /\ \A l \in ReadListeners : ReadKnows(Read!Page, phase, failed, l)
      /\ crowd \in BOOLEAN
      /\ ~crowd => ReadBatches(Read!Page, phase)
  BY DEF ReadInv, ReadPage, ReadSound
<1>1. /\ hatch \in ReadWrites \cup {Read!None}
      /\ latch \in [ReadWrites -> ReadWrites \cup {Read!None}]
      /\ Read!Page.hatch = hatch /\ Read!Page.latch = latch
  BY <1>0 DEF ReadPages, Read!Page
<1>2. /\ p \in ReadPages
      /\ p.data = read_data /\ p.id = id /\ p.stuns = stuns /\ p.hatch = w
      /\ p.latch = [latch EXCEPT ![w] = hatch] /\ p.match = match /\ p.add = add
      /\ p.wait = read_wait /\ p.got = got
  BY <1>0, <1>1 DEF ReadPages, Read!Page
<1>3. /\ ph \in [ReadWrites -> ReadPhases] /\ ph[w] = "walk"
      /\ \A v \in ReadWrites : v # w => ph[v] = phase[v]
  BY <1>0 DEF ReadPhases
<1> HIDE DEF ph
<1>4. ReadSound(p, ph)
  <2>1. \A l \in ReadListeners : p.got[l] <= p.data
    BY <1>0, <1>2 DEF ReadSound, Read!Page
  <2>2. ReadBegun(p, ph)
    BY <1>0, <1>1, <1>2, <1>3, ReadConstants DEF ReadSound, ReadBegun
  <2>3. \A v \in p.stuns : ph[v] # "new"
    BY <1>0, <1>2, <1>3 DEF ReadSound, Read!Page, ReadPages
  <2> QED
    BY <1>2, <2>1, <2>2, <2>3 DEF ReadSound
<1>5. ASSUME NEW l \in ReadListeners PROVE ReadKnows(p, ph, failed, l)
  BY <1>0, <1>2, <1>3 DEF ReadKnows, ReadLater, Read!Page
<1>6. crowd' \in BOOLEAN
  BY <1>0
<1>7. ASSUME ~crowd' PROVE ReadBatches(p, ph)
  <2> DEFINE S == {v \in ReadWrites : phase[v] = "walk"}
  <2>1. ~crowd /\ ~(Read!Cardinality(S) >= 2)
    BY <1>0, <1>7
  <2>2. ReadBatches(Read!Page, phase)
    BY <1>0, <2>1
  <2>3. ASSUME NEW v \in S PROVE hatch # Read!None /\ v = hatch
    <3>1. hatch # Read!None /\ hatch \in S /\ S \subseteq {hatch, latch[hatch]}
      BY <1>1, <2>2, <2>3 DEF ReadBatches
    <3>2. IsFiniteSet({hatch} \cup {latch[hatch]})
      BY FS_Singleton, FS_AddElement
    <3>3. S \in SUBSET ({hatch} \cup {latch[hatch]})
      BY <3>1
    <3>4. IsFiniteSet(S)
      BY <3>2, <3>3, FS_Subset
    <3> QED
      BY <2>1, <3>1, <3>4, <2>3, ReadTwo
  <2>4. ASSUME NEW v \in ReadWrites, ph[v] = "walk", v # p.hatch
        PROVE  p.latch[p.hatch] = v
    BY <1>1, <1>2, <1>3, <2>3, <2>4
  <2> QED
    BY <1>2, <1>3, <2>4, ReadConstants DEF ReadBatches
<1> QED
  BY <1>2, <1>4, <1>5, <1>6, <1>7 DEF ReadPage, ph

(* Nobody is called before a write that began before them has fired.       *)
ReadReads ==
  \A l \in ReadListeners, w \in stuns :
    got'[l] # got[l] /\ run[w] < id'[l] => phase'[w] = "done"

LEMMA ReadWalked ==
  ASSUME ReadInv, NEW w \in ReadWrites, phase[w] # "done",
         NEW p, p.id = id, p.stuns = stuns, p.got = got,
         ReadPage(p, [phase EXCEPT ![w] = "walk"], failed),
         crowd' \in BOOLEAN, ~crowd' => ReadBatches(p, [phase EXCEPT ![w] = "walk"]),
         Read!Walk(p, w), UNCHANGED <<once, run, failed>>
  PROVE  ReadInv' /\ ReadReads
<1>1. /\ phase \in [ReadWrites -> ReadPhases] /\ run \in [ReadWrites -> Nat] /\ once \in Nat
      /\ failed \subseteq ReadWrites /\ w \notin failed
      /\ \A v \in failed : phase[v] = "done"
  BY DEF ReadInv
<1>2. /\ phase' \in [ReadWrites -> ReadPhases]
      /\ phase' = [phase EXCEPT ![w] = "walk"] \/ phase' = [phase EXCEPT ![w] = "done"]
      /\ ReadWalks(p, w, Read!Page', phase')
  BY <1>1, ReadWalk
<1>3. \A v \in failed' : phase'[v] = "done"
  BY <1>1, <1>2 DEF ReadPhases
<1>4. /\ ReadPage(Read!Page', phase', failed')
      /\ ~crowd' => ReadBatches(Read!Page', phase')
  BY <1>2 DEF ReadWalks
<1>5. ReadInv'
  BY <1>1, <1>2, <1>3, <1>4 DEF ReadInv, ReadPage, ReadSound, ReadKnows, ReadLater, ReadBegun, ReadBatches
<1>6. ReadReads
  <2> SUFFICES ASSUME NEW l \in ReadListeners, NEW v \in stuns, got'[l] # got[l],
                      run[v] < id'[l]
               PROVE  phase'[v] = "done"
    BY DEF ReadReads
  <2>1. Read!Page'.got = got' /\ Read!Page'.id = id' /\ Read!Page'.stuns = stuns'
    BY DEF Read!Page
  <2>2. id' = id /\ stuns' = stuns
    BY <1>2, <2>1 DEF ReadWalks
  <2>3. phase'[v] \notin {"stun", "walk"}
    BY <1>2, <2>1, <2>2 DEF ReadWalks
  <2>4. phase'[v] # "new" /\ v \in ReadWrites
    BY <1>4, <2>1, <2>2 DEF ReadPage, ReadSound, ReadPages
  <2> QED
    BY <1>2, <2>3, <2>4 DEF ReadPhases
<1> QED
  BY <1>5, <1>6

LEMMA ReadPutStep ==
  ASSUME ReadInv, NEW w \in ReadWrites, phase[w] \in {"new", "stun"}, Read!Put(w),
         UNCHANGED <<once, run, failed>>
  PROVE  ReadInv' /\ ReadReads
<1> DEFINE p == [Read!Page EXCEPT !.hatch = w, !.latch[w] = hatch]
<1>1. /\ crowd' = (crowd \/ Read!Cardinality({v \in ReadWrites : phase[v] = "walk"}) >= 2)
      /\ Read!Walk(p, w)
  BY Zenon DEF Read!Put
<1>2. p = [Read!Page EXCEPT !.hatch = w, !.latch[w] = hatch]
  OBVIOUS
<1> HIDE DEF p
<1>3. /\ ReadPage(p, [phase EXCEPT ![w] = "walk"], failed)
      /\ p.id = id /\ p.stuns = stuns /\ p.got = got
      /\ crowd' \in BOOLEAN
      /\ ~crowd' => ReadBatches(p, [phase EXCEPT ![w] = "walk"])
  BY <1>1, <1>2, ReadPut
<1> QED
  BY <1>1, <1>3, ReadWalked

LEMMA ReadTurn ==
  ASSUME ReadInv, NEW w \in ReadWrites, Read!Turn(w)
  PROVE  ReadInv' /\ ReadReads
<1>1. /\ phase[w] = "walk" /\ Read!Walk(Read!Page, w) /\ UNCHANGED <<once, run, failed, crowd>>
  BY DEF Read!Turn
<1>2. [phase EXCEPT ![w] = "walk"] = phase
  BY <1>1 DEF ReadInv
<1>3. Read!Page.id = id /\ Read!Page.stuns = stuns /\ Read!Page.got = got
  BY DEF Read!Page
<1>4. /\ ReadPage(Read!Page, [phase EXCEPT ![w] = "walk"], failed)
      /\ crowd' \in BOOLEAN
      /\ ~crowd' => ReadBatches(Read!Page, [phase EXCEPT ![w] = "walk"])
  BY <1>1, <1>2 DEF ReadInv
<1> QED
  BY <1>1, <1>3, <1>4, ReadWalked

LEMMA ReadStun ==
  ASSUME ReadInv, NEW w \in ReadWrites, Read!Stun(w)
  PROVE  ReadInv' /\ ReadReads
<1>0. ReadInv
  OBVIOUS
<1> USE DEF ReadInv
<1>1. /\ phase[w] = "new" /\ phase' = [phase EXCEPT ![w] = "stun"]
      /\ stuns' = stuns \/ stuns' = stuns \cup {w}
      /\ run' = [run EXCEPT ![w] = once]
      /\ UNCHANGED <<read_data, once, id, hatch, latch, match, add, read_wait, got,
                     failed, crowd>>
  BY DEF Read!Stun
<1>2. /\ Read!Page' = [Read!Page EXCEPT !.stuns = stuns']
  BY <1>1 DEF Read!Page
<1>3. /\ phase' \in [ReadWrites -> ReadPhases] /\ phase'[w] = "stun"
      /\ \A v \in ReadWrites : v # w => phase'[v] = phase[v]
  BY <1>1 DEF ReadPhases
<1>4. run' \in [ReadWrites -> Nat] /\ \A v \in failed' : phase'[v] = "done"
  BY <1>1, <1>3
<1>5. ReadSound(Read!Page, phase) /\ Read!Page \in ReadPages
  BY DEF ReadPage, ReadSound
<1> HIDE DEF ReadInv
<1>6. ReadSound(Read!Page', phase')
  <2>1. Read!Page' \in ReadPages
    BY <1>1, <1>2, <1>5 DEF ReadPages, Read!Page
  <2>2. \A v \in stuns' : phase'[v] # "new"
    BY <1>1, <1>3, <1>5 DEF ReadSound, Read!Page, ReadPages
  <2>3. ReadBegun(Read!Page', phase')
    BY <1>1, <1>3, <1>5 DEF ReadSound, ReadBegun, Read!Page, ReadPages
  <2>4. \A l \in ReadListeners : got'[l] <= read_data'
    BY <1>1, <1>5 DEF ReadSound, Read!Page
  <2> QED
    BY <2>1, <2>2, <2>3, <2>4 DEF ReadSound, Read!Page
<1>7. \A l \in ReadListeners : ReadKnows(Read!Page', phase', failed', l)
  <2> TAKE l \in ReadListeners
  <2>1. ReadKnows(Read!Page, phase, failed, l)
    BY <1>0 DEF ReadInv, ReadPage
  <2> QED
    BY <1>1, <1>3, <2>1 DEF ReadKnows, ReadLater, Read!Page
<1>8. ~crowd' => ReadBatches(Read!Page', phase')
  <2>1. ~crowd => ReadBatches(Read!Page, phase)
    BY <1>0 DEF ReadInv
  <2>2. hatch \in ReadWrites \cup {Read!None}
    BY <1>5 DEF ReadPages, Read!Page
  <2> QED
    BY <1>1, <1>3, <2>1, <2>2 DEF ReadBatches, Read!Page
<1>9. ReadReads
  BY <1>1 DEF ReadReads
<1> QED
  BY <1>0, <1>1, <1>3, <1>4, <1>6, <1>7, <1>8, <1>9 DEF ReadInv, ReadPage

LEMMA ReadRanErr ==
  ASSUME ReadInv, NEW w \in ReadWrites, Read!RanErr(w)
  PROVE  ReadInv' /\ ReadReads
<1>1. /\ phase[w] = "stun" /\ phase' = [phase EXCEPT ![w] = "done"]
      /\ failed' = failed \cup {w}
      /\ UNCHANGED <<read_data, once, id, run, stuns, hatch, latch, match, add, read_wait,
                     got, crowd>>
  BY DEF Read!RanErr
<1>2. Read!Page' = Read!Page
  BY <1>1 DEF Read!Page
<1>3. /\ phase \in [ReadWrites -> ReadPhases] /\ run \in [ReadWrites -> Nat] /\ once \in Nat
      /\ failed \subseteq ReadWrites /\ crowd \in BOOLEAN
      /\ \A v \in failed : phase[v] = "done"
      /\ ReadSound(Read!Page, phase) /\ Read!Page \in ReadPages
      /\ \A l \in ReadListeners : ReadKnows(Read!Page, phase, failed, l)
      /\ ~crowd => ReadBatches(Read!Page, phase)
  BY DEF ReadInv, ReadPage, ReadSound
<1>4. /\ phase' \in [ReadWrites -> ReadPhases] /\ phase'[w] = "done"
      /\ \A v \in ReadWrites : v # w => phase'[v] = phase[v]
  BY <1>1, <1>3 DEF ReadPhases
<1>5. \A v \in failed' : phase'[v] = "done"
  BY <1>1, <1>3, <1>4
<1>6. ReadSound(Read!Page, phase')
  <2>1. \A v \in stuns : phase'[v] # "new"
    BY <1>1, <1>3, <1>4 DEF ReadSound, Read!Page, ReadPages
  <2>2. ReadBegun(Read!Page, phase')
    BY <1>1, <1>3, <1>4 DEF ReadSound, ReadBegun, Read!Page, ReadPages
  <2> QED
    BY <1>3, <2>1, <2>2 DEF ReadSound, Read!Page
<1>7. \A l \in ReadListeners : ReadKnows(Read!Page, phase', failed', l)
  <2> TAKE l \in ReadListeners
  <2>1. ReadKnows(Read!Page, phase, failed, l)
    BY <1>3
  <2> QED
    BY <1>1, <1>4, <2>1 DEF ReadKnows, ReadLater, Read!Page
<1>8. ~crowd => ReadBatches(Read!Page, phase')
  <2>1. hatch \in ReadWrites \cup {Read!None}
    BY <1>3 DEF ReadPages, Read!Page
  <2> QED
    BY <1>1, <1>3, <1>4, <2>1 DEF ReadBatches, Read!Page
<1>9. ReadReads
  BY <1>1 DEF ReadReads
<1> QED
  BY <1>1, <1>2, <1>3, <1>4, <1>5, <1>6, <1>7, <1>8, <1>9 DEF ReadInv, ReadPage

LEMMA ReadGet ==
  ASSUME ReadInv, NEW l \in ReadListeners, Read!Get(l)
  PROVE  ReadInv' /\ ReadReads
<1> DEFINE p == [Read!Page EXCEPT !.id[l] = once + 1]
           q == IF read_data = 0 THEN p ELSE Read!any(p, {l}, FALSE, phase)
<1>1. /\ id[l] = 0 /\ once' = once + 1 /\ Read!Becomes(q)
      /\ UNCHANGED <<run, phase, failed, crowd>>
  BY DEF Read!Get
<1>2. /\ phase \in [ReadWrites -> ReadPhases] /\ run \in [ReadWrites -> Nat] /\ once \in Nat
      /\ failed \subseteq ReadWrites /\ crowd \in BOOLEAN
      /\ \A v \in failed : phase[v] = "done"
      /\ ReadSound(Read!Page, phase) /\ Read!Page \in ReadPages
      /\ \A k \in ReadListeners : ReadKnows(Read!Page, phase, failed, k)
      /\ ~crowd => ReadBatches(Read!Page, phase)
  BY DEF ReadInv, ReadPage, ReadSound
<1>3. /\ p \in ReadPages
      /\ p.data = read_data /\ p.id = [id EXCEPT ![l] = once + 1] /\ p.stuns = stuns
      /\ p.hatch = hatch /\ p.latch = latch /\ p.match = match /\ p.add = add
      /\ p.wait = read_wait /\ p.got = got
  BY <1>2 DEF ReadPages, Read!Page
<1> HIDE DEF p
<1>4. ReadSound(p, phase)
  BY <1>2, <1>3 DEF ReadSound, ReadBegun, Read!Page
<1>5. /\ id \in [ReadListeners -> Nat] /\ got \in [ReadListeners -> Nat] /\ read_data \in Nat
      /\ got[l] <= read_data
  BY <1>2 DEF ReadPages, ReadSound, Read!Page
<1>6. ASSUME NEW k \in ReadListeners, k # l PROVE ReadKnows(p, phase, failed, k)
  <2>1. ReadKnows(Read!Page, phase, failed, k)
    BY <1>2
  <2>2. p.id[k] = id[k]
    BY <1>3, <1>5, <1>6
  <2> QED
    BY <1>3, <2>1, <2>2 DEF ReadKnows, ReadLater, Read!Page
<1>7. read_wait[l] => ReadLater(p, phase, failed, l)
  <2>1. ReadKnows(Read!Page, phase, failed, l)
    BY <1>2
  <2> QED
    BY <1>3, <2>1 DEF ReadKnows, ReadLater, Read!Page
<1>8. /\ ReadPage(q, phase, failed)
      /\ q.hatch = hatch /\ q.latch = latch
      /\ \A k \in ReadListeners, w \in stuns :
           q.got[k] # got[k] /\ run[w] < q.id[k] => phase[w] = "done"
  <2>1. CASE read_data = 0
    <3>1. q = p
      BY <2>1
    <3>2. ReadKnows(p, phase, failed, l)
      BY <1>3, <1>5, <1>7, <2>1 DEF ReadKnows
    <3> QED
      BY <1>3, <1>4, <1>6, <3>1, <3>2, Zenon DEF ReadPage
  <2>2. CASE read_data # 0
    <3>1. q = Read!any(p, {l}, FALSE, phase)
      BY <2>2
    <3> HIDE DEF q
    <3>2. ReadCalled(p, {l}, FALSE, phase, q)
      BY <1>2, <1>3, <3>1, ReadAny
    <3>3. ReadSound(q, phase)
      BY <1>4, <3>2, ReadAnyPage
    <3>4. ASSUME NEW k \in ReadListeners PROVE ReadKnows(q, phase, failed, k)
      <4>1. ReadCallable(p, {l}, FALSE, phase, failed, k)
        BY <1>3, <1>6, <1>7 DEF ReadCallable
      <4> QED
        BY <1>2, <1>4, <3>2, <4>1, ReadAnyKnows DEF ReadSound
    <3>5. ASSUME NEW k \in ReadListeners, NEW w \in stuns, q.got[k] # got[k],
                 run[w] < q.id[k]
          PROVE  phase[w] = "done"
      <4>1. q.got[k] # p.got[k] /\ w \in p.stuns /\ run[w] < p.id[k]
        BY <1>3, <3>2, <3>5 DEF ReadCalled
      <4>2. phase[w] \notin {"stun", "walk"}
        BY <1>2, <1>3, <3>2, <4>1, ReadAnyWaits
      <4>3. phase[w] # "new" /\ w \in ReadWrites
        BY <1>2, <1>3, <1>4, <4>1 DEF ReadSound, ReadPages
      <4> QED
        BY <1>2, <4>2, <4>3 DEF ReadPhases
    <3>6. q.hatch = hatch /\ q.latch = latch
      BY <1>3, <3>2 DEF ReadCalled
    <3> QED
      BY <3>3, <3>4, <3>5, <3>6 DEF ReadPage
  <2> QED
    BY <2>1, <2>2
<1>9. Read!Page' = q
  BY <1>1, <1>8, ReadBecomes DEF ReadPage, ReadSound
<1> HIDE DEF q
<1>10. ~crowd => ReadBatches(q, phase)
  BY <1>2, <1>8 DEF ReadBatches, Read!Page
<1>11. ReadReads
  <2>1. q.got = got' /\ q.id = id'
    BY <1>9 DEF Read!Page
  <2> QED
    BY <1>1, <1>8, <2>1 DEF ReadReads
<1> QED
  BY <1>1, <1>2, <1>8, <1>9, <1>10, <1>11 DEF ReadInv

LEMMA ReadStep == ReadInv /\ [Read!Next]_Read!vars => ReadInv' /\ (ReadReads \/ got' = got)
<1> SUFFICES ASSUME ReadInv, [Read!Next]_Read!vars
             PROVE  ReadInv' /\ (ReadReads \/ got' = got)
  OBVIOUS
<1>1. ASSUME NEW w \in ReadWrites, Read!Hear(w) PROVE ReadInv' /\ ReadReads
  BY <1>1, ReadPutStep DEF Read!Hear
<1>2. ASSUME NEW w \in ReadWrites, Read!Ran(w) PROVE ReadInv' /\ ReadReads
  BY <1>2, ReadPutStep DEF Read!Ran
<1>3. CASE UNCHANGED Read!vars
  BY <1>3 DEF Read!vars, ReadInv, Read!Page, ReadPage, ReadSound, ReadKnows, ReadLater, ReadBegun, ReadBatches
<1> QED
  BY <1>1, <1>2, <1>3, ReadStun, ReadRanErr, ReadTurn, ReadGet DEF Read!Next

LEMMA ReadInit == Read!Init => ReadInv
<1> SUFFICES ASSUME Read!Init PROVE ReadInv
  OBVIOUS
<1>1. Read!Page \in ReadPages
  BY DEF Read!Init, Read!Page, ReadPages
<1>2. /\ Read!Page.hatch = Read!None /\ Read!Page.stuns = {}
      /\ \A v \in ReadWrites : Read!Page.latch[v] = Read!None
      /\ \A l \in ReadListeners : Read!Page.id[l] = 0 /\ ~Read!Page.wait[l]
                                  /\ Read!Page.got[l] <= Read!Page.data
  BY DEF Read!Init, Read!Page
<1>3. /\ phase \in [ReadWrites -> ReadPhases] /\ run \in [ReadWrites -> Nat] /\ once \in Nat
      /\ failed = {} /\ crowd = FALSE /\ \A v \in ReadWrites : phase[v] = "new"
  BY DEF Read!Init, ReadPhases
<1> QED
  BY <1>1, <1>2, <1>3 DEF ReadInv, ReadPage, ReadSound, ReadKnows, ReadBegun, ReadBatches

LEMMA ReadHolds == ReadInv => Read!NobodyWaitsForever /\ Read!BatchesAreKept
<1> SUFFICES ASSUME ReadInv PROVE Read!NobodyWaitsForever /\ Read!BatchesAreKept
  OBVIOUS
<1>1. Read!NobodyWaitsForever
  <2> SUFFICES ASSUME \A w \in ReadWrites : phase[w] \in {"new", "done"},
                      NEW l \in Read!Added
               PROVE  got[l] = read_data \/ \E w \in failed : l \in add[w]
    BY DEF Read!NobodyWaitsForever, Read!Resting
  <2>1. l \in ReadListeners /\ id[l] # 0 /\ ReadKnows(Read!Page, phase, failed, l)
    BY DEF Read!Added, ReadInv, ReadPage
  <2> QED
    BY <2>1 DEF ReadKnows, ReadLater, Read!Page
<1>2. Read!BatchesAreKept
  <2>1. hatch \in ReadWrites \cup {Read!None}
    BY DEF ReadInv, ReadPage, ReadSound, ReadPages, Read!Page
  <2> QED
    BY <2>1 DEF ReadInv, ReadBatches, Read!Page, Read!BatchesAreKept
<1> QED
  BY <1>1, <1>2

(* Whoever listens to a chain while its page writes waits for the writes   *)
(* that were there first, and is called when they have ended.              *)
THEOREM ReadCorrect == Read!Spec => ReadWaitsForWrites
<1>1. ReadReads \/ got' = got =>
        \A l \in ReadListeners, w \in stuns :
           got'[l] # got[l] /\ run[w] < id'[l] => phase'[w] = "done"
  BY DEF ReadReads
<1>2. ReadInv /\ [Read!Next]_Read!vars =>
        [\A l \in ReadListeners, w \in stuns :
           got'[l] # got[l] /\ run[w] < id'[l] => phase'[w] = "done"]_Read!vars
  BY <1>1, ReadStep
<1>3. ReadInv => (part = "read" => Read!NobodyWaitsForever /\ Read!BatchesAreKept)
  BY ReadHolds
<1> QED
  BY <1>2, <1>3, ReadInit, ReadStep, PTL DEF Read!Spec, ReadWaitsForWrites, Read!NoReadWhileWrite

-----------------------------------------------------------------------------
(* Events.                                                                 *)

EventsLinksType ==
  /\ table \in [EventsTags -> {0} \cup Events!Objects]
  /\ tag_of \in [Events!Objects -> EventsTags \cup {0}]
  /\ made \in Nat /\ made <= EventsMaxObjects
  /\ events_to \in [EventsListeners \cup Events!Objects -> EventsListeners \cup {Events!End}]
  /\ back \in [EventsListeners -> EventsListeners \cup Events!Objects \cup {Events!End}]
  /\ last_of \in [Events!Objects -> EventsListeners \cup Events!Objects]
  /\ the \in [EventsListeners -> {0} \cup Events!Objects]
  /\ off_at \in [EventsListeners -> Nat]
  /\ order \in [Events!Objects -> Seq(EventsListeners)]
  /\ again \in BOOLEAN

(* The object in whose list a node is, or was.  *)
EventsOwner(n) == IF n \in EventsListeners THEN the[n] ELSE n

(* Links do not lead from one list to another.  *)
EventsShape ==
  /\ \A t \in EventsTags : table[t] # 0 => table[t] <= made /\ tag_of[table[t]] = t
  /\ \A o \in Events!Objects : o <= made => tag_of[o] \in EventsTags
  /\ \A l \in EventsListeners :
       /\ the[l] <= made
       /\ the[l] = 0 => off_at[l] = 0 /\ events_to[l] = Events!End /\ back[l] = Events!End
       /\ the[l] # 0 => back[l] # Events!End /\ EventsOwner(back[l]) = the[l]
  /\ \A n \in EventsListeners \cup Events!Objects :
       events_to[n] # Events!End => the[events_to[n]] = EventsOwner(n)
  /\ \A o \in Events!Objects : EventsOwner(last_of[o]) = o

(* They lead from older listeners to younger ones, and back.  *)
EventsAged(age, oldest) ==
  \A l \in EventsListeners :
    /\ age[l] <= oldest
    /\ events_to[l] \in EventsListeners => age[l] < age[events_to[l]]
    /\ back[l] \in EventsListeners => age[back[l]] < age[l]

EventsAges == \E age \in [EventsListeners -> Nat], oldest \in Nat : EventsAged(age, oldest)

(* An object, and its listeners after it.  *)
EventsNth(o, q, n) == IF n = 0 THEN o ELSE q[n]

EventsChain(o, q, fore, aft, last) ==
  /\ \A i, j \in 1 .. Len(q) : q[i] = q[j] => i = j
  /\ last = EventsNth(o, q, Len(q))
  /\ fore[last] = Events!End
  /\ \A i \in 1 .. Len(q) :
       fore[EventsNth(o, q, i - 1)] = q[i] /\ aft[q[i]] = EventsNth(o, q, i - 1)

EventsLists ==
  /\ \A o \in Events!Objects :
       /\ EventsChain(o, order[o], events_to, back, last_of[o])
       /\ \A l \in EventsListeners :
            (\E i \in 1 .. Len(order[o]) : order[o][i] = l) <=> Events!Live(l) /\ the[l] = o
       /\ Len(order[o]) > 0 => table[tag_of[o]] = o
  /\ \A t \in EventsTags : table[t] # 0 => Len(order[table[t]]) > 0

LEMMA EventsConstants ==
  /\ EventsMaxObjects \in Nat
  /\ Events!Objects \subseteq Nat \ {0}
  /\ EventsListeners \cap Events!Objects = {}
  /\ 0 \notin EventsListeners /\ Events!End \notin EventsListeners
  /\ Events!Idle \notin EventsListeners
  /\ Events!End \notin Events!Objects /\ Events!End # Events!Idle /\ Events!End # 0
  /\ Events!None = 0
BY ListenersAssumption DEF Events!EventsAssumption, Events!Objects, Events!None, Events!End,
   Events!Idle

LEMMA EventsNumbers == \A n \in {0} \cup Events!Objects : n \in Nat /\ (n \in Events!Objects => n # 0)
BY EventsConstants

(* A listener is added at the end of a list.  *)
LEMMA EventsChainLonger ==
  ASSUME NEW o \in Events!Objects, NEW q \in Seq(EventsListeners),
         NEW fore \in [EventsListeners \cup Events!Objects -> EventsListeners \cup {Events!End}],
         NEW aft \in [EventsListeners -> EventsListeners \cup Events!Objects \cup {Events!End}],
         NEW last, EventsChain(o, q, fore, aft, last),
         NEW l \in EventsListeners, \A i \in 1 .. Len(q) : q[i] # l,
         fore[l] = Events!End
  PROVE  EventsChain(o, Append(q, l), [fore EXCEPT ![last] = l], [aft EXCEPT ![l] = last], l)
<1> DEFINE r == Append(q, l)
           n == Len(q)
<1>1. /\ n \in Nat /\ Len(r) = n + 1 /\ r[n + 1] = l /\ \A i \in 1 .. n : r[i] = q[i]
      /\ \A i \in 1 .. n : q[i] \in EventsListeners
  OBVIOUS
<1>2. \A i \in 0 .. n : EventsNth(o, r, i) = EventsNth(o, q, i)
                        /\ EventsNth(o, q, i) \in EventsListeners \cup Events!Objects
                        /\ EventsNth(o, q, i) # l
  BY <1>1, EventsConstants DEF EventsNth
<1>3. \A i, j \in 0 .. n : EventsNth(o, q, i) = EventsNth(o, q, j) => i = j
  BY <1>1, EventsConstants DEF EventsNth, EventsChain
<1>4. last = EventsNth(o, q, n) /\ last # l /\ last \in EventsListeners \cup Events!Objects
  BY <1>1, <1>2 DEF EventsChain
<1> HIDE DEF r, n
<1>5. \A i, j \in 1 .. Len(r) : r[i] = r[j] => i = j
  BY <1>1 DEF EventsChain, n
<1>6. EventsNth(o, r, Len(r)) = l
  BY <1>1 DEF EventsNth
<1>7. [fore EXCEPT ![last] = l][l] = Events!End
  BY <1>4
<1>8. ASSUME NEW i \in 1 .. Len(r)
      PROVE  /\ [fore EXCEPT ![last] = l][EventsNth(o, r, i - 1)] = r[i]
             /\ [aft EXCEPT ![l] = last][r[i]] = EventsNth(o, r, i - 1)
  <2>1. CASE i = n + 1
    BY <1>1, <1>2, <1>4, <2>1
  <2>2. CASE i \in 1 .. n
    <3>1. fore[EventsNth(o, q, i - 1)] = q[i] /\ aft[q[i]] = EventsNth(o, q, i - 1)
      BY <2>2 DEF EventsChain, n
    <3>2. i - 1 \in 0 .. n /\ n \in 0 .. n /\ i - 1 # n /\ r[i] = q[i] /\ q[i] # l
          /\ q[i] \in EventsListeners
      BY <1>1, <2>2 DEF n
    <3>3. EventsNth(o, q, i - 1) # last
      BY <1>3, <1>4, <3>2
    <3> QED
      BY <1>2, <3>1, <3>2, <3>3
  <2> QED
    BY <1>1, <2>1, <2>2
<1> QED
  BY <1>5, <1>6, <1>7, <1>8 DEF EventsChain, r

LEMMA EventsRemoved ==
  ASSUME NEW q \in Seq(EventsListeners), NEW k \in 1 .. Len(q)
  PROVE  /\ Events!RemoveAt(q, k) \in Seq(EventsListeners)
         /\ Len(Events!RemoveAt(q, k)) = Len(q) - 1
         /\ \A i \in 1 .. Len(q) - 1 :
              Events!RemoveAt(q, k)[i] = IF i < k THEN q[i] ELSE q[i + 1]
<1> DEFINE a == SubSeq(q, 1, k - 1)
           b == SubSeq(q, k + 1, Len(q))
<1>1. /\ a \in Seq(EventsListeners) /\ Len(a) = k - 1
      /\ \A i \in 1 .. k - 1 : a[i] = q[i]
  OBVIOUS
<1>2. /\ b \in Seq(EventsListeners) /\ Len(b) = Len(q) - k
      /\ \A i \in 1 .. Len(q) - k : b[i] = q[k + i]
  OBVIOUS
<1> HIDE DEF a, b
<1>3. /\ a \o b \in Seq(EventsListeners) /\ Len(a \o b) = Len(q) - 1
      /\ \A i \in 1 .. Len(q) - 1 : (a \o b)[i] = IF i < k THEN a[i] ELSE b[i - (k - 1)]
  <2>0. a \in Seq(EventsListeners) /\ b \in Seq(EventsListeners)
    BY <1>1, <1>2
  <2>1. a \o b \in Seq(EventsListeners) /\ Len(a \o b) = Len(a) + Len(b)
    BY <2>0
  <2>2. Len(q) \in Nat /\ k \in Nat /\ Len(a) + Len(b) = Len(q) - 1
    BY <1>1, <1>2
  <2>3. \A i \in 1 .. Len(a) + Len(b) : (a \o b)[i] = IF i <= Len(a) THEN a[i] ELSE b[i - Len(a)]
    BY <2>0
  <2>4. \A i \in 1 .. Len(q) - 1 : (i <= Len(a)) = (i < k)
    BY <1>1, <2>2
  <2> QED
    BY <1>1, <2>1, <2>2, <2>3, <2>4
<1>4. ASSUME NEW i \in 1 .. Len(q) - 1, ~(i < k) PROVE b[i - (k - 1)] = q[i + 1]
  <2>1. i - (k - 1) \in 1 .. Len(q) - k /\ k + (i - (k - 1)) = i + 1
    BY <1>4
  <2> QED
    BY <1>2, <2>1
<1>5. Events!RemoveAt(q, k) = a \o b
  BY DEF a, b, Events!RemoveAt
<1> QED
  BY <1>1, <1>3, <1>4, <1>5

LEMMA EventsWithoutType ==
  ASSUME NEW q \in Seq(EventsListeners), NEW l
  PROVE  Events!Without(q, l) \in Seq(EventsListeners)
<1>1. CASE l \in Events!ToSet(q)
  <2> DEFINE c == CHOOSE i \in DOMAIN q : q[i] = l
  <2>1. c \in 1 .. Len(q)
    BY <1>1 DEF Events!ToSet
  <2>2. Events!Without(q, l) = Events!RemoveAt(q, c)
    BY <1>1 DEF Events!Without
  <2> QED
    BY <2>1, <2>2, EventsRemoved
<1>2. CASE l \notin Events!ToSet(q)
  BY <1>2 DEF Events!Without
<1> QED
  BY <1>1, <1>2

LEMMA EventsWithout ==
  ASSUME NEW q \in Seq(EventsListeners), NEW l,
         \A i, j \in 1 .. Len(q) : q[i] = q[j] => i = j
  PROVE  \A k \in 1 .. Len(q) : q[k] = l => Events!Without(q, l) = Events!RemoveAt(q, k)
<1> SUFFICES ASSUME NEW k \in 1 .. Len(q), q[k] = l
             PROVE  Events!Without(q, l) = Events!RemoveAt(q, k)
  OBVIOUS
<1> DEFINE c == CHOOSE i \in DOMAIN q : q[i] = l
<1>1. DOMAIN q = 1 .. Len(q)
  OBVIOUS
<1>2. c \in DOMAIN q /\ q[c] = l
  BY <1>1
<1>3. c = k
  BY <1>1, <1>2
<1>4. l \in Events!ToSet(q)
  BY <1>1 DEF Events!ToSet
<1> QED
  BY <1>3, <1>4 DEF Events!Without

(* A listener is taken out of a list.  *)
EventsTakesOut(o, q, fore, aft, last, k, l, fore2, aft2, rest) ==
  /\ o \in Events!Objects /\ q \in Seq(EventsListeners)
  /\ fore \in [EventsListeners \cup Events!Objects -> EventsListeners \cup {Events!End}]
  /\ aft \in [EventsListeners -> EventsListeners \cup Events!Objects \cup {Events!End}]
  /\ EventsChain(o, q, fore, aft, last)
  /\ k \in 1 .. Len(q) /\ l = q[k]
  /\ fore2 = [fore EXCEPT ![aft[l]] = fore[l]]
  /\ aft2 = IF fore[l] = Events!End THEN aft ELSE [aft EXCEPT ![fore[l]] = aft[l]]
  /\ rest = IF last = l THEN aft[l] ELSE last

EventsTakenOut(o, q, k, fore, aft, rest) ==
  EventsChain(o, Events!RemoveAt(q, k), fore, aft, rest) /\ (rest = o <=> Len(q) = 1)

LEMMA EventsChainShorter ==
  ASSUME NEW o, NEW q, NEW fore, NEW aft, NEW last, NEW k, NEW l, NEW fore2, NEW aft2, NEW rest,
         EventsTakesOut(o, q, fore, aft, last, k, l, fore2, aft2, rest)
  PROVE  EventsTakenOut(o, q, k, fore2, aft2, rest)
<1>0. /\ o \in Events!Objects /\ q \in Seq(EventsListeners)
      /\ fore \in [EventsListeners \cup Events!Objects -> EventsListeners \cup {Events!End}]
      /\ aft \in [EventsListeners -> EventsListeners \cup Events!Objects \cup {Events!End}]
      /\ EventsChain(o, q, fore, aft, last)
      /\ k \in 1 .. Len(q) /\ l = q[k]
      /\ fore2 = [fore EXCEPT ![aft[l]] = fore[l]]
      /\ aft2 = IF fore[l] = Events!End THEN aft ELSE [aft EXCEPT ![fore[l]] = aft[l]]
      /\ rest = IF last = l THEN aft[l] ELSE last
  BY DEF EventsTakesOut
<1> DEFINE r == Events!RemoveAt(q, k)
           n == Len(q)
           at(i) == EventsNth(o, q, i)
<1>1. /\ n \in Nat /\ k \in 1 .. n /\ r \in Seq(EventsListeners) /\ Len(r) = n - 1
      /\ \A i \in 1 .. n - 1 : r[i] = IF i < k THEN q[i] ELSE q[i + 1]
      /\ \A i \in 1 .. n : q[i] \in EventsListeners
  <2>1. q \in Seq(EventsListeners) /\ k \in 1 .. Len(q)
    BY <1>0
  <2>2. /\ r \in Seq(EventsListeners) /\ Len(r) = Len(q) - 1
        /\ \A i \in 1 .. Len(q) - 1 : r[i] = IF i < k THEN q[i] ELSE q[i + 1]
    BY <2>1, EventsRemoved
  <2>3. Len(q) \in Nat /\ \A i \in 1 .. Len(q) : q[i] \in EventsListeners
    BY <2>1
  <2> QED
    BY <2>1, <2>2, <2>3
<1> USE <1>0
<1>2. /\ \A i \in 0 .. n : at(i) \in EventsListeners \cup Events!Objects
      /\ \A i, j \in 0 .. n : at(i) = at(j) => i = j
      /\ \A i \in 1 .. n : at(i) = q[i] /\ at(i) \in EventsListeners
      /\ at(0) = o
  BY <1>1, EventsConstants DEF EventsNth, EventsChain
<1>3. /\ last = at(n) /\ fore[at(n)] = Events!End
      /\ \A i \in 1 .. n : fore[at(i - 1)] = at(i) /\ aft[at(i)] = at(i - 1)
  BY <1>2 DEF EventsChain
<1>4. \A i \in 0 .. n - 1 : EventsNth(o, r, i) = IF i < k THEN at(i) ELSE at(i + 1)
  BY <1>1 DEF EventsNth
<1>5. l = at(k) /\ aft[l] = at(k - 1) /\ k - 1 \in 0 .. n
      /\ fore[l] = IF k = n THEN Events!End ELSE at(k + 1)
  BY <1>1, <1>2, <1>3
<1> HIDE DEF r, n, at
<1>6. \A i \in 0 .. n : fore2[at(i)] = IF i = k - 1 THEN fore[l] ELSE fore[at(i)]
  BY <1>2, <1>5
<1>7. \A i \in 1 .. n : aft2[at(i)] = IF i = k + 1 THEN at(k - 1) ELSE aft[at(i)]
  <2>1. CASE k = n
    BY <1>5, <2>1
  <2>2. CASE k # n
    <3>1. k + 1 \in 1 .. n /\ fore[l] = at(k + 1) /\ at(k + 1) \in EventsListeners
      BY <1>1, <1>2, <1>5, <2>2
    <3>2. aft2 = [aft EXCEPT ![at(k + 1)] = at(k - 1)]
      BY <1>5, <3>1, EventsConstants
    <3> QED
      BY <1>1, <1>2, <3>1, <3>2
  <2> QED
    BY <2>1, <2>2
<1>8a. ASSUME NEW i \in 1 .. n - 1
       PROVE  /\ i \in 0 .. n /\ i + 1 \in 0 .. n
              /\ r[i] = IF i < k THEN at(i) ELSE at(i + 1)
  <2>1. i \in 1 .. n /\ i + 1 \in 1 .. n
    BY <1>1
  <2>2. q[i] = at(i) /\ q[i + 1] = at(i + 1)
    BY <1>2, <2>1
  <2> QED
    BY <1>1, <2>1, <2>2
<1>8. \A i, j \in 1 .. Len(r) : r[i] = r[j] => i = j
  <2> SUFFICES ASSUME NEW i \in 1 .. Len(r), NEW j \in 1 .. Len(r), r[i] = r[j] PROVE i = j
    OBVIOUS
  <2>1. /\ i \in 0 .. n /\ i + 1 \in 0 .. n /\ j \in 0 .. n /\ j + 1 \in 0 .. n
        /\ r[i] = (IF i < k THEN at(i) ELSE at(i + 1))
        /\ r[j] = (IF j < k THEN at(j) ELSE at(j + 1))
    BY <1>1, <1>8a
  <2> DEFINE a == IF i < k THEN i ELSE i + 1
             b == IF j < k THEN j ELSE j + 1
  <2>2. a \in 0 .. n /\ b \in 0 .. n /\ at(a) = at(b)
    BY <2>1
  <2>3. a = b
    BY <1>2, <2>2
  <2> QED
    BY <1>1, <2>1, <2>3
<1>9. rest = EventsNth(o, r, Len(r))
  <2>1. last = l <=> k = n
    BY <1>1, <1>2, <1>3, <1>5
  <2>2. Len(r) \in 0 .. n - 1 /\ Len(r) + 1 = n
    BY <1>1
  <2> QED
    BY <1>1, <1>3, <1>4, <1>5, <2>1, <2>2
<1>10. fore2[EventsNth(o, r, Len(r))] = Events!End
  <2>1. Len(r) \in 0 .. n - 1 /\ Len(r) + 1 = n /\ Len(r) \in 0 .. n /\ n \in 0 .. n
    BY <1>1
  <2>2. CASE k = n
    BY <1>4, <1>5, <1>6, <2>1, <2>2
  <2>3. CASE k # n
    BY <1>1, <1>3, <1>4, <1>6, <2>1, <2>3
  <2> QED
    BY <2>2, <2>3
<1>11. ASSUME NEW i \in 1 .. Len(r)
       PROVE  fore2[EventsNth(o, r, i - 1)] = r[i] /\ aft2[r[i]] = EventsNth(o, r, i - 1)
  <2>1. /\ i \in 1 .. n - 1 /\ i - 1 \in 0 .. n - 1 /\ i - 1 \in 0 .. n /\ i \in 0 .. n
        /\ i \in 1 .. n /\ i + 1 \in 1 .. n /\ (i + 1) - 1 = i /\ (i - 1) + 1 = i
    BY <1>1
  <2>2. r[i] = IF i < k THEN at(i) ELSE at(i + 1)
    BY <1>8a, <2>1
  <2>3. EventsNth(o, r, i - 1) = IF i - 1 < k THEN at(i - 1) ELSE at(i)
    BY <1>4, <2>1
  <2>4. /\ fore[at(i - 1)] = at(i) /\ aft[at(i)] = at(i - 1)
        /\ fore[at(i)] = at(i + 1) /\ aft[at(i + 1)] = at(i)
    BY <1>3, <2>1
  <2>5. CASE i < k
    BY <1>1, <1>6, <1>7, <2>1, <2>2, <2>3, <2>4, <2>5
  <2>6. CASE i = k
    <3>1. fore[l] = at(k + 1)
      BY <1>5, <2>1, <2>6
    <3> QED
      BY <1>1, <1>6, <1>7, <2>1, <2>2, <2>3, <2>4, <2>6, <3>1
  <2>7. CASE i > k
    <3>1. r[i] = at(i + 1) /\ EventsNth(o, r, i - 1) = at(i)
      BY <1>1, <2>1, <2>2, <2>3, <2>7
    <3>2. fore2[at(i)] = fore[at(i)]
      BY <1>1, <1>6, <2>1, <2>7
    <3>3. aft2[at(i + 1)] = aft[at(i + 1)]
      BY <1>1, <1>7, <2>1, <2>7
    <3> QED
      BY <2>4, <3>1, <3>2, <3>3
  <2> QED
    BY <1>1, <2>1, <2>5, <2>6, <2>7
<1>12. EventsChain(o, r, fore2, aft2, rest)
  BY <1>8, <1>9, <1>10, <1>11 DEF EventsChain
<1>13. rest = o <=> n = 1
  <2>1. Len(r) \in 0 .. n - 1 /\ Len(r) \in 0 .. n /\ Len(r) + 1 \in 0 .. n /\ 0 \in 0 .. n /\ Len(r) + 1 = n
    BY <1>1
  <2> QED
    BY <1>1, <1>2, <1>4, <1>9, <2>1
<1> QED
  BY <1>12, <1>13 DEF EventsTakenOut, r, n

(* Links of other lists do not matter.  *)
LEMMA EventsChainSame ==
  ASSUME NEW o \in Events!Objects, NEW q \in Seq(EventsListeners),
         NEW fore, NEW aft, NEW last, EventsChain(o, q, fore, aft, last),
         NEW fore2, NEW aft2,
         \A n : EventsOwner(n) = o => fore2[n] = fore[n],
         \A n \in EventsListeners : the[n] = o => aft2[n] = aft[n],
         \A i \in 1 .. Len(q) : the[q[i]] = o
  PROVE  EventsChain(o, q, fore2, aft2, last)
<1>1. \A i \in 1 .. Len(q) : q[i] \in EventsListeners
  OBVIOUS
<1>2. \A i \in 0 .. Len(q) : EventsOwner(EventsNth(o, q, i)) = o
  BY <1>1, EventsConstants DEF EventsOwner, EventsNth
<1>3. Len(q) \in 0 .. Len(q) /\ \A i \in 1 .. Len(q) : i - 1 \in 0 .. Len(q)
  OBVIOUS
<1> QED
  BY <1>1, <1>2, <1>3 DEF EventsChain

EventsLinks ==
  EventsLinksType /\ EventsShape /\ EventsAges /\ (~again => EventsLists)

LEMMA EventsLinked ==
  ASSUME EventsLinks, NEW t \in EventsTags, NEW l \in EventsListeners,
         Events!Link(t, l), again' = again
  PROVE  EventsLinks' /\ events_to'[l] = Events!End /\ the' = [the EXCEPT ![l] = the'[l]]
         /\ the'[l] # 0 /\ off_at' = off_at /\ off_at[l] = 0 /\ the[l] = 0
         /\ \E n \in EventsListeners \cup Events!Objects :
              events_to' = [events_to EXCEPT ![n] = l] /\ (~again => events_to[n] = Events!End)
<1> DEFINE o == IF table[t] = 0 THEN made + 1 ELSE table[t]
           last == last_of[o]
<1>1. /\ the[l] = 0 /\ o <= EventsMaxObjects
      /\ table' = [table EXCEPT ![t] = o]
      /\ tag_of' = [tag_of EXCEPT ![o] = t]
      /\ made' = IF table[t] = 0 THEN made + 1 ELSE made
      /\ events_to' = [events_to EXCEPT ![last] = l]
      /\ back' = [back EXCEPT ![l] = last]
      /\ last_of' = [last_of EXCEPT ![o] = l]
      /\ the' = [the EXCEPT ![l] = o]
      /\ order' = [order EXCEPT ![o] = Append(@, l)]
      /\ off_at' = off_at
  BY EventsConstants DEF Events!Link
<1>2. EventsLinksType /\ EventsShape /\ EventsAges /\ (~again => EventsLists)
  BY DEF EventsLinks
<1>3. /\ o \in Events!Objects /\ o # 0 /\ made' \in Nat /\ made' <= EventsMaxObjects /\ o <= made'
      /\ made <= made' /\ (o <= made => o = table[t])
      /\ made' = made \/ (made' = made + 1 /\ o = made')
  BY <1>1, <1>2, EventsConstants DEF EventsLinksType, EventsShape, Events!Objects
<1>4. /\ last \in EventsListeners \cup Events!Objects /\ EventsOwner(last) = o /\ last # l
      /\ last # Events!End
  <2>1. last_of[o] \in EventsListeners \cup Events!Objects /\ EventsOwner(last_of[o]) = o
    <3> HIDE DEF o
    <3> QED
      BY <1>2, <1>3 DEF EventsLinksType, EventsShape
  <2>2. last # l
    BY <1>1, <1>3, <2>1 DEF EventsOwner
  <2> QED
    BY <2>1, <2>2, EventsConstants
<1> HIDE DEF o, last
<1>5. EventsLinksType'
  <2>1. order' \in [Events!Objects -> Seq(EventsListeners)]
    <3>1. order \in [Events!Objects -> Seq(EventsListeners)]
      BY <1>2 DEF EventsLinksType
    <3>2. Append(order[o], l) \in Seq(EventsListeners)
      BY <1>3, <3>1
    <3> QED
      BY <1>1, <3>1, <3>2
  <2> QED
    BY <1>1, <1>2, <1>3, <1>4, <2>1 DEF EventsLinksType
<1>6. /\ off_at[l] = 0 /\ events_to[l] = Events!End /\ back[l] = Events!End
      /\ events_to'[l] = Events!End
  BY <1>1, <1>2, <1>4 DEF EventsShape, EventsLinksType
<1>7. /\ \A n \in EventsListeners \cup Events!Objects : events_to[n] # l
      /\ \A k \in EventsListeners : back[k] # l
      /\ \A c \in Events!Objects : last_of[c] # l
  BY <1>1, <1>2, EventsConstants DEF EventsShape, EventsOwner
<1>8. \A n : n # l => EventsOwner(n)' = EventsOwner(n)
  BY <1>1, <1>2 DEF EventsOwner, EventsLinksType
<1>8a. EventsOwner(l)' = o
  BY <1>1, <1>2 DEF EventsOwner, EventsLinksType
<1>9. EventsShape'
  <2>1. ASSUME NEW u \in EventsTags, table'[u] # 0
        PROVE  table'[u] <= made' /\ tag_of'[table'[u]] = u
    <3>1. CASE u = t
      BY <1>1, <1>2, <1>3, <3>1 DEF EventsLinksType
    <3>2. CASE u # t
      <4>1. table'[u] = table[u] /\ table[u] <= made /\ tag_of[table[u]] = u /\ table[u] \in Events!Objects
        BY <1>1, <1>2, <2>1, <3>2 DEF EventsLinksType, EventsShape
      <4>2. table[u] # o
        <5>1. CASE o <= made
          BY <1>2, <1>3, <3>2, <4>1, <5>1 DEF EventsShape
        <5>2. CASE ~(o <= made)
          BY <4>1, <5>2
        <5> QED
          BY <5>1, <5>2
      <4> QED
        <5>1. tag_of'[table[u]] = tag_of[table[u]]
          BY <1>1, <1>2, <4>1, <4>2 DEF EventsLinksType
        <5>2. table[u] \in Nat /\ made \in Nat
          BY <1>2, <4>1, EventsConstants DEF EventsLinksType
        <5> QED
          BY <1>3, <4>1, <5>1, <5>2
    <3> QED
      BY <3>1, <3>2
  <2>2. ASSUME NEW c \in Events!Objects, c <= made' PROVE tag_of'[c] \in EventsTags
    <3>1. CASE c = o
      BY <1>1, <1>2, <3>1 DEF EventsLinksType
    <3>2. CASE c # o
      <4>1. c <= made
        BY <1>2, <1>3, <2>2, <3>2, EventsConstants DEF EventsLinksType
      <4> QED
        BY <1>1, <1>2, <3>2, <4>1 DEF EventsLinksType, EventsShape
    <3> QED
      BY <3>1, <3>2
  <2>3. ASSUME NEW k \in EventsListeners
        PROVE  /\ the'[k] <= made'
               /\ the'[k] = 0 => off_at'[k] = 0 /\ events_to'[k] = Events!End /\ back'[k] = Events!End
               /\ the'[k] # 0 => back'[k] # Events!End /\ EventsOwner(back[k])' = the'[k]
    <3>1. CASE k = l
      BY <1>1, <1>2, <1>3, <1>4, <1>8, <3>1 DEF EventsLinksType
    <3>2. CASE k # l
      <4>1. the'[k] = the[k] /\ back'[k] = back[k] /\ back[k] # l /\ the[k] <= made /\ the[k] \in Nat
        <5>1. the'[k] = the[k] /\ back'[k] = back[k] /\ back[k] # l
          BY <1>1, <1>2, <1>7, <3>2 DEF EventsLinksType
        <5>2. the[k] <= made /\ the[k] \in {0} \cup Events!Objects
          BY <1>2 DEF EventsLinksType, EventsShape
        <5>3. the[k] \in Nat
          BY <5>2, EventsNumbers
        <5> QED
          BY <5>1, <5>2, <5>3
      <4>2. the[k] = 0 => k # last
        BY <1>3, <1>4 DEF EventsOwner
      <4>3. events_to'[k] = IF k = last THEN l ELSE events_to[k]
        BY <1>1, <1>2 DEF EventsLinksType
      <4>4. the'[k] <= made'
        BY <1>2, <1>3, <4>1 DEF EventsLinksType
      <4>5. the[k] # 0 => back[k] # Events!End /\ EventsOwner(back[k]) = the[k]
        BY <1>2 DEF EventsShape
      <4>6. EventsOwner(back[k])' = EventsOwner(back[k])
        BY <1>8, <4>1
      <4>7. the[k] = 0 => off_at[k] = 0 /\ events_to[k] = Events!End /\ back[k] = Events!End
        BY <1>2 DEF EventsShape
      <4> QED
        BY <1>1, <4>1, <4>2, <4>3, <4>4, <4>5, <4>6, <4>7
    <3> QED
      BY <3>1, <3>2
  <2>4. ASSUME NEW n \in EventsListeners \cup Events!Objects, events_to'[n] # Events!End
        PROVE  the'[events_to'[n]] = EventsOwner(n)'
    <3>1. CASE n = last
      <4>1. events_to'[n] = l /\ the'[l] = o
        BY <1>1, <1>2, <3>1 DEF EventsLinksType
      <4> QED
        BY <1>4, <1>8, <3>1, <4>1
    <3>2. CASE n # last
      <4>1. events_to'[n] = events_to[n] /\ events_to[n] # l /\ events_to[n] \in EventsListeners
        BY <1>1, <1>2, <1>7, <2>4, <3>2 DEF EventsLinksType
      <4>2. n # l
        BY <1>6, <2>4
      <4>3. the'[events_to[n]] = the[events_to[n]] /\ the[events_to[n]] = EventsOwner(n)
        BY <1>1, <1>2, <2>4, <4>1 DEF EventsLinksType, EventsShape
      <4> QED
        BY <1>8, <4>1, <4>2, <4>3
    <3> QED
      BY <3>1, <3>2
  <2>5. ASSUME NEW c \in Events!Objects PROVE EventsOwner(last_of[c])' = c
    <3>1. CASE c = o
      <4>1. last_of'[c] = l
        BY <1>1, <1>2, <3>1 DEF EventsLinksType
      <4> QED
        BY <1>8a, <3>1, <4>1
    <3>2. CASE c # o
      <4>1. last_of'[c] = last_of[c] /\ last_of[c] # l /\ EventsOwner(last_of[c]) = c
        BY <1>1, <1>2, <1>7, <3>2 DEF EventsLinksType, EventsShape
      <4> QED
        BY <1>8, <4>1
    <3> QED
      BY <3>1, <3>2
  <2> QED
    BY <2>1, <2>2, <2>3, <2>4, <2>5 DEF EventsShape
<1>10. EventsAges'
  <2>1. PICK age \in [EventsListeners -> Nat], oldest \in Nat : EventsAged(age, oldest)
    BY <1>2 DEF EventsAges
  <2> DEFINE age2 == [age EXCEPT ![l] = oldest + 1]
  <2>2. age2 \in [EventsListeners -> Nat] /\ oldest + 1 \in Nat
    OBVIOUS
  <2>3. ASSUME NEW k \in EventsListeners
        PROVE  /\ age2[k] <= oldest + 1
               /\ events_to'[k] \in EventsListeners => age2[k] < age2[events_to'[k]]
               /\ back'[k] \in EventsListeners => age2[back'[k]] < age2[k]
    <3>1. /\ age[k] <= oldest /\ age[k] \in Nat
          /\ events_to[k] \in EventsListeners => age[k] < age[events_to[k]]
          /\ back[k] \in EventsListeners => age[back[k]] < age[k]
          /\ last \in EventsListeners => age[last] <= oldest /\ age[last] \in Nat
      BY <2>1 DEF EventsAged
    <3>2. CASE k = l
      <4>1. events_to'[k] = Events!End /\ back'[k] = last
        BY <1>1, <1>2, <1>6, <3>2 DEF EventsLinksType
      <4> QED
        BY <1>4, <3>1, <3>2, <4>1, EventsConstants
    <3>3. CASE k # l
      <4>1. /\ back'[k] = back[k] /\ back[k] # l
            /\ events_to'[k] = (IF k = last THEN l ELSE events_to[k]) /\ events_to[k] # l
        BY <1>1, <1>2, <1>7, <3>3 DEF EventsLinksType
      <4> QED
        BY <3>1, <3>3, <4>1
    <3> QED
      BY <3>2, <3>3
  <2>4. EventsAged(age2, oldest + 1)'
    BY <2>3 DEF EventsAged
  <2> QED
    BY <2>2, <2>4 DEF EventsAges
<1>11. ASSUME ~again PROVE EventsLists' /\ events_to[last] = Events!End
  <2>0. EventsLists
    BY <1>2, <1>11
  <2>a. order[o] \in Seq(EventsListeners)
    BY <1>2, <1>3 DEF EventsLinksType
  <2>b. \A i \in 1 .. Len(order[o]) : order[o][i] # l
    BY <1>1, <1>3, <2>0, <2>a DEF EventsLists
  <2>c. EventsChain(o, order[o], events_to, back, last)
    BY <1>3, <2>0 DEF EventsLists, last
  <2>1. EventsChain(o, Append(order[o], l), events_to', back', l)
    <3>1. events_to \in [EventsListeners \cup Events!Objects -> EventsListeners \cup {Events!End}]
          /\ back \in [EventsListeners -> EventsListeners \cup Events!Objects \cup {Events!End}]
      BY <1>2 DEF EventsLinksType
    <3> QED
      BY <1>1, <1>3, <1>6, <2>a, <2>b, <2>c, <3>1, EventsChainLonger
  <2>2. ASSUME NEW c \in Events!Objects, c # o
        PROVE  EventsChain(c, order[c], events_to', back', last_of[c])
    <3>1. EventsChain(c, order[c], events_to, back, last_of[c]) /\ order[c] \in Seq(EventsListeners)
          /\ \A i \in 1 .. Len(order[c]) : the[order[c][i]] = c
      BY <1>2, <2>0 DEF EventsLists, EventsLinksType
    <3>2. \A n : EventsOwner(n) = c => events_to'[n] = events_to[n]
      BY <1>1, <1>2, <1>4, <2>2 DEF EventsLinksType
    <3>3. \A n \in EventsListeners : the[n] = c => back'[n] = back[n]
      BY <1>1, <1>2, <2>2, EventsConstants DEF EventsLinksType
    <3> QED
      BY <3>1, <3>2, <3>3, EventsChainSame
  <2>3. ASSUME NEW c \in Events!Objects
        PROVE  EventsChain(c, order'[c], events_to', back', last_of'[c])
    <3>1. CASE c = o
      BY <1>1, <1>2, <2>1, <3>1 DEF EventsLinksType
    <3>2. CASE c # o
      BY <1>1, <1>2, <2>2, <3>2 DEF EventsLinksType
    <3> QED
      BY <3>1, <3>2
  <2>4. ASSUME NEW c \in Events!Objects, NEW k \in EventsListeners
        PROVE  (\E i \in 1 .. Len(order'[c]) : order'[c][i] = k) <=> Events!Live(k)' /\ the'[k] = c
    <3>0. /\ (\E i \in 1 .. Len(order[c]) : order[c][i] = k) <=> Events!Live(k) /\ the[k] = c
          /\ order[c] \in Seq(EventsListeners)
      BY <1>2, <2>0 DEF EventsLists, EventsLinksType
    <3>a. Events!Live(k)' <=> the'[k] # 0 /\ off_at[k] = 0
      BY <1>1, EventsConstants DEF Events!Live
    <3>b. Events!Live(k) <=> the[k] # 0 /\ off_at[k] = 0
      BY EventsConstants DEF Events!Live
    <3>1. CASE c = o
      <4>1. order'[c] = Append(order[c], l)
        BY <1>1, <1>2, <3>1 DEF EventsLinksType
      <4>2. (\E i \in 1 .. Len(order'[c]) : order'[c][i] = k)
              <=> k = l \/ \E i \in 1 .. Len(order[c]) : order[c][i] = k
        <5> DEFINE s == order[c]
        <5>1. /\ s \in Seq(EventsListeners) /\ Len(Append(s, l)) = Len(s) + 1 /\ Append(s, l)[Len(s) + 1] = l
              /\ \A i \in 1 .. Len(s) : Append(s, l)[i] = s[i]
              /\ Len(s) \in Nat
          BY <3>0
        <5> HIDE DEF s
        <5>2. (\E i \in 1 .. Len(s) + 1 : Append(s, l)[i] = k) <=> k = l \/ \E i \in 1 .. Len(s) : s[i] = k
          BY <5>1
        <5> QED
          BY <4>1, <5>1, <5>2 DEF s
      <4>3. the' = [the EXCEPT ![l] = o] /\ the \in [EventsListeners -> {0} \cup Events!Objects]
        BY <1>1, <1>2 DEF EventsLinksType
      <4> QED
        BY <1>3, <1>6, <3>0, <3>1, <3>a, <3>b, <4>2, <4>3
    <3>2. CASE c # o
      <4>1. order'[c] = order[c]
        BY <1>1, <1>2, <3>2 DEF EventsLinksType
      <4>2. the' = [the EXCEPT ![l] = o] /\ the \in [EventsListeners -> {0} \cup Events!Objects]
        BY <1>1, <1>2 DEF EventsLinksType
      <4> QED
        BY <1>1, <3>0, <3>2, <3>a, <3>b, <4>1, <4>2, EventsConstants
    <3> QED
      BY <3>1, <3>2
  <2>5. ASSUME NEW c \in Events!Objects, Len(order'[c]) > 0 PROVE table'[tag_of'[c]] = c
    <3>1. CASE c = o
      BY <1>1, <1>2, <1>3, <3>1 DEF EventsLinksType
    <3>2. CASE c # o
      <4>1. order'[c] = order[c] /\ tag_of'[c] = tag_of[c]
        BY <1>1, <1>2, <3>2 DEF EventsLinksType
      <4>2. table[tag_of[c]] = c
        BY <2>0, <2>5, <4>1 DEF EventsLists
      <4>3. tag_of[c] # t
        BY <3>2, <4>2, EventsConstants DEF o
      <4> QED
        BY <1>1, <1>2, <4>1, <4>2, <4>3 DEF EventsLinksType
    <3> QED
      BY <3>1, <3>2
  <2>6. ASSUME NEW u \in EventsTags, table'[u] # 0 PROVE Len(order'[table'[u]]) > 0
    <3>1. Len(Append(order[o], l)) > 0
      BY <2>a
    <3>2. order'[o] = Append(order[o], l)
      BY <1>1, <1>2, <1>3 DEF EventsLinksType
    <3>3. CASE table'[u] = o
      BY <3>1, <3>2, <3>3
    <3>4. CASE table'[u] # o
      <4>1. table'[u] = table[u] /\ order'[table[u]] = order[table[u]] /\ table[u] \in Events!Objects
        BY <1>1, <1>2, <2>6, <3>4 DEF EventsLinksType
      <4> QED
        BY <2>0, <2>6, <4>1 DEF EventsLists
    <3> QED
      BY <3>3, <3>4
  <2>7. events_to[last] = Events!End
    BY <2>c DEF EventsChain
  <2> QED
    BY <2>3, <2>4, <2>5, <2>6, <2>7 DEF EventsLists
<1>12. EventsLinks'
  BY <1>5, <1>9, <1>10, <1>11 DEF EventsLinks
<1>13. the'[l] = o
  BY <1>1, <1>2 DEF EventsLinksType
<1> QED
  BY <1>1, <1>3, <1>4, <1>6, <1>11, <1>12, <1>13

LEMMA EventsUnlinked ==
  ASSUME EventsLinks, NEW l \in EventsListeners, the[l] # 0, Events!Unlink(l)
  PROVE  /\ EventsLinks' /\ the' = the /\ (again => again')
         /\ off_at'[l] # 0
         /\ \A k \in EventsListeners : off_at[k] # 0 => off_at'[k] # 0
         /\ \A k \in EventsListeners : k # l => off_at'[k] = off_at[k]
         /\ \/ off_at[l] # 0 /\ UNCHANGED <<events_to, events_due>>
            \/ /\ events_due' = events_due \ {l}
               /\ events_to' = [events_to EXCEPT ![back[l]] = events_to[l]]
               /\ ~again' => events_to[back[l]] = l
<1>2. EventsLinksType /\ EventsShape /\ EventsAges /\ (~again => EventsLists)
  BY DEF EventsLinks
<1>3. /\ the[l] \in Events!Objects /\ the[l] <= made /\ made \in Nat /\ made # 0
  <2>1. the[l] \in {0} \cup Events!Objects /\ the[l] <= made /\ made \in Nat
    BY <1>2 DEF EventsLinksType, EventsShape
  <2>2. the[l] \in Nat /\ the[l] \in Events!Objects
    BY <2>1, EventsNumbers
  <2> QED
    BY <2>1, <2>2
<1>4. CASE Events!IsOff(l)
  <2>1. UNCHANGED <<table, tag_of, made, events_to, back, last_of, the, off_at, order, events_due, again>>
    BY <1>4 DEF Events!Unlink, Events!links
  <2>2. off_at[l] # 0
    BY <1>3, <1>4 DEF Events!IsOff
  <2>3. EventsLinks'
    <3>1. EventsLinksType' /\ EventsShape' /\ (EventsLists => EventsLists')
      BY <1>2, <2>1 DEF EventsLinksType, EventsShape, EventsOwner, EventsLists, Events!Live
    <3>2. PICK age \in [EventsListeners -> Nat], oldest \in Nat : EventsAged(age, oldest)
      BY <1>2 DEF EventsAges
    <3>3. EventsAged(age, oldest)'
      BY <2>1, <3>2 DEF EventsAged
    <3>4. EventsAges'
      BY <3>3 DEF EventsAges
    <3> QED
      BY <1>2, <2>1, <3>1, <3>4 DEF EventsLinks
  <2> QED
    BY <2>1, <2>2, <2>3
<1>5. CASE ~Events!IsOff(l)
  <2> DEFINE o == the[l]
             rest == IF last_of[o] = l THEN back[l] ELSE last_of[o]
  <2>1. /\ last_of' = [last_of EXCEPT ![o] = rest]
        /\ back' = IF events_to[l] = Events!End THEN back ELSE [back EXCEPT ![events_to[l]] = back[l]]
        /\ events_to' = [events_to EXCEPT ![back[l]] = events_to[l]]
        /\ off_at' = [off_at EXCEPT ![l] = made]
        /\ table' = IF rest = o THEN [table EXCEPT ![tag_of[o]] = 0] ELSE table
        /\ order' = [order EXCEPT ![o] = Events!Without(@, l)]
        /\ events_due' = events_due \ {l}
        /\ again' = (again \/ off_at[l] # 0)
        /\ UNCHANGED <<made, tag_of, the>>
    BY <1>5, EventsConstants DEF Events!Unlink
  <2>2. /\ o \in Events!Objects /\ o # 0 /\ o <= made
        /\ back[l] \in EventsListeners \cup Events!Objects /\ EventsOwner(back[l]) = o
        /\ events_to[l] \in EventsListeners \cup {Events!End}
        /\ last_of[o] \in EventsListeners \cup Events!Objects /\ EventsOwner(last_of[o]) = o
        /\ tag_of[o] \in EventsTags
        /\ events_to[l] # Events!End => the[events_to[l]] = o
    BY <1>2, <1>3, EventsConstants DEF EventsLinksType, EventsShape, EventsOwner
  <2>3. rest \in EventsListeners \cup Events!Objects /\ EventsOwner(rest) = o
    BY <2>2
  <2> HIDE DEF o, rest
  <2>4. EventsLinksType'
    <3>1. order' \in [Events!Objects -> Seq(EventsListeners)]
      <4>1. order \in [Events!Objects -> Seq(EventsListeners)]
        BY <1>2 DEF EventsLinksType
      <4>2. Events!Without(order[o], l) \in Seq(EventsListeners)
        BY <2>2, <4>1, EventsWithoutType
      <4> QED
        BY <2>1, <2>2, <4>1, <4>2
    <3>2. back' \in [EventsListeners -> EventsListeners \cup Events!Objects \cup {Events!End}]
      BY <1>2, <2>1, <2>2 DEF EventsLinksType
    <3>3. again' \in BOOLEAN
      BY <1>2, <2>1 DEF EventsLinksType
    <3>4. table' \in [EventsTags -> {0} \cup Events!Objects]
      BY <1>2, <2>1 DEF EventsLinksType
    <3> QED
      BY <1>2, <2>1, <2>2, <2>3, <3>1, <3>2, <3>3, <3>4 DEF EventsLinksType
  <2>5. \A n : EventsOwner(n)' = EventsOwner(n)
    BY <2>1 DEF EventsOwner
  <2>6. EventsShape'
    <3>1. ASSUME NEW u \in EventsTags, table'[u] # 0
          PROVE  table'[u] <= made' /\ tag_of'[table'[u]] = u
      <4>1. table'[u] = table[u]
        BY <1>2, <2>1, <3>1 DEF EventsLinksType
      <4> QED
        BY <1>2, <2>1, <3>1, <4>1 DEF EventsShape
    <3>2. ASSUME NEW k \in EventsListeners
          PROVE  /\ the'[k] <= made'
                 /\ the'[k] = 0 => off_at'[k] = 0 /\ events_to'[k] = Events!End /\ back'[k] = Events!End
                 /\ the'[k] # 0 => back'[k] # Events!End /\ EventsOwner(back[k])' = the'[k]
      <4>0. /\ the[k] <= made
            /\ the[k] = 0 => off_at[k] = 0 /\ events_to[k] = Events!End /\ back[k] = Events!End
            /\ the[k] # 0 => back[k] # Events!End /\ EventsOwner(back[k]) = the[k]
        BY <1>2 DEF EventsShape
      <4>1. CASE the[k] = 0
        <5>1. k # l /\ k # back[l] /\ k # events_to[l]
          BY <2>2, <4>1, EventsConstants DEF EventsOwner, o
        <5> QED
          BY <1>2, <2>1, <4>0, <4>1, <5>1 DEF EventsLinksType
      <4>2. CASE the[k] # 0
        <5>1. back'[k] = back[k] \/ (k = events_to[l] /\ k # Events!End /\ back'[k] = back[l])
          BY <1>2, <2>1 DEF EventsLinksType
        <5>2. back'[k] # Events!End /\ EventsOwner(back'[k]) = the[k]
          BY <2>2, <4>0, <4>2, <5>1, EventsConstants
        <5>3. EventsOwner(back[k])' = EventsOwner(back'[k])
          BY <2>1 DEF EventsOwner
        <5> QED
          BY <2>1, <4>0, <4>2, <5>2, <5>3
      <4> QED
        BY <4>1, <4>2
    <3>3. ASSUME NEW n \in EventsListeners \cup Events!Objects, events_to'[n] # Events!End
          PROVE  the'[events_to'[n]] = EventsOwner(n)'
      <4>1. CASE n = back[l]
        <5>1. events_to'[n] = events_to[l]
          BY <1>2, <2>1, <4>1 DEF EventsLinksType
        <5> QED
          BY <2>1, <2>2, <2>5, <3>3, <4>1, <5>1
      <4>2. CASE n # back[l]
        <5>1. events_to'[n] = events_to[n]
          BY <1>2, <2>1, <4>2 DEF EventsLinksType
        <5> QED
          BY <1>2, <2>1, <2>5, <3>3, <5>1 DEF EventsShape
      <4> QED
        BY <4>1, <4>2
    <3>4. ASSUME NEW c \in Events!Objects PROVE EventsOwner(last_of[c])' = c
      <4>1. last_of'[c] = last_of[c] \/ (c = o /\ last_of'[c] = rest)
        BY <1>2, <2>1 DEF EventsLinksType
      <4>2. EventsOwner(last_of'[c]) = c
        BY <1>2, <2>3, <4>1 DEF EventsShape
      <4>3. EventsOwner(last_of[c])' = EventsOwner(last_of'[c])
        BY <2>1 DEF EventsOwner
      <4> QED
        BY <4>2, <4>3
    <3>5. \A c \in Events!Objects : c <= made' => tag_of'[c] \in EventsTags
      BY <1>2, <2>1 DEF EventsShape
    <3> QED
      BY <3>1, <3>2, <3>3, <3>4, <3>5 DEF EventsShape
  <2>7. EventsAges'
    <3>1. PICK age \in [EventsListeners -> Nat], oldest \in Nat : EventsAged(age, oldest)
      BY <1>2 DEF EventsAges
    <3>2. ASSUME NEW k \in EventsListeners
          PROVE  /\ age[k] <= oldest
                 /\ events_to'[k] \in EventsListeners => age[k] < age[events_to'[k]]
                 /\ back'[k] \in EventsListeners => age[back'[k]] < age[k]
      <4>1. /\ age[k] <= oldest /\ age[k] \in Nat /\ age[l] \in Nat
            /\ events_to[k] \in EventsListeners => age[k] < age[events_to[k]]
            /\ back[k] \in EventsListeners => age[back[k]] < age[k] /\ age[back[k]] \in Nat
            /\ events_to[l] \in EventsListeners => age[l] < age[events_to[l]] /\ age[events_to[l]] \in Nat
            /\ back[l] \in EventsListeners => age[back[l]] < age[l] /\ age[back[l]] \in Nat
        BY <3>1 DEF EventsAged
      <4>2. events_to'[k] = IF k = back[l] THEN events_to[l] ELSE events_to[k]
        BY <1>2, <2>1 DEF EventsLinksType
      <4>3. back'[k] = back[k] \/ (k = events_to[l] /\ back'[k] = back[l])
        BY <1>2, <2>1 DEF EventsLinksType
      <4>4. events_to'[k] \in EventsListeners => age[k] < age[events_to'[k]]
        BY <4>1, <4>2
      <4>5. back'[k] \in EventsListeners => age[back'[k]] < age[k]
        BY <4>1, <4>3
      <4> QED
        BY <4>1, <4>4, <4>5
    <3>3. EventsAged(age, oldest)'
      BY <3>2 DEF EventsAged
    <3> QED
      BY <3>3 DEF EventsAges
  <2>8. ASSUME ~again' PROVE EventsLists' /\ events_to[back[l]] = l
    <3>0. EventsLists /\ off_at[l] = 0 /\ Events!Live(l)
      BY <1>2, <2>1, <2>2, <2>8, EventsConstants DEF Events!Live, o
    <3>1. order[o] \in Seq(EventsListeners) /\ EventsChain(o, order[o], events_to, back, last_of[o])
      BY <1>2, <2>2, <3>0 DEF EventsLists, EventsLinksType
    <3>2. PICK k \in 1 .. Len(order[o]) : order[o][k] = l
      BY <2>2, <3>0 DEF EventsLists, o
    <3>3. order'[o] = Events!RemoveAt(order[o], k)
      <4>1. order'[o] = Events!Without(order[o], l)
        BY <1>2, <2>1, <2>2 DEF EventsLinksType
      <4>2. \A i, j \in 1 .. Len(order[o]) : order[o][i] = order[o][j] => i = j
        BY <3>1 DEF EventsChain
      <4> QED
        BY <3>1, <3>2, <4>1, <4>2, EventsWithout
    <3>4. /\ EventsChain(o, order'[o], events_to', back', rest)
          /\ rest = o <=> Len(order[o]) = 1
      <4>1. events_to \in [EventsListeners \cup Events!Objects -> EventsListeners \cup {Events!End}]
            /\ back \in [EventsListeners -> EventsListeners \cup Events!Objects \cup {Events!End}]
        BY <1>2 DEF EventsLinksType
      <4>2. l = order[o][k]
        BY <3>2
      <4>3. back' = IF events_to[l] = Events!End THEN back ELSE [back EXCEPT ![events_to[l]] = back[l]]
        BY <2>1
      <4>4. events_to' = [events_to EXCEPT ![back[l]] = events_to[l]]
        BY <2>1
      <4>5. rest = IF last_of[o] = l THEN back[l] ELSE last_of[o]
        BY DEF rest
      <4>6. EventsTakesOut(o, order[o], events_to, back, last_of[o], k, l, events_to', back', rest)
        BY <2>2, <3>1, <4>1, <4>2, <4>3, <4>4, <4>5 DEF EventsTakesOut
      <4> DEFINE fore2 == events_to'
                 aft2 == back'
                 q == order[o]
                 last == last_of[o]
      <4>7. EventsTakesOut(o, q, events_to, back, last, k, l, fore2, aft2, rest)
        BY <4>6
      <4> HIDE DEF fore2, aft2, q, last
      <4>8. EventsTakenOut(o, q, k, fore2, aft2, rest)
        BY <4>7, EventsChainShorter
      <4> QED
        BY <3>3, <4>8, Zenon DEF EventsTakenOut, fore2, aft2, q
    <3>5. ASSUME NEW c \in Events!Objects, c # o
          PROVE  EventsChain(c, order[c], events_to', back', last_of[c])
      <4>1. EventsChain(c, order[c], events_to, back, last_of[c]) /\ order[c] \in Seq(EventsListeners)
            /\ \A i \in 1 .. Len(order[c]) : the[order[c][i]] = c
        BY <1>2, <3>0 DEF EventsLists, EventsLinksType
      <4>2. \A n : EventsOwner(n) = c => events_to'[n] = events_to[n]
        BY <1>2, <2>1, <2>2, <3>5 DEF EventsLinksType
      <4>3. \A n \in EventsListeners : the[n] = c => back'[n] = back[n]
        BY <1>2, <2>1, <2>2, <3>5, EventsConstants DEF EventsLinksType
      <4> QED
        BY <4>1, <4>2, <4>3, EventsChainSame
    <3>6. ASSUME NEW c \in Events!Objects
          PROVE  EventsChain(c, order'[c], events_to', back', last_of'[c])
      <4>1. CASE c = o
        BY <1>2, <2>1, <3>4, <4>1 DEF EventsLinksType
      <4>2. CASE c # o
        BY <1>2, <2>1, <3>5, <4>2 DEF EventsLinksType
      <4> QED
        BY <4>1, <4>2
    <3>7. ASSUME NEW c \in Events!Objects, NEW m \in EventsListeners
          PROVE  (\E i \in 1 .. Len(order'[c]) : order'[c][i] = m) <=> Events!Live(m)' /\ the'[m] = c
      <4>0. /\ (\E i \in 1 .. Len(order[c]) : order[c][i] = m) <=> Events!Live(m) /\ the[m] = c
            /\ order[c] \in Seq(EventsListeners)
        BY <1>2, <3>0 DEF EventsLists, EventsLinksType
      <4>1. Events!Live(m)' <=> Events!Live(m) /\ m # l
        BY <1>2, <1>3, <2>1, EventsConstants DEF Events!Live, EventsLinksType
      <4>2. CASE c = o
        <5>1. (\E i \in 1 .. Len(order'[c]) : order'[c][i] = m)
                <=> m # l /\ \E i \in 1 .. Len(order[c]) : order[c][i] = m
          <6> DEFINE s == order[o]
                     r == order'[o]
          <6>1. /\ s \in Seq(EventsListeners) /\ k \in 1 .. Len(s) /\ s[k] = l /\ Len(s) \in Nat
                /\ Len(r) = Len(s) - 1
                /\ \A i \in 1 .. Len(s) - 1 : r[i] = IF i < k THEN s[i] ELSE s[i + 1]
            <7>1. s \in Seq(EventsListeners) /\ k \in 1 .. Len(s) /\ s[k] = l
                  /\ r = Events!RemoveAt(s, k)
              BY <3>1, <3>2, <3>3
            <7> HIDE DEF s, r
            <7>2. /\ Len(Events!RemoveAt(s, k)) = Len(s) - 1
                  /\ \A i \in 1 .. Len(s) - 1 :
                       Events!RemoveAt(s, k)[i] = IF i < k THEN s[i] ELSE s[i + 1]
              BY <7>1, EventsRemoved
            <7>3. Len(s) \in Nat
              BY <7>1
            <7> QED
              BY <7>1, <7>2, <7>3
          <6>2. \A i, j \in 1 .. Len(s) : s[i] = s[j] => i = j
            BY <3>1 DEF EventsChain
          <6> HIDE DEF s, r
          <6>3. ASSUME NEW i \in 1 .. Len(r), r[i] = m
                PROVE  m # l /\ \E j \in 1 .. Len(s) : s[j] = m
            <7> DEFINE j == IF i < k THEN i ELSE i + 1
            <7>1. j \in 1 .. Len(s) /\ j # k /\ s[j] = m
              BY <6>1, <6>3
            <7> QED
              BY <6>1, <6>2, <7>1
          <6>4. ASSUME NEW j \in 1 .. Len(s), s[j] = m, m # l
                PROVE  \E i \in 1 .. Len(r) : r[i] = m
            <7> DEFINE i == IF j < k THEN j ELSE j - 1
            <7>1. i \in 1 .. Len(r) /\ r[i] = m
              BY <6>1, <6>4
            <7> QED
              BY <7>1
          <6>5. (\E i \in 1 .. Len(r) : r[i] = m) <=> m # l /\ \E j \in 1 .. Len(s) : s[j] = m
            BY <6>3, <6>4
          <6> QED
            BY <4>2, <6>5 DEF s, r
        <5>2. the'[m] = the[m]
          BY <2>1
        <5> QED
          BY <4>0, <4>1, <5>1, <5>2, Zenon
      <4>3. CASE c # o
        <5>1. order'[c] = order[c] /\ (the[m] = c => m # l) /\ the'[m] = the[m]
          BY <1>2, <2>1, <4>3 DEF EventsLinksType, o
        <5> QED
          BY <4>0, <4>1, <5>1, Zenon
      <4> QED
        BY <4>2, <4>3
    <3>a. (Len(order'[o]) > 0 <=> Len(order[o]) # 1) /\ table[tag_of[o]] = o
      <4> DEFINE s == order[o]
                 r == order'[o]
      <4>1. Len(r) = Len(s) - 1 /\ Len(s) \in Nat /\ Len(s) > 0
        <5>1. s \in Seq(EventsListeners) /\ k \in 1 .. Len(s) /\ r = Events!RemoveAt(s, k)
          BY <3>1, <3>2, <3>3
        <5> HIDE DEF s, r
        <5>2. Len(Events!RemoveAt(s, k)) = Len(s) - 1
          BY <5>1, EventsRemoved
        <5>3. Len(s) \in Nat
          BY <5>1
        <5> QED
          BY <5>1, <5>2, <5>3
      <4> HIDE DEF s, r
      <4> DEFINE m == Len(s)
                 n == Len(r)
      <4>4. n = m - 1 /\ m \in Nat /\ m > 0
        BY <4>1
      <4> HIDE DEF m, n
      <4>5. n > 0 <=> m # 1
        BY <4>4
      <4>2. Len(r) > 0 <=> Len(s) # 1
        BY <4>5 DEF m, n
      <4>3. table[tag_of[o]] = o
        BY <2>2, <3>0, <4>1 DEF EventsLists, s
      <4> QED
        BY <4>2, <4>3 DEF s, r
    <3>8. ASSUME NEW c \in Events!Objects, Len(order'[c]) > 0 PROVE table'[tag_of'[c]] = c
      <4>1. CASE c = o
        <5>0. Len(order'[o]) > 0
          BY <3>8, <4>1
        <5>1. rest # o
          BY <3>4, <3>a, <5>0
        <5> QED
          BY <2>1, <3>a, <4>1, <5>1
      <4>2. CASE c # o
        <5>1. order'[c] = order[c]
          BY <1>2, <2>1, <4>2 DEF EventsLinksType
        <5>2. table[tag_of[c]] = c
          BY <3>0, <3>8, <5>1 DEF EventsLists
        <5>3. tag_of[c] # tag_of[o]
          BY <3>a, <4>2, <5>2
        <5> QED
          BY <1>2, <2>1, <2>2, <5>2, <5>3 DEF EventsLinksType
      <4> QED
        BY <4>1, <4>2
    <3>9. ASSUME NEW u \in EventsTags, table'[u] # 0 PROVE Len(order'[table'[u]]) > 0
      <4>1. table'[u] = table[u] /\ table[u] \in Events!Objects
        BY <1>2, <2>1, <2>2, <3>9 DEF EventsLinksType
      <4>2. CASE table[u] = o
        <5>1. u = tag_of[o]
          BY <1>2, <2>2, <4>2 DEF EventsShape
        <5>2. rest # o
          BY <1>2, <2>1, <2>2, <3>9, <5>1 DEF EventsLinksType
        <5>3. Len(order[o]) # 1
          BY <3>4, <5>2
        <5> QED
          <6>1. Len(order'[o]) > 0
            BY <3>a, <5>3
          <6> QED
            BY <4>1, <4>2, <6>1
      <4>3. CASE table[u] # o
        <5>1. order'[table[u]] = order[table[u]]
          BY <1>2, <2>1, <4>1, <4>3 DEF EventsLinksType
        <5> QED
          BY <3>0, <3>9, <4>1, <5>1 DEF EventsLists
      <4> QED
        BY <4>2, <4>3
    <3>b. events_to[back[l]] = l
      BY <3>1, <3>2 DEF EventsChain
    <3> QED
      BY <3>6, <3>7, <3>8, <3>9, <3>b DEF EventsLists
  <2>9. EventsLinks'
    BY <2>4, <2>6, <2>7, <2>8 DEF EventsLinks
  <2>10. off_at \in [EventsListeners -> Nat]
    BY <1>2 DEF EventsLinksType
  <2>11. again => again'
    BY <2>1
  <2>12. off_at'[l] # 0 /\ (\A k \in EventsListeners : off_at[k] # 0 => off_at'[k] # 0)
          /\ \A k \in EventsListeners : k # l => off_at'[k] = off_at[k]
    BY <1>3, <2>1, <2>10
  <2> QED
    BY <2>1, <2>8, <2>9, <2>11, <2>12
<1> QED
  BY <1>4, <1>5

-----------------------------------------------------------------------------
(* Where the event is, and who has been told.                              *)
EventsCallType ==
  /\ events_at \in EventsListeners \cup {Events!End, Events!Idle}
  /\ rearm \in EventsListeners \cup {Events!End, 0}
  /\ events_err \in [EventsListeners -> {"none", "lack", "quiet"}]
  /\ events_due \subseteq EventsListeners
  /\ events_heard \subseteq EventsListeners
  /\ expired \subseteq EventsListeners

(* Timers and events are of listeners that were added; who has run out of  *)
(* time is off, and was not called.                                        *)
EventsTold ==
  /\ \A l \in EventsListeners : events_err[l] # "none" => the[l] # 0
  /\ rearm \in EventsListeners => the[rearm] # 0
  /\ events_at \in EventsListeners =>
       the[events_at] # 0 /\ (off_at[events_at] = 0 => events_at \in events_heard)
  /\ events_at = Events!Idle => events_heard = {} /\ events_due = {}
  /\ \A l \in expired : the[l] # 0 /\ off_at[l] # 0
  /\ events_heard \cap expired = {}

(* Whoever is still to be called comes after the listener where the event  *)
(* is: reach[n] is a set of listeners that the links lead to from n.       *)
EventsReach(fore, reach) ==
  \A n \in EventsListeners :
    reach[n] \subseteq {n} \cup (IF fore[n] \in EventsListeners THEN reach[fore[n]] ELSE {})

EventsAhead(fore, place, rest) ==
  \E reach \in [EventsListeners -> SUBSET EventsListeners] :
    /\ EventsReach(fore, reach)
    /\ rest \subseteq (IF place \in EventsListeners THEN reach[place] ELSE {})

EventsDue ==
  /\ \A l \in events_due : the[l] # 0 /\ off_at[l] = 0
  /\ events_at # Events!Idle => EventsAhead(events_to, events_at, events_due \ events_heard)

EventsInv == EventsLinks /\ EventsCallType /\ EventsTold /\ (~again => EventsDue)

LEMMA EventsKept ==
  ASSUME EventsLinks, UNCHANGED Events!links, again' = again
  PROVE  EventsLinks'
<1>0. EventsLinksType /\ EventsShape /\ EventsAges /\ (~again => EventsLists)
  BY DEF EventsLinks
<1>1. UNCHANGED <<table, tag_of, made, events_to, back, last_of, the, off_at, order, again>>
  BY DEF Events!links
<1>2. EventsLinksType' /\ EventsShape' /\ (EventsLists => EventsLists')
  BY <1>0, <1>1 DEF EventsLinksType, EventsShape, EventsOwner, EventsLists, Events!Live
<1>3. PICK age \in [EventsListeners -> Nat], oldest \in Nat : EventsAged(age, oldest)
  BY <1>0 DEF EventsAges
<1>4. EventsAged(age, oldest)'
  BY <1>1, <1>3 DEF EventsAged
<1>5. EventsAges'
  BY <1>4 DEF EventsAges
<1> QED
  BY <1>0, <1>1, <1>2, <1>5 DEF EventsLinks

(* A listener is not its own successor, which is of the same object.       *)
LEMMA EventsForward ==
  ASSUME EventsLinks, NEW l \in EventsListeners, the[l] # 0
  PROVE  /\ events_to[l] \in EventsListeners \cup {Events!End}
         /\ events_to[l] # l
         /\ events_to[l] # Events!End => the[events_to[l]] # 0
<1>0. EventsLinksType /\ EventsShape /\ EventsAges
  BY DEF EventsLinks
<1>1. events_to[l] \in EventsListeners \cup {Events!End}
  BY <1>0 DEF EventsLinksType
<1>2. PICK age \in [EventsListeners -> Nat], oldest \in Nat : EventsAged(age, oldest)
  BY <1>0 DEF EventsAges
<1>3. events_to[l] \in EventsListeners => age[l] < age[events_to[l]] /\ age[l] \in Nat
  BY <1>2 DEF EventsAged
<1>4. events_to[l] # l
  BY <1>3
<1>5. events_to[l] # Events!End => the[events_to[l]] = the[l]
  BY <1>0 DEF EventsShape, EventsOwner
<1> QED
  BY <1>1, <1>4, <1>5

(* Listeners that are added come later.                                    *)
LEMMA EventsAddedAhead ==
  ASSUME NEW fore \in [EventsListeners \cup Events!Objects -> EventsListeners \cup {Events!End}],
         NEW place, NEW rest, EventsAhead(fore, place, rest),
         NEW n \in EventsListeners \cup Events!Objects, fore[n] = Events!End,
         NEW l \in EventsListeners
  PROVE  EventsAhead([fore EXCEPT ![n] = l], place, rest)
<1>1. PICK reach \in [EventsListeners -> SUBSET EventsListeners] :
        /\ EventsReach(fore, reach)
        /\ rest \subseteq (IF place \in EventsListeners THEN reach[place] ELSE {})
  BY DEF EventsAhead
<1> DEFINE fore2 == [fore EXCEPT ![n] = l]
<1>2. \A m \in EventsListeners : m # n => fore2[m] = fore[m]
  OBVIOUS
<1> HIDE DEF fore2
<1>3. EventsReach(fore2, reach)
  <2> SUFFICES ASSUME NEW m \in EventsListeners
               PROVE  reach[m] \subseteq {m} \cup
                        (IF fore2[m] \in EventsListeners THEN reach[fore2[m]] ELSE {})
    BY DEF EventsReach
  <2>1. reach[m] \subseteq {m} \cup (IF fore[m] \in EventsListeners THEN reach[fore[m]] ELSE {})
    BY <1>1 DEF EventsReach
  <2>2. CASE m = n
    BY <2>1, <2>2, EventsConstants
  <2>3. CASE m # n
    BY <1>2, <2>1, <2>3
  <2> QED
    BY <2>2, <2>3
<1>4. EventsAhead(fore2, place, rest)
  BY <1>1, <1>3 DEF EventsAhead
<1> QED
  BY <1>4 DEF fore2

(* A listener that is taken out is not to be called any more.              *)
LEMMA EventsRemovedAhead ==
  ASSUME NEW fore \in [EventsListeners \cup Events!Objects -> EventsListeners \cup {Events!End}],
         NEW place, NEW rest, EventsAhead(fore, place, rest),
         NEW n \in EventsListeners \cup Events!Objects, NEW l \in EventsListeners, fore[n] = l
  PROVE  EventsAhead([fore EXCEPT ![n] = fore[l]], place, rest \ {l})
<1>1. PICK reach \in [EventsListeners -> SUBSET EventsListeners] :
        /\ EventsReach(fore, reach)
        /\ rest \subseteq (IF place \in EventsListeners THEN reach[place] ELSE {})
  BY DEF EventsAhead
<1> DEFINE fore2 == [fore EXCEPT ![n] = fore[l]]
           other == [m \in EventsListeners |-> reach[m] \ {l}]
<1>2. /\ \A m \in EventsListeners : fore2[m] = IF m = n THEN fore[l] ELSE fore[m]
      /\ other \in [EventsListeners -> SUBSET EventsListeners]
      /\ \A m \in EventsListeners : other[m] = reach[m] \ {l}
  BY <1>1
<1> HIDE DEF fore2, other
<1>3. EventsReach(fore2, other)
  <2> SUFFICES ASSUME NEW m \in EventsListeners
               PROVE  other[m] \subseteq {m} \cup
                        (IF fore2[m] \in EventsListeners THEN other[fore2[m]] ELSE {})
    BY DEF EventsReach
  <2>1. reach[m] \subseteq {m} \cup (IF fore[m] \in EventsListeners THEN reach[fore[m]] ELSE {})
    BY <1>1 DEF EventsReach
  <2>2. reach[l] \subseteq {l} \cup (IF fore[l] \in EventsListeners THEN reach[fore[l]] ELSE {})
    BY <1>1 DEF EventsReach
  <2>3. CASE m = n
    BY <1>2, <2>1, <2>2, <2>3
  <2>4. CASE m # n
    BY <1>2, <2>1, <2>4
  <2> QED
    BY <2>3, <2>4
<1>4. rest \ {l} \subseteq (IF place \in EventsListeners THEN other[place] ELSE {})
  BY <1>1, <1>2
<1>5. EventsAhead(fore2, place, rest \ {l})
  BY <1>2, <1>3, <1>4 DEF EventsAhead
<1> QED
  BY <1>5 DEF fore2

(* When an event begins, all listeners are ahead.                          *)
LEMMA EventsAllAhead ==
  ASSUME NEW o, NEW q \in Seq(EventsListeners), NEW fore, NEW aft, NEW last,
         EventsChain(o, q, fore, aft, last), Len(q) > 0
  PROVE  /\ fore[o] = q[1] /\ q[1] \in EventsListeners
         /\ EventsAhead(fore, q[1], Events!ToSet(q))
<1> DEFINE after(n) == {m \in EventsListeners : \E i, j \in 1 .. Len(q) : i <= j /\ q[i] = n /\ q[j] = m}
           reach == [n \in EventsListeners |-> after(n)]
<1>1. \A i \in 1 .. Len(q) : q[i] \in EventsListeners
  OBVIOUS
<1>2. /\ \A i, j \in 1 .. Len(q) : q[i] = q[j] => i = j
      /\ \A i \in 1 .. Len(q) : fore[EventsNth(o, q, i - 1)] = q[i]
  BY DEF EventsChain
<1>3. 1 \in 1 .. Len(q) /\ 1 - 1 = 0 /\ Len(q) \in Nat
  OBVIOUS
<1>4. fore[o] = q[1]
  BY <1>2, <1>3 DEF EventsNth
<1>5. \A i \in 1 .. Len(q) : i # Len(q) => i + 1 \in 1 .. Len(q) /\ fore[q[i]] = q[i + 1]
  <2> SUFFICES ASSUME NEW i \in 1 .. Len(q), i # Len(q)
               PROVE  i + 1 \in 1 .. Len(q) /\ fore[q[i]] = q[i + 1]
    OBVIOUS
  <2>1. i + 1 \in 1 .. Len(q) /\ (i + 1) - 1 = i /\ i # 0
    BY <1>3
  <2>2. fore[EventsNth(o, q, (i + 1) - 1)] = q[i + 1]
    BY <1>2, <2>1
  <2> QED
    BY <2>1, <2>2 DEF EventsNth
<1>6. reach \in [EventsListeners -> SUBSET EventsListeners] /\ \A n \in EventsListeners : reach[n] = after(n)
  OBVIOUS
<1>7. EventsReach(fore, reach)
  <2> SUFFICES ASSUME NEW n \in EventsListeners, NEW m \in reach[n], m # n
               PROVE  fore[n] \in EventsListeners /\ m \in reach[fore[n]]
    BY <1>6 DEF EventsReach
  <2>1. PICK i \in 1 .. Len(q), j \in 1 .. Len(q) : i <= j /\ q[i] = n /\ q[j] = m
    OBVIOUS
  <2>2. i # Len(q) /\ i + 1 <= j
    BY <1>3, <2>1
  <2>3. i + 1 \in 1 .. Len(q) /\ fore[n] = q[i + 1] /\ m \in EventsListeners
    BY <1>1, <1>5, <2>1, <2>2
  <2>4. m \in after(q[i + 1])
    BY <2>1, <2>2, <2>3
  <2> QED
    BY <1>1, <1>6, <2>3, <2>4
<1>8. Events!ToSet(q) \subseteq reach[q[1]]
  <2> SUFFICES ASSUME NEW j \in 1 .. Len(q) PROVE q[j] \in after(q[1])
    BY <1>1, <1>3, <1>6 DEF Events!ToSet
  <2>1. 1 <= j
    OBVIOUS
  <2> QED
    BY <1>1, <1>3, <2>1
<1> HIDE DEF reach
<1> QED
  BY <1>1, <1>3, <1>4, <1>6, <1>7, <1>8 DEF EventsAhead

LEMMA EventsLinkStep ==
  ASSUME EventsInv, NEW t \in EventsTags, NEW l \in EventsListeners, Events!Link(t, l),
         UNCHANGED <<Events!event, events_due, expired, again>>,
         events_err' = events_err \/ events_err' = [events_err EXCEPT ![l] = "lack"]
  PROVE  EventsInv'
<1>0. /\ EventsLinks /\ EventsCallType /\ EventsTold /\ (~again => EventsDue)
      /\ UNCHANGED <<events_at, rearm, events_heard, events_due, expired, again>>
  BY DEF EventsInv, Events!event
<1>1. /\ EventsLinks' /\ the' = [the EXCEPT ![l] = the'[l]]
      /\ the'[l] # 0 /\ off_at' = off_at /\ off_at[l] = 0 /\ the[l] = 0
      /\ \E n \in EventsListeners \cup Events!Objects :
           events_to' = [events_to EXCEPT ![n] = l] /\ (~again => events_to[n] = Events!End)
  BY <1>0, EventsLinked
<1>2. /\ events_to \in [EventsListeners \cup Events!Objects -> EventsListeners \cup {Events!End}]
      /\ the \in [EventsListeners -> {0} \cup Events!Objects]
  BY <1>0 DEF EventsLinks, EventsLinksType
<1>3. \A k \in EventsListeners : k # l => the'[k] = the[k]
  BY <1>1, <1>2
<1>4. EventsCallType'
  BY <1>0 DEF EventsCallType
<1>5. EventsTold'
  <2>1. \A k \in EventsListeners : the[k] # 0 => the'[k] # 0
    BY <1>1, <1>3
  <2>2. \A k \in EventsListeners : events_err'[k] = events_err[k] \/ k = l
    BY <1>0 DEF EventsCallType
  <2>3. \A k \in EventsListeners : events_err'[k] # "none" => the'[k] # 0
    BY <1>0, <1>1, <2>1, <2>2 DEF EventsTold
  <2> QED
    BY <1>0, <1>1, <2>1, <2>3 DEF EventsTold, EventsCallType
<1>6. ~again => EventsDue'
  <2> SUFFICES ASSUME ~again PROVE EventsDue'
    OBVIOUS
  <2>1. \A k \in EventsListeners : the[k] # 0 => the'[k] # 0
    BY <1>1, <1>3
  <2>2. \A k \in events_due' : the'[k] # 0 /\ off_at'[k] = 0
    BY <1>0, <1>1, <2>1 DEF EventsDue, EventsCallType
  <2>3. ASSUME events_at' # Events!Idle
        PROVE  EventsAhead(events_to', events_at', events_due' \ events_heard')
    <3>1. EventsAhead(events_to, events_at, events_due \ events_heard)
      BY <1>0, <2>3 DEF EventsDue
    <3>2. PICK n \in EventsListeners \cup Events!Objects :
            events_to' = [events_to EXCEPT ![n] = l] /\ events_to[n] = Events!End
      BY <1>1
    <3> DEFINE rest == events_due \ events_heard
    <3>3. events_due' \ events_heard' = rest /\ events_at' = events_at
      BY <1>0
    <3>4. EventsAhead(events_to, events_at, rest)
      BY <3>1
    <3> HIDE DEF rest
    <3>5. EventsAhead([events_to EXCEPT ![n] = l], events_at, rest)
      BY <1>2, <3>2, <3>4, EventsAddedAhead
    <3> QED
      BY <3>2, <3>3, <3>5
  <2> QED
    BY <2>2, <2>3 DEF EventsDue
<1> QED
  BY <1>0, <1>1, <1>4, <1>5, <1>6 DEF EventsInv

(* A listener is turned off, by code or as nothing came any more.          *)
LEMMA EventsUnlinkStep ==
  ASSUME EventsInv, NEW l \in EventsListeners, the[l] # 0, Events!Unlink(l),
         UNCHANGED <<Events!event, expired>>,
         events_err' = events_err \/ events_err' = [events_err EXCEPT ![l] = "none"]
  PROVE  EventsInv'
<1>0. /\ EventsLinks /\ EventsCallType /\ EventsTold /\ (~again => EventsDue)
      /\ UNCHANGED <<events_at, rearm, events_heard, expired>>
  BY DEF EventsInv, Events!event
<1>1. /\ EventsLinks' /\ the' = the /\ (again => again')
      /\ off_at'[l] # 0
      /\ \A k \in EventsListeners : off_at[k] # 0 => off_at'[k] # 0
      /\ \A k \in EventsListeners : k # l => off_at'[k] = off_at[k]
      /\ \/ off_at[l] # 0 /\ UNCHANGED <<events_to, events_due>>
         \/ /\ events_due' = events_due \ {l}
            /\ events_to' = [events_to EXCEPT ![back[l]] = events_to[l]]
            /\ ~again' => events_to[back[l]] = l
  BY <1>0, EventsUnlinked
<1>2. /\ events_to \in [EventsListeners \cup Events!Objects -> EventsListeners \cup {Events!End}]
      /\ back[l] \in EventsListeners \cup Events!Objects
  BY <1>0 DEF EventsLinks, EventsLinksType, EventsShape
<1>3. EventsCallType'
  BY <1>0, <1>1 DEF EventsCallType
<1>4. EventsTold'
  <2>1. \A k \in EventsListeners : events_err'[k] # "none" => events_err[k] # "none"
    BY <1>0 DEF EventsCallType
  <2>2. \A k \in EventsListeners : off_at'[k] = 0 => off_at[k] = 0
    BY <1>1
  <2>3. events_due = {} => events_due' = {}
    BY <1>1
  <2> QED
    BY <1>0, <1>1, <2>1, <2>2, <2>3 DEF EventsTold, EventsCallType
<1>5. ~again' => EventsDue'
  <2> SUFFICES ASSUME ~again' PROVE EventsDue'
    OBVIOUS
  <2>0. EventsDue
    BY <1>0, <1>1
  <2>1. CASE off_at[l] # 0 /\ UNCHANGED <<events_to, events_due>>
    <3>1. \A k \in events_due' : the'[k] # 0 /\ off_at'[k] = 0
      BY <1>0, <1>1, <2>0, <2>1 DEF EventsDue, EventsCallType
    <3> QED
      BY <1>0, <2>0, <2>1, <3>1 DEF EventsDue
  <2>2. CASE /\ events_due' = events_due \ {l}
             /\ events_to' = [events_to EXCEPT ![back[l]] = events_to[l]]
             /\ events_to[back[l]] = l
    <3>1. \A k \in events_due' : the'[k] # 0 /\ off_at'[k] = 0
      BY <1>0, <1>1, <2>0, <2>2 DEF EventsDue, EventsCallType
    <3>2. ASSUME events_at' # Events!Idle
          PROVE  EventsAhead(events_to', events_at', events_due' \ events_heard')
      <4> DEFINE rest == events_due \ events_heard
                 n == back[l]
      <4>1. EventsAhead(events_to, events_at, rest)
        BY <1>0, <2>0, <3>2 DEF EventsDue
      <4>2. events_due' \ events_heard' = rest \ {l} /\ events_at' = events_at
        BY <1>0, <2>2
      <4>3. n \in EventsListeners \cup Events!Objects /\ events_to[n] = l
            /\ events_to' = [events_to EXCEPT ![n] = events_to[l]]
        BY <1>2, <2>2
      <4> HIDE DEF rest, n
      <4>4. EventsAhead([events_to EXCEPT ![n] = events_to[l]], events_at, rest \ {l})
        BY <1>2, <4>1, <4>3, EventsRemovedAhead
      <4> QED
        BY <4>2, <4>3, <4>4
    <3> QED
      BY <3>1, <3>2 DEF EventsDue
  <2> QED
    BY <1>1, <2>1, <2>2
<1> QED
  BY <1>0, <1>1, <1>3, <1>4, <1>5 DEF EventsInv

(* Nobody is left to be called: any links will do.                         *)
LEMMA EventsNobodyAhead == \A fore, place : EventsAhead(fore, place, {})
<1> SUFFICES ASSUME NEW fore, NEW place PROVE EventsAhead(fore, place, {})
  OBVIOUS
<1> DEFINE reach == [n \in EventsListeners |-> {}]
<1>1. reach \in [EventsListeners -> SUBSET EventsListeners] /\ \A n \in EventsListeners : reach[n] = {}
  OBVIOUS
<1> HIDE DEF reach
<1>2. EventsReach(fore, reach)
  BY <1>1 DEF EventsReach
<1> QED
  BY <1>2, <1>1 DEF EventsAhead

(* An ask has run out: the listener is off, and what has become of it      *)
(* hands the error on.                                                     *)
LEMMA EventsLackStep ==
  ASSUME EventsInv, NEW l \in EventsListeners, Events!Lack(l)
  PROVE  EventsInv'
<1>0. /\ EventsLinks /\ EventsCallType /\ EventsTold /\ (~again => EventsDue)
      /\ events_at = Events!Idle /\ the[l] # 0
      /\ events_err' = [events_err EXCEPT ![l] = "none"]
      /\ Events!Unlink(l)
      /\ events_at' = events_to[l]
      /\ events_heard' = IF events_to[l] # Events!End /\ Events!Live(events_to[l])
                           THEN events_heard \cup {events_to[l]} ELSE events_heard
      /\ expired' = expired \cup {l}
      /\ rearm' = rearm
  BY DEF EventsInv, Events!Lack, Events!TellLack, Events!Visit, EventsTold
<1>1. /\ EventsLinks' /\ the' = the /\ (again => again')
      /\ off_at'[l] # 0
      /\ \A k \in EventsListeners : off_at[k] # 0 => off_at'[k] # 0
      /\ \A k \in EventsListeners : k # l => off_at'[k] = off_at[k]
      /\ events_due' = {}
  <2>1. events_due = {}
    BY <1>0 DEF EventsTold
  <2> QED
    BY <1>0, <2>1, EventsUnlinked
<1>2. /\ events_to[l] \in EventsListeners \cup {Events!End}
      /\ events_to[l] # l
      /\ events_to[l] # Events!End => the[events_to[l]] # 0
  BY <1>0, EventsForward
<1>3. EventsCallType'
  BY <1>0, <1>1, <1>2, EventsConstants DEF EventsCallType
<1>4. EventsTold'
  <2>1. \A k \in EventsListeners : events_err'[k] # "none" => the'[k] # 0
    BY <1>0, <1>1 DEF EventsCallType, EventsTold
  <2>2. events_at' \in EventsListeners =>
          the'[events_at'] # 0 /\ (off_at'[events_at'] = 0 => events_at' \in events_heard')
    BY <1>0, <1>1, <1>2, EventsConstants DEF Events!Live
  <2>3. events_at' # Events!Idle
    BY <1>0, <1>2, EventsConstants
  <2>4. \A k \in expired' : the'[k] # 0 /\ off_at'[k] # 0
    BY <1>0, <1>1 DEF EventsTold, EventsCallType
  <2>5. events_heard' \cap expired' = {}
    <3>1. events_heard = {}
      BY <1>0 DEF EventsTold
    <3>2. Events!Live(events_to[l]) => events_to[l] \notin expired
      BY <1>0, EventsConstants DEF Events!Live, EventsTold
    <3> QED
      BY <1>0, <1>2, <3>1, <3>2
  <2> QED
    BY <1>0, <1>1, <2>1, <2>2, <2>3, <2>4, <2>5 DEF EventsTold
<1>5. EventsDue'
  <2>1. events_due' \ events_heard' = {}
    BY <1>1
  <2> QED
    BY <1>1, <2>1, EventsNobodyAhead DEF EventsDue
<1> QED
  BY <1>1, <1>3, <1>4, <1>5 DEF EventsInv

(* An event goes to the listener that was first.                           *)
LEMMA EventsEmitStep ==
  ASSUME EventsInv, NEW t \in EventsTags, events_at = Events!Idle, table[t] # 0,
         Events!Visit(events_to[table[t]]), events_due' = Events!ToSet(order[table[t]]),
         rearm' = 0 \/ rearm' = events_at',
         UNCHANGED <<Events!links, events_err, expired, again>>
  PROVE  EventsInv'
<1> DEFINE o == table[t]
           q == order[o]
<1>0. /\ EventsLinks /\ EventsCallType /\ EventsTold /\ (~again => EventsDue)
      /\ events_at' = events_to[o]
      /\ events_heard' = IF events_to[o] # Events!End /\ Events!Live(events_to[o])
                           THEN events_heard \cup {events_to[o]} ELSE events_heard
      /\ events_due' = Events!ToSet(q)
      /\ UNCHANGED <<events_to, the, off_at>>
  BY DEF EventsInv, Events!Visit, Events!links
<1>1. EventsLinks'
  BY <1>0, EventsKept
<1>2. /\ o \in Events!Objects /\ q \in Seq(EventsListeners)
      /\ events_to[o] \in EventsListeners \cup {Events!End}
      /\ events_to[o] # Events!End => the[events_to[o]] # 0
  <2>1. EventsLinksType /\ EventsShape
    BY <1>0 DEF EventsLinks
  <2>2. o \in Events!Objects
    BY <2>1 DEF EventsLinksType
  <2>3. events_to[o] # Events!End => the[events_to[o]] = o
    BY <2>1, <2>2, EventsConstants DEF EventsShape, EventsOwner
  <2> QED
    BY <2>1, <2>2, <2>3, EventsConstants DEF EventsLinksType
<1> HIDE DEF o, q
<1>3. Events!ToSet(q) \subseteq EventsListeners
  BY <1>2 DEF Events!ToSet
<1>4. EventsCallType'
  BY <1>0, <1>2, <1>3, EventsConstants DEF EventsCallType
<1>5. EventsTold'
  <2>1. events_at' \in EventsListeners =>
          the'[events_at'] # 0 /\ (off_at'[events_at'] = 0 => events_at' \in events_heard')
    BY <1>0, <1>2, EventsConstants DEF Events!Live
  <2>2. events_at' # Events!Idle
    BY <1>0, <1>2, EventsConstants
  <2>3. rearm' \in EventsListeners => the'[rearm'] # 0
    BY <2>1, EventsConstants
  <2>4. events_heard' \cap expired' = {}
    BY <1>0, <1>2, EventsConstants DEF EventsTold, Events!Live
  <2>5. /\ \A k \in EventsListeners : events_err'[k] # "none" => the'[k] # 0
        /\ \A k \in expired' : the'[k] # 0 /\ off_at'[k] # 0
    BY <1>0 DEF EventsTold
  <2> QED
    BY <2>1, <2>2, <2>3, <2>4, <2>5 DEF EventsTold
<1>6. ~again => EventsDue'
  <2> SUFFICES ASSUME ~again PROVE EventsDue'
    OBVIOUS
  <2>0. EventsLists
    BY <1>0 DEF EventsLinks
  <2>1. /\ EventsChain(o, q, events_to, back, last_of[o]) /\ Len(q) > 0
        /\ \A k \in EventsListeners :
             (\E i \in 1 .. Len(q) : q[i] = k) => Events!Live(k)
    BY <1>2, <2>0 DEF EventsLists, o, q
  <2>2. /\ events_to[o] = q[1] /\ q[1] \in EventsListeners
        /\ EventsAhead(events_to, q[1], Events!ToSet(q))
    BY <1>2, <2>1, EventsAllAhead
  <2>3. \A k \in events_due' : the'[k] # 0 /\ off_at'[k] = 0
    <3>1. \A k \in Events!ToSet(q) : k \in EventsListeners /\ \E i \in 1 .. Len(q) : q[i] = k
      BY <1>2 DEF Events!ToSet
    <3> QED
      BY <1>0, <2>1, <3>1, EventsConstants DEF Events!Live
  <2>4. EventsAhead(events_to', events_at', events_due' \ events_heard')
    BY <1>0, <2>2 DEF EventsAhead
  <2> QED
    BY <2>3, <2>4 DEF EventsDue
<1> QED
  BY <1>1, <1>4, <1>5, <1>6 DEF EventsInv

(* The event is handed on.                                                 *)
LEMMA EventsHandOnStep ==
  ASSUME EventsInv, Events!HandOn
  PROVE  EventsInv'
<1> DEFINE n == events_at
           m == events_to[n]
<1>0. /\ EventsLinks /\ EventsCallType /\ EventsTold /\ (~again => EventsDue)
      /\ n \in EventsListeners
      /\ events_at' = m
      /\ events_heard' = IF m # Events!End /\ Events!Live(m)
                           THEN events_heard \cup {m} ELSE events_heard
      /\ UNCHANGED <<events_to, the, off_at, rearm, events_err, events_due, expired, again>>
  BY DEF EventsInv, Events!Visit, Events!links, Events!HandOn
<1>1. EventsLinks'
  BY <1>0, EventsKept DEF Events!HandOn
<1>2. the[n] # 0 /\ (off_at[n] = 0 => n \in events_heard)
  BY <1>0 DEF EventsTold
<1>3. m \in EventsListeners \cup {Events!End} /\ (m # Events!End => the[m] # 0)
  BY <1>0, <1>2, EventsForward
<1> HIDE DEF n, m
<1>4. EventsCallType'
  BY <1>0, <1>3, EventsConstants DEF EventsCallType
<1>5. EventsTold'
  <2>1. events_at' \in EventsListeners =>
          the'[events_at'] # 0 /\ (off_at'[events_at'] = 0 => events_at' \in events_heard')
    BY <1>0, <1>3, EventsConstants DEF Events!Live
  <2>2. events_at' # Events!Idle
    BY <1>0, <1>3, EventsConstants
  <2>4. events_heard' \cap expired' = {}
    BY <1>0, <1>3, EventsConstants DEF EventsTold, Events!Live
  <2> QED
    BY <1>0, <2>1, <2>2, <2>4 DEF EventsTold
<1>6. ~again => EventsDue'
  <2> SUFFICES ASSUME ~again PROVE EventsDue'
    OBVIOUS
  <2>0. EventsDue
    BY <1>0
  <2>1. n # Events!Idle
    BY <1>0, EventsConstants
  <2>2. PICK reach \in [EventsListeners -> SUBSET EventsListeners] :
          EventsReach(events_to, reach) /\ events_due \ events_heard \subseteq reach[n]
    BY <1>0, <2>0, <2>1 DEF EventsDue, EventsAhead, n
  <2>3. reach[n] \subseteq {n} \cup (IF m \in EventsListeners THEN reach[m] ELSE {})
    BY <1>0, <2>2 DEF EventsReach, m
  <2>4. n \in events_due => n \in events_heard
    BY <1>2, <2>0 DEF EventsDue
  <2>5. events_due' \ events_heard' \subseteq (IF m \in EventsListeners THEN reach[m] ELSE {})
    BY <1>0, <2>2, <2>3, <2>4
  <2>6. EventsAhead(events_to', events_at', events_due' \ events_heard')
    BY <1>0, <2>2, <2>5 DEF EventsAhead
  <2> QED
    BY <1>0, <2>0, <2>6 DEF EventsDue
<1> QED
  BY <1>0, <1>1, <1>4, <1>5, <1>6 DEF EventsInv

LEMMA EventsEndStep ==
  ASSUME EventsInv, Events!EventEnds
  PROVE  EventsInv'
<1>0. /\ EventsLinks /\ EventsCallType /\ EventsTold
      /\ events_at' = Events!Idle /\ rearm' = 0 /\ events_heard' = {} /\ events_due' = {}
      /\ events_err' = IF rearm = 0 THEN events_err ELSE [events_err EXCEPT ![rearm] = "quiet"]
      /\ UNCHANGED <<the, off_at, expired, again>> /\ UNCHANGED Events!links
  BY EventsConstants DEF EventsInv, Events!EventEnds, Events!links
<1>1. EventsLinks'
  BY <1>0, EventsKept
<1>2. EventsCallType'
  BY <1>0 DEF EventsCallType
<1>3. EventsTold'
  <2>1. \A k \in EventsListeners : events_err'[k] = events_err[k] \/ (k = rearm /\ the[k] # 0)
    BY <1>0 DEF EventsCallType, EventsTold
  <2>2. \A k \in EventsListeners : events_err'[k] # "none" => the'[k] # 0
    BY <1>0, <2>1 DEF EventsTold
  <2>3. rearm' \notin EventsListeners /\ events_at' \notin EventsListeners
    BY <1>0, EventsConstants
  <2> QED
    BY <1>0, <2>2, <2>3 DEF EventsTold
<1>4. EventsDue'
  BY <1>0 DEF EventsDue
<1> QED
  BY <1>1, <1>2, <1>3, <1>4 DEF EventsInv

LEMMA EventsStep == EventsInv /\ [Events!Next]_Events!vars => EventsInv'
<1> SUFFICES ASSUME EventsInv, [Events!Next]_Events!vars PROVE EventsInv'
  OBVIOUS
<1>1. ASSUME NEW t \in EventsTags, NEW l \in EventsListeners, Events!On(t, l) \/ Events!Ask(t, l)
      PROVE  EventsInv'
  BY <1>1, EventsLinkStep DEF Events!On, Events!Ask
<1>2. ASSUME NEW l \in EventsListeners, Events!Off(l) PROVE EventsInv'
  BY <1>2, EventsUnlinkStep, EventsConstants DEF Events!Off
<1>3. ASSUME NEW l \in EventsListeners, Events!Lack(l) PROVE EventsInv'
  BY <1>3, EventsLackStep
<1>4. ASSUME NEW l \in EventsListeners, Events!Quiet(l) PROVE EventsInv'
  <2>1. the[l] # 0
    BY <1>4 DEF Events!Quiet, EventsInv, EventsTold
  <2> QED
    BY <1>4, <2>1, EventsUnlinkStep DEF Events!Quiet
<1>5. ASSUME NEW t \in EventsTags, Events!Emit(t) \/ Events!Answer(t) PROVE EventsInv'
  BY <1>5, EventsEmitStep, EventsConstants DEF Events!Emit, Events!Answer
<1>6. CASE UNCHANGED Events!vars
  <2>0. /\ UNCHANGED <<Events!links, events_err, events_due, expired, again>>
        /\ UNCHANGED <<events_to, the, off_at, events_at, rearm, events_heard>>
    BY <1>6 DEF Events!vars, Events!links, Events!event
  <2>1. EventsLinks'
    BY <2>0, EventsKept DEF EventsInv
  <2>2. EventsCallType' /\ EventsTold' /\ (EventsDue => EventsDue')
    BY <2>0 DEF EventsInv, EventsCallType, EventsTold, EventsDue, EventsAhead
  <2> QED
    BY <2>0, <2>1, <2>2 DEF EventsInv
<1> QED
  BY <1>1, <1>2, <1>3, <1>4, <1>5, <1>6, EventsHandOnStep, EventsEndStep DEF Events!Next

LEMMA EventsInit == Events!Init => EventsInv
<1> SUFFICES ASSUME Events!Init PROVE EventsInv
  OBVIOUS
<1>1. /\ table = [t \in EventsTags |-> 0]
      /\ tag_of = [o \in Events!Objects |-> 0]
      /\ made = 0
      /\ events_to = [n \in EventsListeners \cup Events!Objects |-> Events!End]
      /\ back = [l \in EventsListeners |-> Events!End]
      /\ last_of = [o \in Events!Objects |-> o]
      /\ the = [l \in EventsListeners |-> 0]
      /\ off_at = [l \in EventsListeners |-> 0]
      /\ order = [o \in Events!Objects |-> <<>>]
      /\ again = FALSE
  BY EventsConstants DEF Events!Init
<1>2. /\ events_err = [l \in EventsListeners |-> "none"]
      /\ events_at = Events!Idle /\ rearm = 0
      /\ events_due = {} /\ events_heard = {} /\ expired = {}
  BY EventsConstants DEF Events!Init
<1>3. EventsLinksType
  <2>1. order \in [Events!Objects -> Seq(EventsListeners)]
    BY <1>1
  <2>5. made \in Nat /\ made <= EventsMaxObjects
    BY <1>1, EventsConstants
  <2>6. 0 \in Nat
    OBVIOUS
  <2>2. off_at \in [EventsListeners -> Nat] /\ again \in BOOLEAN
    BY <1>1, <2>6
  <2>3. /\ table \in [EventsTags -> {0} \cup Events!Objects]
        /\ tag_of \in [Events!Objects -> EventsTags \cup {0}]
        /\ the \in [EventsListeners -> {0} \cup Events!Objects]
    BY <1>1
  <2>4. /\ events_to \in [EventsListeners \cup Events!Objects -> EventsListeners \cup {Events!End}]
        /\ back \in [EventsListeners -> EventsListeners \cup Events!Objects \cup {Events!End}]
        /\ last_of \in [Events!Objects -> EventsListeners \cup Events!Objects]
    BY <1>1
  <2> QED
    BY <2>1, <2>2, <2>3, <2>4, <2>5 DEF EventsLinksType
<1>4. EventsShape
  <2>1. \A o \in Events!Objects : ~(o <= made)
    BY <1>1 DEF Events!Objects
  <2>2. \A o \in Events!Objects : EventsOwner(last_of[o]) = o
    BY <1>1, EventsConstants DEF EventsOwner
  <2> QED
    BY <1>1, <2>1, <2>2 DEF EventsShape
<1>5. EventsAges
  <2> DEFINE age == [l \in EventsListeners |-> 0]
  <2>1. age \in [EventsListeners -> Nat] /\ EventsAged(age, 0)
    BY <1>1, EventsConstants DEF EventsAged
  <2> QED
    BY <2>1 DEF EventsAges
<1>6. EventsLists
  <2>1. \A o \in Events!Objects : EventsChain(o, order[o], events_to, back, last_of[o]) /\ Len(order[o]) = 0
    BY <1>1 DEF EventsChain, EventsNth
  <2>2. \A l \in EventsListeners : ~Events!Live(l)
    BY <1>1, EventsConstants DEF Events!Live
  <2> QED
    BY <1>1, <2>1, <2>2 DEF EventsLists
<1>7. EventsCallType
  BY <1>2 DEF EventsCallType
<1>8. EventsTold
  BY <1>1, <1>2, EventsConstants DEF EventsTold
<1>9. EventsDue
  BY <1>2 DEF EventsDue
<1> QED
  BY <1>3, <1>4, <1>5, <1>6, <1>7, <1>8, <1>9 DEF EventsInv, EventsLinks

LEMMA EventsListed == EventsInv => Events!ListIsLive
<1> SUFFICES ASSUME EventsInv, ~again PROVE Events!ListIsLive
  BY DEF Events!ListIsLive
<1>1. EventsLists /\ EventsLinksType
  BY DEF EventsInv, EventsLinks
<1>2. ASSUME NEW l \in EventsListeners, Events!Live(l) PROVE table[tag_of[the[l]]] = the[l]
  <2>1. the[l] \in Events!Objects
    BY <1>1, <1>2, EventsConstants DEF EventsLinksType, Events!Live
  <2>2. \E i \in 1 .. Len(order[the[l]]) : order[the[l]][i] = l
    BY <1>1, <1>2, <2>1 DEF EventsLists
  <2>3. order[the[l]] \in Seq(EventsListeners)
    BY <1>1, <2>1 DEF EventsLinksType
  <2>4. Len(order[the[l]]) > 0
    BY <2>2, <2>3
  <2> QED
    BY <1>1, <2>1, <2>4 DEF EventsLists
<1>3. ASSUME NEW t \in EventsTags, table[t] # 0
      PROVE  LET o == table[t]
                 s == <<o>> \o order[o] IN
             /\ Len(s) > 1
             /\ last_of[o] = Events!Last(s)
             /\ events_to[Events!Last(s)] = Events!End
             /\ \A i \in 2 .. Len(s) : events_to[s[i - 1]] = s[i] /\ back[s[i]] = s[i - 1]
  <2> DEFINE o == table[t]
             q == order[o]
             s == <<o>> \o q
             last == last_of[o]
  <2>1. o \in Events!Objects /\ q \in Seq(EventsListeners) /\ Len(q) > 0
        /\ EventsChain(o, q, events_to, back, last)
    BY <1>1, <1>3, EventsConstants DEF EventsLinksType, EventsLists
  <2> HIDE DEF q, o, last
  <2>2. Len(s) = Len(q) + 1 /\ Len(q) \in Nat
    BY <2>1
  <2>3. \A i \in 0 .. Len(q) : s[i + 1] = EventsNth(o, q, i)
    BY <2>1 DEF EventsNth
  <2> HIDE DEF s
  <2>4. Events!Last(s) = EventsNth(o, q, Len(q))
    BY <2>2, <2>3 DEF Events!Last
  <2>5. last = Events!Last(s) /\ events_to[Events!Last(s)] = Events!End
    BY <2>1, <2>4 DEF EventsChain
  <2>6. ASSUME NEW i \in 2 .. Len(s)
        PROVE  events_to[s[i - 1]] = s[i] /\ back[s[i]] = s[i - 1]
    <3>1. i - 1 \in 1 .. Len(q) /\ i - 1 # 0 /\ i - 1 \in 0 .. Len(q) /\ (i - 1) - 1 \in 0 .. Len(q)
          /\ (i - 1) + 1 = i /\ ((i - 1) - 1) + 1 = i - 1
      BY <2>2
    <3>2. s[i] = q[i - 1] /\ s[i - 1] = EventsNth(o, q, (i - 1) - 1)
      BY <2>3, <3>1 DEF EventsNth
    <3>3. /\ events_to[EventsNth(o, q, (i - 1) - 1)] = q[i - 1]
          /\ back[q[i - 1]] = EventsNth(o, q, (i - 1) - 1)
      BY <2>1, <3>1 DEF EventsChain
    <3> QED
      BY <3>2, <3>3
  <2>7. Len(s) > 1
    BY <2>1, <2>2
  <2> QED
    BY <2>5, <2>6, <2>7 DEF s, q, o, last
<1> QED
  BY <1>2, <1>3, EventsConstants DEF Events!ListIsLive

(* An event goes along the list of the live listeners of its tag, whatever *)
(* the listeners that are called add and turn off: it comes to all that    *)
(* listen from its beginning to its end, and to none whose ask has run     *)
(* out (onto and ask, gun.js:97-128, 205-232).                             *)
THEOREM EventsCorrect == Events!Spec => []EventsReachListeners
<1>1. EventsInv => EventsReachListeners
  <2> SUFFICES ASSUME EventsInv PROVE EventsReachListeners
    OBVIOUS
  <2>1. Events!EventReachesAll
    <3> SUFFICES ASSUME ~again, events_at = Events!End PROVE events_due \subseteq events_heard
      BY DEF Events!EventReachesAll
    <3>1. EventsAhead(events_to, events_at, events_due \ events_heard)
      BY EventsConstants DEF EventsInv, EventsDue
    <3>2. events_due \ events_heard \subseteq {}
      BY <3>1, EventsConstants DEF EventsAhead
    <3> QED
      BY <3>2
  <2>2. Events!ExpiredIsSilent
    BY DEF EventsInv, EventsTold, Events!ExpiredIsSilent
  <2> QED
    BY <2>1, <2>2, EventsListed DEF EventsReachListeners
<1> QED
  BY <1>1, EventsInit, EventsStep, PTL DEF Events!Spec

-----------------------------------------------------------------------------
(* Functions that are defined by what they are one place before.           *)
Unfolds(h, a, F, n) ==
  /\ h = [i \in 0 .. n |-> h[i]]
  /\ \A i \in 0 .. n : h[i] = IF i = 0 THEN a ELSE F[<<h[i - 1], i>>]

Goes(X, a, F, n) ==
  /\ a \in X[0]
  /\ \A i \in 1 .. n : \A y \in X[i - 1] : F[<<y, i>>] \in X[i]

Within(h, X, n) == \A i \in 0 .. n : h[i] \in X[i]

(* There is one, and its values are where its steps lead.                  *)
LEMMA Recursion ==
  ASSUME NEW X, NEW a, NEW F, NEW n \in Nat, Goes(X, a, F, n)
  PROVE  \E h : Unfolds(h, a, F, n) /\ Within(h, X, n)
<1> DEFINE Is(h, b) == Unfolds(h, a, F, b) /\ Within(h, X, b)
           No == {b \in 0 .. n : ~ \E h : Is(h, b)}
<1>1. SUFFICES ASSUME No # {} PROVE FALSE
  OBVIOUS
<1>2. PICK b \in No : \A k \in No : b <= k
  <2>1. No \in SUBSET Nat
    OBVIOUS
  <2> QED
    BY <1>1, <2>1, LeastNatural
<1>3. b # 0
  <2>1. Is([i \in 0 .. 0 |-> a], 0)
    BY DEF Unfolds, Within, Goes
  <2> QED
    BY <1>2, <2>1
<1>4. b \in 1 .. n /\ b - 1 \in 0 .. n /\ ~(b <= b - 1)
  BY <1>2, <1>3
<1>5. PICK h : Is(h, b - 1)
  BY <1>2, <1>4
<1> DEFINE g == [i \in 0 .. b |-> IF i = b THEN F[<<h[b - 1], b>>] ELSE h[i]]
<1>6. ASSUME NEW i \in 0 .. b
      PROVE  g[i] = (IF i = 0 THEN a ELSE F[<<g[i - 1], i>>]) /\ g[i] \in X[i]
  <2>1. CASE i = b
    <3>1. g[i - 1] = h[i - 1] /\ g[i] = F[<<h[b - 1], b>>]
      BY <1>4, <2>1
    <3>2. h[b - 1] \in X[b - 1]
      BY <1>4, <1>5 DEF Within
    <3> QED
      BY <1>3, <1>4, <2>1, <3>1, <3>2 DEF Goes
  <2>2. CASE i # b
    <3>1. i \in 0 .. b - 1 /\ g[i] = h[i]
      BY <1>4, <2>2
    <3>2. h[i] = (IF i = 0 THEN a ELSE F[<<h[i - 1], i>>]) /\ h[i] \in X[i]
      BY <1>5, <3>1 DEF Unfolds, Within
    <3>3. i # 0 => g[i - 1] = h[i - 1]
      BY <1>4, <3>1
    <3> QED
      BY <3>1, <3>2, <3>3
  <2> QED
    BY <2>1, <2>2
<1>7. Is(g, b)
  BY <1>6 DEF Unfolds, Within
<1> QED
  BY <1>2, <1>7

LEMMA SameSteps ==
  ASSUME NEW p, NEW h, NEW n \in Nat, p[0] = h[0],
         \A i \in 1 .. n : p[i - 1] = h[i - 1] => p[i] = h[i]
  PROVE  p[n] = h[n]
<1> DEFINE No == {b \in 0 .. n : p[b] # h[b]}
<1>1. SUFFICES ASSUME No # {} PROVE FALSE
  OBVIOUS
<1>2. PICK b \in No : \A k \in No : b <= k
  <2>1. No \in SUBSET Nat
    OBVIOUS
  <2> QED
    BY <1>1, <2>1, LeastNatural
<1>3. b \in 1 .. n /\ b - 1 \in 0 .. n /\ ~(b <= b - 1)
  BY <1>2
<1> QED
  BY <1>2, <1>3

-----------------------------------------------------------------------------
(* Which values are valid.                                                 *)

ValidEntries == {s \in Seq(Valid!Entry) :
                   \A i, j \in DOMAIN s : s[i].key = s[j].key => i = j}

(* What the older map makes of the entries so far: the first may be an id, *)
(* and what comes next takes it back.                                      *)
ValidStart == [id |-> "", end |-> FALSE]
ValidRefused == [id |-> "", end |-> TRUE]
ValidFirst(e) == IF e.key = "#" /\ e.is = "text" THEN [id |-> e.text, end |-> FALSE]
                 ELSE ValidRefused

ValidPlaces(l) ==
  [i \in 0 .. Len(l) |->
     IF i = 0 THEN {ValidStart}
     ELSE IF i = 1 THEN {ValidFirst(l[1])}
     ELSE {r \in [id : ValidSouls \cup {""}, end : BOOLEAN] :
             ValidFirst(l[1]) = ValidRefused \/ l[1].text # "" => r = ValidRefused}]

ValidMaps(l) ==
  [y \in [id : ValidSouls \cup {""}, end : BOOLEAN] \X (1 .. Len(l)) |->
     IF y[1].end THEN y[1] ELSE Valid!map(y[1], l[y[2]])]

LEMMA ValidEntryType ==
  ASSUME NEW e \in Valid!Entry
  PROVE  /\ e.text \in ValidSouls \cup {""}
         /\ e.is \in {"text", "number"}
         /\ e.is = "number" => e.text = ""
         /\ ValidFirst(e) \in [id : ValidSouls \cup {""}, end : BOOLEAN]
BY DEF Valid!Entry, ValidFirst, ValidRefused

LEMMA ValidMapType ==
  ASSUME NEW r \in [id : ValidSouls \cup {""}, end : BOOLEAN], NEW e \in Valid!Entry
  PROVE  /\ Valid!map(r, e) \in [id : ValidSouls \cup {""}, end : BOOLEAN]
         /\ r.id # "" => Valid!map(r, e) = ValidRefused
BY ValidEntryType DEF Valid!map, Valid!Nothing, ValidRefused

LEMMA ValidGoes ==
  ASSUME NEW l \in Seq(Valid!Entry)
  PROVE  Goes(ValidPlaces(l), ValidStart, ValidMaps(l), Len(l))
<1> DEFINE R == [id : ValidSouls \cup {""}, end : BOOLEAN]
<1>1. Len(l) \in Nat /\ \A i \in 1 .. Len(l) : l[i] \in Valid!Entry
  OBVIOUS
<1>2. ValidStart \in R /\ ValidRefused \in R
  BY DEF ValidStart, ValidRefused
<1>3. ASSUME NEW i \in 1 .. Len(l), NEW y \in ValidPlaces(l)[i - 1]
      PROVE  ValidMaps(l)[<<y, i>>] \in ValidPlaces(l)[i]
  <2>1. CASE i = 1
    <3>1. y = ValidStart
      BY <1>1, <1>3, <2>1 DEF ValidPlaces
    <3>2. ValidMaps(l)[<<y, i>>] = Valid!map(ValidStart, l[1])
      BY <1>2, <2>1, <3>1 DEF ValidMaps, ValidStart
    <3>3. Valid!map(ValidStart, l[1]) = ValidFirst(l[1])
      BY DEF Valid!map, Valid!Nothing, ValidStart, ValidFirst, ValidRefused
    <3> QED
      BY <1>1, <2>1, <3>2, <3>3 DEF ValidPlaces
  <2>2. CASE i # 1
    <3>1. i \in Nat /\ i # 0 /\ i - 1 # 0 /\ i - 1 \in 0 .. Len(l) /\ 1 \in 1 .. Len(l)
      BY <1>1, <2>2
    <3>2. /\ y \in R
          /\ y = ValidFirst(l[1]) \/ (ValidFirst(l[1]) = ValidRefused \/ l[1].text # "" => y = ValidRefused)
      <4>1. ValidPlaces(l)[i - 1] =
              IF i - 1 = 1 THEN {ValidFirst(l[1])}
              ELSE {r \in R : ValidFirst(l[1]) = ValidRefused \/ l[1].text # "" => r = ValidRefused}
        BY <3>1 DEF ValidPlaces
      <4> QED
        BY <1>1, <1>3, <3>1, <4>1, ValidEntryType
    <3>3. ValidMaps(l)[<<y, i>>] = IF y.end THEN y ELSE Valid!map(y, l[i])
      BY <3>2 DEF ValidMaps
    <3>4. ValidMaps(l)[<<y, i>>] \in R
      <4>1. Valid!map(y, l[i]) \in R
        BY <1>1, <3>2, ValidMapType
      <4> QED
        BY <3>2, <3>3, <4>1
    <3>5. ASSUME ValidFirst(l[1]) = ValidRefused \/ l[1].text # ""
          PROVE  ValidMaps(l)[<<y, i>>] = ValidRefused
      <4>1. CASE y = ValidRefused
        BY <3>3, <4>1 DEF ValidRefused
      <4>2. CASE y # ValidRefused
        <5>1. y = ValidFirst(l[1]) /\ l[1].text # ""
          BY <3>2, <3>5, <4>2
        <5>2. y.id # "" /\ ~y.end
          BY <4>2, <5>1 DEF ValidFirst
        <5> QED
          BY <1>1, <3>2, <3>3, <5>2, ValidMapType
      <4> QED
        BY <4>1, <4>2
    <3>6. ValidPlaces(l)[i] =
            {r \in R : ValidFirst(l[1]) = ValidRefused \/ l[1].text # "" => r = ValidRefused}
      <4>1. i \in 0 .. Len(l)
        BY <1>1, <3>1
      <4> QED
        BY <2>2, <3>1, <4>1 DEF ValidPlaces
    <3> QED
      BY <3>4, <3>5, <3>6
  <2> QED
    BY <2>1, <2>2
<1>4. ValidStart \in ValidPlaces(l)[0]
  BY <1>1 DEF ValidPlaces
<1> QED
  BY <1>3, <1>4 DEF Goes

(* What the map over the entries returns.                                  *)
LEMMA ValidObjMap ==
  ASSUME NEW l \in Seq(Valid!Entry)
  PROVE  Valid!objMap(l, ValidStart) \in ValidPlaces(l)[Len(l)]
<1> DEFINE p == CHOOSE f : f = [n \in 0 .. Len(l) |->
                                  IF n = 0 THEN ValidStart
                                  ELSE IF f[n - 1].end THEN f[n - 1]
                                  ELSE Valid!map(f[n - 1], l[n])]
<1>1. Valid!objMap(l, ValidStart) = p[Len(l)]
  BY DEF Valid!objMap
<1>2. Len(l) \in Nat
  OBVIOUS
<1>3. PICK h : Unfolds(h, ValidStart, ValidMaps(l), Len(l)) /\ Within(h, ValidPlaces(l), Len(l))
  BY <1>2, ValidGoes, Recursion
<1> HIDE DEF p
<1>4. ASSUME NEW n \in 0 .. Len(l), n # 0
      PROVE  h[n] = IF h[n - 1].end THEN h[n - 1] ELSE Valid!map(h[n - 1], l[n])
  <2>1. n - 1 \in 0 .. Len(l) /\ n \in 1 .. Len(l)
    BY <1>2, <1>4
  <2>2. h[n - 1] \in [id : ValidSouls \cup {""}, end : BOOLEAN]
    <3>1. h[n - 1] \in ValidPlaces(l)[n - 1]
      BY <1>3, <2>1 DEF Within
    <3>2. ValidStart \in [id : ValidSouls \cup {""}, end : BOOLEAN]
      BY DEF ValidStart
    <3>3. l[1] \in Valid!Entry
      BY <1>2, <2>1
    <3> QED
      BY <2>1, <3>1, <3>2, <3>3, ValidEntryType DEF ValidPlaces
  <2> QED
    BY <1>3, <1>4, <2>1, <2>2 DEF Unfolds, ValidMaps
<1>5. h[0] = ValidStart /\ DOMAIN h = 0 .. Len(l)
  BY <1>2, <1>3 DEF Unfolds
<1>6. p = [n \in 0 .. Len(l) |->
             IF n = 0 THEN ValidStart
             ELSE IF p[n - 1].end THEN p[n - 1] ELSE Valid!map(p[n - 1], l[n])]
  <2>1. h = [n \in 0 .. Len(l) |->
               IF n = 0 THEN ValidStart
               ELSE IF h[n - 1].end THEN h[n - 1] ELSE Valid!map(h[n - 1], l[n])]
    <3> DEFINE g == [n \in 0 .. Len(l) |->
                       IF n = 0 THEN ValidStart
                       ELSE IF h[n - 1].end THEN h[n - 1] ELSE Valid!map(h[n - 1], l[n])]
    <3>1. \A n \in 0 .. Len(l) : h[n] = g[n]
      BY <1>4, <1>5
    <3>2. h = [n \in DOMAIN h |-> h[n]]
      BY <1>3 DEF Unfolds
    <3> QED
      BY <1>5, <3>1, <3>2
  <2> QED
    BY <2>1 DEF p
<1>7. ASSUME NEW n \in 1 .. Len(l), p[n - 1] = h[n - 1]
      PROVE  p[n] = h[n]
  <2>1. n \in 0 .. Len(l) /\ n # 0
    BY <1>2
  <2>2. p[n] = IF p[n - 1].end THEN p[n - 1] ELSE Valid!map(p[n - 1], l[n])
    BY <1>6, <2>1
  <2> QED
    BY <1>4, <1>7, <2>1, <2>2
<1>8. p[0] = h[0]
  BY <1>2, <1>5, <1>6
<1>9. p[Len(l)] = h[Len(l)]
  BY <1>2, <1>7, <1>8, SameSteps
<1> QED
  BY <1>1, <1>2, <1>3, <1>9 DEF Within

LEMMA ValidEntriesAreSeqs ==
  ASSUME NEW es \in {s \in Valid!BoundedSeq(Valid!Entry, ValidMaxEntries) :
                       \A i, j \in DOMAIN s : s[i].key = s[j].key => i = j}
  PROVE  es \in ValidEntries
<1>1. ValidMaxEntries \in Nat
  BY ObjectsAssumption DEF Valid!ValidAssumption
<1>2. PICK m \in 0 .. ValidMaxEntries : es \in [1 .. m -> Valid!Entry]
  BY DEF Valid!BoundedSeq, Valid!SeqOf
<1>3. es \in Seq(Valid!Entry)
  BY <1>1, <1>2, SeqDef
<1> QED
  BY <1>3 DEF ValidEntries

(* An object with one entry, a text under "#" that is not empty, is the    *)
(* only one that has an id, for either check.                              *)
LEMMA ValidLink ==
  ASSUME NEW v, v.is = "object", v.entries \in ValidEntries
  PROVE  IF Valid!SoulOf(v) # "" /\ Valid!empty(v, {"#"})
         THEN Valid!linkIs(v) = Valid!SoulOf(v) ELSE Valid!linkIs(v) = ""
<1> DEFINE es == v.entries
           e == es[1]
           r == Valid!objMap(es, ValidStart)
<1>1. /\ es \in Seq(Valid!Entry) /\ Len(es) \in Nat /\ DOMAIN es = 1 .. Len(es)
      /\ \A i, j \in 1 .. Len(es) : es[i].key = es[j].key => i = j
  BY DEF ValidEntries
<1>2. /\ Valid!Truthy(v, "#") /\ ~Valid!Truthy(v, "_") => Valid!linkIs(v) = r.id
      /\ ~Valid!Truthy(v, "#") => Valid!linkIs(v) = ""
      /\ Valid!linkIs(v) = r.id \/ Valid!linkIs(v) = ""
  BY DEF Valid!linkIs, ValidStart, Valid!Nothing
<1>3. r \in ValidPlaces(es)[Len(es)]
  BY <1>1, ValidObjMap
<1>4. Valid!Truthy(v, "#") <=> \E i \in 1 .. Len(es) : es[i].key = "#" /\ (es[i].is = "text" => es[i].text # "")
  BY <1>1 DEF Valid!Truthy
<1>5. Valid!empty(v, {"#"}) <=> \A i \in 1 .. Len(es) : es[i].key = "#"
  BY <1>1 DEF Valid!empty
<1>8. Valid!SoulOf(v) = IF {i \in 1 .. Len(es) : es[i].key = "#"} = {} THEN ""
                        ELSE es[CHOOSE i \in {i \in 1 .. Len(es) : es[i].key = "#"} : TRUE].text
  BY <1>1 DEF Valid!SoulOf, Valid!Nothing
<1>9. ValidRefused.id = ""
  BY DEF ValidRefused
<1> HIDE DEF es, r
<1>6. CASE Len(es) = 0
  <2>0. 1 .. Len(es) = {}
    <3>1. 1 .. 0 = {}
      OBVIOUS
    <3> QED
      BY <1>6, <3>1, Zenon
  <2>1. Valid!linkIs(v) = ""
    BY <1>2, <1>4, <2>0
  <2>2. Valid!SoulOf(v) = ""
    BY <1>8, <2>0
  <2> QED
    BY <2>1, <2>2
<1>7. CASE Len(es) # 0
  <2>1. 1 \in 1 .. Len(es) /\ Len(es) \in 1 .. Len(es) /\ Len(es) \in 0 .. Len(es) /\ e \in Valid!Entry
    BY <1>1, <1>7
  <2>2. CASE e.key = "#" /\ e.is = "text" /\ e.text # ""
    <3>1. ValidFirst(e) = [id |-> e.text, end |-> FALSE]
      BY <2>2 DEF ValidFirst
    <3>2. Valid!SoulOf(v) = e.text
      <4>1. {i \in 1 .. Len(es) : es[i].key = "#"} = {1}
        BY <1>1, <2>1, <2>2
      <4>2. (CHOOSE i \in {1} : TRUE) = 1
        OBVIOUS
      <4> QED
        BY <1>8, <4>1, <4>2
    <3>3. CASE Len(es) = 1
      <4>0. \A i \in 1 .. Len(es) : i = 1
        <5>1. \A i \in 1 .. 1 : i = 1
          OBVIOUS
        <5> QED
          BY <3>3, <5>1, Zenon
      <4>1. r = ValidFirst(e)
        BY <1>3, <2>1, <3>3 DEF ValidPlaces
      <4>2. Valid!Truthy(v, "#")
        BY <1>4, <2>1, <2>2
      <4>3. ~Valid!Truthy(v, "_")
        <5>1. \A i \in DOMAIN v.entries : v.entries[i].key = "#"
          BY <1>1, <2>2, <4>0 DEF es
        <5> QED
          BY <5>1 DEF Valid!Truthy
      <4>4. Valid!empty(v, {"#"})
        BY <1>5, <2>2, <4>0
      <4>5. Valid!linkIs(v) = e.text
        <5>1. ValidFirst(e).id = e.text
          BY <3>1
        <5> QED
          BY <1>2, <4>1, <4>2, <4>3, <5>1
      <4> QED
        BY <3>2, <4>4, <4>5
    <3>4. CASE Len(es) # 1
      <4>1. r = ValidRefused
        BY <1>3, <2>1, <2>2, <3>4, <1>7 DEF ValidPlaces
      <4>2. 2 \in 1 .. Len(es) /\ es[2].key # "#"
        <5>1. 2 \in 1 .. Len(es) /\ 2 # 1
          BY <1>1, <1>7, <3>4
        <5> QED
          BY <1>1, <2>1, <2>2, <5>1
      <4>3. ~Valid!empty(v, {"#"})
        BY <1>5, <4>2
      <4> QED
        BY <1>2, <1>9, <4>1, <4>3
    <3> QED
      BY <3>3, <3>4
  <2>3. CASE e.key = "#" /\ (e.is # "text" \/ e.text = "")
    <3>1. e.text = ""
      BY <2>1, <2>3, ValidEntryType
    <3>2. Valid!SoulOf(v) = ""
      <4>1. {i \in 1 .. Len(es) : es[i].key = "#"} = {1}
        BY <1>1, <2>1, <2>3
      <4>2. (CHOOSE i \in {1} : TRUE) = 1
        OBVIOUS
      <4> QED
        BY <1>8, <3>1, <4>1, <4>2
    <3>3. CASE e.is = "text"
      <4>1. ~Valid!Truthy(v, "#")
        BY <1>1, <1>4, <2>1, <2>3, <3>1, <3>3
      <4> QED
        BY <1>2, <3>2, <4>1
    <3>4. CASE e.is # "text"
      <4>1. ValidFirst(e) = ValidRefused
        BY <3>4 DEF ValidFirst
      <4>2. r = ValidRefused
        BY <1>3, <1>7, <2>1, <4>1 DEF ValidPlaces
      <4> QED
        BY <1>2, <1>9, <3>2, <4>2
    <3> QED
      BY <3>3, <3>4
  <2>4. CASE e.key # "#"
    <3>1. ValidFirst(e) = ValidRefused /\ ~Valid!empty(v, {"#"})
      BY <1>5, <2>1, <2>4 DEF ValidFirst
    <3>2. r = ValidRefused
      BY <1>3, <1>7, <2>1, <3>1 DEF ValidPlaces
    <3> QED
      BY <1>2, <1>9, <3>1, <3>2
  <2> QED
    BY <2>2, <2>3, <2>4
<1> QED
  BY <1>6, <1>7

LEMMA ValidOld ==
  ASSUME NEW v \in Valid!Values
  PROVE  Valid!valIs(v) = IF v.is = "boxed" THEN Valid!Answer(TRUE, "") ELSE Valid!valid(v)
<1>1. CASE v.is = "object"
  <2>1. v.entries \in ValidEntries
    <3>1. PICK es \in {s \in Valid!BoundedSeq(Valid!Entry, ValidMaxEntries) :
                         \A i, j \in DOMAIN s : s[i].key = s[j].key => i = j} :
            v = Valid!Value("object", "", es)
      <4>1. ASSUME NEW is \in Valid!Kinds \cup {"text"}, NEW x, NEW y, v = Valid!Value(is, x, y)
            PROVE  FALSE
        BY <1>1, <4>1 DEF Valid!Value, Valid!Kinds
      <4> QED
        BY <4>1 DEF Valid!Values
    <3> QED
      BY <3>1, ValidEntriesAreSeqs DEF Valid!Value
  <2>2. IF Valid!SoulOf(v) # "" /\ Valid!empty(v, {"#"})
        THEN Valid!linkIs(v) = Valid!SoulOf(v) ELSE Valid!linkIs(v) = ""
    BY <1>1, <2>1, ValidLink
  <2>3. Valid!valIs(v) = Valid!Answer(Valid!linkIs(v) # "", Valid!linkIs(v))
    BY <1>1 DEF Valid!valIs, Valid!Nothing
  <2>4. Valid!valid(v) = IF Valid!SoulOf(v) # "" /\ Valid!empty(v, {"#"})
                         THEN Valid!Answer(TRUE, Valid!SoulOf(v)) ELSE Valid!Answer(FALSE, "")
    BY <1>1 DEF Valid!valid, Valid!Nothing
  <2>5. ASSUME NEW x PROVE /\ x # "" => Valid!Answer(x # "", x) = Valid!Answer(TRUE, x)
                           /\ x = "" => Valid!Answer(x # "", x) = Valid!Answer(FALSE, "")
    BY Zenon DEF Valid!Answer
  <2> QED
    BY <1>1, <2>2, <2>3, <2>4, <2>5
<1>2. CASE v.is \in {"null", "text", "boolean", "number", "-Infinity", "boxed"}
  BY <1>2 DEF Valid!valIs, Valid!valid, Valid!Nothing
<1>3. CASE v.is \notin {"object", "null", "text", "boolean", "number", "-Infinity", "boxed"}
  <2>1. Valid!linkIs(v) = ""
    BY <1>3 DEF Valid!linkIs, Valid!Nothing
  <2>2. Valid!valIs(v) = Valid!Answer(FALSE, "")
    BY <1>3, <2>1 DEF Valid!valIs, Valid!Nothing, Valid!Answer
  <2>3. Valid!valid(v) = Valid!Answer(FALSE, "")
    BY <1>3 DEF Valid!valid, Valid!Nothing
  <2> QED
    BY <1>3, <2>2, <2>3
<1> QED
  BY <1>1, <1>2, <1>3

ValidInv ==
  /\ value \in Valid!Values
  /\ valid_out = Valid!NoResult
     \/ valid_out = [valid |-> Valid!valid(value), old |-> Valid!valIs(value)]

(* Valid data survives a text of JSON, -Infinity apart, and the older      *)
(* check finds the same values valid, the boxed ones apart, whatever keys  *)
(* an object has and however many (gun.js:134-147, 1924-1955).             *)
THEOREM ValidCorrect == Valid!Spec => []ValidDataSurvives
<1>1. Valid!Init => ValidInv
  BY DEF Valid!Init, ValidInv
<1>2. ValidInv /\ [Valid!Next]_(Valid!vars) => ValidInv'
  BY DEF ValidInv, Valid!Next, Valid!Check, Valid!vars
<1>3. ValidInv => ValidDataSurvives
  <2> SUFFICES ASSUME ValidInv PROVE Valid!Survives /\ Valid!OldAgrees
    BY DEF ValidDataSurvives
  <2>1. Valid!Survives
    <3> SUFFICES ASSUME valid_out # Valid!NoResult, valid_out.valid.is
                 PROVE  \/ Valid!Json(value) = value
                        \/ value.is = "-Infinity" /\ Valid!Json(value).is = "null"
      BY DEF Valid!Survives
    <3>1. Valid!valid(value).is
      BY DEF ValidInv
    <3>2. value.is \in {"null", "text", "boolean", "number", "-Infinity", "object"}
      BY <3>1 DEF Valid!valid, Valid!Answer
    <3>3. value.is = "-Infinity" => Valid!Json(value) = Valid!Value("null", "", <<>>)
      BY DEF Valid!Json
    <3>4. value.is # "-Infinity" => Valid!Json(value) = value
      BY <3>2 DEF Valid!Json
    <3>5. Valid!Value("null", "", <<>>).is = "null"
      BY DEF Valid!Value
    <3> QED
      BY <3>2, <3>3, <3>4, <3>5
  <2>2. Valid!OldAgrees
    <3> SUFFICES ASSUME valid_out # Valid!NoResult
                 PROVE  valid_out.old = IF value.is = "boxed" THEN Valid!Answer(TRUE, "")
                                        ELSE valid_out.valid
      BY DEF Valid!OldAgrees, Valid!Nothing
    <3>1. valid_out.old = Valid!valIs(value) /\ valid_out.valid = Valid!valid(value)
      BY DEF ValidInv
    <3>2. value \in Valid!Values
      BY DEF ValidInv
    <3> QED
      BY <3>1, <3>2, ValidOld
  <2> QED
    BY <2>1, <2>2
<1> QED
  BY <1>1, <1>2, <1>3, PTL DEF Valid!Spec

-----------------------------------------------------------------------------
(* The walk over an object.                                                *)
WalkKeySet == {WalkKeys[i] : i \in DOMAIN WalkKeys}

LEMMA WalkFinite ==
  ASSUME NEW S
  PROVE  /\ Walk!IsFiniteSet(S) <=> IsFiniteSet(S)
         /\ Walk!Cardinality(S) = Cardinality(S)
  BY DEF Walk!IsFiniteSet, IsFiniteSet, Walk!Cardinality, Cardinality

LEMMA WalkConstants ==
  /\ IsFiniteSet(WalkObjects) /\ WalkRoot \in WalkObjects /\ WalkOwn \subseteq WalkObjects
  /\ WalkKeys \in Seq(WalkKeySet) /\ Len(WalkKeys) \in Nat
  /\ DOMAIN WalkKeys = 1 .. Len(WalkKeys)
  /\ \A i \in 1 .. Len(WalkKeys) : WalkKeys[i] \in WalkKeySet
  /\ \A s \in WalkShapes, o \in WalkObjects : DOMAIN s[o] = WalkKeySet
<1>1. WalkKeys \in Seq(WalkKeySet)
  BY ObjectsAssumption DEF Walk!WalkAssumption, WalkKeySet
<1>2. Len(WalkKeys) \in Nat /\ DOMAIN WalkKeys = 1 .. Len(WalkKeys)
  BY <1>1
<1>3. \A i \in 1 .. Len(WalkKeys) : WalkKeys[i] \in WalkKeySet
  BY <1>2 DEF WalkKeySet
<1>4. ASSUME NEW s \in WalkShapes, NEW o \in WalkObjects PROVE DOMAIN s[o] = WalkKeySet
  <2>1. s \in [WalkObjects -> [WalkKeySet -> WalkObjects \cup WalkValues
                                             \cup {Walk!Nothing, Walk!Invalid}]]
    BY ObjectsAssumption DEF Walk!WalkAssumption, WalkKeySet
  <2> QED
    BY <2>1
<1>5. IsFiniteSet(WalkObjects) /\ WalkRoot \in WalkObjects /\ WalkOwn \subseteq WalkObjects
  BY ObjectsAssumption, WalkFinite DEF Walk!WalkAssumption
<1> QED
  BY <1>1, <1>2, <1>3, <1>4, <1>5, Zenon

(* The keys of an object among the first ones, and how the next is added.  *)
WalkKeyed(o) ==
  [i \in 0 .. Len(WalkKeys) |->
     {s \in Seq(WalkKeySet) :
        \A j \in 1 .. i : walk_shape[o][WalkKeys[j]] # Walk!Nothing
                             => WalkKeys[j] \in Walk!ToSet(s)}]

WalkKeyNext(o) ==
  [y \in Seq(WalkKeySet) \X (1 .. Len(WalkKeys)) |->
     IF walk_shape[o][WalkKeys[y[2]]] = Walk!Nothing THEN y[1]
     ELSE <<WalkKeys[y[2]]>> \o y[1]]

LEMMA WalkPush ==
  ASSUME NEW S, NEW s \in Seq(S), NEW e \in S
  PROVE  /\ <<e>> \o s \in Seq(S)
         /\ e \in Walk!ToSet(<<e>> \o s)
         /\ \A x \in Walk!ToSet(s) : x \in Walk!ToSet(<<e>> \o s)
<1> DEFINE t == <<e>> \o s
<1>1. t \in Seq(S) /\ Len(t) = Len(s) + 1 /\ DOMAIN t = 1 .. Len(t) /\ Len(s) \in Nat
      /\ DOMAIN s = 1 .. Len(s)
  OBVIOUS
<1>2. t[1] = e
  OBVIOUS
<1>3. ASSUME NEW i \in 1 .. Len(s) PROVE t[i + 1] = s[i] /\ i + 1 \in 1 .. Len(t)
  BY <1>1
<1> HIDE DEF t
<1>4. 1 \in 1 .. Len(t)
  BY <1>1
<1>5. e \in Walk!ToSet(t)
  BY <1>1, <1>2, <1>4 DEF Walk!ToSet
<1>6. ASSUME NEW x \in Walk!ToSet(s) PROVE x \in Walk!ToSet(t)
  <2>1. PICK i \in 1 .. Len(s) : x = s[i]
    BY <1>1 DEF Walk!ToSet
  <2> QED
    BY <1>1, <1>3, <2>1 DEF Walk!ToSet
<1> QED
  BY <1>1, <1>5, <1>6 DEF t

LEMMA WalkKeyGoes ==
  ASSUME NEW o
  PROVE  Goes(WalkKeyed(o), <<>>, WalkKeyNext(o), Len(WalkKeys))
<1>1. <<>> \in WalkKeyed(o)[0]
  BY WalkConstants DEF WalkKeyed
<1>2. ASSUME NEW i \in 1 .. Len(WalkKeys), NEW y \in WalkKeyed(o)[i - 1]
      PROVE  WalkKeyNext(o)[<<y, i>>] \in WalkKeyed(o)[i]
  <2> DEFINE k == WalkKeys[i]
             z == WalkKeyNext(o)[<<y, i>>]
  <2>1. i - 1 \in 0 .. Len(WalkKeys) /\ i \in 0 .. Len(WalkKeys) /\ k \in WalkKeySet
        /\ \A j \in 1 .. i : j = i \/ j \in 1 .. i - 1
    BY WalkConstants
  <2>2. /\ y \in Seq(WalkKeySet)
        /\ \A j \in 1 .. i - 1 : walk_shape[o][WalkKeys[j]] # Walk!Nothing
                                   => WalkKeys[j] \in Walk!ToSet(y)
    BY <2>1, <1>2 DEF WalkKeyed
  <2>3. z = IF walk_shape[o][k] = Walk!Nothing THEN y ELSE <<k>> \o y
    BY <2>2 DEF WalkKeyNext
  <2> HIDE DEF z
  <2>4. <<k>> \o y \in Seq(WalkKeySet) /\ k \in Walk!ToSet(<<k>> \o y)
        /\ \A x \in Walk!ToSet(y) : x \in Walk!ToSet(<<k>> \o y)
    BY <2>1, <2>2, WalkPush
  <2>5. z \in Seq(WalkKeySet)
    BY <2>2, <2>3, <2>4
  <2>6. ASSUME NEW j \in 1 .. i, walk_shape[o][WalkKeys[j]] # Walk!Nothing
        PROVE  WalkKeys[j] \in Walk!ToSet(z)
    BY <2>1, <2>2, <2>3, <2>4, <2>6
  <2> QED
    BY <2>1, <2>5, <2>6 DEF WalkKeyed, z
<1> QED
  BY <1>1, <1>2 DEF Goes

(* KeysOf has all keys of an object.                                       *)
LEMMA WalkKeysOf ==
  ASSUME NEW o
  PROVE  /\ Walk!KeysOf(o) \in Seq(WalkKeySet)
         /\ \A k \in WalkKeySet : walk_shape[o][k] # Walk!Nothing
                                    => k \in Walk!ToSet(Walk!KeysOf(o))
<1> DEFINE n == Len(WalkKeys)
           ks == CHOOSE f : f = [i \in 0 .. n |->
                                   IF i = 0 THEN <<>>
                                   ELSE IF walk_shape[o][WalkKeys[i]] = Walk!Nothing THEN f[i - 1]
                                   ELSE <<WalkKeys[i]>> \o f[i - 1]]
<1>1. Walk!KeysOf(o) = ks[n]
  BY DEF Walk!KeysOf
<1>2. n \in Nat
  BY WalkConstants
<1>3. PICK h : Unfolds(h, <<>>, WalkKeyNext(o), n) /\ Within(h, WalkKeyed(o), n)
  BY <1>2, WalkKeyGoes, Recursion
<1> DEFINE Next(y, i) == IF walk_shape[o][WalkKeys[i]] = Walk!Nothing THEN y
                         ELSE <<WalkKeys[i]>> \o y
<1>4. ASSUME NEW i \in 0 .. n, i # 0 PROVE h[i] = Next(h[i - 1], i)
  <2>1. i - 1 \in 0 .. n /\ i \in 1 .. n
    BY <1>2, <1>4
  <2>2. h[i - 1] \in Seq(WalkKeySet)
    BY <1>3, <2>1 DEF Within, WalkKeyed
  <2> QED
    BY <1>3, <1>4, <2>1, <2>2 DEF Unfolds, WalkKeyNext
<1>5. h[0] = <<>> /\ h = [i \in 0 .. n |-> h[i]]
  BY <1>2, <1>3 DEF Unfolds
<1>6. ks = [i \in 0 .. n |-> IF i = 0 THEN <<>> ELSE Next(ks[i - 1], i)]
  <2> DEFINE g == [i \in 0 .. n |-> IF i = 0 THEN <<>> ELSE Next(h[i - 1], i)]
  <2>1. \A i \in 0 .. n : h[i] = g[i]
    BY <1>4, <1>5
  <2>2. h = g
    BY <1>5, <2>1
  <2> QED
    BY <2>2
<1> HIDE DEF ks, n, Next
<1>7. ASSUME NEW i \in 1 .. n, ks[i - 1] = h[i - 1] PROVE ks[i] = h[i]
  <2>1. i \in 0 .. n /\ i # 0
    BY <1>2
  <2> QED
    BY <1>4, <1>6, <1>7, <2>1
<1>8. ks[0] = h[0] /\ n \in 0 .. n
  BY <1>2, <1>5, <1>6
<1>9. ks[n] = h[n]
  BY <1>2, <1>7, <1>8, SameSteps
<1>10. h[n] \in WalkKeyed(o)[n]
  BY <1>3, <1>8 DEF Within
<1>11. /\ h[n] \in Seq(WalkKeySet)
       /\ \A j \in 1 .. n : walk_shape[o][WalkKeys[j]] # Walk!Nothing
                              => WalkKeys[j] \in Walk!ToSet(h[n])
  BY <1>8, <1>10 DEF WalkKeyed, n
<1>12. \A k \in WalkKeySet : \E j \in 1 .. n : k = WalkKeys[j]
  BY WalkConstants DEF WalkKeySet, n
<1> QED
  BY <1>1, <1>9, <1>11, <1>12

(* What resolve makes of the objects that get a soul: o gets its own, and  *)
(* those that waited for it get one of their path.                         *)
WalkSettled(p, q, o, s, all) ==
  /\ o \in all
  /\ all \subseteq {o} \cup p.held
  /\ \E new : /\ \A x \in all : new[x] = IF x = o THEN s ELSE Walk!PathSoul(x)
              /\ q.soul = [x \in WalkObjects |-> IF x \in all THEN new[x] ELSE p.soul[x]]
              /\ q.graph = [t \in Walk!AllSouls |->
                              IF \E x \in all : new[x] = t
                              THEN CHOOSE x \in all : new[x] = t ELSE p.graph[t]]
  /\ q.wait = p.wait \ all
  /\ q.held = p.held \ all

LEMMA WalkSettle ==
  ASSUME NEW p, NEW o, NEW s, NEW over
  PROVE  \E all : WalkSettled(p, Walk!Settle(p, o, s, over), o, s, all)
<1> DEFINE n == Walk!Cardinality(WalkObjects)
           f == CHOOSE g : g = [i \in 0 .. n |-> IF i = 0 THEN {o}
                                                 ELSE {x \in p.held : over[x] \in g[i - 1]}]
           all == UNION {f[i] : i \in DOMAIN f}
           new == [x \in all |-> IF x = o THEN s ELSE Walk!PathSoul(x)]
           q == Walk!Settle(p, o, s, over)
           B == {o} \cup p.held
           X == [i \in 0 .. n |-> SUBSET B]
           F == [y \in (SUBSET B) \X (1 .. n) |-> {x \in p.held : over[x] \in y[1]}]
<1>1. n \in Nat
  BY WalkConstants, WalkFinite, FS_CardinalityType
<1>2. q = [soul |-> [x \in WalkObjects |-> IF x \in all THEN new[x] ELSE p.soul[x]],
           wait |-> p.wait \ all,
           held |-> p.held \ all,
           graph |-> [t \in Walk!AllSouls |-> IF \E x \in all : new[x] = t
                                             THEN CHOOSE x \in all : new[x] = t
                                             ELSE p.graph[t]]]
  BY DEF Walk!Settle
<1> HIDE DEF n, q
<1>3. Goes(X, {o}, F, n)
  BY <1>1 DEF Goes
<1>4. PICK h : Unfolds(h, {o}, F, n) /\ Within(h, X, n)
  BY <1>1, <1>3, Recursion
<1>5. ASSUME NEW i \in 0 .. n
      PROVE  h[i] = IF i = 0 THEN {o} ELSE {x \in p.held : over[x] \in h[i - 1]}
  <2>1. CASE i = 0
    BY <1>4, <2>1 DEF Unfolds
  <2>2. CASE i # 0
    <3>1. i - 1 \in 0 .. n /\ i \in 1 .. n
      BY <1>1, <2>2
    <3>2. h[i - 1] \in SUBSET B
      BY <1>4, <3>1 DEF Within
    <3>3. h[i] = F[<<h[i - 1], i>>]
      BY <1>4, <2>2 DEF Unfolds
    <3> QED
      BY <2>2, <3>1, <3>2, <3>3
  <2> QED
    BY <2>1, <2>2
<1>6. f = [i \in 0 .. n |-> IF i = 0 THEN {o} ELSE {x \in p.held : over[x] \in f[i - 1]}]
  <2> DEFINE g == [i \in 0 .. n |-> IF i = 0 THEN {o} ELSE {x \in p.held : over[x] \in h[i - 1]}]
  <2>1. h = [i \in 0 .. n |-> h[i]]
    BY <1>4 DEF Unfolds
  <2>2. \A i \in 0 .. n : h[i] = g[i]
    BY <1>5
  <2>3. h = g
    BY <2>1, <2>2
  <2> QED
    BY <2>3
<1> HIDE DEF f
<1>7. f[0] = {o} /\ 0 \in DOMAIN f
  BY <1>1, <1>6
<1>8. \A i \in DOMAIN f : f[i] \subseteq B
  BY <1>6
<1>9. o \in all /\ all \subseteq B
  BY <1>7, <1>8
<1> HIDE DEF all
<1>10. \A x \in all : new[x] = IF x = o THEN s ELSE Walk!PathSoul(x)
  OBVIOUS
<1> HIDE DEF new
<1>11. WalkSettled(p, q, o, s, all)
  BY <1>2, <1>9, <1>10 DEF WalkSettled
<1> QED
  BY <1>11 DEF q

(* The objects that wait are those that have no soul yet, and each soul    *)
(* given has a node of the graph, of an object that has it.                *)
WalkSouls(S, p) ==
  /\ p.held \subseteq p.wait
  /\ p.wait \subseteq S
  /\ \A x \in WalkObjects : p.soul[x] = Walk!Unknown <=> x \in p.wait \/ x \notin S
  /\ \A x \in S \ p.wait : p.soul[x] \in Walk!AllSouls
  /\ \A x \in S \ p.wait : /\ p.graph[p.soul[x]] \in S
                           /\ p.soul[p.graph[p.soul[x]]] = p.soul[x]

LEMMA WalkSoulsDiffer ==
  /\ Walk!Unknown \notin Walk!AllSouls
  /\ \A x \in WalkObjects : Walk!PathSoul(x) \in Walk!AllSouls
  /\ \A x \in WalkOwn : Walk!OwnSoul(x) \in Walk!AllSouls
  /\ \A s \in Walk!Answers : s = Walk!Unknown \/ s \in Walk!AllSouls
<1>1. \A a, b : <<a, b>> # <<>>
  OBVIOUS
<1> QED
  BY <1>1 DEF Walk!AllSouls, Walk!PathSoul, Walk!OwnSoul, Walk!FoundSoul, Walk!Unknown, Walk!Answers

LEMMA WalkSettledSound ==
  ASSUME NEW S, S \subseteq WalkObjects, NEW p, NEW q, NEW o, NEW s \in Walk!AllSouls, NEW all,
         WalkSouls(S, p), o \in p.wait, WalkSettled(p, q, o, s, all)
  PROVE  WalkSouls(S, q)
<1>1. all \subseteq p.wait /\ o \in all /\ all \subseteq S
  BY DEF WalkSouls, WalkSettled
<1>2. PICK new : /\ \A x \in all : new[x] = IF x = o THEN s ELSE Walk!PathSoul(x)
                 /\ q.soul = [x \in WalkObjects |-> IF x \in all THEN new[x] ELSE p.soul[x]]
                 /\ q.graph = [t \in Walk!AllSouls |->
                                 IF \E x \in all : new[x] = t
                                 THEN CHOOSE x \in all : new[x] = t ELSE p.graph[t]]
  BY DEF WalkSettled
<1>3. q.wait = p.wait \ all /\ q.held = p.held \ all
  BY DEF WalkSettled
<1>4. \A x \in all : new[x] \in Walk!AllSouls /\ new[x] # Walk!Unknown
  BY <1>1, <1>2, WalkSoulsDiffer
<1>5. \A x \in all : p.soul[x] = Walk!Unknown
  BY <1>1 DEF WalkSouls
<1>6. \A x \in WalkObjects : q.soul[x] = IF x \in all THEN new[x] ELSE p.soul[x]
  BY <1>2
<1>7. \A x \in WalkObjects : q.soul[x] = Walk!Unknown <=> x \in q.wait \/ x \notin S
  BY <1>1, <1>3, <1>4, <1>6 DEF WalkSouls
<1>8. ASSUME NEW x \in S \ q.wait
      PROVE  /\ q.soul[x] \in Walk!AllSouls
             /\ q.graph[q.soul[x]] \in S /\ q.soul[q.graph[q.soul[x]]] = q.soul[x]
  <2> DEFINE t == q.soul[x]
  <2>1. t \in Walk!AllSouls
    BY <1>3, <1>4, <1>6 DEF WalkSouls
  <2>2. q.graph[t] = IF \E y \in all : new[y] = t THEN CHOOSE y \in all : new[y] = t
                     ELSE p.graph[t]
    BY <1>2, <2>1
  <2>3. CASE \E y \in all : new[y] = t
    <3> DEFINE y == CHOOSE y \in all : new[y] = t
    <3>1. y \in all /\ new[y] = t
      BY <2>3
    <3>2. q.graph[t] = y
      BY <2>2, <2>3
    <3> HIDE DEF y
    <3> QED
      BY <1>1, <1>6, <2>1, <3>1, <3>2
  <2>4. CASE ~ \E y \in all : new[y] = t
    <3>1. x \notin all
      BY <1>6, <2>4
    <3>2. x \in S \ p.wait /\ t = p.soul[x]
      BY <1>3, <1>6, <3>1
    <3>3. p.graph[t] \in S /\ p.soul[p.graph[t]] = t
      BY <3>2 DEF WalkSouls
    <3>4. p.graph[t] \notin all
      BY <1>5, <2>1, <3>3, WalkSoulsDiffer
    <3> QED
      BY <1>6, <2>1, <2>2, <2>4, <3>3, <3>4
  <2> QED
    BY <2>3, <2>4
<1>9. q.held \subseteq q.wait /\ q.wait \subseteq S
  BY <1>3 DEF WalkSouls
<1> QED
  BY <1>7, <1>8, <1>9 DEF WalkSouls

(* What is known of the objects seen: each of their keys is still to walk, *)
(* or the node has its value.  The objects to walk are those with keys.    *)
WalkKeysSound ==
  /\ walk_shape \in WalkShapes
  /\ walk_seen \subseteq WalkObjects
  /\ walk_rest \in [WalkObjects -> Seq(WalkKeySet)]
  /\ DOMAIN node = WalkObjects /\ \A x \in WalkObjects : DOMAIN node[x] = WalkKeySet
  /\ \A x \in WalkObjects \ walk_seen, k \in WalkKeySet : node[x][k] = Walk!Nothing
  /\ \A x \in walk_seen, k \in WalkKeySet :
        node[x][k] = walk_shape[x][k] \/ k \in Walk!ToSet(walk_rest[x])
  /\ walk_err \in BOOLEAN
  /\ ~walk_err => \A x \in WalkObjects, k \in WalkKeySet : node[x][k] # Walk!Invalid

WalkDistinct(s) == \A i, j \in DOMAIN s : s[i] = s[j] => i = j

WalkTodoSound ==
  /\ todo \in Seq(walk_seen)
  /\ WalkDistinct(todo)
  /\ \A x \in walk_seen : x \in Walk!ToSet(todo) <=> walk_rest[x] # <<>>

WalkSentSound ==
  /\ walk_sent \in {0, 1}
  /\ walk_sent # 0 => todo = <<>> /\ walk_wait = {} /\ ~walk_err

WalkInv == WalkKeysSound /\ WalkTodoSound /\ WalkSouls(walk_seen, Walk!Walked) /\ WalkSentSound

LEMMA WalkInit == Walk!Init => WalkInv
<1> SUFFICES ASSUME Walk!Init PROVE WalkInv
  OBVIOUS
<1> DEFINE ks == Walk!KeysOf(WalkRoot)
<1>1. /\ walk_shape \in WalkShapes /\ walk_seen = {WalkRoot} /\ walk_wait = {} /\ held = {}
      /\ todo = (IF ks = <<>> THEN <<>> ELSE <<WalkRoot>>)
      /\ walk_rest = [o \in WalkObjects |-> IF o = WalkRoot THEN Walk!KeysOf(o) ELSE <<>>]
      /\ soul = [o \in WalkObjects |-> IF o = WalkRoot THEN Walk!RootSoul ELSE Walk!Unknown]
      /\ node = [o \in WalkObjects |-> [k \in DOMAIN walk_shape[o] |-> Walk!Nothing]]
      /\ walk_graph = [s \in Walk!AllSouls |-> IF s = Walk!RootSoul THEN WalkRoot ELSE Walk!Nothing]
      /\ walk_err = FALSE
      /\ walk_sent = (IF ks = <<>> THEN 1 ELSE 0)
  BY DEF Walk!Init
<1>2. ks \in Seq(WalkKeySet) /\ walk_rest[WalkRoot] = ks
      /\ \A k \in WalkKeySet : walk_shape[WalkRoot][k] # Walk!Nothing => k \in Walk!ToSet(ks)
  BY <1>1, WalkConstants, WalkKeysOf
<1> HIDE DEF ks
<1>3. WalkKeysSound
  <2>1. walk_rest \in [WalkObjects -> Seq(WalkKeySet)]
    BY <1>1, WalkKeysOf
  <2>2. \A x \in WalkObjects : node[x] = [k \in WalkKeySet |-> Walk!Nothing]
    BY <1>1, WalkConstants
  <2>3. DOMAIN node = WalkObjects /\ \A x \in WalkObjects : DOMAIN node[x] = WalkKeySet
    BY <1>1, <2>2
  <2>4. \A x \in WalkObjects, k \in WalkKeySet : node[x][k] = Walk!Nothing
    BY <2>2
  <2>5. Walk!Nothing # Walk!Invalid
    BY DEF Walk!Nothing, Walk!Invalid
  <2>6. \A x \in walk_seen, k \in WalkKeySet :
           node[x][k] = walk_shape[x][k] \/ k \in Walk!ToSet(walk_rest[x])
    BY <1>1, <1>2, <2>4, WalkConstants
  <2>7. ~walk_err => \A x \in WalkObjects, k \in WalkKeySet : node[x][k] # Walk!Invalid
    BY <2>4, <2>5
  <2>8. walk_seen \subseteq WalkObjects /\ walk_err \in BOOLEAN
    BY <1>1, WalkConstants
  <2> QED
    BY <1>1, <2>1, <2>3, <2>4, <2>6, <2>7, <2>8 DEF WalkKeysSound
<1>4. WalkTodoSound
  <2>1. CASE ks = <<>>
    BY <1>1, <1>2, <2>1 DEF WalkTodoSound, Walk!ToSet, WalkDistinct
  <2>2. CASE ks # <<>>
    <3>1. todo = <<WalkRoot>>
      BY <1>1, <2>2
    <3>2. todo \in Seq({WalkRoot}) /\ DOMAIN todo = {1} /\ todo[1] = WalkRoot
      BY <3>1
    <3>3. Walk!ToSet(todo) = {WalkRoot}
      BY <3>2 DEF Walk!ToSet
    <3> QED
      BY <1>1, <1>2, <2>2, <3>2, <3>3 DEF WalkTodoSound, WalkDistinct
  <2> QED
    BY <2>1, <2>2
<1>5. WalkSouls(walk_seen, Walk!Walked)
  <2>1. Walk!RootSoul \in Walk!AllSouls /\ Walk!RootSoul # Walk!Unknown
    BY WalkConstants, WalkSoulsDiffer DEF Walk!RootSoul
  <2>2. soul[WalkRoot] = Walk!RootSoul /\ walk_graph[Walk!RootSoul] = WalkRoot
    BY <1>1, <2>1, WalkConstants
  <2>3. Walk!Walked = [soul |-> soul, wait |-> walk_wait, held |-> held, graph |-> walk_graph]
    BY DEF Walk!Walked
  <2> QED
    BY <1>1, <2>1, <2>2, <2>3 DEF WalkSouls
<1>6. WalkSentSound
  BY <1>1 DEF WalkSentSound
<1> QED
  BY <1>3, <1>4, <1>5, <1>6 DEF WalkInv

(* What is left of a sequence when the last is taken off, and what is there*)
(* when one is added.                                                      *)
LEMMA WalkLast ==
  ASSUME NEW S, NEW s \in Seq(S), s # <<>>
  PROVE  /\ Walk!Last(s) \in S
         /\ Walk!Last(s) \in Walk!ToSet(s)
         /\ Walk!Front(s) \in Seq(S)
         /\ \A x \in Walk!ToSet(s) : x = Walk!Last(s) \/ x \in Walk!ToSet(Walk!Front(s))
         /\ \A x \in Walk!ToSet(Walk!Front(s)) : x \in Walk!ToSet(s)
         /\ WalkDistinct(s) => /\ WalkDistinct(Walk!Front(s))
                               /\ Walk!Last(s) \notin Walk!ToSet(Walk!Front(s))
<1> DEFINE n == Len(s)
           t == Walk!Front(s)
<1>1. n \in Nat /\ n # 0 /\ DOMAIN s = 1 .. n /\ \A i \in 1 .. n : s[i] \in S
  BY EmptySeq
<1>2. t \in Seq(S) /\ DOMAIN t = 1 .. n - 1 /\ \A i \in 1 .. n - 1 : t[i] = s[i]
  BY <1>1 DEF Walk!Front
<1>3. Walk!Last(s) = s[n]
  BY DEF Walk!Last
<1> HIDE DEF n, t
<1>4. n \in 1 .. n /\ \A i \in 1 .. n : i = n \/ i \in 1 .. n - 1
  BY <1>1
<1>5. \A i \in 1 .. n - 1 : i \in 1 .. n /\ i # n
  BY <1>1
<1>6. Walk!Last(s) \in S /\ Walk!Last(s) \in Walk!ToSet(s)
  BY <1>1, <1>3, <1>4 DEF Walk!ToSet
<1>7. \A x \in Walk!ToSet(s) : x = Walk!Last(s) \/ x \in Walk!ToSet(t)
  BY <1>1, <1>2, <1>3, <1>4 DEF Walk!ToSet
<1>8. \A x \in Walk!ToSet(t) : x \in Walk!ToSet(s)
  BY <1>1, <1>2, <1>5 DEF Walk!ToSet
<1>9. ASSUME WalkDistinct(s) PROVE WalkDistinct(t) /\ Walk!Last(s) \notin Walk!ToSet(t)
  <2>1. WalkDistinct(t)
    BY <1>1, <1>2, <1>5, <1>9 DEF WalkDistinct
  <2>2. ASSUME NEW i \in 1 .. n - 1, s[n] = t[i] PROVE FALSE
    BY <1>1, <1>2, <1>4, <1>5, <1>9, <2>2 DEF WalkDistinct
  <2> QED
    BY <1>2, <1>3, <2>1, <2>2 DEF Walk!ToSet
<1> QED
  BY <1>2, <1>6, <1>7, <1>8, <1>9 DEF t

LEMMA WalkAppend ==
  ASSUME NEW S, NEW s \in Seq(S), NEW e
  PROVE  /\ Append(s, e) \in Seq(S \cup {e})
         /\ Walk!ToSet(Append(s, e)) = Walk!ToSet(s) \cup {e}
         /\ Walk!ToSet(s) \subseteq S
         /\ WalkDistinct(s) /\ e \notin S => WalkDistinct(Append(s, e))
<1> DEFINE n == Len(s)
           t == Append(s, e)
<1>1. n \in Nat /\ DOMAIN s = 1 .. n /\ \A i \in 1 .. n : s[i] \in S
  OBVIOUS
<1>2. s \in Seq(S \cup {e}) /\ t \in Seq(S \cup {e})
  <2>1. s \in Seq(S \cup {e})
    BY <1>1, SeqDef
  <2> QED
    BY <2>1
<1>3. DOMAIN t = 1 .. n + 1 /\ t[n + 1] = e /\ \A i \in 1 .. n : t[i] = s[i]
  BY <1>1
<1> HIDE DEF n, t
<1>4. \A i \in 1 .. n + 1 : i = n + 1 \/ i \in 1 .. n
  BY <1>1
<1>5. n + 1 \in 1 .. n + 1 /\ \A i \in 1 .. n : i \in 1 .. n + 1
  BY <1>1
<1>6. Walk!ToSet(t) \subseteq Walk!ToSet(s) \cup {e}
  BY <1>1, <1>3, <1>4 DEF Walk!ToSet
<1>7. Walk!ToSet(s) \subseteq Walk!ToSet(t) /\ e \in Walk!ToSet(t)
  BY <1>1, <1>3, <1>5 DEF Walk!ToSet
<1>8. ASSUME WalkDistinct(s), e \notin S PROVE WalkDistinct(t)
  BY <1>1, <1>3, <1>4, <1>8 DEF WalkDistinct
<1>9. Walk!ToSet(s) \subseteq S
  BY <1>1 DEF Walk!ToSet
<1> QED
  BY <1>2, <1>6, <1>7, <1>8, <1>9 DEF t

LEMMA WalkBecomes ==
  ASSUME NEW td, NEW p, Walk!Becomes(td, p), walk_sent = 0
  PROVE  WalkSentSound'
<1>1. /\ todo' = td /\ walk_wait' = p.wait
      /\ walk_sent' = IF ~walk_err' /\ walk_sent = 0 /\ Walk!Ran(td, p) THEN 1 ELSE walk_sent
  BY DEF Walk!Becomes
<1>2. CASE ~walk_err' /\ Walk!Ran(td, p)
  BY <1>1, <1>2 DEF WalkSentSound, Walk!Ran
<1>3. CASE ~(~walk_err' /\ Walk!Ran(td, p))
  BY <1>1, <1>3 DEF WalkSentSound
<1> QED
  BY <1>2, <1>3

LEMMA WalkBecomesSouls ==
  ASSUME NEW td, NEW p, Walk!Becomes(td, p), NEW S, S = walk_seen', WalkSouls(S, p)
  PROVE  WalkSouls(walk_seen, Walk!Walked)'
<1>1. soul' = p.soul /\ walk_wait' = p.wait /\ held' = p.held /\ walk_graph' = p.graph
  BY DEF Walk!Becomes
<1>2. (Walk!Walked)' = [soul |-> soul', wait |-> walk_wait', held |-> held', graph |-> walk_graph']
  BY DEF Walk!Walked
<1> DEFINE q == (Walk!Walked)'
<1>3. q.soul = p.soul /\ q.wait = p.wait /\ q.held = p.held /\ q.graph = p.graph
  BY <1>1, <1>2
<1> HIDE DEF q
<1>4. WalkSouls(S, q)
  BY <1>3 DEF WalkSouls
<1> QED
  BY <1>4 DEF q, WalkSouls

(* What a turn of the walk finds.                                          *)
WalkTurn(o, k, v, left, td, new) ==
  /\ o = Walk!Last(todo) /\ k = Walk!Last(walk_rest[o]) /\ v = walk_shape[o][k]
  /\ left = Walk!Front(walk_rest[o])
  /\ td = (IF left = <<>> THEN Walk!Front(todo) ELSE todo)
  /\ new <=> v \in WalkObjects /\ v \notin walk_seen

LEMMA WalkTurnFinds ==
  ASSUME WalkInv, todo # <<>>, NEW o, NEW k, NEW v, NEW left, NEW td, NEW new,
         WalkTurn(o, k, v, left, td, new)
  PROVE  /\ o \in walk_seen /\ o \in WalkObjects /\ k \in WalkKeySet
         /\ left \in Seq(WalkKeySet)
         /\ \A j \in Walk!ToSet(walk_rest[o]) : j = k \/ j \in Walk!ToSet(left)
         /\ td \in Seq(walk_seen) /\ WalkDistinct(td)
         /\ \A x \in walk_seen : x \in Walk!ToSet(td) <=> (IF x = o THEN left ELSE walk_rest[x]) # <<>>
<1>1. /\ todo \in Seq(walk_seen) /\ WalkDistinct(todo)
      /\ \A x \in walk_seen : x \in Walk!ToSet(todo) <=> walk_rest[x] # <<>>
      /\ walk_seen \subseteq WalkObjects /\ walk_rest \in [WalkObjects -> Seq(WalkKeySet)]
  BY DEF WalkInv, WalkTodoSound, WalkKeysSound
<1>2. o \in walk_seen /\ o \in Walk!ToSet(todo) /\ Walk!Front(todo) \in Seq(walk_seen)
      /\ WalkDistinct(Walk!Front(todo)) /\ o \notin Walk!ToSet(Walk!Front(todo))
      /\ (\A x \in Walk!ToSet(todo) : x = o \/ x \in Walk!ToSet(Walk!Front(todo)))
      /\ (\A x \in Walk!ToSet(Walk!Front(todo)) : x \in Walk!ToSet(todo))
  BY <1>1, WalkLast DEF WalkTurn
<1>3. o \in WalkObjects /\ walk_rest[o] # <<>> /\ walk_rest[o] \in Seq(WalkKeySet)
  BY <1>1, <1>2
<1>4. k \in WalkKeySet /\ left \in Seq(WalkKeySet)
      /\ (\A j \in Walk!ToSet(walk_rest[o]) : j = k \/ j \in Walk!ToSet(left))
  BY <1>3, WalkLast DEF WalkTurn
<1>5. td = IF left = <<>> THEN Walk!Front(todo) ELSE todo
  BY DEF WalkTurn
<1>6. td \in Seq(walk_seen) /\ WalkDistinct(td)
  BY <1>1, <1>2, <1>5
<1>7. ASSUME NEW x \in walk_seen
      PROVE  x \in Walk!ToSet(td) <=> (IF x = o THEN left ELSE walk_rest[x]) # <<>>
  BY <1>1, <1>2, <1>5, <1>7
<1> QED
  BY <1>2, <1>3, <1>4, <1>6, <1>7

LEMMA WalkWalkKeys ==
  ASSUME WalkInv, todo # <<>>, ~walk_err, NEW o, NEW k, NEW v, NEW left, NEW td, NEW new,
         WalkTurn(o, k, v, left, td, new),
         walk_rest' = [x \in WalkObjects |-> IF x = v /\ ~Walk!IsSeen(v) THEN Walk!KeysOf(v)
                                        ELSE IF x = o THEN left ELSE walk_rest[x]],
         node' = [node EXCEPT ![o][k] = v],
         walk_err' = (v = Walk!Invalid), walk_shape' = walk_shape,
         walk_seen' = IF new THEN walk_seen \cup {v} ELSE walk_seen
  PROVE  WalkKeysSound'
<1>1. /\ o \in walk_seen /\ o \in WalkObjects /\ k \in WalkKeySet /\ left \in Seq(WalkKeySet)
      /\ \A j \in Walk!ToSet(walk_rest[o]) : j = k \/ j \in Walk!ToSet(left)
  BY WalkTurnFinds
<1>2. v = walk_shape[o][k] /\ (new <=> v \in WalkObjects /\ v \notin walk_seen)
  BY DEF WalkTurn
<1>3. walk_shape' \in WalkShapes /\ walk_seen' \subseteq WalkObjects /\ walk_err' \in BOOLEAN
  BY <1>2 DEF WalkInv, WalkKeysSound
<1>4. walk_rest' \in [WalkObjects -> Seq(WalkKeySet)]
  <2>1. walk_rest \in [WalkObjects -> Seq(WalkKeySet)]
    BY DEF WalkInv, WalkKeysSound
  <2>2. Walk!KeysOf(v) \in Seq(WalkKeySet)
    BY WalkKeysOf
  <2> QED
    BY <1>1, <2>1, <2>2
<1>5. /\ DOMAIN node = WalkObjects
      /\ \A x \in WalkObjects : DOMAIN node[x] = WalkKeySet
  BY DEF WalkInv, WalkKeysSound
<1>6. node' = [node EXCEPT ![o] = [node[o] EXCEPT ![k] = v]]
  OBVIOUS
<1>7. DOMAIN node' = WalkObjects /\ \A x \in WalkObjects : DOMAIN node'[x] = WalkKeySet
  BY <1>1, <1>5, <1>6
<1>8. \A x \in WalkObjects, j \in WalkKeySet :
         node'[x][j] = IF x = o /\ j = k THEN v ELSE node[x][j]
  BY <1>1, <1>5, <1>6
<1>9. ASSUME NEW x \in WalkObjects \ walk_seen', NEW j \in WalkKeySet
      PROVE  node'[x][j] = Walk!Nothing
  BY <1>1, <1>8, <1>9 DEF WalkInv, WalkKeysSound
<1>10. ASSUME NEW x \in walk_seen', NEW j \in WalkKeySet
       PROVE  node'[x][j] = walk_shape'[x][j] \/ j \in Walk!ToSet(walk_rest'[x])
  <2>1. x \in WalkObjects
    BY <1>3
  <2>2. CASE x \notin walk_seen
    <3>1. x = v /\ ~Walk!IsSeen(v) /\ x # o
      BY <1>1, <2>2, <1>10 DEF Walk!IsSeen
    <3>2. walk_rest'[x] = Walk!KeysOf(v)
      BY <2>1, <3>1
    <3>3. node'[x][j] = Walk!Nothing
      BY <1>8, <2>1, <2>2, <3>1 DEF WalkInv, WalkKeysSound
    <3>4. walk_shape[v][j] # Walk!Nothing => j \in Walk!ToSet(Walk!KeysOf(v))
      BY WalkKeysOf
    <3> QED
      BY <3>1, <3>2, <3>3, <3>4
  <2>3. CASE x \in walk_seen
    <3>1. walk_rest'[x] = IF x = o THEN left ELSE walk_rest[x]
      BY <2>1, <2>3 DEF Walk!IsSeen
    <3>2. node[x][j] = walk_shape[x][j] \/ j \in Walk!ToSet(walk_rest[x])
      BY <2>3 DEF WalkInv, WalkKeysSound
    <3>3. node'[x][j] = IF x = o /\ j = k THEN v ELSE node[x][j]
      BY <1>8, <2>1
    <3> QED
      BY <1>1, <1>2, <3>1, <3>2, <3>3
  <2> QED
    BY <2>2, <2>3
<1>11. ASSUME ~walk_err', NEW x \in WalkObjects, NEW j \in WalkKeySet
       PROVE  node'[x][j] # Walk!Invalid
  BY <1>8, <1>11 DEF WalkInv, WalkKeysSound
<1> QED
  BY <1>3, <1>4, <1>7, <1>9, <1>10, <1>11 DEF WalkKeysSound

LEMMA WalkWalkTodo ==
  ASSUME WalkInv, todo # <<>>, NEW o, NEW k, NEW v, NEW left, NEW td, NEW new,
         WalkTurn(o, k, v, left, td, new),
         walk_rest' = [x \in WalkObjects |-> IF x = v /\ ~Walk!IsSeen(v) THEN Walk!KeysOf(v)
                                        ELSE IF x = o THEN left ELSE walk_rest[x]],
         walk_seen' = IF new THEN walk_seen \cup {v} ELSE walk_seen,
         todo' = IF new /\ Walk!KeysOf(v) # <<>> THEN Append(td, v) ELSE td
  PROVE  WalkTodoSound'
<1>1. /\ o \in walk_seen /\ td \in Seq(walk_seen) /\ WalkDistinct(td)
      /\ \A x \in walk_seen : x \in Walk!ToSet(td) <=> (IF x = o THEN left ELSE walk_rest[x]) # <<>>
  BY WalkTurnFinds
<1>2. new <=> v \in WalkObjects /\ v \notin walk_seen
  BY DEF WalkTurn
<1>3. walk_seen \subseteq WalkObjects
  BY DEF WalkInv, WalkKeysSound
<1>4. \A x \in walk_seen : walk_rest'[x] = IF x = o THEN left ELSE walk_rest[x]
  BY <1>3 DEF Walk!IsSeen
<1>5. CASE new
  <2>1. walk_rest'[v] = Walk!KeysOf(v) /\ walk_seen' = walk_seen \cup {v} /\ v \notin walk_seen
    BY <1>2, <1>5 DEF Walk!IsSeen
  <2>2. /\ Append(td, v) \in Seq(walk_seen') /\ WalkDistinct(Append(td, v))
        /\ Walk!ToSet(Append(td, v)) = Walk!ToSet(td) \cup {v}
        /\ Walk!ToSet(td) \subseteq walk_seen
    BY <1>1, <2>1, WalkAppend
  <2>3. td \in Seq(walk_seen')
    BY <1>1, <2>1, SeqDef
  <2>4. todo' \in Seq(walk_seen') /\ WalkDistinct(todo')
    BY <1>1, <2>2, <2>3
  <2>5. Walk!ToSet(todo') = IF Walk!KeysOf(v) # <<>> THEN Walk!ToSet(td) \cup {v} ELSE Walk!ToSet(td)
    BY <1>5, <2>2
  <2>6. ASSUME NEW x \in walk_seen' PROVE x \in Walk!ToSet(todo') <=> walk_rest'[x] # <<>>
    <3>1. CASE x = v
      BY <2>1, <2>2, <2>5, <3>1
    <3>2. CASE x # v
      BY <1>1, <1>4, <2>1, <2>5, <2>6, <3>2
    <3> QED
      BY <3>1, <3>2
  <2> QED
    BY <2>4, <2>6 DEF WalkTodoSound, Walk!ToSet, WalkDistinct
<1>6. CASE ~new
  BY <1>1, <1>4, <1>6 DEF WalkTodoSound, Walk!ToSet, WalkDistinct
<1> QED
  BY <1>5, <1>6

LEMMA WalkSettleStep ==
  ASSUME NEW S, S \subseteq WalkObjects, NEW p, NEW o, NEW s \in Walk!AllSouls, NEW over,
         WalkSouls(S, p), o \in p.wait
  PROVE  WalkSouls(S, Walk!Settle(p, o, s, over))
BY WalkSettle, WalkSettledSound

LEMMA WalkWalk ==
  ASSUME WalkInv, Walk!Walk
  PROVE  WalkInv'
<1> DEFINE o == Walk!Last(todo)
           k == Walk!Last(walk_rest[o])
           v == walk_shape[o][k]
           left == Walk!Front(walk_rest[o])
           td == IF left = <<>> THEN Walk!Front(todo) ELSE todo
           new == v \in WalkObjects /\ v \notin walk_seen
           p == [Walk!Walked EXCEPT !.wait = @ \cup {v}]
           q == IF v \in WalkOwn THEN Walk!Settle(p, v, Walk!OwnSoul(v), walk_up') ELSE p
           to == IF Walk!KeysOf(v) = <<>> THEN td ELSE Append(td, v)
<1>1. /\ todo # <<>> /\ ~walk_err
      /\ walk_rest' = [x \in WalkObjects |-> IF x = v /\ ~Walk!IsSeen(v) THEN Walk!KeysOf(v)
                                        ELSE IF x = o THEN left ELSE walk_rest[x]]
      /\ node' = [node EXCEPT ![o][k] = v]
      /\ walk_err' = (v = Walk!Invalid)
      /\ walk_shape' = walk_shape
  BY DEF Walk!Walk
<1>2. /\ new => walk_seen' = walk_seen \cup {v} /\ Walk!Becomes(to, q)
      /\ ~new => walk_seen' = walk_seen /\ Walk!Becomes(td, Walk!Walked)
  BY DEF Walk!Walk, Walk!IsSeen
<1>3. WalkTurn(o, k, v, left, td, new)
  BY DEF WalkTurn
<1> HIDE DEF o, k, v, left, td, new
<1>4. walk_seen' = IF new THEN walk_seen \cup {v} ELSE walk_seen
  BY <1>2
<1>5. WalkKeysSound'
  BY <1>1, <1>3, <1>4, WalkWalkKeys
<1>6. todo' = IF new /\ Walk!KeysOf(v) # <<>> THEN Append(td, v) ELSE td
  BY <1>2 DEF Walk!Becomes
<1>7. WalkTodoSound'
  BY <1>1, <1>3, <1>4, <1>6, WalkWalkTodo
<1>8. walk_sent = 0
  BY <1>1 DEF WalkInv, WalkSentSound
<1>9. WalkSentSound'
  BY <1>2, <1>8, WalkBecomes
<1>10. WalkSouls(walk_seen, Walk!Walked) /\ walk_seen \subseteq WalkObjects
  BY DEF WalkInv, WalkKeysSound
<1>11. WalkSouls(walk_seen, Walk!Walked)'
  <2>1. CASE new
    <3>1. v \in WalkObjects /\ v \notin walk_seen
      BY <2>1 DEF new
    <3> DEFINE S == walk_seen \cup {v}
    <3>2. p.soul = Walk!Walked.soul /\ p.wait = Walk!Walked.wait \cup {v}
          /\ p.held = Walk!Walked.held /\ p.graph = Walk!Walked.graph
      BY DEF Walk!Walked
    <3> HIDE DEF p
    <3>3. WalkSouls(S, p)
      BY <1>10, <3>1, <3>2 DEF WalkSouls
    <3>4. S \subseteq WalkObjects /\ v \in p.wait
      BY <1>10, <3>1, <3>2
    <3>5. v \in WalkOwn => Walk!OwnSoul(v) \in Walk!AllSouls
      BY WalkSoulsDiffer
    <3>6. WalkSouls(S, q)
      <4>1. CASE v \in WalkOwn
        <5>1. WalkSouls(S, Walk!Settle(p, v, Walk!OwnSoul(v), walk_up'))
          BY <3>3, <3>4, <3>5, <4>1, WalkSettleStep
        <5> QED
          BY <4>1, <5>1
      <4>2. CASE v \notin WalkOwn
        BY <3>3, <4>2
      <4> QED
        BY <4>1, <4>2
    <3> HIDE DEF q, to
    <3>7. S = walk_seen' /\ Walk!Becomes(to, q)
      BY <1>2, <2>1
    <3> HIDE DEF S
    <3> QED
      BY <3>6, <3>7, WalkBecomesSouls
  <2>2. CASE ~new
    BY <1>2, <1>10, <2>2, WalkBecomesSouls
  <2> QED
    BY <2>1, <2>2
<1> QED
  BY <1>5, <1>7, <1>9, <1>11 DEF WalkInv

LEMMA WalkResolve ==
  ASSUME WalkInv, NEW o \in WalkObjects, NEW s \in Walk!Answers, Walk!Resolve(o, s)
  PROVE  WalkInv'
<1> DEFINE hold == [Walk!Walked EXCEPT !.held = @ \cup {o}]
           t == IF s = Walk!Unknown THEN Walk!PathSoul(o) ELSE s
           settle == Walk!Settle(Walk!Walked, o, t, walk_up)
<1>1. /\ o \in walk_wait \ held
      /\ walk_shape' = walk_shape /\ walk_rest' = walk_rest /\ walk_seen' = walk_seen
      /\ node' = node /\ walk_err' = walk_err
      /\ Walk!Becomes(todo, hold) \/ Walk!Becomes(todo, settle)
  BY DEF Walk!Resolve
<1>2. WalkSouls(walk_seen, Walk!Walked) /\ walk_seen \subseteq WalkObjects
  BY DEF WalkInv, WalkKeysSound
<1>3. walk_sent = 0
  BY <1>1 DEF WalkInv, WalkSentSound
<1>4. WalkSentSound'
  BY <1>1, <1>3, WalkBecomes
<1>5. WalkKeysSound'
  BY <1>1 DEF WalkInv, WalkKeysSound
<1>6. todo' = todo
  BY <1>1 DEF Walk!Becomes
<1>7. WalkTodoSound'
  BY <1>1, <1>6 DEF WalkInv, WalkTodoSound
<1>8. o \in Walk!Walked.wait
  BY <1>1 DEF Walk!Walked
<1>9. WalkSouls(walk_seen, hold)
  <2>1. hold.soul = Walk!Walked.soul /\ hold.wait = Walk!Walked.wait
        /\ hold.held = Walk!Walked.held \cup {o} /\ hold.graph = Walk!Walked.graph
    BY DEF Walk!Walked
  <2> HIDE DEF hold
  <2> QED
    BY <1>2, <1>8, <2>1 DEF WalkSouls
<1>10. t \in Walk!AllSouls
  BY WalkSoulsDiffer
<1> HIDE DEF t, hold
<1>11. WalkSouls(walk_seen, settle)
  BY <1>2, <1>8, <1>10, WalkSettleStep
<1> HIDE DEF settle
<1>12. WalkSouls(walk_seen, Walk!Walked)'
  BY <1>1, <1>9, <1>11, WalkBecomesSouls
<1> QED
  BY <1>4, <1>5, <1>7, <1>12 DEF WalkInv

LEMMA WalkStep == WalkInv /\ [Walk!Next]_(Walk!vars) => WalkInv'
<1> SUFFICES ASSUME WalkInv, [Walk!Next]_(Walk!vars) PROVE WalkInv'
  OBVIOUS
<1>1. CASE Walk!Walk
  BY <1>1, WalkWalk
<1>2. ASSUME NEW o \in WalkObjects, NEW s \in Walk!Answers, Walk!Resolve(o, s)
      PROVE  WalkInv'
  BY <1>2, WalkResolve
<1>3. CASE UNCHANGED Walk!vars
  BY <1>3 DEF Walk!vars, WalkInv, WalkKeysSound, WalkTodoSound, WalkSouls, WalkSentSound,
              Walk!Walked
<1> QED
  BY <1>1, <1>2, <1>3 DEF Walk!Next

(* The graph of an object that is put is sent only when all its parts have *)
(* souls and all their keys are in it, whatever refers to what, whichever  *)
(* parts are found again, and in whatever order the answers about souls    *)
(* come (chain.put, gun.js:990-1047).                                      *)
THEOREM WalkCorrect == Walk!Spec => [](part = "walk" => Walk!SentIsWhole)
<1>1. WalkInv => (part = "walk" => Walk!SentIsWhole)
  <2> SUFFICES ASSUME WalkInv, walk_sent > 0, NEW o \in walk_seen
               PROVE  /\ \A k \in DOMAIN walk_shape[o] : /\ node[o][k] = walk_shape[o][k]
                                                         /\ node[o][k] # Walk!Invalid
                      /\ soul[o] # Walk!Unknown
                      /\ \/ walk_graph[soul[o]] = o
                         \/ \E x \in walk_seen \ {o} : soul[x] = soul[o]
    BY DEF Walk!SentIsWhole
  <2>1. todo = <<>> /\ walk_wait = {} /\ ~walk_err
    BY DEF WalkInv, WalkSentSound
  <2>2. o \in WalkObjects /\ DOMAIN walk_shape[o] = WalkKeySet
    BY WalkConstants DEF WalkInv, WalkKeysSound
  <2>3. walk_rest[o] = <<>> /\ Walk!ToSet(walk_rest[o]) = {}
    BY <2>1 DEF WalkInv, WalkTodoSound, Walk!ToSet
  <2>4. \A k \in WalkKeySet : node[o][k] = walk_shape[o][k] /\ node[o][k] # Walk!Invalid
    BY <2>1, <2>2, <2>3 DEF WalkInv, WalkKeysSound
  <2>5. /\ soul[o] # Walk!Unknown
        /\ walk_graph[soul[o]] \in walk_seen /\ soul[walk_graph[soul[o]]] = soul[o]
    <3>1. /\ Walk!Walked.soul = soul /\ Walk!Walked.wait = walk_wait
          /\ Walk!Walked.graph = walk_graph
      BY DEF Walk!Walked
    <3> QED
      BY <2>1, <2>2, <3>1 DEF WalkInv, WalkSouls
  <2> QED
    BY <2>2, <2>4, <2>5
<1> QED
  BY <1>1, WalkInit, WalkStep, PTL DEF Walk!Spec

-----------------------------------------------------------------------------
(* Texts, and their hashes.                                                *)
LEMMA TextConstants ==
  /\ TextModulus \in Nat \ {0} /\ TextChunk \in Nat \ {0}
  /\ TextTexts \subseteq Seq(Nat)
BY ObjectsAssumption DEF Text!TextAssumption

(* The first operator that a LEX has is the one that is compared.          *)
TextIsFirst(o, ops, i) ==
  /\ i \in DOMAIN ops
  /\ Text!Has(o, ops[i]) /\ o[ops[i]] # <<>>
  /\ \A k \in DOMAIN ops : k < i => ~Text!Has(o, ops[k])

LEMMA TextFirst ==
  ASSUME NEW o, NEW ops, DOMAIN ops \subseteq Nat, NEW i, TextIsFirst(o, ops, i)
  PROVE  Text!Or(o, ops) = {o[ops[i]]}
<1> DEFINE good == {j \in DOMAIN ops : Text!Has(o, ops[j]) /\ o[ops[j]] # <<>>}
           first == CHOOSE j \in good : \A k \in good : j <= k
<1>1. i \in good /\ good # {}
  BY DEF TextIsFirst
<1>2. \A k \in good : i <= k
  BY DEF TextIsFirst
<1>3. first \in good /\ \A k \in good : first <= k
  BY <1>1, <1>2
<1>4. first = i
  BY <1>1, <1>2, <1>3
<1>5. Text!Or(o, ops) = IF Text!Has(o, ops[first]) THEN {o[ops[first]]} ELSE {}
  BY <1>1 DEF Text!Or
<1> HIDE DEF first
<1>6. Text!Has(o, ops[i])
  BY DEF TextIsFirst
<1> QED
  BY <1>4, <1>5, <1>6

LEMMA TextNone ==
  ASSUME NEW o, NEW ops, Len(ops) \in DOMAIN ops,
         \A k \in DOMAIN ops : ~Text!Has(o, ops[k])
  PROVE  Text!Or(o, ops) = {}
BY DEF Text!Or

(* What the two forms of match choose, by the operators of a LEX.          *)
LEMMA TextOrs ==
  ASSUME NEW o, \A op \in DOMAIN o : o[op] # <<>>
  PROVE  /\ Text!Has(o, "=") => Text!Or(o, <<"=", "*", ">", "<">>) = {o["="]}
         /\ ~Text!Has(o, "=") /\ Text!Has(o, "*") =>
              /\ Text!Or(o, <<"=", "*", ">", "<">>) = {o["*"]}
              /\ Text!Or(o, <<"*", ">", "<">>) = {o["*"]}
              /\ Text!Or(o, <<"*", ">">>) = {o["*"]}
         /\ ~Text!Has(o, "=") /\ ~Text!Has(o, "*") /\ Text!Has(o, ">") =>
              /\ Text!Or(o, <<"=", "*", ">", "<">>) = {o[">"]}
              /\ Text!Or(o, <<"*", ">", "<">>) = {o[">"]}
              /\ Text!Or(o, <<"*", ">">>) = {o[">"]}
         /\ ~Text!Has(o, "=") /\ ~Text!Has(o, "*") /\ ~Text!Has(o, ">") =>
              Text!Or(o, <<"*", ">">>) = {}
         /\ ~Text!Has(o, "=") /\ ~Text!Has(o, "*") /\ ~Text!Has(o, ">") /\ Text!Has(o, "<") =>
              /\ Text!Or(o, <<"=", "*", ">", "<">>) = {o["<"]}
              /\ Text!Or(o, <<"*", ">", "<">>) = {o["<"]}
         /\ ~Text!Has(o, "=") /\ ~Text!Has(o, "*") /\ ~Text!Has(o, ">") /\ ~Text!Has(o, "<") =>
              /\ Text!Or(o, <<"=", "*", ">", "<">>) = {}
              /\ Text!Or(o, <<"*", ">", "<">>) = {}
<1> DEFINE four == <<"=", "*", ">", "<">>
           three == <<"*", ">", "<">>
           two == <<"*", ">">>
<1>1. DOMAIN four = 1 .. 4 /\ four[1] = "=" /\ four[2] = "*" /\ four[3] = ">" /\ four[4] = "<"
      /\ Len(four) = 4
  OBVIOUS
<1>2. DOMAIN three = 1 .. 3 /\ three[1] = "*" /\ three[2] = ">" /\ three[3] = "<" /\ Len(three) = 3
  OBVIOUS
<1>3. DOMAIN two = 1 .. 2 /\ two[1] = "*" /\ two[2] = ">" /\ Len(two) = 2
  OBVIOUS
<1>4. \A op : Text!Has(o, op) => o[op] # <<>>
  BY DEF Text!Has
<1>5. \A k \in 1 .. 4 : k = 1 \/ k = 2 \/ k = 3 \/ k = 4
  OBVIOUS
<1> HIDE DEF four, three, two
<1>6. CASE Text!Has(o, "=")
  <2>1. Text!Or(o, four) = {o["="]}
    <3>1. TextIsFirst(o, four, 1)
      BY <1>1, <1>4, <1>6 DEF TextIsFirst
    <3> QED
      BY <1>1, <3>1, TextFirst
  <2> QED
    BY <1>6, <2>1 DEF four
<1>7. CASE ~Text!Has(o, "=") /\ Text!Has(o, "*")
  <2>1. Text!Or(o, four) = {o["*"]}
    <3>1. TextIsFirst(o, four, 2)
      BY <1>1, <1>4, <1>7 DEF TextIsFirst
    <3> QED
      BY <1>1, <3>1, TextFirst
  <2>2. Text!Or(o, three) = {o["*"]}
    <3>1. TextIsFirst(o, three, 1)
      BY <1>2, <1>4, <1>7 DEF TextIsFirst
    <3> QED
      BY <1>2, <3>1, TextFirst
  <2>3. Text!Or(o, two) = {o["*"]}
    <3>1. TextIsFirst(o, two, 1)
      BY <1>3, <1>4, <1>7 DEF TextIsFirst
    <3> QED
      BY <1>3, <3>1, TextFirst
  <2> QED
    BY <1>7, <2>1, <2>2, <2>3 DEF four, three, two
<1>8. CASE ~Text!Has(o, "=") /\ ~Text!Has(o, "*") /\ Text!Has(o, ">")
  <2>1. Text!Or(o, four) = {o[">"]}
    <3>1. TextIsFirst(o, four, 3)
      BY <1>1, <1>4, <1>8 DEF TextIsFirst
    <3> QED
      BY <1>1, <3>1, TextFirst
  <2>2. Text!Or(o, three) = {o[">"]}
    <3>1. TextIsFirst(o, three, 2)
      BY <1>2, <1>4, <1>8 DEF TextIsFirst
    <3> QED
      BY <1>2, <3>1, TextFirst
  <2>3. Text!Or(o, two) = {o[">"]}
    <3>1. TextIsFirst(o, two, 2)
      BY <1>3, <1>4, <1>8 DEF TextIsFirst
    <3> QED
      BY <1>3, <3>1, TextFirst
  <2> QED
    BY <1>8, <2>1, <2>2, <2>3 DEF four, three, two
<1>9. CASE ~Text!Has(o, "=") /\ ~Text!Has(o, "*") /\ ~Text!Has(o, ">")
  <2>1. Text!Or(o, two) = {}
    <3>1. \A k \in 1 .. 2 : ~Text!Has(o, two[k])
      BY <1>3, <1>5, <1>9
    <3> QED
      BY <1>3, <3>1, TextNone
  <2>2. CASE Text!Has(o, "<")
    <3>1. TextIsFirst(o, four, 4)
      BY <1>1, <1>4, <1>9, <2>2 DEF TextIsFirst
    <3>2. TextIsFirst(o, three, 3)
      BY <1>2, <1>4, <1>9, <2>2 DEF TextIsFirst
    <3>3. Text!Or(o, four) = {o["<"]}
      BY <1>1, <3>1, TextFirst
    <3>4. Text!Or(o, three) = {o["<"]}
      BY <1>2, <3>2, TextFirst
    <3> QED
      BY <1>9, <2>1, <2>2, <3>3, <3>4 DEF four, three, two
  <2>3. CASE ~Text!Has(o, "<")
    <3>1. \A k \in 1 .. 4 : ~Text!Has(o, four[k])
      BY <1>1, <1>5, <1>9, <2>3
    <3>2. \A k \in 1 .. 3 : ~Text!Has(o, three[k])
      BY <1>2, <1>5, <1>9, <2>3
    <3>3. Text!Or(o, four) = {}
      BY <1>1, <3>1, TextNone
    <3>4. Text!Or(o, three) = {}
      BY <1>2, <3>2, TextNone
    <3> QED
      BY <1>9, <2>1, <2>3, <3>3, <3>4 DEF four, three, two
  <2> QED
    BY <2>2, <2>3
<1> QED
  BY <1>6, <1>7, <1>8, <1>9

LEMMA TextPrefix ==
  ASSUME NEW t \in Seq(Nat)
  PROVE  Text!IsPrefix(t, t)
BY DEF Text!IsPrefix

LEMMA TextMatches ==
  ASSUME NEW t \in Seq(Nat), NEW o, Text!Proper(o)
  PROVE  LET range == ~Text!Has(o, "=") /\ ~Text!Has(o, "*") IN
         /\ Text!match(t, o) <=>
               \/ Text!Has(o, "=") /\ t = o["="]
               \/ ~Text!Has(o, "=") /\ Text!Has(o, "*") /\ Text!IsPrefix(o["*"], t)
               \/ range /\ Text!InRange(t, o)
               \/ range /\ Text!Has(o, ">") /\ Text!IsPrefix(o[">"], t)
         /\ Text!OldMatch(t, o) <=>
               \/ Text!match(t, o)
               \/ range /\ ~Text!Has(o, ">") /\ Text!Has(o, "<") /\ Text!IsPrefix(o["<"], t)
<1>1. \A op \in DOMAIN o : o[op] # <<>>
  BY DEF Text!Proper
<1>2. Text!IsPrefix(t, t)
  BY TextPrefix
<1>3. CASE Text!Has(o, "=")
  <2>1. Text!Or(o, <<"=", "*", ">", "<">>) = {o["="]}
    BY <1>1, <1>3, TextOrs
  <2> QED
    BY <1>3, <2>1 DEF Text!match, Text!OldMatch
<1>4. CASE ~Text!Has(o, "=") /\ Text!Has(o, "*")
  <2>1. /\ Text!Or(o, <<"=", "*", ">", "<">>) = {o["*"]}
        /\ Text!Or(o, <<"*", ">", "<">>) = {o["*"]}
        /\ Text!Or(o, <<"*", ">">>) = {o["*"]}
    BY <1>1, <1>4, TextOrs
  <2> QED
    BY <1>2, <1>4, <2>1 DEF Text!match, Text!OldMatch
<1>5. CASE ~Text!Has(o, "=") /\ ~Text!Has(o, "*") /\ Text!Has(o, ">")
  <2>1. /\ Text!Or(o, <<"=", "*", ">", "<">>) = {o[">"]}
        /\ Text!Or(o, <<"*", ">", "<">>) = {o[">"]}
        /\ Text!Or(o, <<"*", ">">>) = {o[">"]}
    BY <1>1, <1>5, TextOrs
  <2> QED
    BY <1>2, <1>5, <2>1 DEF Text!match, Text!OldMatch
<1>6. CASE ~Text!Has(o, "=") /\ ~Text!Has(o, "*") /\ ~Text!Has(o, ">") /\ Text!Has(o, "<")
  <2>1. /\ Text!Or(o, <<"=", "*", ">", "<">>) = {o["<"]}
        /\ Text!Or(o, <<"*", ">", "<">>) = {o["<"]}
        /\ Text!Or(o, <<"*", ">">>) = {}
    BY <1>1, <1>6, TextOrs
  <2>2. t = o["<"] => Text!InRange(t, o)
    BY <1>2, <1>6 DEF Text!InRange, Text!UpTo
  <2> QED
    BY <1>6, <2>1, <2>2 DEF Text!match, Text!OldMatch
<1>7. CASE ~Text!Has(o, "=") /\ ~Text!Has(o, "*") /\ ~Text!Has(o, ">") /\ ~Text!Has(o, "<")
  <2>1. /\ Text!Or(o, <<"=", "*", ">", "<">>) = {}
        /\ Text!Or(o, <<"*", ">", "<">>) = {}
        /\ Text!Or(o, <<"*", ">">>) = {}
    BY <1>1, <1>7, TextOrs
  <2>2. ~Text!InRange(t, o)
    BY <1>7 DEF Text!InRange
  <2> QED
    BY <1>7, <2>1, <2>2 DEF Text!match, Text!OldMatch
<1> QED
  BY <1>3, <1>4, <1>5, <1>6, <1>7

LEMMA TextLexIsEmpty ==
  ASSUME NEW o \in TextLexes, \A op : ~Text!Has(o, op)
  PROVE  o = <<>>
<1>1. PICK D \in SUBSET {"=", "*", ">", "<"} : o \in [D -> Seq(Nat)]
  BY ObjectsAssumption DEF Text!TextAssumption, Text!Ops
<1>2. D = {}
  BY <1>1 DEF Text!Has
<1> QED
  BY <1>1, <1>2

-----------------------------------------------------------------------------
(* Hashes are integers that differ by a multiple of the modulus from what  *)
(* they would be if nothing overflowed.                                    *)
TextAlike(a, b) == \E k \in Int : a = b + k * TextModulus

LEMMA TextInt32 ==
  ASSUME NEW a \in Int
  PROVE  Text!Int32(a) \in Int /\ TextAlike(Text!Int32(a), a)
<1> DEFINE r == a % TextModulus
           q == a \div TextModulus
<1>1. TextModulus \in Nat /\ TextModulus > 0
  BY TextConstants
<1>2. r \in Int /\ q \in Int /\ a = q * TextModulus + r
  BY <1>1
<1>3. Text!Int32(a) = r \/ Text!Int32(a) = r - TextModulus
  BY DEF Text!Int32
<1> HIDE DEF r, q
<1>4. CASE Text!Int32(a) = r
  <2>1. r = a + (0 - q) * TextModulus /\ 0 - q \in Int
    BY <1>1, <1>2
  <2> QED
    BY <1>2, <1>4, <2>1 DEF TextAlike
<1>5. CASE Text!Int32(a) = r - TextModulus
  <2>1. r - TextModulus = a + (0 - q - 1) * TextModulus /\ 0 - q - 1 \in Int
    BY <1>1, <1>2
  <2>2. r - TextModulus \in Int
    BY <1>1, <1>2
  <2> QED
    BY <1>5, <2>1, <2>2 DEF TextAlike
<1> QED
  BY <1>3, <1>4, <1>5

LEMMA TextSameInt32 ==
  ASSUME NEW a \in Int, NEW b \in Int, TextAlike(a, b)
  PROVE  Text!Int32(a) = Text!Int32(b)
<1> DEFINE M == TextModulus
           r == a % M
           s == b % M
<1>1. M \in Nat /\ M > 0
  BY TextConstants
<1>2. /\ r \in Int /\ s \in Int /\ 0 <= r /\ r < M /\ 0 <= s /\ s < M
      /\ a \div M \in Int /\ b \div M \in Int
      /\ a = (a \div M) * M + r /\ b = (b \div M) * M + s
  BY <1>1
<1>3. PICK k \in Int : a = b + k * M
  BY DEF TextAlike
<1> DEFINE j == (a \div M) - (b \div M) - k
<1>4. j \in Int /\ s - r = j * M
  BY <1>1, <1>2, <1>3
<1> HIDE DEF r, s, j, M
<1>5. j = 0
  <2>1. CASE j >= 1
    <3>1. j * M >= M
      BY <1>1, <1>4, <2>1
    <3> QED
      BY <1>1, <1>2, <1>4, <3>1
  <2>2. CASE j <= -1
    <3>1. j * M <= 0 - M
      BY <1>1, <1>4, <2>2
    <3> QED
      BY <1>1, <1>2, <1>4, <3>1
  <2> QED
    BY <1>4, <2>1, <2>2
<1>6. r = s
  BY <1>1, <1>2, <1>4, <1>5
<1> QED
  BY <1>6 DEF Text!Int32, r, s, M

LEMMA TextHashNext ==
  ASSUME NEW c \in Int, NEW p \in Int, NEW n \in Int, TextAlike(c, p)
  PROVE  Text!HashNext(c, n) \in Int /\ Text!HashNext(c, n) = Text!Int32(31 * p + n)
<1> DEFINE d == Text!Int32(32 * c)
<1>1. TextModulus \in Int
  BY TextConstants
<1>2. d \in Int /\ TextAlike(d, 32 * c)
  BY TextInt32
<1>3. Text!HashNext(c, n) = Text!Int32(d - c + n)
  BY DEF Text!HashNext
<1> HIDE DEF d
<1>4. PICK i \in Int : c = p + i * TextModulus
  BY DEF TextAlike
<1>5. PICK j \in Int : d = 32 * c + j * TextModulus
  BY <1>2 DEF TextAlike
<1>6. d - c + n \in Int /\ 31 * p + n \in Int /\ 31 * i + j \in Int
  BY <1>2
<1>7. d - c + n = (31 * p + n) + (31 * i + j) * TextModulus
  BY <1>1, <1>4, <1>5
<1>8. TextAlike(d - c + n, 31 * p + n)
  BY <1>6, <1>7 DEF TextAlike
<1> QED
  BY <1>3, <1>6, <1>8, TextInt32, TextSameInt32

LEMMA TextAlikeSame ==
  ASSUME NEW a \in Int
  PROVE  TextAlike(a, a)
<1>1. a = a + 0 * TextModulus
  BY TextConstants
<1> QED
  BY <1>1 DEF TextAlike

(* What hash does for one character after the other.                       *)
TextHashes(h, s, c, n) ==
  /\ h[0] = c
  /\ \A i \in 0 .. n : h[i] \in Int
  /\ \A i \in 1 .. n : h[i] = Text!HashNext(h[i - 1], s[i])

LEMMA TextHash ==
  ASSUME NEW s \in Seq(Int), NEW c \in Int
  PROVE  \E h : TextHashes(h, s, c, Len(s)) /\ Text!hash(s, c) = h[Len(s)]
<1> DEFINE n == Len(s)
           p == CHOOSE f : f = [i \in 0 .. n |-> IF i = 0 THEN c
                                                 ELSE Text!HashNext(f[i - 1], s[i])]
           X == [i \in 0 .. n |-> Int]
           F == [y \in Int \X (1 .. n) |-> Text!HashNext(y[1], s[y[2]])]
<1>1. n \in Nat /\ \A i \in 1 .. n : s[i] \in Int
  OBVIOUS
<1>2. Text!hash(s, c) = p[n]
  BY DEF Text!hash
<1> HIDE DEF n
<1>3. \A y \in Int, i \in 1 .. n : Text!HashNext(y, s[i]) \in Int
  BY <1>1, TextAlikeSame, TextHashNext
<1>4. Goes(X, c, F, n)
  <2>1. c \in X[0]
    BY <1>1
  <2>2. ASSUME NEW i \in 1 .. n, NEW y \in X[i - 1] PROVE F[<<y, i>>] \in X[i]
    <3>1. i - 1 \in 0 .. n /\ i \in 0 .. n
      BY <1>1
    <3>2. y \in Int
      BY <3>1
    <3>3. F[<<y, i>>] = Text!HashNext(y, s[i])
      BY <3>2
    <3> QED
      BY <1>3, <3>1, <3>2, <3>3
  <2> QED
    BY <2>1, <2>2 DEF Goes
<1>5. PICK h : Unfolds(h, c, F, n) /\ Within(h, X, n)
  BY <1>1, <1>4, Recursion
<1>6. \A i \in 0 .. n : h[i] \in Int
  BY <1>5 DEF Within
<1>7. ASSUME NEW i \in 0 .. n
      PROVE  h[i] = IF i = 0 THEN c ELSE Text!HashNext(h[i - 1], s[i])
  <2>1. CASE i = 0
    BY <1>5, <2>1 DEF Unfolds
  <2>2. CASE i # 0
    <3>1. i - 1 \in 0 .. n /\ i \in 1 .. n
      BY <1>1, <2>2
    <3>2. h[i] = F[<<h[i - 1], i>>]
      BY <1>5, <2>2 DEF Unfolds
    <3> QED
      BY <1>6, <2>2, <3>1, <3>2
  <2> QED
    BY <2>1, <2>2
<1>8. h = [i \in 0 .. n |-> h[i]]
  BY <1>5 DEF Unfolds
<1>9. p = [i \in 0 .. n |-> IF i = 0 THEN c ELSE Text!HashNext(p[i - 1], s[i])]
  <2> DEFINE g == [i \in 0 .. n |-> IF i = 0 THEN c ELSE Text!HashNext(h[i - 1], s[i])]
  <2>1. \A i \in 0 .. n : h[i] = g[i]
    BY <1>7
  <2>2. h = g
    BY <1>8, <2>1
  <2> QED
    BY <2>2
<1> HIDE DEF p
<1>10. p[0] = c /\ \A i \in 1 .. n : p[i] = Text!HashNext(p[i - 1], s[i])
  BY <1>1, <1>9
<1>11. h[0] = c /\ \A i \in 1 .. n : h[i] = Text!HashNext(h[i - 1], s[i])
  BY <1>1, <1>7
<1>12. p[n] = h[n]
  BY <1>1, <1>10, <1>11, SameSteps
<1>13. TextHashes(h, s, c, n)
  BY <1>6, <1>11 DEF TextHashes
<1> QED
  BY <1>2, <1>12, <1>13 DEF n

(* The polynomial, without overflow.                                       *)
TextSums(h, s, n) ==
  /\ h[0] = 0
  /\ \A i \in 0 .. n : h[i] \in Int
  /\ \A i \in 1 .. n : h[i] = 31 * h[i - 1] + s[i]

TextSum(s) == LET sum[i \in 0 .. Len(s)] == IF i = 0 THEN 0 ELSE 31 * sum[i - 1] + s[i]
              IN sum[Len(s)]

LEMMA TextSumIs ==
  ASSUME NEW s \in Seq(Int)
  PROVE  \E h : TextSums(h, s, Len(s)) /\ TextSum(s) = h[Len(s)]
<1> DEFINE n == Len(s)
           p == CHOOSE f : f = [i \in 0 .. n |-> IF i = 0 THEN 0 ELSE 31 * f[i - 1] + s[i]]
           X == [i \in 0 .. n |-> Int]
           F == [y \in Int \X (1 .. n) |-> 31 * y[1] + s[y[2]]]
<1>1. n \in Nat /\ \A i \in 1 .. n : s[i] \in Int
  OBVIOUS
<1>2. TextSum(s) = p[n]
  BY DEF TextSum
<1> HIDE DEF n
<1>3. \A y \in Int, i \in 1 .. n : 31 * y + s[i] \in Int
  BY <1>1
<1>4. Goes(X, 0, F, n)
  BY <1>1, <1>3 DEF Goes
<1>5. PICK h : Unfolds(h, 0, F, n) /\ Within(h, X, n)
  BY <1>1, <1>4, Recursion
<1>6. \A i \in 0 .. n : h[i] \in Int
  BY <1>5 DEF Within
<1>7. ASSUME NEW i \in 0 .. n
      PROVE  h[i] = IF i = 0 THEN 0 ELSE 31 * h[i - 1] + s[i]
  <2>1. CASE i = 0
    BY <1>5, <2>1 DEF Unfolds
  <2>2. CASE i # 0
    <3>1. i - 1 \in 0 .. n /\ i \in 1 .. n
      BY <1>1, <2>2
    <3>2. h[i] = F[<<h[i - 1], i>>]
      BY <1>5, <2>2 DEF Unfolds
    <3> QED
      BY <1>6, <2>2, <3>1, <3>2
  <2> QED
    BY <2>1, <2>2
<1>8. h = [i \in 0 .. n |-> h[i]]
  BY <1>5 DEF Unfolds
<1>9. p = [i \in 0 .. n |-> IF i = 0 THEN 0 ELSE 31 * p[i - 1] + s[i]]
  <2> DEFINE g == [i \in 0 .. n |-> IF i = 0 THEN 0 ELSE 31 * h[i - 1] + s[i]]
  <2>1. \A i \in 0 .. n : h[i] = g[i]
    BY <1>7
  <2>2. h = g
    BY <1>8, <2>1
  <2> QED
    BY <2>2
<1> HIDE DEF p
<1>10. p[0] = 0 /\ \A i \in 1 .. n : p[i] = 31 * p[i - 1] + s[i]
  BY <1>1, <1>9
<1>11. h[0] = 0 /\ \A i \in 1 .. n : h[i] = 31 * h[i - 1] + s[i]
  BY <1>1, <1>7
<1>12. p[n] = h[n]
  <2>1. p[0] = h[0] /\ \A i \in 1 .. n : p[i - 1] = h[i - 1] => p[i] = h[i]
    BY <1>10, <1>11
  <2> QED
    BY <1>1, <2>1, SameSteps
<1>13. TextSums(h, s, n)
  BY <1>6, <1>11 DEF TextSums
<1> QED
  BY <1>2, <1>12, <1>13 DEF n

(* A hash is the polynomial, cut.                                          *)
LEMMA TextHashCuts ==
  ASSUME NEW s \in Seq(Int), NEW h, TextHashes(h, s, 0, Len(s))
  PROVE  h[Len(s)] = Text!Int32(TextSum(s))
<1>1. PICK p : TextSums(p, s, Len(s)) /\ TextSum(s) = p[Len(s)]
  BY TextSumIs
<1> DEFINE n == Len(s)
           g == [i \in 0 .. n |-> Text!Int32(p[i])]
<1>2. n \in Nat /\ \A i \in 1 .. n : s[i] \in Int
  OBVIOUS
<1> HIDE DEF n
<1>3. h[0] = g[0]
  <2>1. h[0] = 0 /\ p[0] = 0
    BY <1>1 DEF TextHashes, TextSums
  <2>2. Text!Int32(0) = 0
    BY TextConstants DEF Text!Int32
  <2> QED
    BY <1>2, <2>1, <2>2
<1>4. ASSUME NEW i \in 1 .. n, h[i - 1] = g[i - 1] PROVE h[i] = g[i]
  <2>1. i - 1 \in 0 .. n /\ i \in 0 .. n
    BY <1>2
  <2>2. p[i - 1] \in Int /\ p[i] = 31 * p[i - 1] + s[i]
    BY <1>1, <2>1 DEF TextSums, n
  <2>3. h[i - 1] = Text!Int32(p[i - 1])
    BY <1>4, <2>1
  <2>4. h[i - 1] \in Int /\ TextAlike(h[i - 1], p[i - 1])
    BY <2>2, <2>3, TextInt32
  <2>5. h[i] = Text!HashNext(h[i - 1], s[i])
    BY DEF TextHashes, n
  <2>6. Text!HashNext(h[i - 1], s[i]) = Text!Int32(31 * p[i - 1] + s[i])
    BY <1>2, <2>2, <2>4, TextHashNext
  <2> QED
    BY <2>1, <2>2, <2>5, <2>6
<1>5. g[n] = Text!Int32(p[n])
  BY <1>2
<1> HIDE DEF g
<1>6. \A i \in 1 .. n : h[i - 1] = g[i - 1] => h[i] = g[i]
  BY <1>4
<1>7. h[n] = g[n]
  BY <1>2, <1>3, <1>6, SameSteps
<1> QED
  BY <1>1, <1>5, <1>7 DEF n

(* A text in pieces, each hashed from the hash of those before.            *)
LEMMA TextPieces ==
  ASSUME NEW L \in Nat, NEW C \in Nat \ {0}
  PROVE  LET turns == (L + C - 1) \div C IN
         /\ turns \in Nat
         /\ C * turns >= L
         /\ \A i \in 1 .. turns : C * (i - 1) <= L
<1> DEFINE q == (L + C - 1) \div C
<1>1. q \in Int /\ C * q <= L + C - 1 /\ L + C - 1 < C * q + C
  <2>1. L + C - 1 \in Int /\ C \in Nat /\ C > 0
    OBVIOUS
  <2> DEFINE a == L + C - 1
  <2>2. a \in Int
    BY <2>1
  <2> HIDE DEF a
  <2> DEFINE d == a \div C
             r == a % C
  <2>3. d \in Int /\ r \in Int /\ a = d * C + r /\ 0 <= r /\ r < C
    BY <2>1, <2>2
  <2>4. q = d
    BY DEF a
  <2> HIDE DEF d, r, q
  <2>5. d * C \in Int /\ d * C = C * d
    BY <2>1, <2>3
  <2>6. C * d <= a /\ a < C * d + C
    BY <2>1, <2>2, <2>3, <2>5
  <2> QED
    BY <2>3, <2>4, <2>6 DEF a
<1> HIDE DEF q
<1>2. q >= 0
  <2>1. CASE q <= -1
    <3>1. C * q <= 0 - C
      BY <1>1, <2>1
    <3> QED
      BY <1>1, <3>1
  <2> QED
    BY <1>1, <2>1
<1>3. C * q \in Int
  BY <1>1
<1>4. C * q >= L
  BY <1>1, <1>3
<1>5. ASSUME NEW i \in 1 .. q PROVE C * (i - 1) <= L
  <2>1. C * (i - 1) <= C * (q - 1)
    BY <1>1, <1>5
  <2>2. C * (q - 1) = C * q - C
    BY <1>1
  <2>3. C * (i - 1) \in Int
    BY <1>1
  <2> QED
    BY <1>1, <1>3, <2>1, <2>2, <2>3
<1> QED
  BY <1>1, <1>2, <1>4, <1>5 DEF q

(* Where the pieces end.                                                   *)
TextEnd(s, i) == IF TextChunk * i <= Len(s) THEN TextChunk * i ELSE Len(s)
TextPiece(s, i) == SubSeq(s, TextChunk * (i - 1) + 1, TextEnd(s, i))

LEMMA TextMin ==
  ASSUME NEW a \in Int, NEW b \in Int
  PROVE  Text!Min({a, b}) = IF a <= b THEN a ELSE b
<1> DEFINE m == IF a <= b THEN a ELSE b
<1>1. m \in {a, b} /\ \A y \in {a, b} : m <= y
  OBVIOUS
<1>2. \A x \in {a, b} : (\A y \in {a, b} : x <= y) => x = m
  OBVIOUS
<1> HIDE DEF m
<1>3. (CHOOSE x \in {a, b} : \A y \in {a, b} : x <= y) = m
  BY <1>1, <1>2
<1> QED
  BY <1>3 DEF Text!Min, m

LEMMA TextPieceIs ==
  ASSUME NEW s \in Seq(Int), NEW i \in Nat \ {0}, TextChunk * (i - 1) <= Len(s)
  PROVE  /\ TextPiece(s, i) \in Seq(Int)
         /\ TextEnd(s, i - 1) \in Nat
         /\ TextEnd(s, i) - TextEnd(s, i - 1) \in Nat
         /\ TextEnd(s, i) <= Len(s)
         /\ Len(TextPiece(s, i)) = TextEnd(s, i) - TextEnd(s, i - 1)
         /\ \A j \in 1 .. TextEnd(s, i) - TextEnd(s, i - 1) :
               TextPiece(s, i)[j] = s[TextEnd(s, i - 1) + j]
<1> DEFINE C == TextChunk
           L == Len(s)
           a == C * (i - 1)
           b == TextEnd(s, i)
<1>1. C \in Nat /\ C > 0 /\ L \in Nat
  BY TextConstants
<1>2. a \in Nat /\ C * i = a + C
  BY <1>1
<1>3. TextEnd(s, i - 1) = a
  BY DEF TextEnd
<1>4. b = IF C * i <= L THEN C * i ELSE L
  BY DEF TextEnd
<1>5. TextPiece(s, i) = SubSeq(s, a + 1, b)
  BY DEF TextPiece
<1> HIDE DEF C, a, b
<1>6. b \in Nat /\ a <= b /\ b <= L /\ b - a \in Nat
  BY <1>1, <1>2, <1>4 DEF a, C
<1> DEFINE t == SubSeq(s, a + 1, b)
<1>7. /\ t \in Seq(Int) /\ Len(t) = b - a
      /\ \A j \in 1 .. b - a : t[j] = s[a + j]
  <2>1. a + 1 \in Nat /\ a + 1 >= 1
    BY <1>2
  <2>2. t \in Seq(Int)
    BY <1>2, <1>6, SubSeqProperties
  <2>3. Len(t) = b - a
    BY <1>2, <1>6
  <2>4. ASSUME NEW j \in 1 .. b - a PROVE t[j] = s[a + j]
    BY <1>2, <1>6, <2>4
  <2> QED
    BY <2>2, <2>3, <2>4
<1> HIDE DEF t
<1> QED
  BY <1>2, <1>3, <1>5, <1>6, <1>7 DEF b, t

(* Hashing a piece goes on from where the hash of the whole is.            *)
LEMMA TextGoesOn ==
  ASSUME NEW s \in Seq(Int), NEW h, TextHashes(h, s, 0, Len(s)),
         NEW i \in Nat \ {0}, TextChunk * (i - 1) <= Len(s)
  PROVE  Text!hash(TextPiece(s, i), h[TextEnd(s, i - 1)]) = h[TextEnd(s, i)]
<1> DEFINE a == TextEnd(s, i - 1)
           b == TextEnd(s, i)
           t == TextPiece(s, i)
           n == b - a
<1>1. /\ t \in Seq(Int) /\ a \in Nat /\ n \in Nat /\ b <= Len(s) /\ Len(t) = n /\ b \in Int
      /\ \A j \in 1 .. n : t[j] = s[a + j]
  BY TextPieceIs, TextConstants DEF TextEnd
<1> HIDE DEF a, b, t
<1>2. Len(s) \in Nat
  OBVIOUS
<1>3. a \in 0 .. Len(s) /\ a + n = b
  BY <1>1, <1>2
<1>4. h[a] \in Int
  BY <1>3 DEF TextHashes
<1>5. PICK g : TextHashes(g, t, h[a], Len(t)) /\ Text!hash(t, h[a]) = g[Len(t)]
  BY <1>1, <1>4, TextHash
<1> DEFINE k == [j \in 0 .. n |-> h[a + j]]
<1>6. g[0] = k[0]
  BY <1>1, <1>5 DEF TextHashes
<1>7. ASSUME NEW j \in 1 .. n, g[j - 1] = k[j - 1] PROVE g[j] = k[j]
  <2>1. j \in 0 .. n /\ j - 1 \in 0 .. n /\ a + j \in 1 .. Len(s) /\ a + (j - 1) = (a + j) - 1
    <3>1. /\ a \in Nat /\ b \in Int /\ n \in Nat /\ Len(s) \in Nat
          /\ b <= Len(s) /\ a + n = b
      BY <1>1, <1>2, <1>3
    <3>2. j \in Int /\ 1 <= j /\ j <= n
      BY <1>1
    <3> HIDE DEF n
    <3> QED
      BY ONLY <3>1, <3>2
  <2>2. h[a + j] = Text!HashNext(h[(a + j) - 1], s[a + j])
    BY <2>1 DEF TextHashes
  <2>3. g[j] = Text!HashNext(g[j - 1], t[j])
    BY <1>1, <1>5 DEF TextHashes
  <2> QED
    BY <1>1, <1>7, <2>1, <2>2, <2>3
<1>8. k[n] = h[b]
  BY <1>1, <1>3
<1> HIDE DEF k, n
<1>9. \A j \in 1 .. n : g[j - 1] = k[j - 1] => g[j] = k[j]
  BY <1>7
<1>10. g[n] = k[n]
  BY <1>1, <1>6, <1>9, SameSteps
<1> QED
  BY <1>1, <1>5, <1>8, <1>10 DEF a, b, t

LEMMA TextMesh ==
  ASSUME NEW s \in Seq(Int)
  PROVE  Text!MeshHash(s) = Text!Int32(TextSum(s))
<1> DEFINE n == (Len(s) + TextChunk - 1) \div TextChunk
           p == CHOOSE f : f = [i \in 0 .. n |-> IF i = 0 THEN 0
                                                 ELSE Text!hash(TextPiece(s, i), f[i - 1])]
<1>1. /\ n \in Nat /\ TextChunk * n >= Len(s)
      /\ \A i \in 1 .. n : TextChunk * (i - 1) <= Len(s)
      /\ Len(s) \in Nat /\ TextChunk \in Nat
  <2>1. Len(s) \in Nat /\ TextChunk \in Nat \ {0}
    BY TextConstants
  <2> DEFINE L == Len(s)
             C == TextChunk
             m == (L + C - 1) \div C
  <2> HIDE DEF L, C
  <2>2. L \in Nat /\ C \in Nat \ {0}
    BY <2>1 DEF L, C
  <2>3. m \in Nat /\ C * m >= L /\ \A i \in 1 .. m : C * (i - 1) <= L
    BY ONLY <2>2, TextPieces
  <2>4. m = n
    BY DEF L, C
  <2> HIDE DEF m, n
  <2> QED
    BY <2>1, <2>3, <2>4 DEF L, C
<1> HIDE DEF n
<1>2. Text!MeshHash(s) = p[n]
  <2>1. \A i \in 0 .. n : Text!Min({TextChunk * i, Len(s)}) = TextEnd(s, i)
    BY <1>1, TextMin DEF TextEnd
  <2> DEFINE q == CHOOSE f : f = [i \in 0 .. n |->
                    IF i = 0 THEN 0
                    ELSE Text!hash(SubSeq(s, TextChunk * (i - 1) + 1,
                                          Text!Min({TextChunk * i, Len(s)})), f[i - 1])]
  <2>2. Text!MeshHash(s) = q[n]
    BY DEF Text!MeshHash, n
  <2>3. ASSUME NEW f
        PROVE  [i \in 0 .. n |->
                  IF i = 0 THEN 0
                  ELSE Text!hash(SubSeq(s, TextChunk * (i - 1) + 1,
                                        Text!Min({TextChunk * i, Len(s)})), f[i - 1])]
             = [i \in 0 .. n |-> IF i = 0 THEN 0 ELSE Text!hash(TextPiece(s, i), f[i - 1])]
    BY <2>1 DEF TextPiece
  <2>4. q = p
    BY <2>3
  <2> QED
    BY <2>2, <2>4
<1>3. PICK h : TextHashes(h, s, 0, Len(s)) /\ Text!hash(s, 0) = h[Len(s)]
  BY TextHash
<1> DEFINE g == [i \in 0 .. n |-> h[TextEnd(s, i)]]
<1>4. \A i \in 1 .. n : i \in Nat \ {0} /\ i - 1 \in 0 .. n /\ i \in 0 .. n
  BY <1>1
<1>5. ASSUME NEW i \in 1 .. n
      PROVE  g[i] = Text!hash(TextPiece(s, i), g[i - 1])
  BY <1>1, <1>3, <1>4, TextGoesOn
<1>6. g[0] = 0
  <2>1. TextEnd(s, 0) = 0
    BY <1>1 DEF TextEnd
  <2> QED
    BY <1>1, <1>3, <2>1 DEF TextHashes
<1>7. g[n] = h[Len(s)]
  <2>1. TextEnd(s, n) = Len(s)
    BY <1>1 DEF TextEnd
  <2> QED
    BY <1>1, <2>1
<1>8. p = [i \in 0 .. n |-> IF i = 0 THEN 0 ELSE Text!hash(TextPiece(s, i), p[i - 1])]
  <2> DEFINE k == [i \in 0 .. n |-> IF i = 0 THEN 0 ELSE Text!hash(TextPiece(s, i), g[i - 1])]
  <2>1. \A i \in 0 .. n : g[i] = k[i]
    <3> SUFFICES ASSUME NEW i \in 0 .. n PROVE g[i] = k[i]
      OBVIOUS
    <3>1. CASE i = 0
      BY <1>6, <3>1
    <3>2. CASE i # 0
      <4>1. i \in 1 .. n
        BY <1>1, <3>2
      <4> QED
        BY <1>5, <3>2, <4>1
    <3> QED
      BY <3>1, <3>2
  <2>2. g = [i \in 0 .. n |-> g[i]]
    OBVIOUS
  <2> HIDE DEF g
  <2>3. g = k
    BY <2>1, <2>2
  <2> QED
    BY <2>3
<1> HIDE DEF p, g
<1>9. p[0] = 0 /\ \A i \in 1 .. n : p[i] = Text!hash(TextPiece(s, i), p[i - 1])
  BY <1>1, <1>8
<1>10. \A i \in 1 .. n : p[i - 1] = g[i - 1] => p[i] = g[i]
  BY <1>5, <1>9
<1>11. p[n] = g[n]
  <2>1. p[0] = g[0]
    BY <1>6, <1>9
  <2>2. n \in Nat
    BY <1>1
  <2> QED
    BY ONLY <1>10, <2>1, <2>2, SameSteps
<1> QED
  BY <1>2, <1>3, <1>7, <1>11, TextHashCuts

(* Places with different keys can be put in the order of their keys: the   *)
(* rank of a place, the number of keys up to its own, goes from one to the *)
(* number of places.                                                       *)
LEMMA TextRanks ==
  ASSUME NEW n \in Nat, NEW k \in [1 .. n -> Nat],
         \A i, j \in 1 .. n : k[i] = k[j] => i = j
  PROVE  \E f \in Bijection(1 .. n, 1 .. n) :
            \A i, j \in 1 .. n : i < j => k[f[i]] < k[f[j]]
<1> DEFINE UpTo(i) == {j \in 1 .. n : k[j] <= k[i]}
           r == [i \in 1 .. n |-> Cardinality(UpTo(i))]
<1>1. IsFiniteSet(1 .. n) /\ Cardinality(1 .. n) = n
  BY FS_Interval
<1>2. ASSUME NEW i \in 1 .. n
      PROVE  IsFiniteSet(UpTo(i)) /\ Cardinality(UpTo(i)) \in 1 .. n
  <2>1. UpTo(i) \in SUBSET (1 .. n) /\ i \in UpTo(i)
    OBVIOUS
  <2> HIDE DEF UpTo
  <2>2. IsFiniteSet(UpTo(i)) /\ Cardinality(UpTo(i)) <= n
    BY <1>1, <2>1, FS_Subset
  <2>3. Cardinality(UpTo(i)) \in Nat /\ Cardinality(UpTo(i)) # 0
    BY <2>1, <2>2, FS_CardinalityType, FS_EmptySet
  <2> QED
    BY <2>2, <2>3
<1>3. ASSUME NEW i \in 1 .. n, NEW j \in 1 .. n, k[i] < k[j]
      PROVE  r[i] < r[j]
  <2>1. UpTo(i) \in SUBSET UpTo(j) /\ j \in UpTo(j) /\ j \notin UpTo(i)
    BY <1>3
  <2> DEFINE a == UpTo(i)
             b == UpTo(j)
  <2>2. r[i] = Cardinality(a) /\ r[j] = Cardinality(b)
    OBVIOUS
  <2>3. IsFiniteSet(b) /\ Cardinality(a) \in Nat /\ Cardinality(b) \in Nat
    <3> HIDE DEF UpTo
    <3>1. /\ IsFiniteSet(UpTo(j)) /\ Cardinality(UpTo(j)) \in 1 .. n
          /\ Cardinality(UpTo(i)) \in 1 .. n
      BY <1>2
    <3> QED
      BY <3>1
  <2>4. a \in SUBSET b /\ a # b
    BY <2>1
  <2> HIDE DEF a, b, r, UpTo
  <2>5. Cardinality(a) <= Cardinality(b) /\ Cardinality(a) # Cardinality(b)
    BY <2>3, <2>4, FS_Subset
  <2> QED
    BY <2>2, <2>3, <2>5
<1>4. r \in [1 .. n -> 1 .. n]
  BY <1>2
<1> HIDE DEF r
<1>5. \A i, j \in 1 .. n : r[i] = r[j] => i = j
  <2> SUFFICES ASSUME NEW i \in 1 .. n, NEW j \in 1 .. n, r[i] = r[j] PROVE i = j
    OBVIOUS
  <2>1. r[i] \in 1 .. n /\ ~(r[i] < r[j]) /\ ~(r[j] < r[i])
    BY <1>4
  <2>2. ~(k[i] < k[j]) /\ ~(k[j] < k[i])
    BY <1>3, <2>1
  <2>3. k[i] \in Nat /\ k[j] \in Nat
    OBVIOUS
  <2>4. k[i] = k[j]
    BY <2>2, <2>3
  <2> QED
    BY <2>4
<1>6. r \in Injection(1 .. n, 1 .. n)
  BY <1>4, <1>5 DEF Injection, IsInjective
<1>7. r \in Surjection(1 .. n, 1 .. n)
  BY <1>1, <1>6, FS_Injection
<1> DEFINE f == [m \in 1 .. n |-> CHOOSE i \in 1 .. n : r[i] = m]
<1>8. \A m \in 1 .. n : f[m] \in 1 .. n /\ r[f[m]] = m
  BY <1>7 DEF Surjection
<1>9. f \in [1 .. n -> 1 .. n]
  BY <1>8
<1> HIDE DEF f
<1>10. \A i, j \in 1 .. n : f[i] = f[j] => i = j
  BY <1>8
<1>11. \A i \in 1 .. n : \E m \in 1 .. n : f[m] = i
  <2> SUFFICES ASSUME NEW i \in 1 .. n PROVE f[r[i]] = i /\ r[i] \in 1 .. n
    OBVIOUS
  <2>1. r[i] \in 1 .. n
    BY <1>4
  <2> QED
    BY <1>5, <1>8, <2>1
<1>12. f \in Bijection(1 .. n, 1 .. n)
  BY <1>9, <1>10, <1>11 DEF Bijection, Injection, IsInjective, Surjection
<1>13. ASSUME NEW i \in 1 .. n, NEW j \in 1 .. n, i < j
       PROVE  k[f[i]] < k[f[j]]
  <2>1. f[i] \in 1 .. n /\ f[j] \in 1 .. n /\ r[f[i]] = i /\ r[f[j]] = j
    BY <1>8
  <2>2. k[f[i]] # k[f[j]]
    BY <1>13, <2>1
  <2>3. ~(k[f[j]] < k[f[i]])
    BY <1>3, <1>13, <2>1
  <2>4. k[f[i]] \in Nat /\ k[f[j]] \in Nat
    BY <2>1
  <2> QED
    BY <2>2, <2>3, <2>4
<1> QED
  BY <1>12, <1>13

(* What sort makes: all entries, in the order of their keys.               *)
TextEntries == [key : Nat, val : Nat]

TextSorted(q, S, n) ==
  /\ q = [i \in 1 .. n |-> q[i]]
  /\ \A i \in 1 .. n : q[i] \in S /\ q[i].key \in Nat
  /\ \A e \in S : \E i \in 1 .. n : q[i] = e
  /\ \A i, j \in 1 .. n : i < j => q[i].key < q[j].key

TextKeyed(p) ==
  /\ p \in Seq(TextEntries)
  /\ \A i, j \in DOMAIN p : p[i].key = p[j].key => i = j

LEMMA TextSorts ==
  ASSUME NEW p, TextKeyed(p)
  PROVE  TextSorted(Text!sort(p), Text!ToSet(p), Len(p))
<1> DEFINE n == Len(p)
           k == [i \in 1 .. n |-> p[i].key]
<1>1. /\ n \in Nat /\ DOMAIN p = 1 .. n
      /\ \A i \in 1 .. n : p[i] \in TextEntries
      /\ \A i, j \in 1 .. n : p[i].key = p[j].key => i = j
  BY DEF TextKeyed
<1>2. \A i \in 1 .. n : p[i].key \in Nat
  BY <1>1 DEF TextEntries
<1> HIDE DEF n
<1>3. k \in [1 .. n -> Nat] /\ \A i, j \in 1 .. n : k[i] = k[j] => i = j
  BY <1>1, <1>2
<1>4. PICK f \in Bijection(1 .. n, 1 .. n) :
         \A i, j \in 1 .. n : i < j => k[f[i]] < k[f[j]]
  <2> HIDE DEF k
  <2> QED
    BY <1>1, <1>3, TextRanks
<1> DEFINE B == Text!Bijection(DOMAIN p, DOMAIN p)
           Orders(g) == \A i, j \in DOMAIN p : i < j => p[g[i]].key < p[g[j]].key
           h == CHOOSE g \in B : Orders(g)
<1>5. B = Bijection(1 .. n, 1 .. n)
  BY <1>1 DEF Text!Bijection, Text!Injection, Text!IsInjective, Text!Surjection,
              Bijection, Injection, IsInjective, Surjection
<1>6. /\ f \in [1 .. n -> 1 .. n]
      /\ \A i \in 1 .. n : f[i] \in 1 .. n
  BY <1>4 DEF Bijection, Surjection
<1>7. Orders(f)
  BY <1>1, <1>4, <1>6
<1>8. f \in B
  BY <1>4, <1>5
<1>9. Text!sort(p) = [i \in 1 .. n |-> p[h[i]]]
  BY <1>1 DEF Text!sort
<1>10. h \in B /\ Orders(h)
  <2> HIDE DEF B, Orders
  <2> QED
    BY <1>7, <1>8
<1> HIDE DEF h
<1>11. /\ \A i \in 1 .. n : h[i] \in 1 .. n
       /\ \A i \in 1 .. n : \E m \in 1 .. n : h[m] = i
  BY <1>5, <1>10 DEF Bijection, Surjection
<1>12. \A i, j \in 1 .. n : i < j => p[h[i]].key < p[h[j]].key
  BY <1>1, <1>10
<1> HIDE DEF B, Orders, k
<1> DEFINE q == Text!sort(p)
<1>13. \A i \in 1 .. n : q[i] = p[h[i]]
  BY <1>9
<1>14. q = [i \in 1 .. n |-> q[i]]
  BY <1>9
<1>15. Text!ToSet(p) = {p[i] : i \in 1 .. n}
  BY <1>1 DEF Text!ToSet
<1> HIDE DEF q
<1>16. \A i \in 1 .. n : q[i] \in Text!ToSet(p) /\ q[i].key \in Nat
  BY <1>2, <1>11, <1>13, <1>15
<1>17. \A e \in Text!ToSet(p) : \E i \in 1 .. n : q[i] = e
  BY <1>11, <1>13, <1>15
<1>18. \A i, j \in 1 .. n : i < j => q[i].key < q[j].key
  BY <1>12, <1>13
<1> QED
  BY <1>14, <1>16, <1>17, <1>18 DEF TextSorted, q, n

(* There is only one such order: look at the first place where two differ. *)
LEMMA TextOneOrder ==
  ASSUME NEW a, NEW b, NEW S, NEW n \in Nat, TextSorted(a, S, n), TextSorted(b, S, n)
  PROVE  a = b
<1> DEFINE No == {i \in 1 .. n : a[i] # b[i]}
<1>1. CASE No = {}
  <2>1. \A i \in 1 .. n : a[i] = b[i]
    BY <1>1
  <2>2. a = [i \in 1 .. n |-> a[i]] /\ b = [i \in 1 .. n |-> b[i]]
    BY DEF TextSorted
  <2>3. [i \in 1 .. n |-> a[i]] = [i \in 1 .. n |-> b[i]]
    BY <2>1
  <2> QED
    BY <2>2, <2>3
<1>2. CASE No # {}
  <2>1. PICK m \in No : \A i \in No : m <= i
    <3>1. No \in SUBSET Nat
      OBVIOUS
    <3> QED
      BY <1>2, <3>1, LeastNatural
  <2>2. m \in 1 .. n /\ a[m] # b[m] /\ \A i \in 1 .. n : i < m => a[i] = b[i]
    BY <2>1
  <2> HIDE DEF No
  <2>3. /\ a[m] \in S /\ b[m] \in S
        /\ \A i \in 1 .. n : a[i].key \in Nat /\ b[i].key \in Nat
        /\ \A i, j \in 1 .. n : i < j => a[i].key < a[j].key /\ b[i].key < b[j].key
    BY <2>2 DEF TextSorted
  <2>4. PICK i \in 1 .. n : b[i] = a[m]
    BY <2>3 DEF TextSorted
  <2>5. PICK j \in 1 .. n : a[j] = b[m]
    BY <2>3 DEF TextSorted
  <2>6. ~(i < m)
    <3> SUFFICES ASSUME i < m PROVE FALSE
      OBVIOUS
    <3>1. a[i] = a[m] /\ a[i].key < a[m].key
      BY <2>2, <2>3, <2>4
    <3>2. a[m].key \in Nat
      BY <2>2, <2>3
    <3> QED
      BY <3>1, <3>2
  <2>7. ~(j < m)
    <3> SUFFICES ASSUME j < m PROVE FALSE
      OBVIOUS
    <3>1. b[j] = b[m] /\ b[j].key < b[m].key
      BY <2>2, <2>3, <2>5
    <3>2. b[m].key \in Nat
      BY <2>2, <2>3
    <3> QED
      BY <3>1, <3>2
  <2>8. m < i /\ m < j
    BY <2>2, <2>4, <2>5, <2>6, <2>7
  <2>9. b[m].key < a[m].key /\ a[m].key < b[m].key
    <3>1. b[m].key < b[i].key /\ a[m].key < a[j].key
      BY <2>2, <2>3, <2>8
    <3> QED
      BY <2>4, <2>5, <3>1
  <2>10. a[m].key \in Nat /\ b[m].key \in Nat
    BY <2>2, <2>3
  <2> QED
    BY <2>9, <2>10
<1> QED
  BY <1>1, <1>2

(* And an object has as many entries as places.                            *)
LEMMA TextSize ==
  ASSUME NEW p, TextKeyed(p)
  PROVE  Cardinality(Text!ToSet(p)) = Len(p) /\ Len(p) \in Nat
<1> DEFINE n == Len(p)
           S == Text!ToSet(p)
<1>1. /\ n \in Nat /\ DOMAIN p = 1 .. n /\ p = [i \in 1 .. n |-> p[i]]
      /\ \A i, j \in 1 .. n : p[i] = p[j] => i = j
  BY DEF TextKeyed
<1>2. S = {p[i] : i \in 1 .. n}
  BY <1>1 DEF Text!ToSet
<1> HIDE DEF n, S
<1>3. p \in [1 .. n -> S]
  BY <1>1, <1>2
<1>4. p \in Bijection(1 .. n, S)
  BY <1>1, <1>2, <1>3 DEF Bijection, Injection, IsInjective, Surjection
<1>5. IsFiniteSet(1 .. n) /\ Cardinality(1 .. n) = n
  <2>1. n \in Nat
    BY <1>1
  <2> QED
    BY ONLY <2>1, FS_Interval
<1>6. Cardinality(S) = n
  BY <1>4, <1>5, FS_Bijection DEF ExistsBijection
<1> QED
  BY <1>1, <1>6 DEF n, S

LEMMA TextJson ==
  ASSUME NEW p, NEW q, TextKeyed(p), TextKeyed(q), Text!ToSet(p) = Text!ToSet(q)
  PROVE  Text!Json(p) = Text!Json(q)
<1>1. Len(p) = Len(q) /\ Len(p) \in Nat
  BY TextSize
<1>2. Text!sort(p) = Text!sort(q)
  <2>1. /\ TextSorted(Text!sort(p), Text!ToSet(p), Len(p))
        /\ TextSorted(Text!sort(q), Text!ToSet(p), Len(p))
    BY <1>1, TextSorts
  <2> QED
    BY ONLY <1>1, <2>1, TextOneOrder
<1> QED
  BY <1>1, <1>2 DEF Text!Json

(* What is matched and hashed stays as it was chosen, and what comes of it *)
(* is computed from it.                                                    *)
TextCase ==
  \/ text \in TextTexts /\ lex \in TextLexes /\ text_put = <<>>
  \/ text = <<>> /\ lex = <<>> /\ text_put \in TextPuts

TextOut ==
  [match |-> Text!match(text, lex), old |-> Text!OldMatch(text, lex),
   hash |-> Text!MeshHash(text), put |-> Text!MeshHash(Text!Json(text_put))]

TextInv == TextCase /\ (text_out = Text!NoResult \/ text_out = TextOut)

LEMMA TextInvInit ==
  ASSUME Text!Init PROVE TextInv
BY DEF Text!Init, TextInv, TextCase

LEMMA TextInvStep ==
  ASSUME TextInv, [Text!Next]_(Text!vars) PROVE TextInv'
<1>1. CASE Text!Run
  <2>1. text' = text /\ lex' = lex /\ text_put' = text_put
    BY <1>1 DEF Text!Run
  <2>2. text_out' = TextOut
    BY <1>1 DEF Text!Run, TextOut
  <2>3. TextOut' = TextOut
    BY <2>1 DEF TextOut
  <2>4. TextCase'
    BY <2>1 DEF TextInv, TextCase
  <2> QED
    BY <2>2, <2>3, <2>4 DEF TextInv
<1>2. CASE UNCHANGED Text!vars
  <2>1. text' = text /\ lex' = lex /\ text_put' = text_put /\ text_out' = text_out
    BY <1>2 DEF Text!vars
  <2>2. TextOut' = TextOut
    BY <2>1 DEF TextOut
  <2>3. TextCase'
    BY <2>1 DEF TextInv, TextCase
  <2> QED
    BY <2>1, <2>2, <2>3 DEF TextInv
<1> QED
  BY <1>1, <1>2 DEF Text!Next

(* The three promises.                                                     *)
LEMMA TextInvMatches ==
  ASSUME TextInv PROVE Text!MatchesTheLex
<1>1. SUFFICES ASSUME text_out # Text!NoResult, Text!Proper(lex)
               PROVE  LET range == ~Text!Has(lex, "=") /\ ~Text!Has(lex, "*") IN
                      /\ text_out.match <=>
                            \/ Text!Has(lex, "=") /\ text = lex["="]
                            \/ ~Text!Has(lex, "=") /\ Text!Has(lex, "*")
                                  /\ Text!IsPrefix(lex["*"], text)
                            \/ range /\ Text!InRange(text, lex)
                            \/ range /\ Text!Has(lex, ">") /\ Text!IsPrefix(lex[">"], text)
                      /\ text_out.old <=>
                            \/ text_out.match
                            \/ range /\ ~Text!Has(lex, ">") /\ Text!IsPrefix(lex["<"], text)
  BY DEF Text!MatchesTheLex
<1>2. text \in Seq(Nat) /\ lex \in TextLexes
  BY <1>1, TextConstants DEF TextInv, TextCase, Text!Proper
<1>3. text_out = TextOut
  BY <1>1 DEF TextInv
<1>4. /\ text_out.match = Text!match(text, lex)
      /\ text_out.old = Text!OldMatch(text, lex)
  BY <1>3 DEF TextOut
<1>5. Text!Has(lex, "=") \/ Text!Has(lex, "*") \/ Text!Has(lex, ">") \/ Text!Has(lex, "<")
  <2>1. PICK op : Text!Has(lex, op)
    BY <1>1, <1>2, TextLexIsEmpty DEF Text!Proper
  <2>2. op \in {"=", "*", ">", "<"}
    BY <1>2, <2>1, ObjectsAssumption DEF Text!TextAssumption, Text!Ops, Text!Has
  <2> QED
    BY <2>1, <2>2
<1> QED
  BY <1>1, <1>2, <1>4, <1>5, TextMatches

LEMMA TextInvHashes ==
  ASSUME TextInv PROVE Text!HashIsOfTheWhole
<1>1. SUFFICES ASSUME text_out # Text!NoResult
               PROVE  text_out.hash = Text!Int32(TextSum(text))
  BY DEF Text!HashIsOfTheWhole, TextSum
<1>2. text \in Seq(Int)
  <2>1. text \in Seq(Nat)
    <3>1. CASE text = <<>>
      BY <3>1
    <3>2. CASE text # <<>>
      BY <3>2, TextConstants DEF TextInv, TextCase
    <3> QED
      BY <3>1, <3>2
  <2> QED
    BY <2>1
<1>3. text_out.hash = Text!MeshHash(text)
  BY <1>1 DEF TextInv, TextOut
<1> QED
  BY <1>2, <1>3, TextMesh

LEMMA TextInvOrders ==
  ASSUME TextInv PROVE Text!OrderDoesNotMatter
<1>1. SUFFICES ASSUME text_out # Text!NoResult, NEW p \in TextPuts,
                      Text!ToSet(p) = Text!ToSet(text_put)
               PROVE  Text!MeshHash(Text!Json(p)) = text_out.put
  BY DEF Text!OrderDoesNotMatter
<1>2. text_out.put = Text!MeshHash(Text!Json(text_put))
  BY <1>1 DEF TextInv, TextOut
<1>3. \A q \in TextPuts : TextKeyed(q)
  BY ObjectsAssumption DEF Text!TextAssumption, TextKeyed, TextEntries
<1>4. TextKeyed(text_put)
  <2>1. CASE text_put = <<>>
    BY <2>1 DEF TextKeyed, TextEntries
  <2>2. CASE text_put # <<>>
    BY <1>3, <2>2 DEF TextInv, TextCase
  <2> QED
    BY <2>1, <2>2
<1>5. Text!Json(p) = Text!Json(text_put)
  BY <1>1, <1>3, <1>4, TextJson
<1> QED
  BY <1>2, <1>5

(* A LEX chooses what it says, a text that is hashed piece by piece has    *)
(* the hash of the whole, cut to 32 bits wherever it overflows, and        *)
(* objects with the same entries have the same hash, for all texts, LEXes, *)
(* objects, pieces and numbers of hashes (gun.js:25-52, 1420-1437,         *)
(* 1789-1805).                                                             *)
THEOREM TextCorrect == Text!Spec => []TextAgrees
<1>1. Text!Init => TextInv
  BY TextInvInit
<1>2. TextInv /\ [Text!Next]_(Text!vars) => TextInv'
  BY TextInvStep
<1>3. TextInv => TextAgrees
  BY TextInvMatches, TextInvHashes, TextInvOrders DEF TextAgrees
<1> QED
  BY <1>1, <1>2, <1>3, PTL DEF Text!Spec
=============================================================================
