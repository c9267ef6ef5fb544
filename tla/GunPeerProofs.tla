---------------------------- MODULE GunPeerProofs ---------------------------
(***************************************************************************)
(* Proofs about the parts of a browser peer, for every value of their      *)
(* constants.                                                              *)
(***************************************************************************)
EXTENDS GunPeer, FiniteSets, SequenceTheorems, FiniteSetTheorems,
        WellFoundedInduction, TLAPS

(* A set of natural numbers, here of counterexamples, has a least one.     *)
LEMMA LeastNatural ==
  ASSUME NEW S \in SUBSET Nat, S # {}
  PROVE  \E n \in S : \A k \in S : n <= k
<1>1. PICK n \in S : \A k \in S : <<k, n>> \notin OpToRel(<, Nat)
  BY WFMin, NatLessThanWellFounded, Zenon
<1>2. \A k \in S : ~(k < n)
  BY <1>1, Zenon DEF OpToRel
<1> QED
  BY <1>2

-----------------------------------------------------------------------------
(* The clock.                                                              *)

ClockType ==
  /\ clock_time \in Nat /\ N \in Nat /\ calls \in Nat
  /\ clock_last \in Nat \cup {-1}
  /\ steady \in BOOLEAN /\ burst \in BOOLEAN

(* The last state is at most as far ahead of the time as N tells, and      *)
(* within a quiet millisecond N is less than the calls that it saw.        *)
ClockInv ==
  /\ ClockType
  /\ steady => clock_last <= clock_time * ClockD + N
  /\ steady /\ ~burst =>
       /\ calls <= ClockD
       /\ calls = 0 => clock_last < clock_time * ClockD
       /\ calls > 0 => clock_last = clock_time * ClockD + N /\ N < calls

(* The start of a millisecond, in units of the clock.  *)
LEMMA Milliseconds ==
  ASSUME NEW t \in Nat
  PROVE  /\ t * ClockD \in Nat
         /\ (t + 1) * ClockD = t * ClockD + ClockD
         /\ ClockD \in Nat \ {0}
<1>1. ClockD \in Nat \ {0}
  BY PeerAssumption DEF Clock!ClockAssumption
<1> QED
  BY <1>1

LEMMA ClockInit == Clock!Init => ClockInv
<1>1. 0 * ClockD = 0 /\ ClockD \in Nat
  BY Milliseconds
<1> SUFFICES ASSUME Clock!Init PROVE ClockInv
  OBVIOUS
<1>2. /\ clock_time = 0 /\ clock_last = -1 /\ N = 0 /\ calls = 0
      /\ steady = TRUE /\ burst = FALSE
  BY DEF Clock!Init, Clock!NI
<1>3. ClockType
  BY <1>2 DEF ClockType
<1>4. clock_last < clock_time * ClockD
  BY <1>1, <1>2
<1>5. clock_last <= clock_time * ClockD + N
  BY <1>1, <1>2
<1> QED
  BY <1>1, <1>2, <1>3, <1>4, <1>5 DEF ClockInv

LEMMA ClockStep ==
  ASSUME ClockInv, [Clock!Next]_(Clock!vars)
  PROVE  /\ ClockInv'
         /\ calls' > calls /\ steady => clock_last' > clock_last
<1> DEFINE start == clock_time * ClockD
<1>1. start \in Nat /\ ClockD \in Nat \ {0}
  BY Milliseconds DEF ClockInv, ClockType
<1>2. CASE Clock!State
  <2>1. /\ clock_time' = clock_time /\ steady' = steady
        /\ calls' = calls + 1 /\ burst' = (burst \/ calls' > ClockD)
        /\ N' = IF clock_last < start THEN 0 ELSE N + 1
        /\ clock_last' = start + N'
    BY <1>2 DEF Clock!State, Clock!NextN
  <2> HIDE DEF start
  <2>2. ClockType'
    BY <1>1, <2>1 DEF ClockInv, ClockType
  <2>3. start' = start
    BY <2>1 DEF start
  <2>4. steady => clock_last <= start + N
    BY DEF ClockInv, start
  <2>5. calls' > calls /\ steady => clock_last' > clock_last
    BY <1>1, <2>1, <2>4 DEF ClockInv, ClockType
  <2>6. steady /\ ~burst => /\ calls = 0 => clock_last < start
                            /\ calls > 0 => clock_last = start + N /\ N < calls
    BY DEF ClockInv, start
  <2>7. ASSUME steady', ~burst'
        PROVE  /\ calls' <= ClockD
               /\ calls' > 0 /\ clock_last' = start' + N' /\ N' < calls'
    <3>1. steady /\ ~burst /\ ~(calls' > ClockD)
      BY <2>1, <2>7
    <3>2. calls \in Nat /\ N \in Nat /\ clock_last \in Int
      BY DEF ClockInv, ClockType
    <3> QED
      BY <1>1, <2>1, <2>3, <2>6, <3>1, <3>2
  <2>8. steady' => clock_last' <= start' + N'
    BY <1>1, <2>1, <2>2, <2>3 DEF ClockType
  <2>9. calls' # 0
    BY <2>1 DEF ClockInv, ClockType
  <2> QED
    BY <2>2, <2>5, <2>7, <2>8, <2>9 DEF ClockInv, start
<1>3. CASE Clock!Tick
  <2>1. /\ clock_time' = clock_time + 1 /\ calls' = 0
        /\ UNCHANGED <<clock_last, N, steady, burst>>
    BY <1>3 DEF Clock!Tick
  <2>2. start' = start + ClockD
    BY <2>1, Milliseconds DEF ClockInv, ClockType
  <2>3. steady /\ ~burst => clock_last < start + ClockD
    BY <1>1 DEF ClockInv, ClockType
  <2>4. steady => clock_last <= start + N
    BY DEF ClockInv
  <2>5. ClockType'
    BY <2>1 DEF ClockInv, ClockType
  <2>6. steady' => clock_last' <= start' + N'
    BY <1>1, <2>1, <2>2, <2>4 DEF ClockInv, ClockType
  <2>7. steady' /\ ~burst' => clock_last' < start'
    BY <2>1, <2>2, <2>3
  <2> QED
    BY <1>1, <2>1, <2>5, <2>6, <2>7 DEF ClockInv, ClockType
<1>4. CASE Clock!SetBack
  <2>1. /\ clock_time' \in Nat /\ calls' = 0 /\ steady' = FALSE
        /\ UNCHANGED <<clock_last, N, burst>>
    BY <1>4 DEF Clock!SetBack, ClockInv, ClockType
  <2>2. ClockType'
    BY <2>1 DEF ClockInv, ClockType
  <2>3. ~(calls' > calls)
    BY <2>1 DEF ClockInv, ClockType
  <2> QED
    BY <2>1, <2>2, <2>3 DEF ClockInv
<1>5. CASE UNCHANGED Clock!vars
  BY <1>5 DEF Clock!vars, ClockInv, ClockType
<1> QED
  BY <1>2, <1>3, <1>4, <1>5 DEF Clock!Next

LEMMA ClockPromise ==
  ASSUME ClockInv
  PROVE  Clock!NotAheadOfTime
<1>1. (clock_time + 1) * ClockD = clock_time * ClockD + ClockD
      /\ clock_time * ClockD \in Nat /\ ClockD \in Nat \ {0}
  BY Milliseconds DEF ClockInv, ClockType
<1> QED
  BY <1>1 DEF Clock!NotAheadOfTime, ClockInv, ClockType

(* However many writes a millisecond sees, each has a later state than the *)
(* one before it while the machine's time is not set back, and none has    *)
(* that of a later millisecond unless some saw more than D of them         *)
(* (State, gun.js:151-157).                                                *)
THEOREM ClockCorrect == Clock!Spec => ClockStatesAreUnique
<1>1. Clock!Init => ClockInv
  BY ClockInit
<1>2. ClockInv /\ [Clock!Next]_(Clock!vars) =>
        ClockInv' /\ [calls' > calls /\ steady => clock_last' > clock_last]_(Clock!vars)
  BY ClockStep
<1>3. ClockInv => (part = "clock" => Clock!NotAheadOfTime)
  BY ClockPromise
<1> QED
  BY <1>1, <1>2, <1>3, PTL DEF Clock!Spec, ClockStatesAreUnique, Clock!StatesIncrease

-----------------------------------------------------------------------------
(* The memory for message ids.                                             *)

DupType ==
  /\ dup_time \in Nat /\ dup_now \in Nat /\ dup_now <= dup_time
  /\ was \in [DupIds -> Nat \cup {-1}] /\ used \in [DupIds -> Nat \cup {-1}]
  /\ begun \in Nat \cup {-1} /\ begun <= dup_now
  /\ list \subseteq DupIds

(* What is known was used when it says, and all that is older than the     *)
(* last drop allows is still on its list.                                  *)
DupInv ==
  /\ DupType
  /\ \A n \in DupIds : was[n] # -1 => was[n] = used[n] /\ was[n] <= dup_time
  /\ begun # -1 =>
       \A n \in DupIds \ list : was[n] # -1 => was[n] > begun - DupAge

DupFresh ==
  \A n \in DupIds : was[n] # -1 /\ was'[n] = -1 => dup_time - used[n] >= DupAge

LEMMA DupInit == Dup!Init => DupInv
  BY DEF Dup!Init, Dup!Never, DupInv, DupType

LEMMA DupTracks ==
  ASSUME DupInv, NEW n \in DupIds, Dup!Track(n)
  PROVE  DupInv' /\ DupFresh
<1>1. DupAge \in Nat \ {0}
  BY PeerAssumption DEF Dup!DupAssumption
<1>2. /\ was' = [was EXCEPT ![n] = dup_time] /\ used' = [used EXCEPT ![n] = dup_time]
      /\ dup_now' = dup_time
      /\ UNCHANGED <<dup_time, list, begun>>
  BY DEF Dup!Track
<1>3. DupType'
  BY <1>2 DEF DupInv, DupType
<1> QED
  BY <1>1, <1>2, <1>3 DEF DupInv, DupType, DupFresh

(* A turn of drop deletes what is too old at t and takes what it has       *)
(* looked at off the list.                                                 *)
LEMMA DupLooks ==
  ASSUME DupInv, NEW ids \in SUBSET DupIds, NEW t \in Nat, t <= dup_time,
         Dup!LookAt(ids, t)
  PROVE  /\ was' \in [DupIds -> Nat \cup {-1}]
         /\ \A n \in DupIds : was'[n] = was[n] \/ was'[n] = -1
         /\ \A n \in ids \ list' : was'[n] # -1 => was[n] = was'[n] /\ was[n] > t - DupAge
         /\ DupFresh
<1>1. DupAge \in Nat
  BY PeerAssumption DEF Dup!DupAssumption
<1>2. PICK batch \in SUBSET ids :
        /\ was' = [n \in DupIds |->
                     IF n \in batch /\ was[n] # -1 /\ t - was[n] >= DupAge
                     THEN -1 ELSE was[n]]
        /\ list' = ids \ batch
  BY DEF Dup!LookAt, Dup!IsOld, Dup!Never
<1>3. was' \in [DupIds -> Nat \cup {-1}]
  BY <1>2 DEF DupInv, DupType
<1>4. \A n \in DupIds : was'[n] = was[n] \/ was'[n] = -1
  BY <1>2
<1>5. ASSUME NEW n \in ids \ list', was'[n] # -1
      PROVE  was[n] = was'[n] /\ was[n] > t - DupAge
  <2>1. n \in batch /\ n \in DupIds /\ was[n] \in Nat \cup {-1}
    BY <1>2, <1>5 DEF DupInv, DupType
  <2> QED
    BY <1>1, <1>2, <1>5, <2>1
<1>6. ASSUME NEW n \in DupIds, was[n] # -1, was'[n] = -1
      PROVE  dup_time - used[n] >= DupAge
  <2>1. t - was[n] >= DupAge /\ was[n] \in Nat /\ used[n] = was[n]
    BY <1>2, <1>6 DEF DupInv, DupType
  <2> QED
    BY <1>1, <2>1 DEF DupInv, DupType
<1> QED
  BY <1>3, <1>4, <1>5, <1>6 DEF DupFresh

LEMMA DupStep ==
  ASSUME DupInv, [Dup!Next]_(Dup!vars)
  PROVE  DupInv' /\ [DupFresh]_(Dup!vars)
<1>1. DupAge \in Nat
  BY PeerAssumption DEF Dup!DupAssumption
<1>2. ASSUME NEW n \in DupIds, Dup!Track(n) \/ Dup!Check(n)
      PROVE  DupInv' /\ DupFresh
  BY <1>2, DupTracks DEF Dup!Check
<1>3. CASE Dup!Drop
  <2> DEFINE ids == {n \in DupIds : was[n] # -1}
  <2>1. /\ dup_now' = dup_time /\ begun' = dup_time
        /\ Dup!LookAt(ids, dup_time)
        /\ UNCHANGED <<dup_time, used>>
    BY <1>3 DEF Dup!Drop, Dup!Never
  <2>2. /\ was' \in [DupIds -> Nat \cup {-1}]
        /\ \A n \in DupIds : was'[n] = was[n] \/ was'[n] = -1
        /\ \A n \in ids \ list' :
              was'[n] # -1 => was[n] = was'[n] /\ was[n] > dup_time - DupAge
        /\ DupFresh
    BY <2>1, DupLooks DEF DupInv, DupType
  <2>3. list' \subseteq DupIds
    BY <2>1 DEF Dup!LookAt, DupInv, DupType
  <2>4. DupType'
    BY <2>1, <2>2, <2>3 DEF DupInv, DupType
  <2>5. \A n \in DupIds : was'[n] # -1 => was'[n] = used'[n] /\ was'[n] <= dup_time'
    BY <2>1, <2>2 DEF DupInv
  <2>6. \A n \in DupIds \ list' : was'[n] # -1 => was'[n] > begun' - DupAge
    BY <2>1, <2>2
  <2> QED
    BY <2>2, <2>3, <2>4, <2>5, <2>6 DEF DupInv
<1>4. CASE Dup!DropMore
  <2>1. /\ Dup!LookAt(list, dup_now)
        /\ UNCHANGED <<dup_time, dup_now, begun, used>>
    BY <1>4 DEF Dup!DropMore
  <2>2. /\ was' \in [DupIds -> Nat \cup {-1}]
        /\ \A n \in DupIds : was'[n] = was[n] \/ was'[n] = -1
        /\ \A n \in list \ list' :
              was'[n] # -1 => was[n] = was'[n] /\ was[n] > dup_now - DupAge
        /\ DupFresh
    BY <2>1, DupLooks DEF DupInv, DupType
  <2>3. list' \subseteq DupIds
    BY <2>1 DEF Dup!LookAt, DupInv, DupType
  <2>4. DupType'
    BY <2>1, <2>2, <2>3 DEF DupInv, DupType
  <2>5. \A n \in DupIds : was'[n] # -1 => was'[n] = used'[n] /\ was'[n] <= dup_time'
    BY <2>1, <2>2 DEF DupInv
  <2>6. ASSUME begun' # -1, NEW n \in DupIds \ list', was'[n] # -1
        PROVE  was'[n] > begun' - DupAge
    <3>1. was'[n] = was[n] /\ was[n] \in Nat /\ begun \in Nat /\ begun <= dup_now
          /\ dup_now \in Nat
      BY <2>1, <2>2, <2>6 DEF DupInv, DupType
    <3>2. CASE n \in list
      BY <1>1, <2>1, <2>2, <2>6, <3>1, <3>2
    <3>3. CASE n \notin list
      BY <2>1, <2>6, <3>1, <3>3 DEF DupInv
    <3> QED
      BY <3>2, <3>3
  <2> QED
    BY <2>2, <2>3, <2>4, <2>5, <2>6 DEF DupInv
<1>5. CASE Dup!Tick
  BY <1>5 DEF Dup!Tick, DupInv, DupType, DupFresh
<1>6. CASE UNCHANGED Dup!vars
  BY <1>6 DEF Dup!vars, DupInv, DupType
<1> QED
  BY <1>2, <1>3, <1>4, <1>5, <1>6 DEF Dup!Next

(* An id is known for at least the age after it was used, whatever is      *)
(* tracked and checked while a drop goes on in turns, and a drop leaves    *)
(* nothing behind that was too old when it began (dup.drop,                *)
(* gun.js:193-202).                                                        *)
THEOREM DupCorrect == Dup!Spec => DupKnowsTheRecent
<1>1. Dup!Init => DupInv
  BY DupInit DEF Dup!Init
<1>2. DupInv /\ [Dup!Next]_(Dup!vars) => DupInv' /\ [DupFresh]_(Dup!vars)
  BY DupStep
<1>3. DupInv => (part = "dup" => Dup!ForgetsStale)
  BY DEF Dup!ForgetsStale, DupInv, Dup!Never
<1>4. DupInv /\ [DupFresh]_(Dup!vars) =>
        [\A i \in DupIds : was[i] # Dup!Never /\ was'[i] = Dup!Never =>
                             dup_time - used[i] >= DupAge]_(Dup!vars)
  BY DEF DupFresh, Dup!Never
<1> QED
  BY <1>1, <1>2, <1>3, <1>4, PTL DEF Dup!Spec, DupKnowsTheRecent, Dup!KeepsFresh

-----------------------------------------------------------------------------
(* What is asked of a peer that comes back.                                *)

ResyncType ==
  /\ resync_time \in Nat /\ asks \in Nat /\ resync_last \in Nat \cup {-1}
  /\ resync_up \in BOOLEAN /\ gets \in BOOLEAN /\ resync_cut \in BOOLEAN
  /\ timers \in Seq(Nat)

(* While a peer is remembered the timer of its last bye has not ended; it  *)
(* is remembered until then if no earlier timer ends.                      *)
ResyncInv ==
  /\ ResyncType
  /\ \A n \in DOMAIN timers : timers[n] >= resync_time
  /\ gets => /\ resync_last # -1 /\ timers # <<>>
             /\ timers[Len(timers)] = resync_last + ResyncLack
  /\ ~resync_up /\ resync_last # -1 /\ resync_time < resync_last + ResyncLack =>
       gets \/ resync_cut

Returns ==
  resync_up' /\ ~resync_up =>
    /\ asks' > asks => resync_last >= 0 /\ resync_time <= resync_last + ResyncLack
    /\ resync_last >= 0 /\ resync_time < resync_last + ResyncLack /\ ~resync_cut =>
         asks' > asks

LEMMA ResyncInit == Resync!Init => ResyncInv
<1> SUFFICES ASSUME Resync!Init PROVE ResyncInv
  OBVIOUS
<1>1. resync_up \in BOOLEAN /\ gets \in BOOLEAN /\ resync_cut \in BOOLEAN /\ ~gets
  BY DEF Resync!Init
<1>2. /\ resync_time = 0 /\ asks = 0 /\ resync_last = -1
      /\ timers = <<>> /\ timers \in Seq(Nat)
  BY DEF Resync!Init
<1>3. ResyncType
  BY <1>1, <1>2 DEF ResyncType
<1> QED
  BY <1>1, <1>2, <1>3 DEF ResyncInv

LEMMA ResyncStep ==
  ASSUME ResyncInv, [Resync!Next]_(Resync!vars)
  PROVE  ResyncInv' /\ Returns
<1>1. ResyncLack \in Nat \ {0}
  BY PeerAssumption DEF Resync!ResyncAssumption
<1>2. ResyncType
  BY DEF ResyncInv
<1>3. CASE Resync!Bye
  <2> DEFINE new == resync_time + ResyncLack
  <2>1. /\ resync_up' = FALSE /\ gets' = TRUE /\ resync_cut' = FALSE
        /\ timers' = Append(timers, new) /\ resync_last' = resync_time
        /\ UNCHANGED <<resync_time, asks>>
    BY <1>3 DEF Resync!Bye
  <2>2. new \in Nat /\ new >= resync_time
    BY <1>1, <1>2 DEF ResyncType
  <2> HIDE DEF new
  <2>3. /\ timers' \in Seq(Nat) /\ timers' # <<>> /\ timers'[Len(timers')] = new
        /\ \A n \in DOMAIN timers' : timers'[n] >= resync_time
    BY <1>2, <2>1, <2>2 DEF ResyncInv, ResyncType
  <2>4. ResyncType'
    BY <1>2, <2>1, <2>3 DEF ResyncType
  <2> QED
    BY <1>2, <2>1, <2>3, <2>4 DEF ResyncInv, ResyncType, Returns, new
<1>4. CASE Resync!Hi
  <2>1. /\ resync_up' = TRUE /\ gets' = FALSE /\ ~resync_up
        /\ asks' = IF gets THEN asks + 1 ELSE asks
        /\ UNCHANGED <<resync_time, timers, resync_last, resync_cut>>
    BY <1>4 DEF Resync!Hi
  <2>2. ResyncInv'
    <3>1. asks' \in Nat
      BY <1>2, <2>1 DEF ResyncType
    <3>2. resync_up' \in BOOLEAN /\ gets' \in BOOLEAN /\ resync_cut' \in BOOLEAN
      BY <1>2, <2>1 DEF ResyncType
    <3>3. ResyncType'
      BY <1>2, <2>1, <3>1, <3>2 DEF ResyncType
    <3> QED
      BY <2>1, <3>3 DEF ResyncInv
  <2>3. ASSUME gets
        PROVE  resync_last >= 0 /\ resync_time <= resync_last + ResyncLack
    <3>1. Len(timers) \in DOMAIN timers
      BY <1>2, <2>3 DEF ResyncInv, ResyncType
    <3> QED
      BY <1>1, <1>2, <2>3, <3>1 DEF ResyncInv, ResyncType
  <2>4. resync_last >= 0 /\ resync_time < resync_last + ResyncLack /\ ~resync_cut => gets
    BY <1>2, <2>1 DEF ResyncInv, ResyncType
  <2> QED
    BY <1>2, <2>1, <2>2, <2>3, <2>4 DEF Returns, ResyncType
<1>5. CASE Resync!Forget
  <2>1. /\ timers # <<>> /\ Head(timers) <= resync_time
        /\ gets' = FALSE /\ timers' = Tail(timers)
        /\ resync_cut' = (resync_cut \/ Head(timers) < resync_last + ResyncLack)
        /\ UNCHANGED <<resync_time, resync_up, asks, resync_last>>
    BY <1>5 DEF Resync!Forget
  <2>2. /\ timers' \in Seq(Nat) /\ Head(timers) \in Nat
        /\ \A n \in DOMAIN timers' : timers'[n] >= resync_time
    BY <1>2, <2>1 DEF ResyncInv, ResyncType
  <2>3. ResyncType'
    BY <1>2, <2>1, <2>2 DEF ResyncType
  <2>4. resync_last # -1 /\ resync_time < resync_last + ResyncLack => resync_cut'
    <3>1. resync_time \in Nat /\ resync_last \in Int /\ ResyncLack \in Nat
      BY <1>1, <1>2 DEF ResyncType
    <3>2. resync_time < resync_last + ResyncLack => Head(timers) < resync_last + ResyncLack
      BY <2>1, <2>2, <3>1
    <3> QED
      BY <2>1, <3>2
  <2> QED
    BY <2>1, <2>2, <2>3, <2>4 DEF ResyncInv, Returns
<1>6. CASE Resync!Tick
  BY <1>1, <1>2, <1>6 DEF Resync!Tick, ResyncInv, ResyncType, Returns
<1>7. CASE UNCHANGED Resync!vars
  BY <1>7 DEF Resync!vars, ResyncInv, ResyncType, Returns
<1> QED
  BY <1>3, <1>4, <1>5, <1>6, <1>7 DEF Resync!Next

(* A peer that comes back in time is asked for everything, one that comes  *)
(* late is not, however its byes and their timers follow each other; the   *)
(* timer of an earlier bye may spoil this (gun.js:1624-1631).              *)
THEOREM ResyncCorrect == Resync!Spec => ResyncAskedWhenBack
<1>1. Resync!Init => ResyncInv
  BY ResyncInit
<1>2. ResyncInv /\ [Resync!Next]_(Resync!vars) => ResyncInv' /\ [Returns]_(Resync!vars)
  BY ResyncStep
<1> QED
  BY <1>1, <1>2, PTL DEF Resync!Spec, ResyncAskedWhenBack, Resync!AskedWhenBack, Returns

-----------------------------------------------------------------------------
(* Taking in writes.                                                       *)

(* The walk over entries is a sequence of calls of ham.  *)
LEMMA PutWalkExists ==
  ASSUME NEW p, NEW m, NEW from \in Nat, NEW n \in Nat, from <= n
  PROVE  \E h : h = [j \in from .. n |->
                       IF j = from THEN p ELSE Put!Ham(h[j - 1], m, j)]
<1> DEFINE Walks(h, k) ==
             h = [j \in from .. k |-> IF j = from THEN p ELSE Put!Ham(h[j - 1], m, j)]
           None == {k \in Nat : from <= k /\ ~ \E h : Walks(h, k)}
<1>1. ASSUME None # {}
      PROVE  FALSE
  <2>0. None \in SUBSET Nat
    OBVIOUS
  <2>1. PICK b \in None : \A k \in None : b <= k
    <3> HIDE DEF None
    <3> QED
      BY <1>1, LeastNatural, <2>0
  <2>2. b \in Nat /\ from <= b /\ ~ \E h : Walks(h, b)
    BY <2>1
  <2>3. CASE b = from
    <3> DEFINE g == [j \in from .. b |-> p]
    <3>1. Walks(g, b)
      BY <2>3
    <3> QED
      BY <2>2, <3>1
  <2>4. CASE b # from
    <3>0. b - 1 \in Nat /\ from <= b - 1 /\ ~(b <= b - 1)
      BY <2>2, <2>4
    <3>1. b - 1 \notin None
      BY <2>1, <3>0
    <3>2. PICK h : Walks(h, b - 1)
      BY <3>0, <3>1
    <3> DEFINE g == [j \in from .. b |-> IF j = b THEN Put!Ham(h[b - 1], m, b) ELSE h[j]]
    <3>3. ASSUME NEW j \in from .. b
          PROVE  g[j] = IF j = from THEN p ELSE Put!Ham(g[j - 1], m, j)
      <4>1. CASE j = b
        BY <2>4, <3>0, <4>1
      <4>2. CASE j # b
        <5>1. j \in from .. b - 1 /\ g[j] = h[j]
          BY <2>2, <4>2
        <5>2. h[j] = IF j = from THEN p ELSE Put!Ham(h[j - 1], m, j)
          BY <3>2, <5>1
        <5>3. j # from => g[j - 1] = h[j - 1]
          BY <2>2, <5>1
        <5> QED
          BY <5>1, <5>2, <5>3
      <4> QED
        BY <4>1, <4>2
    <3>4. Walks(g, b)
      BY <3>3
    <3> QED
      BY <2>2, <3>4
  <2> QED
    BY <2>3, <2>4
<1>2. n \notin None
  BY <1>1
<1> QED
  BY <1>2

(* h has the page after each entry of a walk.                              *)
PutHistory(h, p, from, n, m) ==
  /\ h[from] = p
  /\ \A j \in from + 1 .. n : h[j] = Put!Ham(h[j - 1], m, j)
  /\ Put!Walked(p, from, n, m) = h[n]

LEMMA PutWalked ==
  ASSUME NEW p, NEW m, NEW from \in Nat, NEW n \in Nat, from <= n
  PROVE  \E h : PutHistory(h, p, from, n, m)
<1> DEFINE h == CHOOSE h : h = [j \in from .. n |->
                                  IF j = from THEN p ELSE Put!Ham(h[j - 1], m, j)]
<1>1. h = [j \in from .. n |-> IF j = from THEN p ELSE Put!Ham(h[j - 1], m, j)]
  BY PutWalkExists
<1>2. Put!Walked(p, from, n, m) = h[n]
  BY DEF Put!Walked
<1> HIDE DEF h
<1>3. h[from] = p
  BY <1>1
<1>4. \A j \in from + 1 .. n : h[j] = Put!Ham(h[j - 1], m, j)
  BY <1>1
<1>5. PutHistory(h, p, from, n, m)
  BY <1>2, <1>3, <1>4 DEF PutHistory
<1> QED
  BY <1>5

Versions == [state : Nat \cup {-1}, val : Nat]

(* What a turn works on.  *)
PutFields == {"ctx", "graph", "disk", "acks", "to", "later", "rolled", "deferred",
              "taken"}

PutPage(p) ==
  /\ p = [f \in PutFields |-> p[f]]
  /\ p.graph \in [PutKeys -> Versions] /\ p.disk \in [PutKeys -> Versions]

(* No key goes back unless it is recorded as put back, and the graph and   *)
(* the disk stay alike.                                                    *)
PutGoesOn(p, q) ==
  /\ PutPage(q)
  /\ p.rolled \subseteq q.rolled /\ p.later \subseteq q.later
  /\ \A k \in PutKeys \ q.rolled : ~ Put!Above(p.graph[k], q.graph[k])
  /\ p.disk = p.graph => q.disk = q.graph

(* The i-th entry of m is in the graph, or something above it, or put off. *)
PutHas(q, m, i) ==
  LET e == PutEntries[m][i]
  IN e.key \notin q.rolled /\ Put!Above(e, q.graph[e.key]) => <<m, i>> \in q.later

LEMMA EntryType ==
  ASSUME NEW m \in PutMessages, NEW i \in 1 .. Put!Count(m)
  PROVE  /\ PutEntries[m][i] \in [key : PutKeys, val : Nat, state : Nat, valid : BOOLEAN]
         /\ Put!Count(m) \in Nat
<1> DEFINE Entry == [key : PutKeys, val : Nat, state : Nat, valid : BOOLEAN]
<1>1. PutEntries[m] \in Seq(Entry)
  BY PeerAssumption DEF Put!PutAssumption
<1>2. i \in 1 .. Len(PutEntries[m])
  BY DEF Put!Count
<1> HIDE DEF Entry
<1>3. PutEntries[m][i] \in Entry /\ Len(PutEntries[m]) \in Nat
  BY <1>1, <1>2
<1> QED
  BY <1>3 DEF Put!Count, Entry

(* States, and values among them, are ordered.  *)
LEMMA AboveOrders ==
  ASSUME NEW a, NEW b, NEW c,
         a.state \in Int, b.state \in Int, c.state \in Int,
         a.val \in Int, b.val \in Int, c.val \in Int
  PROVE  /\ ~ Put!Above(a, a)
         /\ ~ Put!Above(a, b) /\ ~ Put!Above(b, c) => ~ Put!Above(a, c)
         /\ Put!Above(a, b) => ~ Put!Above(b, a)
         /\ Put!Above(a, c) /\ ~ Put!Above(b, c) => Put!Above(a, b)
         /\ ~ Put!Above(a, b) => b.state >= a.state
  BY DEF Put!Above

(* What is let through overwrites the graph and the disk, and is recorded  *)
(* if that puts its key back.                                              *)
LEMMA PutAccepts ==
  ASSUME NEW p, PutPage(p), NEW m \in PutMessages, NEW i \in 1 .. Put!Count(m)
  PROVE  LET e == PutEntries[m][i]
             v == [state |-> e.state, val |-> e.val]
             q == Put!Accept(p, m, i)
         IN /\ PutPage(q)
            /\ q.graph = [p.graph EXCEPT ![e.key] = v]
            /\ q.disk = [p.disk EXCEPT ![e.key] = v]
            /\ q.later = p.later
            /\ q.rolled = IF m \in PutMisses /\ Put!Above(p.graph[e.key], e)
                          THEN p.rolled \cup {e.key} ELSE p.rolled
<1> DEFINE e == PutEntries[m][i]
           v == [state |-> e.state, val |-> e.val]
           q == [p EXCEPT !.ctx.all = @ + 1, !.ctx.stun = @ + 1,
                          !.taken = @ \cup {<<m, i>>}]
           r == Put!Map(q, e, m \in PutMisses)
           u == Put!StorePut(r, m, e)
<1>1. Put!Accept(p, m, i) = u
  BY DEF Put!Accept
<1>2. v \in Versions /\ e.key \in PutKeys
  BY EntryType DEF Versions
<1>3. /\ q = [f \in PutFields |-> q[f]]
      /\ q.graph = p.graph /\ q.disk = p.disk /\ q.later = p.later
      /\ q.rolled = p.rolled
  BY DEF PutPage, PutFields
<1> HIDE DEF q
<1>4. /\ r = [f \in PutFields |-> r[f]]
      /\ r.graph = [p.graph EXCEPT ![e.key] = v] /\ r.disk = p.disk
      /\ r.later = p.later
      /\ r.rolled = IF m \in PutMisses /\ Put!Above(p.graph[e.key], e)
                    THEN p.rolled \cup {e.key} ELSE p.rolled
  BY <1>3 DEF Put!Map, Put!StateIfy, PutFields
<1> HIDE DEF r
<1>5. /\ u = [f \in PutFields |-> u[f]]
      /\ u.graph = r.graph /\ u.disk = [p.disk EXCEPT ![e.key] = v]
      /\ u.later = r.later /\ u.rolled = r.rolled
  BY <1>4 DEF Put!StorePut, Put!StateIfy, PutFields
<1> HIDE DEF u
<1>6. u.graph = [p.graph EXCEPT ![e.key] = v] /\ u.disk = [p.disk EXCEPT ![e.key] = v]
  BY <1>4, <1>5
<1>7. u.graph \in [PutKeys -> Versions] /\ u.disk \in [PutKeys -> Versions]
  BY <1>2, <1>6 DEF PutPage
<1>8. PutPage(u)
  BY <1>5, <1>7 DEF PutPage
<1>9. /\ u.later = p.later
      /\ u.rolled = IF m \in PutMisses /\ Put!Above(p.graph[e.key], e)
                    THEN p.rolled \cup {e.key} ELSE p.rolled
  BY <1>4, <1>5
<1> QED
  BY <1>1, <1>6, <1>8, <1>9

LEMMA PutHams ==
  ASSUME NEW p, PutPage(p), NEW m \in PutMessages, NEW i \in 1 .. Put!Count(m)
  PROVE  PutGoesOn(p, Put!Ham(p, m, i)) /\ PutHas(Put!Ham(p, m, i), m, i)
<1> DEFINE e == PutEntries[m][i]
           q == Put!Ham(p, m, i)
<1>1. /\ e.key \in PutKeys /\ e.state \in Nat /\ e.val \in Nat
      /\ \A k \in PutKeys : p.graph[k].state \in Int /\ p.graph[k].val \in Int
  BY EntryType DEF PutPage, Versions
<1>2. \A k \in PutKeys : ~ Put!Above(p.graph[k], p.graph[k])
  BY <1>1, AboveOrders
<1>3. CASE e.state > put_now
  <2>1. q = [p EXCEPT !.later = @ \cup {<<m, i>>}, !.deferred = @ \cup {<<m, i>>}]
    BY <1>3 DEF Put!Ham
  <2>2. /\ q = [f \in PutFields |-> q[f]]
        /\ q.graph = p.graph /\ q.disk = p.disk /\ q.rolled = p.rolled
        /\ q.later = p.later \cup {<<m, i>>}
    BY <2>1 DEF PutPage, PutFields
  <2> HIDE DEF q
  <2>3. PutPage(q)
    BY <2>2 DEF PutPage
  <2> QED
    BY <1>2, <2>2, <2>3 DEF PutGoesOn, PutHas, q
<1>4. CASE ~(e.state > put_now) /\ Put!Drops(e, p.graph[e.key], m \in PutMisses)
  <2>1. q = p
    BY <1>4 DEF Put!Ham
  <2>2. ~ Put!Above(e, p.graph[e.key])
    BY <1>1, <1>4 DEF Put!Drops, Put!Above
  <2> QED
    BY <1>2, <2>1, <2>2 DEF PutGoesOn, PutHas
<1>5. CASE ~(e.state > put_now) /\ ~ Put!Drops(e, p.graph[e.key], m \in PutMisses)
  <2> DEFINE v == [state |-> e.state, val |-> e.val]
  <2>1. q = Put!Accept(p, m, i)
    BY <1>5 DEF Put!Ham
  <2>2. /\ PutPage(q)
        /\ q.graph = [p.graph EXCEPT ![e.key] = v]
        /\ q.disk = [p.disk EXCEPT ![e.key] = v]
        /\ q.later = p.later
        /\ q.rolled = IF m \in PutMisses /\ Put!Above(p.graph[e.key], e)
                      THEN p.rolled \cup {e.key} ELSE p.rolled
    BY <2>1, PutAccepts
  <2> HIDE DEF q
  <2>3. q.graph[e.key] = v /\ \A k \in PutKeys : k # e.key => q.graph[k] = p.graph[k]
    BY <1>1, <2>2 DEF PutPage
  <2>4. e.key \notin q.rolled => ~ Put!Above(p.graph[e.key], e)
    BY <1>1, <1>5, <2>2 DEF Put!Drops, Put!Above
  <2>5. ~ Put!Above(e, v) /\ (Put!Above(p.graph[e.key], v) => Put!Above(p.graph[e.key], e))
    BY <1>1 DEF Put!Above
  <2>6. \A k \in PutKeys \ q.rolled : ~ Put!Above(p.graph[k], q.graph[k])
    BY <1>2, <2>3, <2>4, <2>5
  <2>7. PutHas(q, m, i)
    BY <2>3, <2>5 DEF PutHas
  <2> QED
    BY <2>2, <2>6, <2>7 DEF PutGoesOn, q
<1> QED
  BY <1>3, <1>4, <1>5

LEMMA PutGoesFurther ==
  ASSUME NEW p, NEW q, NEW r, PutPage(p), PutGoesOn(p, q), PutGoesOn(q, r)
  PROVE  /\ PutGoesOn(p, r)
         /\ \A m \in PutMessages : \A i \in 1 .. Put!Count(m) :
               PutHas(q, m, i) => PutHas(r, m, i)
<1>1. \A k \in PutKeys :
        /\ p.graph[k].state \in Int /\ p.graph[k].val \in Int
        /\ q.graph[k].state \in Int /\ q.graph[k].val \in Int
        /\ r.graph[k].state \in Int /\ r.graph[k].val \in Int
  BY DEF PutGoesOn, PutPage, Versions
<1>2. ASSUME NEW k \in PutKeys \ r.rolled
      PROVE  ~ Put!Above(p.graph[k], r.graph[k])
  <2>1. ~ Put!Above(p.graph[k], q.graph[k]) /\ ~ Put!Above(q.graph[k], r.graph[k])
    BY DEF PutGoesOn
  <2> QED
    BY <1>1, <2>1, AboveOrders
<1>3. ASSUME NEW m \in PutMessages, NEW i \in 1 .. Put!Count(m), PutHas(q, m, i)
      PROVE  PutHas(r, m, i)
  <2> DEFINE e == PutEntries[m][i]
  <2>1. e.key \in PutKeys /\ e.state \in Int /\ e.val \in Int
    BY EntryType
  <2> SUFFICES ASSUME e.key \notin r.rolled, Put!Above(e, r.graph[e.key])
               PROVE  <<m, i>> \in r.later
    BY DEF PutHas
  <2>2. ~ Put!Above(q.graph[e.key], r.graph[e.key]) /\ e.key \notin q.rolled
    BY <2>1 DEF PutGoesOn
  <2>3. Put!Above(e, q.graph[e.key])
    BY <1>1, <2>1, <2>2, AboveOrders
  <2> QED
    BY <1>3, <2>2, <2>3 DEF PutHas, PutGoesOn
<1> QED
  BY <1>2, <1>3 DEF PutGoesOn

(* A turn goes on from where the walk was, and has all entries it came to. *)
LEMMA PutWalks ==
  ASSUME NEW p, PutPage(p), NEW m \in PutMessages, NEW from \in Nat, NEW n \in Nat,
         from <= n, n <= Put!Count(m)
  PROVE  LET q == Put!Walked(p, from, n, m)
         IN PutGoesOn(p, q) /\ \A i \in from + 1 .. n : PutHas(q, m, i)
<1>0. PICK h : PutHistory(h, p, from, n, m)
  BY PutWalked
<1>1. /\ h[from] = p
      /\ \A j \in from + 1 .. n : h[j] = Put!Ham(h[j - 1], m, j)
      /\ Put!Walked(p, from, n, m) = h[n]
  BY <1>0 DEF PutHistory
<1> DEFINE Good(j) == PutGoesOn(p, h[j]) /\ \A i \in from + 1 .. j : PutHas(h[j], m, i)
           Wrong == {j \in Nat : from <= j /\ j <= n /\ ~ Good(j)}
<1>2. Put!Count(m) \in Nat
  <2>1. PutEntries[m] \in Seq([key : PutKeys, val : Nat, state : Nat, valid : BOOLEAN])
    BY PeerAssumption DEF Put!PutAssumption
  <2> QED
    BY <2>1 DEF Put!Count
<1>3. Good(from)
  <2>1. \A k \in PutKeys : p.graph[k].state \in Int /\ p.graph[k].val \in Int
    BY DEF PutPage, Versions
  <2>2. \A k \in PutKeys : ~ Put!Above(p.graph[k], p.graph[k])
    BY <2>1, AboveOrders
  <2>3. from + 1 .. from = {}
    OBVIOUS
  <2> QED
    BY <1>1, <2>2, <2>3 DEF PutGoesOn
<1>4. ASSUME NEW j \in from + 1 .. n, Good(j - 1)
      PROVE  Good(j)
  <2>1. j \in 1 .. Put!Count(m) /\ j - 1 \in Nat
    BY <1>2
  <2>2. PutPage(h[j - 1]) /\ h[j] = Put!Ham(h[j - 1], m, j)
    BY <1>1, <1>4 DEF PutGoesOn
  <2>3. PutGoesOn(h[j - 1], h[j]) /\ PutHas(h[j], m, j)
    BY <2>1, <2>2, PutHams
  <2>4. /\ PutGoesOn(p, h[j])
        /\ \A i \in 1 .. Put!Count(m) : PutHas(h[j - 1], m, i) => PutHas(h[j], m, i)
    BY <1>4, <2>3, PutGoesFurther
  <2>5. ASSUME NEW i \in from + 1 .. j
        PROVE  PutHas(h[j], m, i)
    <3>1. i \in 1 .. Put!Count(m) /\ (i = j \/ i \in from + 1 .. j - 1)
      BY <1>2
    <3> QED
      BY <1>4, <2>3, <2>4, <3>1
  <2> QED
    BY <2>4, <2>5
<1> HIDE DEF Good
<1>5. Wrong = {}
  <2> SUFFICES ASSUME Wrong # {} PROVE FALSE
    OBVIOUS
  <2>1. PICK b \in Wrong : \A k \in Wrong : b <= k
    <3>1. Wrong \in SUBSET Nat
      OBVIOUS
    <3> HIDE DEF Wrong
    <3> QED
      BY <3>1, LeastNatural
  <2>2. b \in Nat /\ from <= b /\ b <= n /\ ~ Good(b) /\ b # from
    BY <1>3
  <2>3. b - 1 \notin Wrong
    BY <2>1, <2>2
  <2>4. Good(b - 1) /\ b \in from + 1 .. n
    BY <2>2, <2>3
  <2> QED
    BY <1>4, <2>2, <2>4
<1>6. Good(n)
  BY <1>5
<1> QED
  BY <1>1, <1>6 DEF Good

(* Once it is taken in, every entry is in the graph, or one above it, or   *)
(* still put off; what is stored is never ahead of the disk.               *)
PutType ==
  /\ put_graph \in [PutKeys -> Versions] /\ disk \in [PutKeys -> Versions]
  /\ store \in [PutKeys -> Versions]
  /\ put_at \in [PutMessages -> Int]
  /\ reloads \in Nat /\ offs \in Nat

PutCame ==
  \A m \in PutMessages : \A i \in 1 .. Put!Count(m) :
    i <= put_at[m] /\ Put!Bad(m) \cap (1 .. i) = {} => PutHas(Put!Peer(m), m, i)

PutStored ==
  /\ disk = put_graph
  /\ \A k \in PutKeys \ put_rolled : store[k].state <= disk[k].state

PutInv == PutType /\ (Put!Kept => PutCame /\ PutStored)

PutForward ==
  \A k \in PutKeys \ put_rolled' :
    /\ UNCHANGED <<reloads, offs>> => put_graph'[k].state >= put_graph[k].state
    /\ Put!Kept => store'[k].state >= store[k].state

LEMMA PutInit == Put!Init => PutInv
<1> SUFFICES ASSUME Put!Init PROVE PutInv
  OBVIOUS
<1>1. Put!Nothing \in Versions
  BY DEF Put!Nothing, Versions
<1>2. /\ put_graph = [k \in PutKeys |-> Put!Nothing] /\ disk = put_graph /\ store = put_graph
      /\ put_at = [m \in PutMessages |-> -1] /\ reloads = 0 /\ offs = 0
  BY DEF Put!Init
<1> HIDE DEF Put!Nothing
<1>3. PutType
  BY <1>1, <1>2 DEF PutType
<1>4. PutCame
  BY <1>2 DEF PutCame
<1>5. PutStored
  <2>1. \A k \in PutKeys : store[k] = disk[k] /\ disk[k].state \in Int
    BY <1>1, <1>2 DEF Versions
  <2> QED
    BY <1>2, <2>1 DEF PutStored
<1> QED
  BY <1>3, <1>4, <1>5 DEF PutInv

LEMMA PutStays ==
  ASSUME NEW p, PutPage(p)
  PROVE  PutGoesOn(p, p)
<1>1. \A k \in PutKeys : p.graph[k].state \in Int /\ p.graph[k].val \in Int
  BY DEF PutPage, Versions
<1>2. \A k \in PutKeys : ~ Put!Above(p.graph[k], p.graph[k])
  BY <1>1, AboveOrders
<1> QED
  BY <1>2 DEF PutGoesOn

(* The page as a message finds it.  *)
LEMMA PutFinds ==
  ASSUME PutType, NEW m
  PROVE  /\ PutPage(Put!Peer(m))
         /\ Put!Peer(m).graph = put_graph /\ Put!Peer(m).disk = disk
         /\ Put!Peer(m).later = later /\ Put!Peer(m).rolled = put_rolled
<1> DEFINE p == Put!Peer(m)
<1>1. p = [f \in PutFields |-> p[f]]
  BY DEF Put!Peer, PutFields
<1>2. /\ p.graph = put_graph /\ p.disk = disk /\ p.later = later
      /\ p.rolled = put_rolled
  BY DEF Put!Peer
<1> QED
  BY <1>1, <1>2 DEF PutType, PutPage

(* What a turn leaves keeps the invariant if the entries that have come in *)
(* are there.                                                              *)
LEMMA PutTurns ==
  ASSUME PutInv, NEW p, PutPage(p), NEW q, PutGoesOn(p, q),
         p.graph = put_graph, p.disk = disk, p.rolled = put_rolled,
         put_graph' = q.graph, disk' = q.disk, later' = q.later,
         put_rolled' = q.rolled, UNCHANGED <<store, reloads, offs>>,
         put_at' \in [PutMessages -> Int],
         Put!Kept => \A m \in PutMessages : \A i \in 1 .. Put!Count(m) :
                       i <= put_at'[m] /\ Put!Bad(m) \cap (1 .. i) = {} => PutHas(q, m, i)
  PROVE  PutInv' /\ PutForward
<1>1. PutType'
  BY DEF PutInv, PutType, PutGoesOn, PutPage
<1>2. Put!Kept' <=> Put!Kept
  BY DEF Put!Kept
<1>3. \A k \in PutKeys : /\ put_graph[k].state \in Int /\ put_graph[k].val \in Int
                         /\ put_graph'[k].state \in Int /\ put_graph'[k].val \in Int
                         /\ store[k].state \in Int
  BY <1>1 DEF PutInv, PutType, Versions
<1>4. \A k \in PutKeys \ put_rolled' : put_graph'[k].state >= put_graph[k].state
  <2>1. \A k \in PutKeys \ put_rolled' : ~ Put!Above(put_graph[k], put_graph'[k])
    BY DEF PutGoesOn
  <2> QED
    BY <1>3, <2>1 DEF Put!Above
<1>5. Put!Kept => PutCame'
  <2> SUFFICES ASSUME Put!Kept, NEW m \in PutMessages, NEW i \in 1 .. Put!Count(m),
                      i <= put_at'[m], Put!Bad(m) \cap (1 .. i) = {}
               PROVE  PutHas(Put!Peer(m), m, i)'
    BY DEF PutCame
  <2>1. PutHas(q, m, i)
    OBVIOUS
  <2>2. /\ Put!Peer(m)'.graph = q.graph /\ Put!Peer(m)'.later = q.later
        /\ Put!Peer(m)'.rolled = q.rolled
    BY DEF Put!Peer
  <2> QED
    BY <2>1, <2>2 DEF PutHas
<1>6. Put!Kept => PutStored'
  <2> SUFFICES ASSUME Put!Kept
               PROVE  PutStored'
    OBVIOUS
  <2>1. disk = put_graph /\ \A k \in PutKeys \ put_rolled : store[k].state <= disk[k].state
    BY DEF PutInv, PutStored
  <2>2. disk' = put_graph' /\ put_rolled \subseteq put_rolled'
    BY <2>1 DEF PutGoesOn
  <2>3. ASSUME NEW k \in PutKeys \ put_rolled'
        PROVE  store'[k].state <= disk'[k].state
    <3>1. store[k].state <= put_graph[k].state /\ put_graph'[k].state >= put_graph[k].state
      BY <1>4, <2>1, <2>2
    <3> QED
      BY <1>3, <2>2, <3>1
  <2> QED
    BY <2>2, <2>3 DEF PutStored
<1>7. PutForward
  <2>1. \A k \in PutKeys : store'[k].state >= store[k].state
    BY <1>3
  <2> QED
    BY <1>4, <2>1 DEF PutForward
<1> QED
  BY <1>1, <1>2, <1>5, <1>6, <1>7 DEF PutInv

LEMMA PutTakesTurn ==
  ASSUME PutInv, NEW m \in PutMessages, NEW from \in Nat, NEW n \in 1 .. Put!Count(m),
         from = 0 \/ from = put_at[m], Put!Turn(m, from, n)
  PROVE  PutInv' /\ PutForward
<1> DEFINE p == Put!Peer(m)
           to == IF n \in Put!Bad(m) THEN n - 1 ELSE n
           w == Put!Walked(p, from, to, m)
           q == IF n = Put!Count(m) THEN [w EXCEPT !.ctx = Put!Fire(@)] ELSE w
<1>1. /\ n \in from + 1 .. from + PutChunk
      /\ put_at' = [put_at EXCEPT ![m] = n]
      /\ Put!Becomes(m, q)
      /\ UNCHANGED <<store, reloads, offs>>
  BY DEF Put!Turn, Put!time
<1>2. /\ PutPage(p) /\ p.graph = put_graph /\ p.disk = disk
      /\ p.later = later /\ p.rolled = put_rolled
  BY PutFinds DEF PutInv
<1>3. Put!Count(m) \in Nat
  BY EntryType
<1>4. to \in Nat /\ from <= to /\ to <= Put!Count(m)
  BY <1>1, <1>3
<1> HIDE DEF p
<1>5. PutGoesOn(p, w) /\ \A i \in from + 1 .. to : PutHas(w, m, i)
  <2> HIDE DEF to
  <2> QED
    BY <1>2, <1>4, PutWalks
<1> HIDE DEF to, w
<1>6. /\ q = [f \in PutFields |-> q[f]]
      /\ q.graph = w.graph /\ q.disk = w.disk /\ q.later = w.later
      /\ q.rolled = w.rolled
  BY <1>5 DEF PutGoesOn, PutPage, PutFields
<1> HIDE DEF q
<1>7. PutGoesOn(p, q) /\ \A i \in from + 1 .. to : PutHas(q, m, i)
  BY <1>5, <1>6 DEF PutGoesOn, PutPage, PutHas
<1>8. put_at' \in [PutMessages -> Int]
  BY <1>1 DEF PutInv, PutType
<1>9. ASSUME Put!Kept, NEW m2 \in PutMessages, NEW i \in 1 .. Put!Count(m2),
             i <= put_at'[m2], Put!Bad(m2) \cap (1 .. i) = {}
      PROVE  PutHas(q, m2, i)
  <2>1. CASE i <= put_at[m2]
    <3>1. PutHas(Put!Peer(m2), m2, i)
      BY <1>9, <2>1 DEF PutInv, PutCame
    <3>2. PutHas(p, m2, i)
      BY <1>2, <3>1, PutFinds DEF PutHas, PutInv
    <3> QED
      BY <1>2, <1>7, <3>2, PutStays, PutGoesFurther
  <2>2. CASE ~(i <= put_at[m2])
    <3>1. m2 = m /\ i <= n
      BY <1>1, <1>9, <2>2 DEF PutInv, PutType
    <3>2. n \in Put!Bad(m) => i # n
      BY <1>9, <3>1
    <3>3. i \in from + 1 .. to
      BY <1>1, <2>2, <3>1, <3>2 DEF to, PutInv, PutType
    <3> QED
      BY <1>7, <3>1, <3>3
  <2> QED
    BY <2>1, <2>2
<1>10. /\ put_graph' = q.graph /\ disk' = q.disk /\ later' = q.later
       /\ put_rolled' = q.rolled
  BY <1>1 DEF Put!Becomes
<1> QED
  BY <1>1, <1>2, <1>7, <1>8, <1>9, <1>10, PutTurns

LEMMA PutTakesLate ==
  ASSUME PutInv, NEW m \in PutMessages, NEW i \in 1 .. Put!Count(m), Put!HamLater(m, i)
  PROVE  PutInv' /\ PutForward
<1> DEFINE o == Put!Peer(m)
           p == [o EXCEPT !.later = @ \ {<<m, i>>}]
           q == Put!Ham(p, m, i)
<1>1. Put!Becomes(m, q) /\ UNCHANGED <<store, put_at, reloads, offs>>
  BY DEF Put!HamLater, Put!time
<1>2. /\ PutPage(o) /\ o.graph = put_graph /\ o.disk = disk
      /\ o.later = later /\ o.rolled = put_rolled
  BY PutFinds DEF PutInv
<1> HIDE DEF o
<1>3. /\ p = [f \in PutFields |-> p[f]]
      /\ p.graph = put_graph /\ p.disk = disk
      /\ p.later = later \ {<<m, i>>} /\ p.rolled = put_rolled
  BY <1>2 DEF PutPage, PutFields
<1> HIDE DEF p
<1>4. PutPage(p)
  BY <1>2, <1>3 DEF PutPage
<1>5. PutGoesOn(p, q) /\ PutHas(q, m, i)
  BY <1>4, PutHams
<1> HIDE DEF q
<1>6. /\ put_graph' = q.graph /\ disk' = q.disk /\ later' = q.later
      /\ put_rolled' = q.rolled
  BY <1>1 DEF Put!Becomes
<1>7. ASSUME Put!Kept, NEW m2 \in PutMessages, NEW j \in 1 .. Put!Count(m2),
             j <= put_at'[m2], Put!Bad(m2) \cap (1 .. j) = {}
      PROVE  PutHas(q, m2, j)
  <2>1. CASE m2 = m /\ j = i
    BY <1>5, <2>1
  <2>2. CASE ~(m2 = m /\ j = i)
    <3>1. PutHas(Put!Peer(m2), m2, j)
      BY <1>1, <1>7 DEF PutInv, PutCame
    <3>2. <<m2, j>> # <<m, i>>
      BY <2>2
    <3>3. PutHas(p, m2, j)
      BY <1>3, <3>1, <3>2, PutFinds DEF PutHas, PutInv
    <3> QED
      BY <1>4, <1>5, <3>3, PutStays, PutGoesFurther
  <2> QED
    BY <2>1, <2>2
<1>8. put_at' \in [PutMessages -> Int]
  BY <1>1 DEF PutInv, PutType
<1> QED
  BY <1>1, <1>3, <1>4, <1>5, <1>6, <1>7, <1>8, PutTurns

(* The actions that change no entry of the graph, but may forget them all. *)
LEMMA PutRests ==
  ASSUME PutInv,
         \/ \E m \in PutMessages : Put!PopError(m)
         \/ \E err \in BOOLEAN : Put!Flush(err)
         \/ Put!Acknowledge \/ Put!Reload \/ Put!Off \/ Put!Tick
         \/ UNCHANGED Put!vars
  PROVE  PutInv' /\ PutForward
<1> USE DEF PutInv
<1>1. \A k \in PutKeys : /\ put_graph[k].state \in Int /\ disk[k].state \in Int
                         /\ store[k].state \in Int
  BY DEF PutType, Versions
<1>2. [k \in PutKeys |-> Put!Nothing] \in [PutKeys -> Versions]
  BY DEF Put!Nothing, Versions
<1>3. ASSUME UNCHANGED <<put_graph, disk, store, put_rolled, later, put_at, reloads, offs>>
      PROVE  PutInv' /\ PutForward
  <2>1. PutType' /\ (Put!Kept' <=> Put!Kept) /\ (PutStored => PutStored')
    BY <1>3 DEF PutType, Put!Kept, PutStored
  <2>2. PutCame => PutCame'
    BY <1>3 DEF PutCame, PutHas, Put!Peer
  <2>3. PutForward
    BY <1>1, <1>3 DEF PutForward
  <2> QED
    BY <2>1, <2>2, <2>3
<1>4. ASSUME NEW m \in PutMessages, Put!PopError(m)
      PROVE  PutInv' /\ PutForward
  <2>1. /\ put_at[m] \in Put!Bad(m)
        /\ put_at' = [put_at EXCEPT ![m] = Put!Count(m) + 1]
        /\ UNCHANGED <<put_graph, disk, store, put_rolled, later, reloads, offs>>
    BY <1>4 DEF Put!PopError, Put!data, Put!time
  <2>2. put_at[m] \in 1 .. Put!Count(m) /\ Put!Count(m) \in Nat
    BY <2>1, EntryType DEF Put!Bad
  <2>3. PutType' /\ (Put!Kept' <=> Put!Kept) /\ (PutStored => PutStored')
    BY <2>1, <2>2 DEF PutType, Put!Kept, PutStored
  <2>4. ASSUME PutCame, NEW m2 \in PutMessages, NEW i \in 1 .. Put!Count(m2),
               i <= put_at'[m2], Put!Bad(m2) \cap (1 .. i) = {}
        PROVE  PutHas(Put!Peer(m2), m2, i)'
    <3>1. i <= put_at[m2]
      BY <2>1, <2>2, <2>4 DEF PutType
    <3>2. PutHas(Put!Peer(m2), m2, i)
      BY <2>4, <3>1 DEF PutCame
    <3> QED
      BY <2>1, <3>2 DEF PutHas, Put!Peer
  <2>5. PutCame => PutCame'
    BY <2>4 DEF PutCame
  <2>6. PutForward
    BY <1>1, <2>1 DEF PutForward
  <2> QED
    BY <2>3, <2>5, <2>6
<1>5. ASSUME NEW err \in BOOLEAN, Put!Flush(err)
      PROVE  PutInv' /\ PutForward
  <2>1. /\ store' = store \/ store' = disk
        /\ UNCHANGED <<put_graph, disk, put_rolled, later, put_at, reloads, offs>>
    BY <1>5 DEF Put!Flush
  <2>2. PutType' /\ (Put!Kept' <=> Put!Kept)
    BY <2>1 DEF PutType, Put!Kept
  <2>3. PutCame => PutCame'
    BY <2>1 DEF PutCame, PutHas, Put!Peer
  <2>4. PutStored => PutStored' /\ \A k \in PutKeys \ put_rolled' : store'[k].state >= store[k].state
    BY <1>1, <2>1 DEF PutStored
  <2>5. PutForward
    BY <1>1, <2>1, <2>4 DEF PutForward
  <2> QED
    BY <2>2, <2>3, <2>4, <2>5
<1>6. CASE Put!Reload
  <2>1. /\ reloads' = reloads + 1 /\ disk' = store
        /\ put_graph' = [k \in PutKeys |-> Put!Nothing]
        /\ put_at' = [m \in PutMessages |-> IF put_at[m] = -1 THEN -1 ELSE Put!Count(m) + 1]
        /\ UNCHANGED <<offs, store, put_rolled>>
    BY <1>6 DEF Put!Reload
  <2>2. reloads' # 0 /\ reloads' # reloads /\ reloads' \in Nat
    BY <2>1 DEF PutType
  <2>3. put_at' \in [PutMessages -> Int]
    <3>1. \A m \in PutMessages : Put!Count(m) \in Int
      BY PeerAssumption DEF Put!PutAssumption, Put!Count
    <3> QED
      BY <2>1, <3>1
  <2>4. PutType'
    BY <1>2, <2>1, <2>2, <2>3 DEF PutType
  <2>5. PutForward
    BY <1>1, <2>1, <2>2 DEF PutForward
  <2> QED
    BY <2>2, <2>4, <2>5 DEF Put!Kept
<1>7. CASE Put!Off
  <2>1. /\ offs' = offs + 1
        /\ put_graph' = [k \in PutKeys |-> Put!Nothing]
        /\ UNCHANGED <<reloads, disk, store, put_rolled, put_at>>
    BY <1>7 DEF Put!Off, Put!pending
  <2>2. offs' # 0 /\ offs' # offs /\ offs' \in Nat
    BY <2>1 DEF PutType
  <2>3. PutType'
    BY <1>2, <2>1, <2>2 DEF PutType
  <2>4. PutForward
    BY <1>1, <2>1, <2>2 DEF PutForward
  <2> QED
    BY <2>2, <2>3, <2>4 DEF Put!Kept
<1>8. CASE Put!Acknowledge
  BY <1>3, <1>8 DEF Put!Acknowledge, Put!time, Put!data
<1>9. CASE Put!Tick
  BY <1>3, <1>9 DEF Put!Tick, Put!data, Put!pending
<1>10. CASE UNCHANGED Put!vars
  BY <1>3, <1>10 DEF Put!vars, Put!time, Put!data, Put!pending
<1> QED
  BY <1>4, <1>5, <1>6, <1>7, <1>8, <1>9, <1>10

LEMMA PutStep ==
  ASSUME PutInv, [Put!Next]_(Put!vars)
  PROVE  PutInv' /\ PutForward
<1>1. ASSUME NEW m \in PutMessages, NEW n \in 1 .. Put!Count(m),
             Put!Put(m, n) \/ Put!Pop(m, n)
      PROVE  PutInv' /\ PutForward
  <2>1. PICK from \in Nat : (from = 0 \/ from = put_at[m]) /\ Put!Turn(m, from, n)
    BY <1>1, EntryType DEF Put!Put, Put!Pop
  <2> QED
    BY <2>1, PutTakesTurn
<1>2. ASSUME NEW m \in PutMessages, NEW i \in 1 .. Put!Count(m), Put!HamLater(m, i)
      PROVE  PutInv' /\ PutForward
  BY <1>2, PutTakesLate
<1> QED
  BY <1>1, <1>2, PutRests DEF Put!Next, Put!Turns

(* In whatever order and however often writes come in, are put off and are *)
(* walked, in turns that interleave, the graph ends with the latest of     *)
(* them, and neither it nor the store goes back, except for answers to     *)
(* asks, reloads and offs (ham, gun.js:352-372; flush, gun.js:1747-1758).  *)
THEOREM PutCorrect == Put!Spec => PutLatestIsKept
<1>1. Put!Init => PutInv
  BY PutInit
<1>2. PutInv /\ [Put!Next]_(Put!vars) => PutInv' /\ [PutForward]_(Put!vars)
  BY PutStep
<1>3. PutInv => (part = "put" => Put!LatestWins)
  <2> SUFFICES ASSUME PutInv, Put!Kept, NEW k \in PutKeys \ put_rolled,
                      NEW e \in Put!Came(k), Put!Above(e, put_graph[k])
               PROVE  later # {}
    BY DEF Put!LatestWins
  <2>1. PICK m \in PutMessages : \E j \in 1 .. Put!Count(m) :
           /\ j <= put_at[m] /\ PutEntries[m][j].key = k
           /\ Put!Bad(m) \cap (1 .. j) = {} /\ e = PutEntries[m][j]
    BY DEF Put!Came
  <2>2. PICK j \in 1 .. Put!Count(m) :
           /\ j <= put_at[m] /\ PutEntries[m][j].key = k
           /\ Put!Bad(m) \cap (1 .. j) = {} /\ e = PutEntries[m][j]
    BY <2>1
  <2>3. PutHas(Put!Peer(m), m, j)
    BY <2>2 DEF PutInv, PutCame
  <2> QED
    BY <2>2, <2>3, PutFinds DEF PutHas, PutInv
<1>4. [PutForward]_(Put!vars) =>
        [\A k \in PutKeys \ put_rolled' :
            /\ UNCHANGED <<reloads, offs>> => put_graph'[k].state >= put_graph[k].state
            /\ Put!Kept => store'[k].state >= store[k].state]_(Put!vars)
  BY DEF PutForward
<1> QED
  BY <1>1, <1>2, <1>3, <1>4, PTL DEF Put!Spec, PutLatestIsKept, Put!OnlyAnswersRollBack

-----------------------------------------------------------------------------
(* Answers to writes.                                                      *)

(* Acknowledgements of a message that wait, and that are on their way.     *)
PutMarks(a, m) == {n \in 1 .. Len(a) : a[n] = m}
PutSent(a, m) == {n \in 1 .. Len(a) : a[n].m = m}

PutAcked == [m : PutMessages \ PutAnswers, err : BOOLEAN]

LEMMA PutMarksFinite ==
  ASSUME NEW a, NEW m, Len(a) \in Nat
  PROVE  /\ IsFiniteSet(PutMarks(a, m)) /\ Cardinality(PutMarks(a, m)) \in Nat
         /\ IsFiniteSet(PutSent(a, m)) /\ Cardinality(PutSent(a, m)) \in Nat
<1>1. IsFiniteSet(1 .. Len(a))
  BY FS_Interval
<1>2. PutMarks(a, m) \in SUBSET (1 .. Len(a)) /\ PutSent(a, m) \in SUBSET (1 .. Len(a))
  BY DEF PutMarks, PutSent
<1> QED
  BY <1>1, <1>2, FS_Subset, FS_CardinalityType

(* Numbers are as many when they are all moved by the same distance.       *)
LEMMA ShiftCounts ==
  ASSUME NEW S \in SUBSET Int, IsFiniteSet(S), NEW k \in Int, NEW T,
         \A n \in T : n \in Int, \A n \in Int : n \in T <=> n - k \in S
  PROVE  IsFiniteSet(T) /\ Cardinality(T) = Cardinality(S)
<1> DEFINE f == [n \in S |-> n + k]
<1>1. f \in [S -> T]
  BY DEF f
<1>2. \A x, y \in S : f[x] = f[y] => x = y
  BY DEF f
<1>3. \A t \in T : \E x \in S : f[x] = t
  <2>1. \A t \in T : t - k \in S /\ f[t - k] = t
    BY DEF f
  <2> QED
    BY <2>1
<1> HIDE DEF f
<1>4. f \in Bijection(S, T)
  BY <1>1, <1>2, <1>3 DEF Bijection, Injection, Surjection, IsInjective
<1>5. ExistsBijection(S, T)
  BY <1>4, Zenon DEF ExistsBijection
<1> QED
  BY <1>5, FS_Bijection

LEMMA PutMarksAppend ==
  ASSUME NEW S, NEW a \in Seq(S), NEW x \in S, NEW m
  PROVE  /\ Append(a, x) \in Seq(S) /\ Append(a, x) # <<>>
         /\ PutMarks(a, m) \subseteq PutMarks(Append(a, x), m)
         /\ Cardinality(PutMarks(Append(a, x), m)) =
              Cardinality(PutMarks(a, m)) + (IF m = x THEN 1 ELSE 0)
<1> DEFINE b == Append(a, x)
<1>1. /\ b \in Seq(S) /\ b # <<>> /\ Len(a) \in Nat /\ Len(b) = Len(a) + 1
      /\ \A n \in 1 .. Len(a) : b[n] = a[n]
      /\ b[Len(a) + 1] = x
  OBVIOUS
<1> HIDE DEF b
<1>2. CASE m = x
  <2>1. PutMarks(b, m) = PutMarks(a, m) \cup {Len(a) + 1} /\ Len(a) + 1 \notin PutMarks(a, m)
    BY <1>1, <1>2 DEF PutMarks
  <2>2. IsFiniteSet(PutMarks(a, m))
    BY <1>1, PutMarksFinite
  <2>3. Cardinality(PutMarks(b, m)) = Cardinality(PutMarks(a, m)) + 1
    BY <2>1, <2>2, FS_AddElement
  <2>4. PutMarks(a, m) \subseteq PutMarks(b, m)
    BY <2>1
  <2> QED
    BY <1>1, <1>2, <2>3, <2>4 DEF b
<1>3. CASE m # x
  <2>1. PutMarks(b, m) = PutMarks(a, m)
    BY <1>1, <1>3 DEF PutMarks
  <2> QED
    BY <1>1, <1>3, <2>1, PutMarksFinite DEF b
<1> QED
  BY <1>2, <1>3

(* The adapter hands over what waits.  *)
LEMMA PutSentMore ==
  ASSUME NEW a \in Seq(PutMessages \ PutAnswers), NEW s \in Seq(PutAcked),
         NEW err \in BOOLEAN
  PROVE  LET t == s \o [n \in 1 .. Len(a) |-> [m |-> a[n], err |-> err]]
         IN /\ t \in Seq(PutAcked) /\ Len(s) \in Nat /\ Len(a) \in Nat
            /\ Len(t) = Len(s) + Len(a)
            /\ \A n \in 1 .. Len(s) : t[n] = s[n]
            /\ \A n \in 1 .. Len(a) : t[Len(s) + n] = [m |-> a[n], err |-> err]
<1> DEFINE u == [n \in 1 .. Len(a) |-> [m |-> a[n], err |-> err]]
           t == s \o u
<1>1. Len(a) \in Nat /\ Len(s) \in Nat /\ \A n \in 1 .. Len(a) : a[n] \in PutMessages \ PutAnswers
  OBVIOUS
<1>2. \A n \in 1 .. Len(a) : [m |-> a[n], err |-> err] \in PutAcked
  BY <1>1 DEF PutAcked
<1>3. u \in Seq(PutAcked) /\ Len(u) = Len(a)
  <2> HIDE DEF PutAcked
  <2>1. u \in [1 .. Len(a) -> PutAcked]
    BY <1>2
  <2> QED
    BY <1>1, <2>1, SeqDef
<1>4. \A n \in 1 .. Len(a) : u[n] = [m |-> a[n], err |-> err]
  OBVIOUS
<1> HIDE DEF u
<1>5. /\ t \in Seq(PutAcked) /\ Len(t) = Len(s) + Len(a)
      /\ \A n \in 1 .. Len(s) : t[n] = s[n]
      /\ \A n \in 1 .. Len(a) : t[Len(s) + n] = u[n]
  BY <1>1, <1>3
<1> HIDE DEF t
<1> QED
  BY <1>1, <1>4, <1>5 DEF t, u

LEMMA PutSentCounts ==
  ASSUME NEW a, NEW s, NEW t, NEW x,
         Len(s) \in Nat, Len(a) \in Nat, Len(t) = Len(s) + Len(a),
         \A n \in 1 .. Len(s) : t[n].m = s[n].m,
         \A n \in 1 .. Len(a) : t[Len(s) + n].m = a[n]
  PROVE  Cardinality(PutSent(t, x)) = Cardinality(PutSent(s, x)) + Cardinality(PutMarks(a, x))
<1> DEFINE T == {n \in 1 .. Len(t) : n - Len(s) \in PutMarks(a, x)}
<1>1. /\ IsFiniteSet(PutMarks(a, x)) /\ IsFiniteSet(PutSent(s, x))
      /\ Cardinality(PutMarks(a, x)) \in Nat /\ Cardinality(PutSent(s, x)) \in Nat
  BY PutMarksFinite
<1>2. IsFiniteSet(T) /\ Cardinality(T) = Cardinality(PutMarks(a, x))
  <2>1. PutMarks(a, x) \in SUBSET Int /\ \A n \in T : n \in Int
    BY DEF PutMarks
  <2>2. \A n \in Int : n \in T <=> n - Len(s) \in PutMarks(a, x)
    BY DEF PutMarks
  <2>3. Len(s) \in Int
    OBVIOUS
  <2> HIDE DEF T
  <2> QED
    BY <1>1, <2>1, <2>2, <2>3, ShiftCounts, Zenon
<1>3. PutSent(t, x) = PutSent(s, x) \cup T /\ PutSent(s, x) \cap T = {}
  <2>1. \A n \in 1 .. Len(s) : n \notin T /\ (n \in PutSent(t, x) <=> n \in PutSent(s, x))
    BY DEF PutSent, PutMarks
  <2>2. ASSUME NEW n \in Len(s) + 1 .. Len(t)
        PROVE  n \notin PutSent(s, x) /\ (n \in PutSent(t, x) <=> n \in T)
    <3>1. n - Len(s) \in 1 .. Len(a) /\ n = Len(s) + (n - Len(s))
      OBVIOUS
    <3>2. t[n].m = a[n - Len(s)]
      BY <3>1
    <3> QED
      BY <3>1, <3>2 DEF PutSent, PutMarks
  <2>3. \A n \in 1 .. Len(t) : n \in 1 .. Len(s) \/ n \in Len(s) + 1 .. Len(t)
    OBVIOUS
  <2>4. /\ \A n \in PutSent(t, x) : n \in 1 .. Len(t)
        /\ \A n \in PutSent(s, x) : n \in 1 .. Len(t)
        /\ \A n \in T : n \in 1 .. Len(t)
    BY DEF PutSent
  <2> HIDE DEF T
  <2> QED
    BY <2>1, <2>2, <2>3, <2>4
<1> HIDE DEF T
<1>4. Cardinality(PutSent(s, x) \cup T) =
        Cardinality(PutSent(s, x)) + Cardinality(T) - Cardinality(PutSent(s, x) \cap T)
  BY <1>1, <1>2, FS_Union
<1>5. Cardinality(PutSent(s, x) \cap T) = 0
  BY <1>3, FS_EmptySet
<1>6. Cardinality(PutSent(t, x)) = Cardinality(PutSent(s, x) \cup T)
  BY <1>3
<1> QED
  BY <1>1, <1>2, <1>4, <1>5, <1>6

(* One comes in.  *)
LEMMA PutSentLess ==
  ASSUME NEW s \in Seq(PutAcked), s # <<>>, NEW x
  PROVE  /\ Tail(s) \in Seq(PutAcked) /\ Len(s) \in Nat /\ Len(Tail(s)) = Len(s) - 1
         /\ Head(s) = s[1] /\ Head(s) \in PutAcked
         /\ \A n \in 1 .. Len(s) - 1 : Tail(s)[n] = s[n + 1]
         /\ Cardinality(PutSent(s, x)) =
              Cardinality(PutSent(Tail(s), x)) + (IF Head(s).m = x THEN 1 ELSE 0)
<1> DEFINE t == Tail(s)
<1> HIDE DEF PutAcked
<1>1. /\ t \in Seq(PutAcked) /\ Len(s) \in Nat /\ Len(s) > 0 /\ Len(t) = Len(s) - 1
      /\ Head(s) = s[1] /\ Head(s) \in PutAcked
      /\ \A n \in 1 .. Len(s) - 1 : t[n] = s[n + 1]
  OBVIOUS
<1> HIDE DEF t
<1> DEFINE R == PutSent(s, x) \ {1}
<1>2. IsFiniteSet(PutSent(s, x)) /\ Cardinality(PutSent(s, x)) \in Nat
  BY <1>1, PutMarksFinite
<1>3. IsFiniteSet(R) /\ Cardinality(R) = IF 1 \in PutSent(s, x) THEN Cardinality(PutSent(s, x)) - 1
                                         ELSE Cardinality(PutSent(s, x))
  BY <1>2, FS_RemoveElement
<1>4. Cardinality(PutSent(t, x)) = Cardinality(R)
  <2>1. R \in SUBSET Int /\ \A n \in PutSent(t, x) : n \in Int
    BY DEF PutSent
  <2>2. \A n \in Int : n \in PutSent(t, x) <=> n - (-1) \in R
    <3>1. ASSUME NEW n \in Int
          PROVE  n \in PutSent(t, x) <=> n + 1 \in R
      <4>1. n + 1 \in R <=> n + 1 \in 2 .. Len(s) /\ s[n + 1].m = x
        BY <1>1 DEF PutSent
      <4>2. n + 1 \in 2 .. Len(s) <=> n \in 1 .. Len(t)
        BY <1>1
      <4>3. n \in 1 .. Len(t) => t[n] = s[n + 1]
        BY <1>1
      <4> QED
        BY <4>1, <4>2, <4>3 DEF PutSent
    <3> QED
      BY <3>1
  <2>3. IsFiniteSet(R) /\ -1 \in Int
    BY <1>3
  <2> HIDE DEF R
  <2> QED
    BY <2>1, <2>2, <2>3, ShiftCounts, Zenon
<1>5. 1 \in PutSent(s, x) <=> Head(s).m = x
  BY <1>1 DEF PutSent
<1> QED
  BY <1>1, <1>2, <1>3, <1>4, <1>5 DEF t

-----------------------------------------------------------------------------
(* The context of a message.                                               *)

PutTold == {<<>>, <<"ok">>, <<"err">>}

PutContexts == [all : Nat, stun : Nat, acks : Nat, err : BOOLEAN, stop : BOOLEAN,
                crack : BOOLEAN, out : {0, 1}, told : PutTold, errs : Nat]

(* Before it stops a context is stunned once, and has seen no error; it is *)
(* answered when it has stopped without one and all is acknowledged.       *)
PutContext(c) ==
  /\ c \in PutContexts
  /\ c.errs <= c.acks
  /\ ~c.stop => /\ c.stun = 1 /\ ~c.err /\ c.out = 0 /\ c.told = <<>>
                /\ c.acks > 0 => c.crack
  /\ c.told # <<>> => c.stun > 0 \/ c.acks = c.all
  /\ c.stun = 0 /\ c.acks = c.all /\ c.acks > 0 => c.told # <<>>

LEMMA PutFresh == PutContext(Put!Fresh)
BY DEF PutContext, PutContexts, PutTold, Put!Fresh

(* An entry that is let through: one more to be acknowledged, and a stun   *)
(* that stays once the context has stopped.                                *)
LEMMA PutFiresEntry ==
  ASSUME NEW c, PutContext(c)
  PROVE  LET q == Put!Fire([c EXCEPT !.all = @ + 1, !.stun = @ + 1])
         IN /\ PutContext(q)
            /\ q.all = c.all + 1 /\ q.acks = c.acks /\ q.err = c.err /\ q.stop = c.stop
            /\ q.out = c.out /\ q.told = c.told /\ q.errs = c.errs
            /\ q.stun = IF c.stop THEN c.stun + 1 ELSE c.stun
<1> DEFINE d == [c EXCEPT !.all = @ + 1, !.stun = @ + 1]
<1>1. /\ c \in PutContexts /\ c.all \in Nat /\ c.stun \in Nat /\ c.acks \in Nat
      /\ c.err \in BOOLEAN /\ c.stop \in BOOLEAN
  BY DEF PutContext, PutContexts
<1>2. /\ d \in PutContexts /\ d.all = c.all + 1 /\ d.stun = c.stun + 1 /\ d.acks = c.acks
      /\ d.err = c.err /\ d.stop = c.stop /\ d.crack = c.crack /\ d.out = c.out
      /\ d.told = c.told /\ d.errs = c.errs
  <2> DEFINE b == [c EXCEPT !.all = @ + 1]
  <2>1. /\ b \in PutContexts /\ b.all = c.all + 1 /\ b.stun = c.stun /\ b.acks = c.acks
        /\ b.err = c.err /\ b.stop = c.stop /\ b.crack = c.crack /\ b.out = c.out
        /\ b.told = c.told /\ b.errs = c.errs
    BY <1>1 DEF PutContexts
  <2>2. d = [b EXCEPT !.stun = @ + 1]
    OBVIOUS
  <2> HIDE DEF b, d
  <2> QED
    BY <1>1, <2>1, <2>2 DEF PutContexts
<1> HIDE DEF d
<1>3. CASE c.stop
  <2>1. Put!Fire(d) = d
    BY <1>2, <1>3 DEF Put!Fire
  <2>2. PutContext(d)
    BY <1>1, <1>2, <1>3 DEF PutContext
  <2> QED
    BY <1>2, <1>3, <2>1, <2>2 DEF d
<1>4. CASE ~c.stop
  <2> DEFINE q == [d EXCEPT !.stun = @ - 1]
  <2>1. c.stun = 1 /\ ~c.err /\ d.stun = 2
    BY <1>2, <1>4 DEF PutContext
  <2>2. Put!Fire(d) = q
    BY <1>2, <1>4, <2>1 DEF Put!Fire
  <2>3. /\ q \in PutContexts /\ q.all = d.all /\ q.stun = 1 /\ q.acks = d.acks
        /\ q.err = d.err /\ q.stop = d.stop /\ q.crack = d.crack /\ q.out = d.out
        /\ q.told = d.told /\ q.errs = d.errs
    BY <1>2, <2>1 DEF PutContexts
  <2> HIDE DEF q
  <2>4. PutContext(q)
    BY <1>1, <1>2, <1>4, <2>1, <2>3 DEF PutContext
  <2> QED
    BY <1>2, <1>4, <2>1, <2>2, <2>3, <2>4 DEF d
<1> QED
  BY <1>1, <1>3, <1>4

(* The end of the walk: the context stops, is relayed, and is answered if  *)
(* all is acknowledged already.                                            *)
PutEnded(c, q) ==
  /\ PutContext(q) /\ q.stop
  /\ q.all = c.all /\ q.acks = c.acks /\ q.errs = c.errs
  /\ IF c.stop THEN q = c
     ELSE /\ ~q.err /\ q.stun = 0
          /\ q.told = IF c.acks = c.all /\ c.acks > 0 THEN <<"ok">> ELSE <<>>

LEMMA PutFiresEnd ==
  ASSUME NEW c, PutContext(c)
  PROVE  PutEnded(c, Put!Fire(c))
<1>1. /\ c \in PutContexts /\ c.all \in Nat /\ c.stun \in Nat /\ c.acks \in Nat
      /\ c.err \in BOOLEAN /\ c.stop \in BOOLEAN /\ c.crack \in BOOLEAN
  BY DEF PutContext, PutContexts
<1>2. CASE c.stop
  BY <1>1, <1>2 DEF PutEnded, Put!Fire
<1>3. CASE ~c.stop
  <2> DEFINE d == [c EXCEPT !.stun = IF c.err THEN @ ELSE @ - 1, !.stop = TRUE]
             e == IF d.crack THEN Put!Back(d) ELSE d
             q == [e EXCEPT !.out = @ + 1]
  <2>1. c.stun = 1 /\ ~c.err /\ c.out = 0 /\ c.told = <<>> /\ (c.acks > 0 => c.crack)
    BY <1>3 DEF PutContext
  <2>2. /\ d \in PutContexts /\ d.all = c.all /\ d.stun = 0 /\ d.acks = c.acks /\ ~d.err
        /\ d.stop /\ d.crack = c.crack /\ d.out = 0 /\ d.told = <<>> /\ d.errs = c.errs
    <3> DEFINE b == [c EXCEPT !.stun = IF c.err THEN @ ELSE @ - 1]
    <3>1. /\ b \in PutContexts /\ b.all = c.all /\ b.stun = 0 /\ b.acks = c.acks /\ ~b.err
          /\ b.crack = c.crack /\ b.out = 0 /\ b.told = <<>> /\ b.errs = c.errs
      BY <1>1, <2>1 DEF PutContexts
    <3>2. d = [b EXCEPT !.stop = TRUE]
      OBVIOUS
    <3> HIDE DEF b, d
    <3> QED
      BY <1>1, <3>1, <3>2 DEF PutContexts
  <2>3. Put!Fire(c) = IF e.err THEN e ELSE q
    BY <1>3, <2>1 DEF Put!Fire
  <2> HIDE DEF d
  <2>4. /\ e \in PutContexts /\ e.all = c.all /\ e.stun = 0 /\ e.acks = c.acks /\ ~e.err
        /\ e.stop /\ e.out = 0 /\ e.errs = c.errs
        /\ e.told = IF c.acks = c.all /\ c.acks > 0 THEN <<"ok">> ELSE <<>>
    <3>1. CASE c.crack /\ c.acks = c.all /\ c.acks > 0
      <4>1. e = [d EXCEPT !.told = Append(@, "ok")]
        BY <2>2, <3>1 DEF Put!Back
      <4>2. Append(d.told, "ok") = <<"ok">>
        BY <2>2
      <4> QED
        BY <2>2, <3>1, <4>1, <4>2 DEF PutContexts, PutTold
    <3>2. CASE ~(c.crack /\ c.acks = c.all /\ c.acks > 0)
      <4>1. e = d
        BY <1>1, <2>2, <3>2 DEF Put!Back
      <4> QED
        BY <2>1, <2>2, <3>2, <4>1
    <3> QED
      BY <3>1, <3>2
  <2> HIDE DEF e
  <2>5. /\ q \in PutContexts /\ q.all = c.all /\ q.stun = 0 /\ q.acks = c.acks /\ ~q.err
        /\ q.stop /\ q.told = e.told /\ q.errs = e.errs
    BY <2>4 DEF PutContexts
  <2> HIDE DEF q
  <2>6. <<"ok">> # <<>>
    OBVIOUS
  <2>7. PutContext(q)
    BY <1>1, <2>4, <2>5, <2>6 DEF PutContext
  <2> QED
    BY <1>3, <2>3, <2>4, <2>5, <2>7 DEF PutEnded
<1> QED
  BY <1>1, <1>2, <1>3

(* A context that sees an error before it stops does so at once, and is    *)
(* neither relayed nor answered.                                           *)
LEMMA PutFiresStunned ==
  ASSUME NEW d \in PutContexts, d.err, ~d.stop, d.stun = 1
  PROVE  LET q == Put!Fire(d)
         IN /\ q \in PutContexts /\ q.stop /\ q.err
            /\ q.all = d.all /\ q.stun = 1 /\ q.acks = d.acks
            /\ q.crack = d.crack /\ q.out = d.out /\ q.told = d.told /\ q.errs = d.errs
<1> DEFINE q == [d EXCEPT !.stun = IF d.err THEN @ ELSE @ - 1, !.stop = TRUE]
<1>1. /\ q \in PutContexts /\ q.all = d.all /\ q.stun = 1 /\ q.acks = d.acks /\ q.err
      /\ q.stop /\ q.crack = d.crack /\ q.out = d.out /\ q.told = d.told /\ q.errs = d.errs
  BY DEF PutContexts
<1>2. Put!Fire(d) = IF (IF q.crack THEN Put!Back(q) ELSE q).err
                    THEN (IF q.crack THEN Put!Back(q) ELSE q)
                    ELSE [(IF q.crack THEN Put!Back(q) ELSE q) EXCEPT !.out = @ + 1]
  BY DEF Put!Fire
<1> HIDE DEF q
<1>3. Put!Back(q) = q
  BY <1>1 DEF Put!Back
<1>4. Put!Fire(d) = q
  BY <1>1, <1>2, <1>3
<1> QED
  BY <1>1, <1>4

(* An invalid entry: the context stops, stunned, and is not relayed.       *)
LEMMA PutFiresError ==
  ASSUME NEW c, PutContext(c)
  PROVE  LET q == Put!Fire([c EXCEPT !.err = TRUE])
         IN /\ PutContext(q) /\ q.stop /\ q.err
            /\ q.all = c.all /\ q.acks = c.acks /\ q.out = c.out /\ q.told = c.told /\ q.errs = c.errs
            /\ q.stun = c.stun
<1> DEFINE d == [c EXCEPT !.err = TRUE]
           q == Put!Fire(d)
<1>1. /\ c \in PutContexts /\ c.all \in Nat /\ c.stun \in Nat /\ c.acks \in Nat
      /\ c.err \in BOOLEAN /\ c.stop \in BOOLEAN
  BY DEF PutContext, PutContexts
<1>2. /\ d \in PutContexts /\ d.all = c.all /\ d.stun = c.stun /\ d.acks = c.acks /\ d.err
      /\ d.stop = c.stop /\ d.crack = c.crack /\ d.out = c.out /\ d.told = c.told /\ d.errs = c.errs
  BY <1>1 DEF PutContexts
<1> HIDE DEF d
<1>3. CASE c.stop
  <2>1. Put!Fire(d) = d
    BY <1>2, <1>3 DEF Put!Fire
  <2>2. PutContext(d)
    BY <1>1, <1>2, <1>3 DEF PutContext
  <2> QED
    BY <1>2, <1>3, <2>1, <2>2 DEF d
<1>4. CASE ~c.stop
  <2>1. c.stun = 1 /\ c.out = 0 /\ c.told = <<>>
    BY <1>4 DEF PutContext
  <2>2. /\ q \in PutContexts /\ q.stop /\ q.err
        /\ q.all = d.all /\ q.stun = 1 /\ q.acks = d.acks
        /\ q.crack = d.crack /\ q.out = d.out /\ q.told = d.told /\ q.errs = d.errs
    BY <1>2, <1>4, <2>1, PutFiresStunned
  <2> HIDE DEF q
  <2>3. PutContext(q)
    BY <1>2, <2>1, <2>2 DEF PutContext
  <2> QED
    BY <1>2, <2>1, <2>2, <2>3 DEF q, d
<1> QED
  BY <1>1, <1>3, <1>4

(* An acknowledgement: the last of a context that has stopped and is not   *)
(* stunned brings the answer.                                              *)
LEMMA PutAcks ==
  ASSUME NEW c, PutContext(c), NEW err \in BOOLEAN, c.acks < c.all
  PROVE  LET q == Put!Ack(c, err)
         IN /\ PutContext(q)
            /\ q.all = c.all /\ q.acks = c.acks + 1 /\ q.out = c.out /\ q.stun = c.stun
            /\ q.err = err /\ q.stop = (c.stop \/ err)
            /\ q.errs = c.errs + (IF err THEN 1 ELSE 0)
            /\ q.told = IF c.stun = 0 /\ c.acks + 1 = c.all
                        THEN <<IF err THEN "err" ELSE "ok">> ELSE c.told
<1> DEFINE d == [c EXCEPT !.acks = @ + 1, !.err = err]
           e == IF err THEN Put!Fire(d) ELSE d
           f == IF e.stop THEN e ELSE [e EXCEPT !.crack = TRUE]
<1>1. /\ c \in PutContexts /\ c.all \in Nat /\ c.stun \in Nat /\ c.acks \in Nat
      /\ c.err \in BOOLEAN /\ c.stop \in BOOLEAN /\ c.crack \in BOOLEAN
      /\ c.errs \in Nat /\ c.errs <= c.acks
  BY DEF PutContext, PutContexts
<1>2. /\ d \in PutContexts /\ d.all = c.all /\ d.stun = c.stun /\ d.acks = c.acks + 1
      /\ d.err = err /\ d.stop = c.stop /\ d.crack = c.crack /\ d.out = c.out
      /\ d.told = c.told /\ d.errs = c.errs
  <2> DEFINE b == [c EXCEPT !.acks = @ + 1]
  <2>1. /\ b \in PutContexts /\ b.all = c.all /\ b.stun = c.stun /\ b.acks = c.acks + 1
        /\ b.stop = c.stop /\ b.crack = c.crack /\ b.out = c.out /\ b.told = c.told /\ b.errs = c.errs
    BY <1>1 DEF PutContexts
  <2>2. d = [b EXCEPT !.err = err]
    OBVIOUS
  <2> HIDE DEF b, d
  <2> QED
    BY <1>1, <2>1, <2>2 DEF PutContexts
<1>3. Put!Ack(c, err) =
        IF err THEN [Put!Back(f) EXCEPT !.errs = @ + 1] ELSE Put!Back(f)
  BY DEF Put!Ack
<1> HIDE DEF d
<1>4. /\ e \in PutContexts /\ e.all = d.all /\ e.stun = d.stun /\ e.acks = d.acks
      /\ e.err = d.err /\ e.stop = (c.stop \/ err) /\ e.out = d.out /\ e.told = d.told /\ e.errs = d.errs
  <2>1. CASE err /\ ~c.stop
    <3>1. d.stun = 1
      BY <1>2, <2>1 DEF PutContext
    <3>2. e = Put!Fire(d)
      BY <2>1
    <3> QED
      BY <1>2, <2>1, <3>1, <3>2, PutFiresStunned
  <2>2. CASE ~(err /\ ~c.stop)
    <3>1. e = d
      BY <1>2, <2>2 DEF Put!Fire
    <3> QED
      BY <1>1, <1>2, <2>2, <3>1
  <2> QED
    BY <2>1, <2>2
<1> HIDE DEF e
<1>5. /\ f \in PutContexts /\ f.all = c.all /\ f.stun = c.stun /\ f.acks = c.acks + 1
      /\ f.err = err /\ f.stop = (c.stop \/ err) /\ f.out = c.out /\ f.told = c.told /\ f.errs = c.errs
      /\ ~f.stop => f.crack
  BY <1>1, <1>2, <1>4 DEF PutContexts
<1> HIDE DEF f
<1> DEFINE g == Put!Back(f)
<1>6. /\ PutContext(g) /\ g.all = c.all /\ g.acks = c.acks + 1 /\ g.out = c.out
      /\ g.stun = c.stun /\ g.err = err /\ g.stop = (c.stop \/ err) /\ g.errs = c.errs
      /\ g.told = IF c.stun = 0 /\ c.acks + 1 = c.all
                  THEN <<IF err THEN "err" ELSE "ok">> ELSE c.told
  <2>1. CASE c.stun = 0 /\ c.acks + 1 = c.all
    <3> DEFINE q == [f EXCEPT !.told = Append(@, IF f.err THEN "err" ELSE "ok")]
    <3>1. Put!Back(f) = q
      BY <1>1, <1>5, <2>1 DEF Put!Back
    <3>2. c.told = <<>> /\ c.stop
      BY <1>1, <2>1 DEF PutContext
    <3>3. Append(<<>>, IF f.err THEN "err" ELSE "ok") = <<IF f.err THEN "err" ELSE "ok">>
      OBVIOUS
    <3>4. /\ q \in PutContexts /\ q.all = f.all /\ q.stun = f.stun /\ q.acks = f.acks
          /\ q.err = f.err /\ q.stop = f.stop /\ q.out = f.out /\ q.errs = f.errs
          /\ q.told = <<IF f.err THEN "err" ELSE "ok">>
      BY <1>5, <3>2, <3>3 DEF PutContexts, PutTold
    <3> HIDE DEF q
    <3>5. q.told # <<>>
      BY <3>4
    <3>6. PutContext(q)
      <4>1. q.acks = c.acks + 1 /\ q.all = c.acks + 1 /\ q.errs = c.errs /\ q.stop
        BY <1>1, <1>5, <2>1, <3>2, <3>4
      <4>2. q.errs <= q.acks /\ q.acks = q.all
        BY <1>1, <4>1
      <4> QED
        BY <3>4, <3>5, <4>1, <4>2 DEF PutContext
    <3> QED
      BY <1>5, <2>1, <3>1, <3>4, <3>6
  <2>2. CASE ~(c.stun = 0 /\ c.acks + 1 = c.all)
    <3>1. Put!Back(f) = f
      BY <1>1, <1>5, <2>2 DEF Put!Back
    <3>2. PutContext(f)
      BY <1>1, <1>5, <2>2 DEF PutContext
    <3> QED
      BY <1>5, <2>2, <3>1, <3>2
  <2> QED
    BY <2>1, <2>2
<1> HIDE DEF g
<1>7. CASE ~err
  BY <1>1, <1>3, <1>6, <1>7 DEF g
<1>8. CASE err
  <2> DEFINE q == [g EXCEPT !.errs = @ + 1]
  <2>1. /\ g \in PutContexts /\ g.errs <= c.acks
    BY <1>1, <1>6 DEF PutContext
  <2>2. /\ q \in PutContexts /\ q.all = g.all /\ q.stun = g.stun /\ q.acks = g.acks
        /\ q.err = g.err /\ q.stop = g.stop /\ q.crack = g.crack /\ q.out = g.out
        /\ q.told = g.told /\ q.errs = c.errs + 1
    BY <1>1, <1>6, <2>1 DEF PutContexts
  <2> HIDE DEF q
  <2>3. PutContext(q)
    BY <1>1, <1>6, <2>1, <2>2 DEF PutContext
  <2> QED
    BY <1>3, <1>6, <1>8, <2>2, <2>3 DEF q, g
<1> QED
  BY <1>7, <1>8

-----------------------------------------------------------------------------
(* What answers tell.                                                      *)

PutOf(x) == PutEntries[x[1]][x[2]]

PutPairs == {x \in PutMessages \X Nat : x[2] \in 1 .. Put!Count(x[1])}

(* The context of n, when the page works on m.  *)
PutCtx(p, m, n) == IF n = m THEN p.ctx ELSE ctx[n]

(* What is let through is acknowledged, waits, or is on its way, unless    *)
(* another peer is to answer or the page was loaded again.                 *)
PutCounts(c, a, n) ==
  LET waiting == Cardinality(PutMarks(a, n)) + Cardinality(PutSent(acking, n))
  IN /\ c.acks + waiting <= c.all
     /\ n \notin PutAnswers /\ ~put_peers /\ reloads = 0 => c.acks + waiting = c.all
     /\ n \in PutAnswers => c.acks = 0

PutIsStored(x, rolled) ==
  PutOf(x).key \in rolled \/ store[PutOf(x).key].state >= PutOf(x).state

(* Since the store was last written nothing else has come of n than        *)
(* errors, or something waits.                                             *)
PutWaits(c, a, n) ==
  \/ n \in PutAnswers
  \/ PutMarks(a, n) # {}
  \/ \E i \in PutSent(acking, n) : \A j \in i .. Len(acking) : acking[j].err
  \/ c.err /\ \A j \in 1 .. Len(acking) : acking[j].err

(* An entry that was let through.  *)
PutThrough(p, c, x) ==
  /\ PutOf(x).key \in p.rolled \/ p.disk[PutOf(x).key].state >= PutOf(x).state
  /\ PutIsStored(x, p.rolled) \/ PutWaits(c, p.acks, x[1])
  /\ c.told = <<"ok">> => x \in p.deferred \/ PutIsStored(x, p.rolled)

PutAnswering(p, m) ==
  /\ PutPage(p)
  /\ \A n \in PutMessages : /\ PutContext(PutCtx(p, m, n))
                            /\ PutCounts(PutCtx(p, m, n), p.acks, n)
  /\ p.acks \in Seq(PutMessages \ PutAnswers)
  /\ p.acks # <<>> => p.to
  /\ p.later \subseteq p.deferred
  /\ p.taken \subseteq PutPairs
  /\ Put!Kept => /\ p.disk = p.graph
                 /\ \A x \in p.taken : PutThrough(p, PutCtx(p, m, x[1]), x)

(* The rest of what Accept does.  *)
LEMMA PutAcceptsRest ==
  ASSUME NEW p, PutPage(p), PutContext(p.ctx), NEW m \in PutMessages, NEW i
  PROVE  LET q == Put!Accept(p, m, i)
         IN /\ q.ctx = Put!Fire([p.ctx EXCEPT !.all = @ + 1, !.stun = @ + 1])
            /\ q.acks = IF m \in PutAnswers THEN p.acks ELSE Append(p.acks, m)
            /\ q.to = TRUE
            /\ q.taken = p.taken \cup {<<m, i>>}
            /\ q.deferred = p.deferred
<1> DEFINE e == PutEntries[m][i]
           c == [p.ctx EXCEPT !.all = @ + 1, !.stun = @ + 1]
           q == [p EXCEPT !.ctx.all = @ + 1, !.ctx.stun = @ + 1,
                          !.taken = @ \cup {<<m, i>>}]
           r == Put!Map(q, e, m \in PutMisses)
           u == Put!StorePut(r, m, e)
<1>1. Put!Accept(p, m, i) = u
  BY DEF Put!Accept
<1>2. /\ q = [f \in PutFields |-> q[f]]
      /\ q.ctx = c /\ q.acks = p.acks /\ q.taken = p.taken \cup {<<m, i>>}
      /\ q.deferred = p.deferred
  <2>1. p.ctx \in PutContexts
    BY DEF PutContext
  <2> DEFINE q1 == [p EXCEPT !.ctx.all = @ + 1]
             q2 == [q1 EXCEPT !.ctx.stun = @ + 1]
             c1 == [p.ctx EXCEPT !.all = @ + 1]
  <2>2. /\ q1 = [f \in PutFields |-> q1[f]] /\ q1.ctx = c1 /\ q1.acks = p.acks
        /\ q1.taken = p.taken /\ q1.deferred = p.deferred
    BY <2>1 DEF PutPage, PutFields
  <2>3. q = [q2 EXCEPT !.taken = @ \cup {<<m, i>>}] /\ c = [c1 EXCEPT !.stun = @ + 1]
    OBVIOUS
  <2> HIDE DEF q1, q, c
  <2>4. /\ q2 = [f \in PutFields |-> q2[f]] /\ q2.ctx = [c1 EXCEPT !.stun = @ + 1]
        /\ q2.acks = p.acks
        /\ q2.taken = p.taken /\ q2.deferred = p.deferred
    BY <2>2 DEF PutFields
  <2> HIDE DEF q2, c1
  <2> QED
    BY <2>3, <2>4 DEF PutFields
<1> HIDE DEF q, c
<1>3. /\ r = [f \in PutFields |-> r[f]]
      /\ r.ctx = Put!Fire(c) /\ r.acks = q.acks /\ r.taken = q.taken
      /\ r.deferred = q.deferred
  BY <1>2 DEF Put!Map, PutFields
<1> HIDE DEF r
<1>4. /\ u.ctx = r.ctx /\ u.taken = r.taken /\ u.deferred = r.deferred
      /\ u.acks = IF m \in PutAnswers THEN r.acks ELSE Append(r.acks, m)
      /\ u.to = TRUE
  BY <1>3 DEF Put!StorePut, PutFields
<1> HIDE DEF u
<1> QED
  BY <1>1, <1>2, <1>3, <1>4 DEF c

PutLetThrough(p, m, i, q) ==
  /\ q.acks = IF m \in PutAnswers THEN p.acks ELSE Append(p.acks, m)
  /\ q.to = TRUE
  /\ q.taken = p.taken \cup {<<m, i>>}
  /\ q.deferred = p.deferred
  /\ q.disk[PutEntries[m][i].key].state = PutEntries[m][i].state
  /\ q.later = p.later /\ PutPage(q)
  /\ PutContext(q.ctx)
  /\ q.ctx.all = p.ctx.all + 1 /\ q.ctx.acks = p.ctx.acks /\ q.ctx.err = p.ctx.err
  /\ q.ctx.stop = p.ctx.stop /\ q.ctx.out = p.ctx.out /\ q.ctx.told = p.ctx.told
  /\ q.ctx.errs = p.ctx.errs
  /\ q.ctx.stun = IF p.ctx.stop THEN p.ctx.stun + 1 ELSE p.ctx.stun

LEMMA PutLetsThrough ==
  ASSUME NEW p, PutPage(p), PutContext(p.ctx),
         NEW m \in PutMessages, NEW i \in 1 .. Put!Count(m)
  PROVE  PutLetThrough(p, m, i, Put!Accept(p, m, i))
<1> DEFINE q == Put!Accept(p, m, i)
           e == PutEntries[m][i]
           v == [state |-> e.state, val |-> e.val]
           c == [p.ctx EXCEPT !.all = @ + 1, !.stun = @ + 1]
<1>1. /\ q.disk = [p.disk EXCEPT ![e.key] = v] /\ q.later = p.later /\ PutPage(q)
  <2> HIDE DEF c
  <2>1. /\ PutPage(q)
        /\ q.graph = [p.graph EXCEPT ![e.key] = v]
        /\ q.disk = [p.disk EXCEPT ![e.key] = v]
        /\ q.later = p.later
        /\ q.rolled = IF m \in PutMisses /\ Put!Above(p.graph[e.key], e)
                      THEN p.rolled \cup {e.key} ELSE p.rolled
    BY PutAccepts, Zenon
  <2> QED
    BY <2>1
<1>2. /\ q.ctx = Put!Fire(c)
      /\ q.acks = IF m \in PutAnswers THEN p.acks ELSE Append(p.acks, m)
      /\ q.to = TRUE
      /\ q.taken = p.taken \cup {<<m, i>>}
      /\ q.deferred = p.deferred
  BY PutAcceptsRest
<1> HIDE DEF q
<1>3. q.disk[e.key].state = e.state
  <2>1. p.disk \in [PutKeys -> Versions] /\ e.key \in PutKeys
    BY EntryType DEF PutPage
  <2> QED
    BY <1>1, <2>1
<1>4. /\ PutContext(Put!Fire(c))
      /\ Put!Fire(c).all = p.ctx.all + 1 /\ Put!Fire(c).acks = p.ctx.acks
      /\ Put!Fire(c).err = p.ctx.err
      /\ Put!Fire(c).stop = p.ctx.stop /\ Put!Fire(c).out = p.ctx.out
      /\ Put!Fire(c).told = p.ctx.told /\ Put!Fire(c).errs = p.ctx.errs
      /\ Put!Fire(c).stun = IF p.ctx.stop THEN p.ctx.stun + 1 ELSE p.ctx.stun
  BY PutFiresEntry
<1> HIDE DEF c
<1> QED
  BY <1>1, <1>2, <1>3, <1>4 DEF PutLetThrough, q

(* What a call of ham leaves of the context it worked on.  *)
PutAlike(c, d) ==
  /\ d.stop = c.stop /\ d.err = c.err /\ d.told = c.told /\ d.out = c.out
  /\ d.acks = c.acks /\ d.errs = c.errs /\ d.stun >= c.stun

(* An entry let through before stays so.  *)
LEMMA PutStaysThrough ==
  ASSUME NEW p, NEW q, PutPage(p), PutGoesOn(p, q), Put!Kept, p.disk = p.graph,
         NEW c, NEW d, d.err = c.err, d.told = c.told,
         NEW x \in PutPairs, PutMarks(p.acks, x[1]) \subseteq PutMarks(q.acks, x[1]),
         p.deferred \subseteq q.deferred,
         store \in [PutKeys -> Versions], PutThrough(p, c, x)
  PROVE  PutThrough(q, d, x)
<1> DEFINE e == PutOf(x)
<1>1. e.key \in PutKeys /\ e.state \in Nat
  BY EntryType DEF PutPairs, PutOf
<1>2. p.rolled \subseteq q.rolled /\ q.disk = q.graph
  BY DEF PutGoesOn
<1>3. e.key \notin q.rolled => p.graph[e.key].state <= q.graph[e.key].state
  <2>1. p.graph[e.key] \in Versions /\ q.graph[e.key] \in Versions
    BY <1>1 DEF PutGoesOn, PutPage
  <2>2. e.key \notin q.rolled => ~ Put!Above(p.graph[e.key], q.graph[e.key])
    BY <1>1 DEF PutGoesOn
  <2> QED
    BY <2>1, <2>2 DEF Put!Above, Versions
<1>4. p.graph[e.key].state \in Int /\ q.graph[e.key].state \in Int
  BY <1>1 DEF PutGoesOn, PutPage, Versions
<1>5. e.key \in q.rolled \/ q.disk[e.key].state >= e.state
  BY <1>1, <1>2, <1>3, <1>4 DEF PutThrough
<1>6. PutIsStored(x, p.rolled) => PutIsStored(x, q.rolled)
  BY <1>2 DEF PutIsStored
<1>7. PutWaits(c, p.acks, x[1]) => PutWaits(d, q.acks, x[1])
  BY DEF PutWaits
<1> QED
  BY <1>5, <1>6, <1>7 DEF PutThrough

LEMMA PutHamsAnswering ==
  ASSUME acking \in Seq(PutAcked), store \in [PutKeys -> Versions],
         NEW p, NEW m \in PutMessages, PutAnswering(p, m), NEW i \in 1 .. Put!Count(m),
         p.ctx.told = <<>> \/ <<m, i>> \in p.deferred
  PROVE  LET q == Put!Ham(p, m, i)
         IN PutAnswering(q, m) /\ PutAlike(p.ctx, q.ctx) /\ p.deferred \subseteq q.deferred
<1> DEFINE e == PutEntries[m][i]
           q == Put!Ham(p, m, i)
<1>1. PutPage(p) /\ PutContext(p.ctx)
  <2>1. PutCtx(p, m, m) = p.ctx
    BY DEF PutCtx
  <2> QED
    BY <2>1 DEF PutAnswering
<1>2. p.ctx \in PutContexts /\ p.ctx.stun \in Nat
  BY <1>1 DEF PutContext, PutContexts
<1>3. PutGoesOn(p, q)
  BY <1>1, PutHams
<1>4. CASE e.state > put_now
  <2>1. q = [p EXCEPT !.later = @ \cup {<<m, i>>}, !.deferred = @ \cup {<<m, i>>}]
    BY <1>4 DEF Put!Ham
  <2>2. /\ q.ctx = p.ctx /\ q.acks = p.acks /\ q.to = p.to /\ q.taken = p.taken
        /\ q.later = p.later \cup {<<m, i>>} /\ q.deferred = p.deferred \cup {<<m, i>>}
        /\ PutPage(q)
    BY <1>3, <2>1 DEF PutGoesOn, PutPage, PutFields, PutAnswering
  <2> HIDE DEF q
  <2>3. \A n : PutCtx(q, m, n) = PutCtx(p, m, n)
    BY <2>2 DEF PutCtx
  <2>4. ASSUME Put!Kept, NEW x \in q.taken
        PROVE  PutThrough(q, PutCtx(q, m, x[1]), x)
    <3>1. x \in PutPairs /\ p.disk = p.graph /\ PutThrough(p, PutCtx(p, m, x[1]), x)
      BY <2>2, <2>4 DEF PutAnswering
    <3> QED
      BY <1>1, <1>3, <2>2, <2>3, <2>4, <3>1, PutStaysThrough DEF q
  <2>5. Put!Kept => q.disk = q.graph
    BY <1>3 DEF PutGoesOn, PutAnswering, q
  <2>6. PutAnswering(q, m)
    BY <2>2, <2>3, <2>4, <2>5 DEF PutAnswering
  <2> QED
    BY <1>2, <2>2, <2>6 DEF PutAlike, q
<1>5. CASE ~(e.state > put_now) /\ Put!Drops(e, p.graph[e.key], m \in PutMisses)
  <2>1. q = p
    BY <1>5 DEF Put!Ham
  <2> QED
    BY <1>2, <2>1 DEF PutAlike
<1>6. CASE ~(e.state > put_now) /\ ~ Put!Drops(e, p.graph[e.key], m \in PutMisses)
  <2> DEFINE v == [state |-> e.state, val |-> e.val]
  <2>1. q = Put!Accept(p, m, i)
    BY <1>6 DEF Put!Ham
  <2> HIDE DEF q
  <2>2. PutLetThrough(p, m, i, q)
    BY <1>1, <2>1, PutLetsThrough
  <2>3. /\ q.disk[e.key].state = e.state /\ q.later = p.later /\ PutPage(q)
        /\ q.acks = IF m \in PutAnswers THEN p.acks ELSE Append(p.acks, m)
        /\ q.to = TRUE
        /\ q.taken = p.taken \cup {<<m, i>>}
        /\ q.deferred = p.deferred
    BY <2>2 DEF PutLetThrough
  <2>4. /\ PutContext(q.ctx)
        /\ q.ctx.all = p.ctx.all + 1 /\ q.ctx.acks = p.ctx.acks /\ q.ctx.err = p.ctx.err
        /\ q.ctx.stop = p.ctx.stop /\ q.ctx.out = p.ctx.out /\ q.ctx.told = p.ctx.told
        /\ q.ctx.errs = p.ctx.errs
        /\ q.ctx.stun = IF p.ctx.stop THEN p.ctx.stun + 1 ELSE p.ctx.stun
    BY <2>2 DEF PutLetThrough
  <2>5. PutAlike(p.ctx, q.ctx)
    BY <1>2, <2>4 DEF PutAlike
  <2>6. /\ q.acks \in Seq(PutMessages \ PutAnswers)
        /\ \A n : PutMarks(p.acks, n) \subseteq PutMarks(q.acks, n)
        /\ \A n : Cardinality(PutMarks(q.acks, n)) =
                    Cardinality(PutMarks(p.acks, n)) +
                      (IF n = m /\ m \notin PutAnswers THEN 1 ELSE 0)
    <3>1. p.acks \in Seq(PutMessages \ PutAnswers)
      BY DEF PutAnswering
    <3>2. CASE m \in PutAnswers
      <4>1. q.acks = p.acks
        BY <2>3, <3>2
      <4>2. \A n : Cardinality(PutMarks(p.acks, n)) \in Nat
        <5>1. Len(p.acks) \in Nat
          BY <3>1
        <5> QED
          BY <5>1, PutMarksFinite
      <4> QED
        BY <3>1, <3>2, <4>1, <4>2
    <3>3. CASE m \notin PutAnswers
      <4>1. q.acks = Append(p.acks, m) /\ m \in PutMessages \ PutAnswers
        BY <2>3, <3>3
      <4> QED
        BY <3>1, <3>3, <4>1, PutMarksAppend
    <3> QED
      BY <3>2, <3>3
  <2>7. ASSUME NEW n \in PutMessages
        PROVE  PutContext(PutCtx(q, m, n)) /\ PutCounts(PutCtx(q, m, n), q.acks, n)
    <3>1. PutContext(PutCtx(p, m, n)) /\ PutCounts(PutCtx(p, m, n), p.acks, n)
      BY DEF PutAnswering
    <3>2. Len(p.acks) \in Nat /\ Len(acking) \in Nat
      BY DEF PutAnswering
    <3>3. Cardinality(PutMarks(p.acks, n)) \in Nat /\ Cardinality(PutSent(acking, n)) \in Nat
      BY <3>2, PutMarksFinite
    <3>4. CASE n = m
      <4>1. PutCtx(p, m, n) = p.ctx /\ PutCtx(q, m, n) = q.ctx
        BY <3>4 DEF PutCtx
      <4>2. p.ctx.all \in Nat /\ p.ctx.acks \in Nat
        BY <1>2 DEF PutContexts
      <4> DEFINE a == Cardinality(PutMarks(p.acks, m))
                 b == Cardinality(PutMarks(q.acks, m))
                 k == Cardinality(PutSent(acking, m))
      <4>3. a \in Nat /\ k \in Nat /\ b = a + (IF m \notin PutAnswers THEN 1 ELSE 0)
        BY <2>6, <3>3, <3>4
      <4>4. /\ p.ctx.acks + (a + k) <= p.ctx.all
            /\ m \notin PutAnswers /\ ~put_peers /\ reloads = 0 => p.ctx.acks + (a + k) = p.ctx.all
            /\ m \in PutAnswers => p.ctx.acks = 0
        BY <3>1, <3>4, <4>1 DEF PutCounts
      <4> HIDE DEF a, b, k
      <4>5. /\ q.ctx.acks + (b + k) <= q.ctx.all
            /\ m \notin PutAnswers /\ ~put_peers /\ reloads = 0 => q.ctx.acks + (b + k) = q.ctx.all
            /\ m \in PutAnswers => q.ctx.acks = 0
        <5>1. q.ctx.acks = p.ctx.acks /\ q.ctx.all = p.ctx.all + 1
          BY <2>4
        <5>2. CASE m \in PutAnswers
          BY <4>2, <4>3, <4>4, <5>1, <5>2
        <5>3. CASE m \notin PutAnswers
          BY <4>2, <4>3, <4>4, <5>1, <5>3
        <5> QED
          BY <5>2, <5>3
      <4>6. PutCounts(q.ctx, q.acks, m)
        BY <4>5 DEF PutCounts, b, k
      <4> QED
        BY <2>4, <3>4, <4>1, <4>6
    <3>5. CASE n # m
      <4>1. PutCtx(q, m, n) = PutCtx(p, m, n)
        BY <3>5 DEF PutCtx
      <4>2. Cardinality(PutMarks(q.acks, n)) = Cardinality(PutMarks(p.acks, n))
        BY <2>6, <3>3, <3>5
      <4> QED
        BY <3>1, <4>1, <4>2 DEF PutCounts
    <3> QED
      BY <3>4, <3>5
  <2>8. q.taken \subseteq PutPairs
    <3>1. <<m, i>> \in PutPairs
      <4>1. i \in Nat
        BY EntryType
      <4> QED
        BY <4>1 DEF PutPairs
    <3> QED
      BY <2>3, <3>1 DEF PutAnswering
  <2>9. ASSUME Put!Kept, NEW x \in q.taken
        PROVE  PutThrough(q, PutCtx(q, m, x[1]), x)
    <3>1. CASE x \in p.taken
      <4>1. x \in PutPairs /\ p.disk = p.graph /\ PutThrough(p, PutCtx(p, m, x[1]), x)
        BY <2>9, <3>1 DEF PutAnswering
      <4>2. /\ PutCtx(q, m, x[1]).err = PutCtx(p, m, x[1]).err
            /\ PutCtx(q, m, x[1]).told = PutCtx(p, m, x[1]).told
        BY <2>4 DEF PutCtx
      <4>3. PutGoesOn(p, q) /\ p.deferred \subseteq q.deferred
        BY <1>3, <2>3 DEF q
      <4> QED
        BY <1>1, <2>6, <2>9, <4>1, <4>2, <4>3, PutStaysThrough
    <3>2. CASE x = <<m, i>>
      <4>1. x[1] = m /\ PutOf(x) = e /\ PutCtx(q, m, x[1]) = q.ctx
        BY <3>2 DEF PutOf, PutCtx
      <4>2. q.disk[e.key].state = e.state
        BY <2>3
      <4>3. PutWaits(q.ctx, q.acks, m)
        <5>1. CASE m \in PutAnswers
          BY <5>1 DEF PutWaits
        <5>2. CASE m \notin PutAnswers
          <6>1. Len(p.acks) \in Nat /\ Len(q.acks) \in Nat
            BY <2>6 DEF PutAnswering
          <6>2. Cardinality(PutMarks(p.acks, m)) \in Nat
            BY <6>1, PutMarksFinite
          <6>3. Cardinality(PutMarks(q.acks, m)) # 0
            BY <2>6, <5>2, <6>2
          <6>4. PutMarks(q.acks, m) # {}
            BY <6>3, FS_EmptySet
          <6> QED
            BY <6>4 DEF PutWaits
        <5> QED
          BY <5>1, <5>2
      <4>4. q.ctx.told = <<"ok">> => x \in q.deferred
        <5>1. <<"ok">> # <<>>
          OBVIOUS
        <5> QED
          BY <2>3, <2>4, <3>2, <5>1
      <4> QED
        BY <4>1, <4>2, <4>3, <4>4, EntryType DEF PutThrough
    <3> QED
      BY <2>3, <2>9, <3>1, <3>2
  <2>10. Put!Kept => q.disk = q.graph
    BY <1>3 DEF PutGoesOn, PutAnswering, q
  <2>11. PutAnswering(q, m)
    <3>1. q.to = TRUE /\ q.later \subseteq q.deferred
      BY <2>3 DEF PutAnswering
    <3> QED
      BY <2>3, <2>6, <2>7, <2>8, <2>9, <2>10, <3>1 DEF PutAnswering
  <2> QED
    BY <2>3, <2>5, <2>11 DEF q
<1> QED
  BY <1>4, <1>5, <1>6

LEMMA PutWalksAnswering ==
  ASSUME acking \in Seq(PutAcked), store \in [PutKeys -> Versions],
         NEW p, NEW m \in PutMessages, PutAnswering(p, m), p.ctx.told = <<>>,
         NEW from \in Nat, NEW n \in Nat, from <= n, n <= Put!Count(m)
  PROVE  LET q == Put!Walked(p, from, n, m)
         IN PutAnswering(q, m) /\ PutAlike(p.ctx, q.ctx) /\ p.deferred \subseteq q.deferred
<1>0. PICK h : PutHistory(h, p, from, n, m)
  BY PutWalked
<1>1. /\ h[from] = p
      /\ \A j \in from + 1 .. n : h[j] = Put!Ham(h[j - 1], m, j)
      /\ Put!Walked(p, from, n, m) = h[n]
  BY <1>0 DEF PutHistory
<1> DEFINE Good(j) == /\ PutAnswering(h[j], m) /\ PutAlike(p.ctx, h[j].ctx)
                      /\ p.deferred \subseteq h[j].deferred
           Wrong == {j \in Nat : from <= j /\ j <= n /\ ~ Good(j)}
<1>2. Put!Count(m) \in Nat
  <2>1. PutEntries[m] \in Seq([key : PutKeys, val : Nat, state : Nat, valid : BOOLEAN])
    BY PeerAssumption DEF Put!PutAssumption
  <2> QED
    BY <2>1 DEF Put!Count
<1>3. \A q : PutAnswering(q, m) => q.ctx.stun \in Nat
  <2>1. \A q : PutCtx(q, m, m) = q.ctx
    BY DEF PutCtx
  <2> QED
    BY <2>1 DEF PutAnswering, PutContext, PutContexts
<1>4. Good(from)
  BY <1>1, <1>3 DEF PutAlike
<1>5. ASSUME NEW j \in from + 1 .. n, Good(j - 1)
      PROVE  Good(j)
  <2>1. j \in 1 .. Put!Count(m)
    BY <1>2
  <2>2. h[j] = Put!Ham(h[j - 1], m, j)
    BY <1>1
  <2> DEFINE o == h[j - 1]
             q == h[j]
  <2>3. PutAnswering(o, m) /\ PutAlike(p.ctx, o.ctx) /\ p.deferred \subseteq o.deferred
    BY <1>5
  <2>4. q = Put!Ham(o, m, j)
    BY <2>2
  <2> HIDE DEF o, q
  <2>5. o.ctx.told = <<>>
    BY <2>3 DEF PutAlike
  <2>6. PutAnswering(q, m) /\ PutAlike(o.ctx, q.ctx) /\ o.deferred \subseteq q.deferred
    BY <2>1, <2>3, <2>4, <2>5, PutHamsAnswering
  <2>7. PutAlike(p.ctx, q.ctx)
    BY <1>3, <2>3, <2>6 DEF PutAlike
  <2> QED
    BY <2>3, <2>6, <2>7 DEF q
<1> HIDE DEF Good
<1>6. Wrong = {}
  <2> SUFFICES ASSUME Wrong # {} PROVE FALSE
    OBVIOUS
  <2>1. PICK b \in Wrong : \A k \in Wrong : b <= k
    <3>1. Wrong \in SUBSET Nat
      OBVIOUS
    <3> HIDE DEF Wrong
    <3> QED
      BY <3>1, LeastNatural
  <2>2. b \in Nat /\ from <= b /\ b <= n /\ ~ Good(b) /\ b # from
    BY <1>4
  <2>3. b - 1 \notin Wrong
    BY <2>1, <2>2
  <2>4. Good(b - 1) /\ b \in from + 1 .. n
    BY <2>2, <2>3
  <2> QED
    BY <1>5, <2>2, <2>4
<1>7. Good(n)
  BY <1>6
<1> QED
  BY <1>1, <1>7 DEF Good

(* The end of the walk answers only if everything is stored.               *)
LEMMA PutEndsAnswering ==
  ASSUME acking \in Seq(PutAcked), NEW p, NEW q, NEW m \in PutMessages,
         PutAnswering(p, m), PutEnded(p.ctx, q.ctx),
         q = [f \in PutFields |-> q[f]],
         q.graph = p.graph, q.disk = p.disk, q.acks = p.acks, q.to = p.to,
         q.later = p.later, q.rolled = p.rolled, q.deferred = p.deferred,
         q.taken = p.taken
  PROVE  PutAnswering(q, m)
<1>1. /\ PutContext(p.ctx) /\ PutCounts(p.ctx, p.acks, m)
      /\ \A n \in PutMessages : n # m => PutCtx(q, m, n) = PutCtx(p, m, n)
      /\ PutCtx(q, m, m) = q.ctx /\ PutCtx(p, m, m) = p.ctx
  <2>1. PutCtx(q, m, m) = q.ctx /\ PutCtx(p, m, m) = p.ctx
    BY DEF PutCtx
  <2>2. \A n \in PutMessages : n # m => PutCtx(q, m, n) = PutCtx(p, m, n)
    BY DEF PutCtx
  <2> QED
    BY <2>1, <2>2 DEF PutAnswering
<1>2. PutPage(q)
  BY DEF PutAnswering, PutPage
<1>3. \A n \in PutMessages : PutContext(PutCtx(q, m, n)) /\ PutCounts(PutCtx(q, m, n), q.acks, n)
  BY <1>1 DEF PutAnswering, PutEnded, PutCounts
<1>4. ASSUME Put!Kept, NEW x \in q.taken
      PROVE  PutThrough(q, PutCtx(q, m, x[1]), x)
  <2>1. x \in PutPairs /\ PutThrough(p, PutCtx(p, m, x[1]), x) /\ x[1] \in PutMessages
    BY <1>4 DEF PutAnswering, PutPairs
  <2>2. CASE x[1] # m
    <3>1. PutCtx(q, m, x[1]) = PutCtx(p, m, x[1])
      BY <1>1, <2>1, <2>2
    <3> QED
      BY <2>1, <3>1 DEF PutThrough
  <2>3. CASE x[1] = m /\ p.ctx.stop
    <3>1. PutCtx(q, m, x[1]) = PutCtx(p, m, x[1])
      BY <1>1, <2>3 DEF PutEnded
    <3> QED
      BY <2>1, <3>1 DEF PutThrough
  <2>4. CASE x[1] = m /\ ~p.ctx.stop
    <3>1. /\ ~p.ctx.err /\ ~q.ctx.err
          /\ q.ctx.told = IF p.ctx.acks = p.ctx.all /\ p.ctx.acks > 0 THEN <<"ok">> ELSE <<>>
      BY <1>1, <2>4 DEF PutEnded, PutContext
    <3>2. PutThrough(p, p.ctx, x)
      BY <1>1, <2>1, <2>4
    <3>3. PutWaits(p.ctx, p.acks, m) => PutWaits(q.ctx, q.acks, m)
      BY <3>1 DEF PutWaits
    <3>4. ASSUME p.ctx.acks = p.ctx.all, p.ctx.acks > 0
          PROVE  ~PutWaits(p.ctx, p.acks, m)
      <4>1. Len(p.acks) \in Nat /\ Len(acking) \in Nat
        BY DEF PutAnswering
      <4> DEFINE a == Cardinality(PutMarks(p.acks, m))
                 k == Cardinality(PutSent(acking, m))
      <4>2. a \in Nat /\ k \in Nat /\ IsFiniteSet(PutMarks(p.acks, m))
            /\ IsFiniteSet(PutSent(acking, m))
        BY <4>1, PutMarksFinite
      <4>3. p.ctx.acks + (a + k) <= p.ctx.all /\ (m \in PutAnswers => p.ctx.acks = 0)
        BY <1>1 DEF PutCounts
      <4>4. p.ctx.acks \in Nat
        BY <1>1 DEF PutContext, PutContexts
      <4>5. a = 0 /\ k = 0 /\ m \notin PutAnswers
        <5> HIDE DEF a, k
        <5> QED
          BY <3>4, <4>2, <4>3, <4>4
      <4>6. PutMarks(p.acks, m) = {} /\ PutSent(acking, m) = {}
        BY <4>2, <4>5, FS_EmptySet
      <4> QED
        BY <3>1, <4>5, <4>6 DEF PutWaits
    <3>5. <<>> # <<"ok">>
      OBVIOUS
    <3>6. q.ctx.told = <<"ok">> => PutIsStored(x, p.rolled)
      BY <2>4, <3>1, <3>2, <3>4, <3>5 DEF PutThrough
    <3> QED
      BY <1>1, <2>4, <3>2, <3>3, <3>6 DEF PutThrough
  <2> QED
    BY <2>2, <2>3, <2>4
<1> QED
  BY <1>2, <1>3, <1>4 DEF PutAnswering

-----------------------------------------------------------------------------
PutAnswerType ==
  /\ acking \in Seq(PutAcked)
  /\ ctx \in [PutMessages -> PutContexts]
  /\ fails \in Nat

(* A message that is answered, or free of stuns, is walked to its end, no  *)
(* invalid entry is passed over, and without a failure, an entry put off,  *)
(* or an invalid one before the last, there is no error, and no stun       *)
(* stays.                                                                  *)
PutOrder(m) ==
  /\ put_at[m] <= Put!Count(m) => (1 .. put_at[m] - 1) \cap Put!Bad(m) = {}
  /\ Put!Bad(m) \ {Put!Count(m)} # {} => ctx[m].out = 0
  /\ ctx[m].stun = 0 \/ ctx[m].told # <<>> => put_at[m] >= Put!Count(m)
  /\ fails = 0 => ctx[m].errs = 0
  /\ fails = 0 /\ put_at[m] <= Put!Count(m) =>
       /\ ~ctx[m].err /\ ctx[m].told # <<"err">>
       /\ ctx[m].stop /\ (\A i \in 1 .. Put!Count(m) : <<m, i>> \notin deferred)
            => ctx[m].stun = 0

(* An entry let through, and the page, when no turn is taken.              *)
PutKnown(x) ==
  /\ PutOf(x).key \in put_rolled \/ disk[PutOf(x).key].state >= PutOf(x).state
  /\ PutIsStored(x, put_rolled) \/ PutWaits(ctx[x[1]], acks, x[1])
  /\ ctx[x[1]].told = <<"ok">> => x \in deferred \/ PutIsStored(x, put_rolled)

PutAnswered ==
  /\ \A n \in PutMessages : PutContext(ctx[n]) /\ PutCounts(ctx[n], acks, n)
  /\ acks \in Seq(PutMessages \ PutAnswers)
  /\ acks # <<>> => put_to
  /\ later \subseteq deferred
  /\ taken \subseteq PutPairs
  /\ Put!Kept => /\ disk = put_graph
                 /\ \A x \in taken : PutKnown(x)

PutNoError == fails = 0 => \A n \in 1 .. Len(acking) : ~acking[n].err

PutAnswersInv ==
  /\ PutInv /\ PutAnswerType /\ PutNoError /\ PutAnswered
  /\ \A m \in PutMessages : PutOrder(m)

LEMMA PutCountType ==
  ASSUME NEW m \in PutMessages
  PROVE  /\ Put!Count(m) \in Nat
         /\ Put!Bad(m) \subseteq 1 .. Put!Count(m)
<1>1. PutEntries[m] \in Seq([key : PutKeys, val : Nat, state : Nat, valid : BOOLEAN])
  BY PeerAssumption DEF Put!PutAssumption
<1> QED
  BY <1>1 DEF Put!Count, Put!Bad

(* The page as a turn on m finds it.                                       *)
LEMMA PutPeer ==
  ASSUME PutType, PutAnswered, NEW m \in PutMessages
  PROVE  /\ PutAnswering(Put!Peer(m), m)
         /\ Put!Peer(m).ctx = ctx[m]
         /\ Put!Peer(m).later = later /\ Put!Peer(m).deferred = deferred
<1> DEFINE p == Put!Peer(m)
<1>1. /\ p = [f \in PutFields |-> p[f]]
      /\ p.ctx = ctx[m]
      /\ p.graph = put_graph /\ p.disk = disk
      /\ p.acks = acks /\ p.to = put_to
      /\ p.later = later /\ p.rolled = put_rolled
      /\ p.deferred = deferred /\ p.taken = taken
      /\ \A n : PutCtx(p, m, n) = ctx[n]
  BY DEF Put!Peer, PutFields, PutCtx
<1> HIDE DEF p
<1>2. PutPage(p)
  BY <1>1 DEF PutType, PutPage
<1>3. \A x \in taken : PutKnown(x) => PutThrough(p, ctx[x[1]], x)
  BY <1>1 DEF PutKnown, PutThrough
<1>4. PutAnswering(p, m)
  BY <1>1, <1>2, <1>3 DEF PutAnswered, PutAnswering
<1> QED
  BY <1>1, <1>4 DEF p

(* What a turn on m leaves is what the next turn finds.                    *)
LEMMA PutBecomes ==
  ASSUME PutAnswerType, NEW q, NEW m \in PutMessages, PutAnswering(q, m),
         Put!Becomes(m, q), UNCHANGED <<acking, store, put_peers, reloads, offs, fails>>
  PROVE  /\ PutAnswerType' /\ PutAnswered'
         /\ ctx'[m] = q.ctx /\ \A n \in PutMessages \ {m} : ctx'[n] = ctx[n]
<1>1. /\ ctx' = [ctx EXCEPT ![m] = q.ctx]
      /\ put_graph' = q.graph /\ disk' = q.disk /\ acks' = q.acks /\ put_to' = q.to
      /\ later' = q.later /\ put_rolled' = q.rolled /\ deferred' = q.deferred
      /\ taken' = q.taken
  BY DEF Put!Becomes
<1>2. ctx'[m] = q.ctx /\ \A n \in PutMessages \ {m} : ctx'[n] = ctx[n]
  BY <1>1 DEF PutAnswerType
<1>3. q.ctx \in PutContexts
  <2>1. PutCtx(q, m, m) = q.ctx
    BY DEF PutCtx
  <2> QED
    BY <2>1 DEF PutAnswering, PutContext
<1>4. PutAnswerType'
  BY <1>1, <1>3 DEF PutAnswerType
<1>5. \A n \in PutMessages : ctx'[n] = PutCtx(q, m, n)
  BY <1>2 DEF PutCtx
<1>6. \A n \in PutMessages : PutContext(ctx'[n]) /\ PutCounts(ctx[n], acks, n)'
  BY <1>1, <1>5 DEF PutAnswering, PutCounts
<1>7. Put!Kept' <=> Put!Kept
  BY DEF Put!Kept
<1>8. ASSUME Put!Kept, NEW x \in q.taken
      PROVE  PutKnown(x)'
  <2>1. PutThrough(q, PutCtx(q, m, x[1]), x) /\ x[1] \in PutMessages
    BY <1>8 DEF PutAnswering, PutPairs
  <2> DEFINE c == PutCtx(q, m, x[1])
  <2> HIDE DEF c
  <2>2. PutThrough(q, c, x) /\ ctx'[x[1]] = c
    BY <1>5, <2>1 DEF c
  <2> QED
    BY <1>1, <2>2 DEF PutThrough, PutKnown, PutIsStored, PutWaits, PutOf
<1>9. /\ acks' \in Seq(PutMessages \ PutAnswers)
      /\ acks' # <<>> => put_to'
      /\ later' \subseteq deferred' /\ taken' \subseteq PutPairs
      /\ Put!Kept => disk' = put_graph'
  BY <1>1 DEF PutAnswering
<1>10. PutAnswered'
  BY <1>1, <1>6, <1>7, <1>8, <1>9 DEF PutAnswered
<1> QED
  BY <1>2, <1>4, <1>10

LEMMA PutTurnAnswers ==
  ASSUME PutAnswersInv, NEW m \in PutMessages, NEW from \in Nat,
         NEW n \in 1 .. Put!Count(m), put_at[m] < Put!Count(m),
         (1 .. from) \cap Put!Bad(m) = {}, Put!Turn(m, from, n), PutInv'
  PROVE  PutAnswersInv'
<1> DEFINE p == Put!Peer(m)
           to == IF n \in Put!Bad(m) THEN n - 1 ELSE n
           w == Put!Walked(p, from, to, m)
           q == IF n = Put!Count(m) THEN [w EXCEPT !.ctx = Put!Fire(@)] ELSE w
<1>1. /\ n \in from + 1 .. from + PutChunk
      /\ (from + 1 .. n - 1) \cap Put!Bad(m) = {}
      /\ put_at' = [put_at EXCEPT ![m] = n]
      /\ Put!Becomes(m, q)
      /\ UNCHANGED <<acking, store, put_peers, reloads, offs, fails>>
  BY DEF Put!Turn, Put!time
<1>2. /\ PutAnswering(p, m) /\ p.ctx = ctx[m] /\ p.deferred = deferred
      /\ acking \in Seq(PutAcked) /\ store \in [PutKeys -> Versions]
      /\ put_at \in [PutMessages -> Int]
  BY PutPeer DEF PutAnswersInv, PutInv, PutType, PutAnswerType
<1>3. /\ Put!Count(m) \in Nat /\ Put!Bad(m) \subseteq 1 .. Put!Count(m)
  BY PutCountType
<1>4. PutContext(ctx[m])
  <2>1. PutCtx(p, m, m) = p.ctx
    BY DEF PutCtx
  <2> QED
    BY <1>2, <2>1 DEF PutAnswering
<1>5. /\ PutOrder(m) /\ ctx[m].stun # 0 /\ ctx[m].told = <<>> /\ ctx[m].stun \in Nat
  <2>1. PutOrder(m)
    BY DEF PutAnswersInv
  <2>2. ~(put_at[m] >= Put!Count(m))
    BY <1>2, <1>3
  <2> QED
    BY <1>4, <2>1, <2>2 DEF PutOrder, PutContext, PutContexts
<1>6. to \in Nat /\ from <= to /\ to <= Put!Count(m)
  BY <1>1, <1>3
<1> HIDE DEF p
<1>7. PutAnswering(w, m) /\ PutAlike(ctx[m], w.ctx) /\ deferred \subseteq w.deferred
  <2> HIDE DEF to
  <2> QED
    BY <1>2, <1>5, <1>6, PutWalksAnswering
<1> HIDE DEF to, w
<1>8. PutContext(w.ctx) /\ w.ctx.stun \in Nat
  <2>1. PutCtx(w, m, m) = w.ctx
    BY DEF PutCtx
  <2> QED
    BY <1>7, <2>1 DEF PutAnswering, PutContext, PutContexts
<1>9. /\ PutAnswering(q, m) /\ w.deferred = q.deferred
      /\ n = Put!Count(m) => PutEnded(w.ctx, q.ctx)
      /\ n # Put!Count(m) => q.ctx = w.ctx
  <2>1. CASE n # Put!Count(m)
    BY <1>7, <2>1
  <2>2. CASE n = Put!Count(m)
    <3>1. q = [w EXCEPT !.ctx = Put!Fire(@)]
      BY <2>2
    <3> HIDE DEF q
    <3>2. /\ q = [f \in PutFields |-> q[f]] /\ q.ctx = Put!Fire(w.ctx)
          /\ q.graph = w.graph /\ q.disk = w.disk /\ q.acks = w.acks /\ q.to = w.to
          /\ q.later = w.later /\ q.rolled = w.rolled /\ q.deferred = w.deferred
          /\ q.taken = w.taken
      BY <1>7, <3>1 DEF PutAnswering, PutPage, PutFields
    <3>3. PutEnded(w.ctx, q.ctx)
      BY <1>8, <3>2, PutFiresEnd
    <3>4. PutAnswering(q, m)
      BY <1>2, <1>7, <3>2, <3>3, PutEndsAnswering
    <3> QED
      BY <2>2, <3>2, <3>3, <3>4
  <2> QED
    BY <2>1, <2>2
<1> HIDE DEF q
<1>10. /\ PutAnswerType'
       /\ PutAnswered'
       /\ ctx'[m] = q.ctx /\ \A k \in PutMessages \ {m} : ctx'[k] = ctx[k]
  <2>1. PutAnswerType
    BY DEF PutAnswersInv
  <2> QED
    BY <1>1, <1>9, <2>1, PutBecomes
<1>11. deferred \subseteq deferred'
  BY <1>1, <1>7, <1>9 DEF Put!Becomes
<1>12. ASSUME NEW k \in PutMessages
       PROVE  PutOrder(k)'
  <2>1. PutOrder(k)
    BY DEF PutAnswersInv
  <2>2. CASE k # m
    <3>1. ctx'[k] = ctx[k] /\ put_at'[k] = put_at[k] /\ fails' = fails
      BY <1>1, <1>2, <1>10, <2>2
    <3> QED
      BY <1>11, <2>1, <3>1 DEF PutOrder
  <2>3. CASE k = m
    <3>1. put_at'[m] = n /\ ctx'[m] = q.ctx /\ fails' = fails
      BY <1>1, <1>2, <1>10
    <3>2. (1 .. n - 1) \cap Put!Bad(m) = {}
      BY <1>1
    <3>0. fails = 0 => q.ctx.errs = 0
      <4>1. fails = 0 => ctx[m].errs = 0
        BY <1>5 DEF PutOrder
      <4>2. w.ctx.errs = ctx[m].errs
        BY <1>7 DEF PutAlike
      <4>3. q.ctx.errs = w.ctx.errs
        BY <1>9 DEF PutEnded
      <4> QED
        BY <4>1, <4>2, <4>3
    <3>3. CASE n # Put!Count(m)
      <4>1. /\ q.ctx.out = ctx[m].out /\ q.ctx.stun # 0 /\ q.ctx.told = <<>>
            /\ q.ctx.err = ctx[m].err /\ q.ctx.stop = ctx[m].stop
        BY <1>5, <1>7, <1>8, <1>9, <3>3 DEF PutAlike
      <4>2. <<>> # <<"err">>
        OBVIOUS
      <4>3. ASSUME fails = 0, ctx[m].stop,
                   \A i \in 1 .. Put!Count(m) : <<m, i>> \notin deferred'
            PROVE  FALSE
        BY <1>2, <1>3, <1>5, <1>11, <4>3 DEF PutOrder
      <4> QED
        BY <1>2, <1>3, <1>5, <2>3, <3>0, <3>1, <3>2, <4>1, <4>2, <4>3 DEF PutOrder
    <3>4. CASE n = Put!Count(m)
      <4>1. Put!Bad(m) \ {Put!Count(m)} = {}
        BY <1>3, <3>2, <3>4
      <4>2. n >= Put!Count(m)
        BY <1>3, <3>4
      <4>3. ASSUME fails = 0
            PROVE  /\ ~q.ctx.err /\ q.ctx.told # <<"err">>
                   /\ (\A i \in 1 .. Put!Count(m) : <<m, i>> \notin deferred')
                        => q.ctx.stun = 0
        <5>1. <<>> # <<"err">> /\ <<"ok">> # <<"err">>
          OBVIOUS
        <5>2. ~ctx[m].err
          BY <1>2, <1>3, <1>5, <4>3 DEF PutOrder
        <5>3. w.ctx.err = ctx[m].err /\ w.ctx.stop = ctx[m].stop /\ w.ctx.told = <<>>
          BY <1>5, <1>7 DEF PutAlike
        <5>4. CASE ctx[m].stop
          <6>1. q.ctx = w.ctx
            BY <1>9, <3>4, <5>3, <5>4 DEF PutEnded
          <6>2. ~ \A i \in 1 .. Put!Count(m) : <<m, i>> \notin deferred
            BY <1>2, <1>3, <1>5, <4>3, <5>4 DEF PutOrder
          <6> QED
            BY <1>11, <5>1, <5>2, <5>3, <6>1, <6>2
        <5>5. CASE ~ctx[m].stop
          BY <1>9, <3>4, <5>1, <5>3, <5>5 DEF PutEnded
        <5> QED
          BY <5>4, <5>5
      <4> QED
        BY <2>3, <3>0, <3>1, <3>2, <4>1, <4>2, <4>3 DEF PutOrder
    <3> QED
      BY <3>3, <3>4
  <2> QED
    BY <2>2, <2>3
<1>13. PutNoError'
  BY <1>1 DEF PutAnswersInv, PutNoError
<1> QED
  BY <1>10, <1>12, <1>13 DEF PutAnswersInv

LEMMA PutLateAnswers ==
  ASSUME PutAnswersInv, NEW m \in PutMessages, NEW i \in 1 .. Put!Count(m),
         Put!HamLater(m, i), PutInv'
  PROVE  PutAnswersInv'
<1> DEFINE o == Put!Peer(m)
           p == [o EXCEPT !.later = @ \ {<<m, i>>}]
           q == Put!Ham(p, m, i)
<1>1. /\ <<m, i>> \in later /\ Put!Becomes(m, q)
      /\ UNCHANGED <<acking, store, put_at, put_peers, reloads, offs, fails>>
  BY DEF Put!HamLater, Put!time
<1>2. /\ PutAnswering(o, m) /\ o.ctx = ctx[m] /\ o.deferred = deferred /\ o.later = later
      /\ acking \in Seq(PutAcked) /\ store \in [PutKeys -> Versions]
  BY PutPeer DEF PutAnswersInv, PutInv, PutType, PutAnswerType
<1>3. <<m, i>> \in deferred
  BY <1>1, <1>2 DEF PutAnswering
<1> HIDE DEF o
<1>4. /\ p = [f \in PutFields |-> p[f]]
      /\ p.ctx = o.ctx /\ p.graph = o.graph /\ p.disk = o.disk /\ p.acks = o.acks
      /\ p.to = o.to /\ p.rolled = o.rolled /\ p.deferred = o.deferred
      /\ p.taken = o.taken /\ p.later \subseteq o.later
  BY <1>2 DEF PutAnswering, PutPage, PutFields
<1> HIDE DEF p
<1>5. PutAnswering(p, m)
  <2>1. \A n : PutCtx(p, m, n) = PutCtx(o, m, n)
    BY <1>4 DEF PutCtx
  <2>2. PutPage(p)
    BY <1>2, <1>4 DEF PutAnswering, PutPage
  <2>3. \A x : \A c : PutThrough(o, c, x) => PutThrough(p, c, x)
    BY <1>4 DEF PutThrough
  <2>4. p.later \subseteq p.deferred
    BY <1>2, <1>4 DEF PutAnswering
  <2> QED
    BY <1>2, <1>4, <2>1, <2>2, <2>3, <2>4 DEF PutAnswering
<1>6. PutAnswering(q, m) /\ PutAlike(p.ctx, q.ctx) /\ p.deferred \subseteq q.deferred
  <2>1. <<m, i>> \in p.deferred
    BY <1>2, <1>3, <1>4
  <2> QED
    BY <1>2, <1>5, <2>1, PutHamsAnswering
<1> HIDE DEF q
<1>7. PutContext(p.ctx) /\ p.ctx.stun \in Nat /\ PutContext(q.ctx) /\ q.ctx.stun \in Nat
  <2>1. PutCtx(p, m, m) = p.ctx /\ PutCtx(q, m, m) = q.ctx
    BY DEF PutCtx
  <2> QED
    BY <1>5, <1>6, <2>1 DEF PutAnswering, PutContext, PutContexts
<1>8. /\ PutAnswerType'
      /\ PutAnswered'
      /\ ctx'[m] = q.ctx /\ \A k \in PutMessages \ {m} : ctx'[k] = ctx[k]
  <2>1. PutAnswerType
    BY DEF PutAnswersInv
  <2> QED
    BY <1>1, <1>6, <2>1, PutBecomes
<1>9. deferred \subseteq deferred'
  BY <1>1, <1>2, <1>4, <1>6 DEF Put!Becomes
<1>10. ASSUME NEW k \in PutMessages
       PROVE  PutOrder(k)'
  <2>1. PutOrder(k)
    BY DEF PutAnswersInv
  <2>2. CASE k # m
    <3>1. ctx'[k] = ctx[k] /\ put_at'[k] = put_at[k] /\ fails' = fails
      BY <1>1, <1>8, <2>2
    <3> QED
      BY <1>9, <2>1, <3>1 DEF PutOrder
  <2>3. CASE k = m
    <3>1. /\ put_at'[m] = put_at[m] /\ ctx'[m] = q.ctx /\ fails' = fails
          /\ q.ctx.out = ctx[m].out /\ q.ctx.told = ctx[m].told /\ q.ctx.err = ctx[m].err
          /\ q.ctx.errs = ctx[m].errs
          /\ q.ctx.stun = 0 => ctx[m].stun = 0
      BY <1>1, <1>2, <1>4, <1>6, <1>7, <1>8 DEF PutAlike
    <3>2. ~ \A j \in 1 .. Put!Count(m) : <<m, j>> \notin deferred'
      BY <1>3, <1>9
    <3> QED
      BY <2>1, <2>3, <3>1, <3>2 DEF PutOrder
  <2> QED
    BY <2>2, <2>3
<1>11. PutNoError'
  BY <1>1 DEF PutAnswersInv, PutNoError
<1> QED
  BY <1>8, <1>10, <1>11 DEF PutAnswersInv


(* The turn after an invalid entry.                                        *)
LEMMA PutErrorAnswers ==
  ASSUME PutAnswersInv, NEW m \in PutMessages, Put!PopError(m), PutInv'
  PROVE  PutAnswersInv'
<1> DEFINE c == Put!Fire([ctx[m] EXCEPT !.err = TRUE])
<1>1. /\ put_at[m] \in Put!Bad(m)
      /\ put_at' = [put_at EXCEPT ![m] = Put!Count(m) + 1]
      /\ ctx' = [ctx EXCEPT ![m] = c]
      /\ UNCHANGED <<put_graph, disk, acks, put_to, later, put_rolled, deferred, taken,
                     store, acking, put_peers, reloads, offs, fails>>
  BY DEF Put!PopError, Put!time, Put!data
<1>2. /\ ctx \in [PutMessages -> PutContexts] /\ put_at \in [PutMessages -> Int]
      /\ PutContext(ctx[m])
  BY DEF PutAnswersInv, PutAnswerType, PutInv, PutType, PutAnswered
<1>3. /\ PutContext(c)
      /\ c.all = ctx[m].all /\ c.acks = ctx[m].acks /\ c.out = ctx[m].out
      /\ c.told = ctx[m].told /\ c.stun = ctx[m].stun /\ c.err /\ c.errs = ctx[m].errs
  BY <1>2, PutFiresError
<1> HIDE DEF c
<1>4. /\ ctx'[m] = c /\ \A n \in PutMessages : n # m => ctx'[n] = ctx[n]
      /\ put_at'[m] = Put!Count(m) + 1
      /\ \A n \in PutMessages : n # m => put_at'[n] = put_at[n]
  BY <1>1, <1>2
<1>5. PutAnswerType'
  <2>1. c \in PutContexts
    BY <1>3 DEF PutContext
  <2> QED
    BY <1>1, <2>1 DEF PutAnswersInv, PutAnswerType
<1>6. \A n \in PutMessages :
        /\ PutContext(ctx'[n]) /\ ctx'[n].all = ctx[n].all /\ ctx'[n].acks = ctx[n].acks
        /\ ctx'[n].told = ctx[n].told /\ (ctx[n].err => ctx'[n].err)
  BY <1>3, <1>4 DEF PutAnswersInv, PutAnswered
<1>7. PutAnswered'
  <2>1. \A n \in PutMessages : PutCounts(ctx[n], acks, n) => PutCounts(ctx[n], acks, n)'
    BY <1>1, <1>6 DEF PutCounts
  <2>2. Put!Kept' <=> Put!Kept
    BY <1>1 DEF Put!Kept
  <2>3. ASSUME NEW x \in PutPairs, PutKnown(x)
        PROVE  PutKnown(x)'
    <3>1. x[1] \in PutMessages
      BY DEF PutPairs
    <3>2. PutWaits(ctx[x[1]], acks, x[1]) => PutWaits(ctx[x[1]], acks, x[1])'
      BY <1>1, <1>6, <3>1 DEF PutWaits
    <3> QED
      BY <1>1, <1>6, <2>3, <3>1, <3>2 DEF PutKnown, PutIsStored, PutOf
  <2> QED
    BY <1>1, <1>6, <2>1, <2>2, <2>3 DEF PutAnswersInv, PutAnswered
<1>8. ASSUME NEW n \in PutMessages
      PROVE  PutOrder(n)'
  <2>1. PutOrder(n)
    BY DEF PutAnswersInv
  <2>2. CASE n # m
    BY <1>1, <1>4, <2>1, <2>2 DEF PutOrder
  <2>3. CASE n = m
    <3>1. Put!Count(m) \in Nat
      BY PutCountType
    <3>2. Put!Count(m) + 1 >= Put!Count(m) /\ ~(Put!Count(m) + 1 <= Put!Count(m))
      BY <3>1
    <3> QED
      BY <1>1, <1>3, <1>4, <2>1, <2>3, <3>2 DEF PutOrder
  <2> QED
    BY <2>2, <2>3
<1>9. PutNoError'
  BY <1>1 DEF PutAnswersInv, PutNoError
<1> QED
  BY <1>5, <1>7, <1>8, <1>9 DEF PutAnswersInv

(* An acknowledgement: if it is answered with ok, everything else that is  *)
(* not stored would still have to be acknowledged.                         *)
LEMMA PutAckAnswers ==
  ASSUME PutAnswersInv, Put!Acknowledge, PutInv'
  PROVE  PutAnswersInv'
<1> DEFINE a == Head(acking)
           m == a.m
           c == Put!Ack(ctx[m], a.err)
<1>1. /\ acking # <<>> /\ ctx' = [ctx EXCEPT ![m] = c] /\ acking' = Tail(acking)
      /\ UNCHANGED <<put_graph, disk, acks, put_to, later, put_rolled, deferred, taken,
                     store, put_at, put_peers, reloads, offs, fails>>
  BY DEF Put!Acknowledge, Put!time, Put!data
<1>2. /\ ctx \in [PutMessages -> PutContexts] /\ acking \in Seq(PutAcked)
      /\ acks \in Seq(PutMessages \ PutAnswers) /\ fails \in Nat
  BY DEF PutAnswersInv, PutAnswerType, PutAnswered
<1>3. /\ acking' \in Seq(PutAcked) /\ Len(acking) \in Nat /\ Len(acking') = Len(acking) - 1
      /\ a = acking[1] /\ a \in PutAcked
      /\ \A n \in 1 .. Len(acking) - 1 : acking'[n] = acking[n + 1]
      /\ \A x : Cardinality(PutSent(acking, x)) =
                  Cardinality(PutSent(acking', x)) + (IF m = x THEN 1 ELSE 0)
  <2> HIDE DEF m, PutAcked
  <2>1. /\ Tail(acking) \in Seq(PutAcked) /\ Len(acking) \in Nat
        /\ Len(Tail(acking)) = Len(acking) - 1
        /\ Head(acking) = acking[1] /\ Head(acking) \in PutAcked
        /\ \A n \in 1 .. Len(acking) - 1 : Tail(acking)[n] = acking[n + 1]
    BY <1>1, <1>2, PutSentLess
  <2>2. \A x : Cardinality(PutSent(acking, x)) =
                  Cardinality(PutSent(Tail(acking), x)) + (IF m = x THEN 1 ELSE 0)
    BY <1>1, <1>2, PutSentLess DEF m
  <2> QED
    BY <1>1, <2>1, <2>2
<1>4. m \in PutMessages \ PutAnswers /\ a.err \in BOOLEAN /\ Len(acking) > 0
  BY <1>1, <1>2, <1>3 DEF PutAcked
<1> HIDE DEF a
<1>5. Len(acks) \in Nat /\ Len(acking') \in Nat
  BY <1>2, <1>3, <1>4
<1> DEFINE Waiting(x) == Cardinality(PutMarks(acks, x))
           Coming(x) == Cardinality(PutSent(acking, x))
           Left(x) == Cardinality(PutSent(acking', x))
<1>6. \A x : /\ Waiting(x) \in Nat /\ Coming(x) \in Nat /\ Left(x) \in Nat
             /\ Coming(x) = Left(x) + (IF m = x THEN 1 ELSE 0)
             /\ PutMarks(acks, x) # {} => Waiting(x) > 0
             /\ PutSent(acking', x) # {} => Left(x) > 0
  <2>1. \A x : /\ Waiting(x) \in Nat /\ Coming(x) \in Nat /\ Left(x) \in Nat
               /\ IsFiniteSet(PutMarks(acks, x)) /\ IsFiniteSet(PutSent(acking', x))
    BY <1>3, <1>5, PutMarksFinite
  <2>2. \A x : /\ Waiting(x) = 0 => PutMarks(acks, x) = {}
               /\ Left(x) = 0 => PutSent(acking', x) = {}
    BY <2>1, FS_EmptySet
  <2>3. \A x : Coming(x) = Left(x) + (IF m = x THEN 1 ELSE 0)
    BY <1>3
  <2> HIDE DEF Waiting, Coming, Left
  <2> QED
    BY <2>1, <2>2, <2>3
<1>7. \A n \in PutMessages :
        /\ PutContext(ctx[n]) /\ ctx[n].acks \in Nat /\ ctx[n].all \in Nat
        /\ ctx[n].acks + (Waiting(n) + Coming(n)) <= ctx[n].all
        /\ n \notin PutAnswers /\ ~put_peers /\ reloads = 0
             => ctx[n].acks + (Waiting(n) + Coming(n)) = ctx[n].all
        /\ n \in PutAnswers => ctx[n].acks = 0
  BY DEF PutAnswersInv, PutAnswered, PutCounts, PutContext, PutContexts
<1> HIDE DEF Waiting, Coming, Left
<1>8. ctx[m].acks < ctx[m].all
  BY <1>4, <1>6, <1>7
<1>9. /\ PutContext(c)
      /\ c.all = ctx[m].all /\ c.acks = ctx[m].acks + 1 /\ c.out = ctx[m].out
      /\ c.stun = ctx[m].stun /\ c.err = a.err /\ c.stop = (ctx[m].stop \/ a.err)
      /\ c.errs = ctx[m].errs + (IF a.err THEN 1 ELSE 0)
      /\ c.told = IF ctx[m].stun = 0 /\ ctx[m].acks + 1 = ctx[m].all
                  THEN <<IF a.err THEN "err" ELSE "ok">> ELSE ctx[m].told
  BY <1>4, <1>7, <1>8, PutAcks
<1> HIDE DEF c
<1>10. ctx'[m] = c /\ \A n \in PutMessages : n # m => ctx'[n] = ctx[n]
  BY <1>1, <1>2, <1>4
<1>11. PutAnswerType'
  <2>1. c \in PutContexts
    BY <1>9 DEF PutContext
  <2> QED
    BY <1>1, <1>2, <1>3, <2>1 DEF PutAnswerType
<1> HIDE DEF m
<1>12. ASSUME NEW n \in PutMessages
       PROVE  PutContext(ctx'[n]) /\ PutCounts(ctx[n], acks, n)'
  <2>1. /\ ctx'[n].acks + (Waiting(n) + Left(n)) <= ctx'[n].all
        /\ n \notin PutAnswers /\ ~put_peers /\ reloads = 0
             => ctx'[n].acks + (Waiting(n) + Left(n)) = ctx'[n].all
        /\ n \in PutAnswers => ctx'[n].acks = 0
    <3>1. CASE n = m
      BY <1>4, <1>6, <1>7, <1>9, <1>10, <3>1
    <3>2. CASE n # m
      <4>1. Coming(n) = Left(n) /\ Left(n) \in Nat
        BY <1>6, <3>2
      <4> QED
        BY <1>7, <1>10, <3>2, <4>1
    <3> QED
      BY <3>1, <3>2
  <2>2. PutContext(ctx'[n])
    BY <1>7, <1>9, <1>10
  <2> QED
    BY <1>1, <2>1, <2>2 DEF PutCounts, Waiting, Left
<1>13. ASSUME NEW n \in PutMessages, PutWaits(ctx[n], acks, n)
       PROVE  PutWaits(ctx[n], acks, n)'
  <2>1. CASE n \in PutAnswers \/ PutMarks(acks, n) # {}
    BY <1>1, <2>1 DEF PutWaits
  <2>2. ASSUME \A j \in 1 .. Len(acking) : acking[j].err, n = m \/ ctx[n].err
        PROVE  PutWaits(ctx[n], acks, n)'
    <3>1. \A j \in 1 .. Len(acking') : acking'[j].err
      BY <1>3, <1>5, <2>2
    <3>2. a.err
      BY <1>3, <1>4, <2>2
    <3>3. ctx'[n].err
      BY <1>9, <1>10, <2>2, <3>2
    <3> QED
      BY <3>1, <3>3 DEF PutWaits
  <2>3. ASSUME NEW i \in PutSent(acking, n), \A j \in i .. Len(acking) : acking[j].err
        PROVE  PutWaits(ctx[n], acks, n)'
    <3>1. i \in 1 .. Len(acking) /\ acking[i].m = n
      BY DEF PutSent
    <3>2. CASE i = 1
      <4>1. n = m
        BY <1>3, <3>1, <3>2 DEF m
      <4> QED
        BY <2>2, <2>3, <3>2, <4>1
    <3>3. CASE i # 1
      <4>1. i - 1 \in 1 .. Len(acking') /\ acking'[i - 1] = acking[i]
        BY <1>3, <3>1, <3>3
      <4>2. i - 1 \in PutSent(acking', n)
        BY <3>1, <4>1 DEF PutSent
      <4>3. \A j \in i - 1 .. Len(acking') : acking'[j].err
        <5>1. ASSUME NEW j \in i - 1 .. Len(acking')
              PROVE  acking'[j].err
          <6>1. j + 1 \in i .. Len(acking) /\ j \in 1 .. Len(acking) - 1
            BY <1>3, <3>1, <4>1
          <6> QED
            BY <1>3, <2>3, <6>1
        <5> QED
          BY <5>1
      <4> QED
        BY <4>2, <4>3 DEF PutWaits
    <3> QED
      BY <3>2, <3>3
  <2> QED
    BY <1>13, <2>1, <2>2, <2>3 DEF PutWaits
<1>14. ASSUME ctx[m].acks + 1 = ctx[m].all, ~a.err
       PROVE  ~PutWaits(ctx[m], acks, m)
  <2>1. Waiting(m) = 0 /\ Left(m) = 0
    BY <1>4, <1>6, <1>7, <1>14
  <2>2. PutMarks(acks, m) = {} /\ PutSent(acking', m) = {}
    BY <1>6, <2>1
  <2>3. ASSUME NEW i \in PutSent(acking, m)
        PROVE  i = 1
    <3>1. i \in 1 .. Len(acking) /\ acking[i].m = m
      BY DEF PutSent
    <3>2. i # 1 => i - 1 \in PutSent(acking', m)
      <4>1. i # 1 => i - 1 \in 1 .. Len(acking') /\ acking'[i - 1] = acking[i]
        BY <1>3, <3>1
      <4> QED
        BY <3>1, <4>1 DEF PutSent
    <3> QED
      BY <2>2, <3>2
  <2>4. 1 \in 1 .. Len(acking) /\ ~acking[1].err
    BY <1>3, <1>4, <1>14
  <2> QED
    BY <1>4, <2>2, <2>3, <2>4 DEF PutWaits
<1>15. ASSUME NEW x \in PutPairs, PutKnown(x)
       PROVE  PutKnown(x)'
  <2>1. x[1] \in PutMessages
    BY DEF PutPairs
  <2>2. PutIsStored(x, put_rolled)' <=> PutIsStored(x, put_rolled)
    BY <1>1 DEF PutIsStored, PutOf
  <2>3. ctx'[x[1]].told = <<"ok">> =>
          ctx[x[1]].told = <<"ok">> \/ ~PutWaits(ctx[x[1]], acks, x[1])
    <3>1. <<"err">> # <<"ok">>
      OBVIOUS
    <3>2. CASE x[1] = m
      BY <1>9, <1>10, <1>14, <3>1, <3>2
    <3>3. CASE x[1] # m
      BY <1>10, <2>1, <3>3
    <3> QED
      BY <3>2, <3>3
  <2> QED
    BY <1>1, <1>13, <1>15, <2>1, <2>2, <2>3 DEF PutKnown, PutOf
<1>16. PutAnswered'
  <2>1. Put!Kept' <=> Put!Kept
    BY <1>1 DEF Put!Kept
  <2> QED
    BY <1>1, <1>12, <1>15, <2>1 DEF PutAnswersInv, PutAnswered
<1>17. PutNoError'
  <2>1. ASSUME fails = 0, NEW n \in 1 .. Len(acking')
        PROVE  ~acking'[n].err
    <3>1. n + 1 \in 1 .. Len(acking) /\ acking'[n] = acking[n + 1]
      BY <1>3
    <3> QED
      BY <2>1, <3>1 DEF PutAnswersInv, PutNoError
  <2> QED
    BY <1>1, <2>1 DEF PutNoError
<1>18. ASSUME NEW n \in PutMessages
       PROVE  PutOrder(n)'
  <2>1. PutOrder(n)
    BY DEF PutAnswersInv
  <2>2. CASE n # m
    BY <1>1, <1>10, <2>1, <2>2 DEF PutOrder
  <2>3. CASE n = m
    <3>1. fails = 0 => ~a.err
      <4>1. 1 \in 1 .. Len(acking)
        BY <1>3, <1>4
      <4> QED
        BY <1>3, <4>1 DEF PutAnswersInv, PutNoError
    <3>2. c.stun = 0 \/ c.told # <<>> => ctx[m].stun = 0 \/ ctx[m].told # <<>>
      BY <1>9
    <3>3. ~a.err => /\ c.told # <<"err">> \/ ctx[m].told = <<"err">>
                    /\ c.stop = ctx[m].stop
      <4>1. <<"ok">> # <<"err">>
        OBVIOUS
      <4>2. ~a.err => c.told = <<"ok">> \/ c.told = ctx[m].told
        <5>1. ~a.err => <<IF a.err THEN "err" ELSE "ok">> = <<"ok">>
          OBVIOUS
        <5> QED
          BY <1>9, <5>1
      <4>3. c.stop = (ctx[m].stop \/ a.err) /\ ctx[m].stop \in BOOLEAN
        BY <1>4, <1>9, <1>2 DEF PutContexts
      <4> QED
        BY <4>1, <4>2, <4>3
    <3>5. ~a.err => c.errs = ctx[m].errs
      <4>1. ctx[m].errs \in Nat
        BY <1>2, <1>4 DEF PutContexts
      <4> QED
        BY <1>9, <4>1
    <3>4. ctx'[n] = c /\ c.out = ctx[m].out /\ c.err = a.err /\ c.stun = ctx[m].stun
      BY <1>9, <1>10, <2>3
    <3> QED
      BY <1>1, <2>1, <2>3, <3>1, <3>2, <3>3, <3>4, <3>5 DEF PutOrder
  <2> QED
    BY <2>2, <2>3
<1> QED
  BY <1>11, <1>16, <1>17, <1>18 DEF PutAnswersInv

(* The adapter's timer: what is written has all that was let through; what *)
(* could not be written is answered with an error behind all others.       *)
LEMMA PutFlushAnswers ==
  ASSUME PutAnswersInv, NEW err \in BOOLEAN, Put!Flush(err), PutInv'
  PROVE  PutAnswersInv'
<1> DEFINE u == [i \in 1 .. Len(acks) |-> [m |-> acks[i], err |-> err]]
<1>1. /\ put_to /\ put_to' = FALSE
      /\ fails' = (IF err THEN fails + 1 ELSE fails)
      /\ store' = (IF err THEN store ELSE disk)
      /\ acking' = (IF ~err /\ put_peers THEN acking ELSE acking \o u)
      /\ acks' = <<>>
      /\ UNCHANGED <<put_graph, disk, later, put_rolled, deferred, taken, ctx,
                     put_at, put_peers, reloads, offs>>
  BY DEF Put!Flush
<1>2. /\ ctx \in [PutMessages -> PutContexts] /\ acking \in Seq(PutAcked)
      /\ acks \in Seq(PutMessages \ PutAnswers) /\ fails \in Nat
  BY DEF PutAnswersInv, PutAnswerType, PutAnswered
<1> DEFINE t == acking \o u
<1>3. /\ t \in Seq(PutAcked) /\ Len(acking) \in Nat /\ Len(acks) \in Nat
      /\ Len(t) = Len(acking) + Len(acks)
      /\ \A n \in 1 .. Len(acking) : t[n] = acking[n]
      /\ \A n \in 1 .. Len(acks) : t[Len(acking) + n].m = acks[n]
                                   /\ t[Len(acking) + n].err = err
  <2>1. /\ t \in Seq(PutAcked) /\ Len(acking) \in Nat /\ Len(acks) \in Nat
        /\ Len(t) = Len(acking) + Len(acks)
        /\ \A n \in 1 .. Len(acking) : t[n] = acking[n]
        /\ \A n \in 1 .. Len(acks) : t[Len(acking) + n] = [m |-> acks[n], err |-> err]
    BY <1>2, PutSentMore, Zenon
  <2>2. ASSUME NEW n \in 1 .. Len(acks)
        PROVE  t[Len(acking) + n].m = acks[n] /\ t[Len(acking) + n].err = err
    <3> DEFINE e == [m |-> acks[n], err |-> err]
    <3>1. t[Len(acking) + n] = e
      BY <2>1
    <3>2. e.m = acks[n] /\ e.err = err
      OBVIOUS
    <3> HIDE DEF t, e
    <3> QED
      BY <3>1, <3>2
  <2> HIDE DEF t
  <2> QED
    BY <2>1, <2>2
<1>4. acking' = IF ~err /\ put_peers THEN acking ELSE t
  BY <1>1
<1> HIDE DEF t, u
<1>5. \A x : Cardinality(PutSent(t, x)) =
               Cardinality(PutSent(acking, x)) + Cardinality(PutMarks(acks, x))
  <2>1. \A n \in 1 .. Len(acking) : t[n].m = acking[n].m
    BY <1>3
  <2>2. \A n \in 1 .. Len(acks) : t[Len(acking) + n].m = acks[n]
    BY <1>3
  <2> QED
    BY <1>3, <2>1, <2>2, PutSentCounts
<1>6. \A x : PutMarks(acks', x) = {} /\ Cardinality(PutMarks(acks', x)) = 0
  <2>1. \A x : PutMarks(acks', x) = {}
    BY <1>1 DEF PutMarks
  <2> QED
    BY <2>1, FS_EmptySet
<1>7. ASSUME NEW n \in PutMessages
      PROVE  PutCounts(ctx[n], acks, n)'
  <2> DEFINE a == Cardinality(PutMarks(acks, n))
             k == Cardinality(PutSent(acking, n))
             l == Cardinality(PutSent(acking', n))
  <2>1. /\ ctx[n].acks + (a + k) <= ctx[n].all
        /\ n \notin PutAnswers /\ ~put_peers /\ reloads = 0 => ctx[n].acks + (a + k) = ctx[n].all
        /\ n \in PutAnswers => ctx[n].acks = 0
        /\ ctx[n].acks \in Nat /\ ctx[n].all \in Nat
    BY DEF PutAnswersInv, PutAnswered, PutCounts, PutContext, PutContexts
  <2>2. a \in Nat /\ k \in Nat
    BY <1>3, PutMarksFinite
  <2>3. l = a + k \/ (put_peers /\ l = k)
    <3>1. CASE acking' = acking /\ put_peers
      BY <3>1
    <3>2. CASE acking' = t
      <4>1. l = k + a
        BY <1>5, <3>2
      <4> HIDE DEF a, k, l
      <4> QED
        BY <2>2, <4>1
    <3> QED
      BY <1>4, <3>1, <3>2
  <2> HIDE DEF a, k, l
  <2>4. /\ ctx[n].acks + (0 + l) <= ctx[n].all
        /\ n \notin PutAnswers /\ ~put_peers /\ reloads = 0 => ctx[n].acks + (0 + l) = ctx[n].all
    BY <2>1, <2>2, <2>3
  <2> QED
    BY <1>1, <1>6, <2>1, <2>4 DEF PutCounts, l
<1>8. PutAnswerType'
  <2>1. acking' \in Seq(PutAcked)
    BY <1>2, <1>3, <1>4
  <2>2. fails' \in Nat
    BY <1>1, <1>2
  <2>3. UNCHANGED <<reloads, offs, ctx, taken, deferred, put_at>>
    BY <1>1
  <2> QED
    BY <2>1, <2>2, <2>3 DEF PutAnswersInv, PutAnswerType
<1>9. ASSUME err, NEW n \in PutMessages, PutWaits(ctx[n], acks, n)
      PROVE  PutWaits(ctx[n], acks, n)'
  <2>1. acking' = t
    BY <1>4, <1>9
  <2>2. \A j \in Len(acking) + 1 .. Len(t) : t[j].err
    <3>1. ASSUME NEW j \in Len(acking) + 1 .. Len(t)
          PROVE  t[j].err
      <4>1. j - Len(acking) \in 1 .. Len(acks) /\ j = Len(acking) + (j - Len(acking))
        BY <1>3
      <4> QED
        BY <1>3, <1>9, <4>1
    <3> QED
      BY <3>1
  <2>3. CASE n \in PutAnswers
    BY <2>3 DEF PutWaits
  <2>4. ASSUME NEW i \in PutMarks(acks, n)
        PROVE  PutWaits(ctx[n], acks, n)'
    <3>1. i \in 1 .. Len(acks) /\ acks[i] = n
      BY DEF PutMarks
    <3>2. Len(acking) + i \in PutSent(t, n)
      BY <1>3, <3>1 DEF PutSent
    <3>3. \A j \in Len(acking) + i .. Len(t) : t[j].err
      BY <1>3, <2>2, <3>1
    <3> QED
      BY <2>1, <3>2, <3>3 DEF PutWaits
  <2>5. ASSUME NEW i \in PutSent(acking, n), \A j \in i .. Len(acking) : acking[j].err
        PROVE  PutWaits(ctx[n], acks, n)'
    <3>1. i \in 1 .. Len(acking) /\ acking[i].m = n
      BY DEF PutSent
    <3>2. i \in PutSent(t, n)
      BY <1>3, <3>1 DEF PutSent
    <3>3. \A j \in i .. Len(t) : t[j].err
      <4>1. ASSUME NEW j \in i .. Len(t)
            PROVE  t[j].err
        <5>1. j \in i .. Len(acking) \/ j \in Len(acking) + 1 .. Len(t)
          BY <1>3, <3>1
        <5>2. j \in i .. Len(acking) => t[j] = acking[j]
          BY <1>3, <3>1
        <5> QED
          BY <2>2, <2>5, <5>1, <5>2
      <4> QED
        BY <4>1
    <3> QED
      BY <2>1, <3>2, <3>3 DEF PutWaits
  <2>6. CASE ctx[n].err /\ \A j \in 1 .. Len(acking) : acking[j].err
    <3>1. ASSUME NEW j \in 1 .. Len(t)
          PROVE  t[j].err
      <4>1. j \in 1 .. Len(acking) \/ j \in Len(acking) + 1 .. Len(t)
        BY <1>3
      <4>2. j \in 1 .. Len(acking) => t[j] = acking[j]
        BY <1>3
      <4> QED
        BY <2>2, <2>6, <4>1, <4>2
    <3> QED
      BY <1>1, <2>1, <2>6, <3>1 DEF PutWaits
  <2> QED
    BY <1>9, <2>3, <2>4, <2>5, <2>6 DEF PutWaits
<1>10. ASSUME NEW x \in PutPairs, PutKnown(x)
       PROVE  PutKnown(x)'
  <2>1. x[1] \in PutMessages
    BY DEF PutPairs
  <2>2. CASE err
    <3>1. PutIsStored(x, put_rolled)' <=> PutIsStored(x, put_rolled)
      BY <1>1, <2>2 DEF PutIsStored, PutOf
    <3> QED
      BY <1>1, <1>9, <1>10, <2>1, <2>2, <3>1 DEF PutKnown, PutOf
  <2>3. CASE ~err
    <3>1. PutIsStored(x, put_rolled)'
      BY <1>1, <1>10, <2>3 DEF PutIsStored, PutKnown, PutOf
    <3> QED
      BY <1>1, <1>10, <3>1 DEF PutKnown, PutOf
  <2> QED
    BY <2>2, <2>3
<1>11. PutAnswered'
  <2>1. Put!Kept' <=> Put!Kept
    BY <1>1 DEF Put!Kept
  <2>2. acks' \in Seq(PutMessages \ PutAnswers)
    BY <1>1
  <2> QED
    BY <1>1, <1>7, <1>10, <2>1, <2>2 DEF PutAnswersInv, PutAnswered
<1>12. fails' = 0 => fails = 0 /\ ~err
  BY <1>1, <1>2
<1>13. PutNoError'
  <2>1. ASSUME fails' = 0, NEW n \in 1 .. Len(acking')
        PROVE  ~acking'[n].err
    <3>1. \A k \in 1 .. Len(acking) : ~acking[k].err
      BY <1>12, <2>1 DEF PutAnswersInv, PutNoError
    <3>2. ASSUME NEW k \in 1 .. Len(t)
          PROVE  ~t[k].err
      <4>1. CASE k \in 1 .. Len(acking)
        BY <1>3, <3>1, <4>1
      <4>2. CASE k \notin 1 .. Len(acking)
        <5>1. k - Len(acking) \in 1 .. Len(acks) /\ k = Len(acking) + (k - Len(acking))
          BY <1>3, <4>2
        <5> QED
          BY <1>3, <1>12, <2>1, <5>1
      <4> QED
        BY <4>1, <4>2
    <3> QED
      BY <1>4, <3>1, <3>2
  <2> QED
    BY <2>1 DEF PutNoError
<1>14. \A n \in PutMessages : PutOrder(n)'
  BY <1>1, <1>12 DEF PutAnswersInv, PutOrder
<1> QED
  BY <1>8, <1>11, <1>13, <1>14 DEF PutAnswersInv

(* The page is loaded again, or the node is off: nothing is told after it. *)
LEMMA PutForgetsAnswers ==
  ASSUME PutAnswersInv, Put!Reload \/ Put!Off, PutInv'
  PROVE  PutAnswersInv'
<1>1. /\ ctx \in [PutMessages -> PutContexts] /\ acking \in Seq(PutAcked)
      /\ acks \in Seq(PutMessages \ PutAnswers) /\ put_at \in [PutMessages -> Int]
      /\ reloads \in Nat /\ offs \in Nat
  BY DEF PutAnswersInv, PutAnswerType, PutAnswered, PutInv, PutType
<1>2. CASE Put!Reload
  <2>1. /\ reloads' = reloads + 1 /\ acks' = <<>> /\ acking' = <<>> /\ later' = {}
        /\ put_at' = [m \in PutMessages |-> IF put_at[m] = -1 THEN -1 ELSE Put!Count(m) + 1]
        /\ UNCHANGED <<fails, ctx, deferred, taken>>
    BY <1>2 DEF Put!Reload
  <2>2. ~Put!Kept' /\ reloads' # 0
    BY <1>1, <2>1 DEF Put!Kept
  <2>3. PutAnswerType' /\ PutNoError'
    BY <2>1 DEF PutAnswersInv, PutAnswerType, PutNoError
  <2>4. ASSUME NEW n \in PutMessages
        PROVE  PutCounts(ctx[n], acks, n)'
    <3>1. PutMarks(acks', n) = {} /\ PutSent(acking', n) = {}
      BY <2>1 DEF PutMarks, PutSent
    <3>2. Cardinality(PutMarks(acks', n)) = 0 /\ Cardinality(PutSent(acking', n)) = 0
      BY <3>1, FS_EmptySet
    <3> DEFINE a == Cardinality(PutMarks(acks, n))
               k == Cardinality(PutSent(acking, n))
    <3>3. /\ ctx[n].acks + (a + k) <= ctx[n].all
          /\ n \in PutAnswers => ctx[n].acks = 0
          /\ ctx[n].acks \in Nat /\ ctx[n].all \in Nat
      BY DEF PutAnswersInv, PutAnswered, PutCounts, PutContext, PutContexts
    <3>4. a \in Nat /\ k \in Nat
      <4>1. Len(acks) \in Nat /\ Len(acking) \in Nat
        BY <1>1
      <4> QED
        BY <4>1, PutMarksFinite
    <3> HIDE DEF a, k
    <3>5. ctx[n].acks + (0 + 0) <= ctx[n].all
      BY <3>3, <3>4
    <3> QED
      BY <2>1, <2>2, <3>2, <3>3, <3>5 DEF PutCounts
  <2>5. PutAnswered'
    BY <2>1, <2>2, <2>4 DEF PutAnswersInv, PutAnswered
  <2>6. ASSUME NEW n \in PutMessages
        PROVE  PutOrder(n)'
    <3>1. Put!Count(n) \in Nat /\ put_at[n] \in Int
      BY <1>1, PutCountType
    <3>2. CASE put_at[n] = -1
      <4>1. put_at'[n] = put_at[n]
        BY <2>1, <3>2
      <4> QED
        BY <2>1, <4>1 DEF PutAnswersInv, PutOrder
    <3>3. CASE put_at[n] # -1
      <4>1. put_at'[n] = Put!Count(n) + 1
        BY <2>1, <3>3
      <4>2. ~(put_at'[n] <= Put!Count(n)) /\ put_at'[n] >= Put!Count(n)
        BY <3>1, <4>1
      <4> QED
        BY <2>1, <4>2 DEF PutAnswersInv, PutOrder
    <3> QED
      BY <3>2, <3>3
  <2> QED
    BY <2>3, <2>5, <2>6 DEF PutAnswersInv
<1>3. CASE Put!Off
  <2>1. /\ offs' = offs + 1
        /\ UNCHANGED <<put_at, later, acks, put_to, acking, ctx, fails, reloads, put_peers,
                       disk, store, put_rolled, deferred, taken>>
    BY <1>3 DEF Put!Off, Put!pending
  <2>2. ~Put!Kept'
    BY <1>1, <2>1 DEF Put!Kept
  <2>3. PutAnswerType' /\ PutNoError'
    BY <2>1 DEF PutAnswersInv, PutAnswerType, PutNoError
  <2>4. \A n \in PutMessages : PutCounts(ctx[n], acks, n) => PutCounts(ctx[n], acks, n)'
    BY <2>1 DEF PutCounts
  <2>5. PutAnswered'
    BY <2>1, <2>2, <2>4 DEF PutAnswersInv, PutAnswered
  <2>6. \A n \in PutMessages : PutOrder(n)'
    BY <2>1 DEF PutAnswersInv, PutOrder
  <2> QED
    BY <2>3, <2>5, <2>6 DEF PutAnswersInv
<1> QED
  BY <1>2, <1>3

LEMMA PutAnswersStep ==
  ASSUME PutAnswersInv, [Put!Next]_(Put!vars)
  PROVE  PutAnswersInv'
<1>1. PutInv'
  BY PutStep DEF PutAnswersInv
<1>2. ASSUME NEW m \in PutMessages, NEW n \in 1 .. Put!Count(m), Put!Put(m, n)
      PROVE  PutAnswersInv'
  <2>1. put_at[m] = -1 /\ Put!Turn(m, 0, n) /\ Put!Count(m) \in Nat
    BY <1>2, PutCountType DEF Put!Put
  <2>2. (1 .. 0) \cap Put!Bad(m) = {} /\ put_at[m] < Put!Count(m)
    BY <2>1
  <2> QED
    BY <1>1, <2>1, <2>2, PutTurnAnswers
<1>3. ASSUME NEW m \in PutMessages, NEW n \in 1 .. Put!Count(m), Put!Pop(m, n)
      PROVE  PutAnswersInv'
  <2>1. /\ put_at[m] \in 1 .. Put!Count(m) - 1 /\ put_at[m] \notin Put!Bad(m)
        /\ Put!Turn(m, put_at[m], n) /\ Put!Count(m) \in Nat
    BY <1>3, PutCountType DEF Put!Pop
  <2>2. (1 .. put_at[m] - 1) \cap Put!Bad(m) = {}
    BY <2>1 DEF PutAnswersInv, PutOrder
  <2>3. (1 .. put_at[m]) \cap Put!Bad(m) = {} /\ put_at[m] < Put!Count(m) /\ put_at[m] \in Nat
    BY <2>1, <2>2
  <2> QED
    BY <1>1, <2>1, <2>3, PutTurnAnswers
<1>4. CASE Put!Tick \/ UNCHANGED Put!vars
  <2>1. UNCHANGED <<put_graph, disk, acks, put_to, later, put_rolled, deferred, taken, ctx,
                    store, acking, put_at, put_peers, reloads, offs, fails>>
    BY <1>4 DEF Put!Tick, Put!vars, Put!time, Put!data, Put!pending
  <2>2. PutAnswerType' /\ PutNoError'
    BY <2>1 DEF PutAnswersInv, PutAnswerType, PutNoError
  <2>3. \A n \in PutMessages : PutCounts(ctx[n], acks, n) => PutCounts(ctx[n], acks, n)'
    BY <2>1 DEF PutCounts
  <2>4. \A x : PutKnown(x) => PutKnown(x)'
    BY <2>1 DEF PutKnown, PutIsStored, PutWaits, PutOf
  <2>5. PutAnswered'
    BY <2>1, <2>3, <2>4 DEF PutAnswersInv, PutAnswered, Put!Kept
  <2>6. \A n \in PutMessages : PutOrder(n)'
    BY <2>1 DEF PutAnswersInv, PutOrder
  <2> QED
    BY <1>1, <2>2, <2>5, <2>6 DEF PutAnswersInv
<1> QED
  BY <1>1, <1>2, <1>3, <1>4, PutLateAnswers, PutErrorAnswers, PutAckAnswers,
     PutFlushAnswers, PutForgetsAnswers DEF Put!Next, Put!Turns

LEMMA PutAnswersInit == Put!Init => PutAnswersInv
<1> SUFFICES ASSUME Put!Init PROVE PutAnswersInv
  OBVIOUS
<1>1. /\ put_graph = disk /\ ctx = [m \in PutMessages |-> Put!Fresh]
      /\ put_at = [m \in PutMessages |-> -1] /\ later = {} /\ acks = <<>>
      /\ acking = <<>> /\ fails = 0 /\ deferred = {} /\ taken = {}
  BY DEF Put!Init
<1>2. /\ Put!Fresh.all = 0 /\ Put!Fresh.acks = 0 /\ Put!Fresh.stun = 1
      /\ Put!Fresh.err = FALSE /\ Put!Fresh.stop = FALSE /\ Put!Fresh.out = 0
      /\ Put!Fresh.told = <<>> /\ Put!Fresh.errs = 0
  BY DEF Put!Fresh
<1>3. PutContext(Put!Fresh) /\ Put!Fresh \in PutContexts
  BY PutFresh DEF PutContext
<1> HIDE DEF Put!Fresh
<1>4. PutInv
  BY PutInit
<1>5. PutAnswerType /\ PutNoError
  BY <1>1, <1>3 DEF PutAnswerType, PutNoError
<1>6. \A n \in PutMessages : PutCounts(ctx[n], acks, n)
  <2>1. \A n : PutMarks(acks, n) = {} /\ PutSent(acking, n) = {}
    BY <1>1 DEF PutMarks, PutSent
  <2>2. \A n : Cardinality(PutMarks(acks, n)) = 0 /\ Cardinality(PutSent(acking, n)) = 0
    BY <2>1, FS_EmptySet
  <2> QED
    BY <1>1, <1>2, <2>2 DEF PutCounts
<1>7. PutAnswered
  BY <1>1, <1>3, <1>6 DEF PutAnswered
<1>8. ASSUME NEW m \in PutMessages
      PROVE  PutOrder(m)
  <2>1. ctx[m] = Put!Fresh /\ put_at[m] = -1
    BY <1>1
  <2>2. (1 .. put_at[m] - 1) \cap Put!Bad(m) = {}
    BY <2>1
  <2>3. <<>> # <<"err">>
    OBVIOUS
  <2>4. /\ ctx[m].stun = 1 /\ ctx[m].err = FALSE /\ ctx[m].stop = FALSE
        /\ ctx[m].out = 0 /\ ctx[m].told = <<>> /\ ctx[m].errs = 0
    BY <1>2, <2>1
  <2> QED
    BY <2>1, <2>2, <2>3, <2>4 DEF PutOrder
<1> QED
  BY <1>4, <1>5, <1>7, <1>8 DEF PutAnswersInv

LEMMA PutAnswersPromise == PutAnswersInv => PutAnswersAreTrue
<1> SUFFICES ASSUME PutAnswersInv
             PROVE  /\ Put!OkMeansStored /\ Put!Once
                    /\ Put!InvalidIsNotRelayed /\ Put!WritesAreAnswered
  BY DEF PutAnswersAreTrue
<1>1. \A m \in PutMessages :
        /\ PutContext(ctx[m]) /\ ctx[m].told \in PutTold /\ ctx[m].out \in {0, 1}
        /\ ctx[m].acks \in Nat /\ ctx[m].all \in Nat /\ ctx[m].stop \in BOOLEAN
  BY DEF PutAnswersInv, PutAnswered, PutContext, PutContexts
<1>2. Put!OkMeansStored
  <2> SUFFICES ASSUME Put!Kept, NEW x \in taken \ deferred,
                      "ok" \in Put!ToSet(ctx[x[1]].told),
                      PutEntries[x[1]][x[2]].key \notin put_rolled
               PROVE  store[PutEntries[x[1]][x[2]].key].state >= PutEntries[x[1]][x[2]].state
    BY DEF Put!OkMeansStored
  <2>1. PutKnown(x) /\ x[1] \in PutMessages
    BY DEF PutAnswersInv, PutAnswered, PutPairs
  <2>2. ctx[x[1]].told = <<"ok">>
    <3> DEFINE s == ctx[x[1]].told
    <3>1. s \in PutTold /\ "ok" \in Put!ToSet(s)
      BY <1>1, <2>1
    <3> HIDE DEF s
    <3>2. \E i \in DOMAIN s : s[i] = "ok"
      BY <3>1 DEF Put!ToSet
    <3> QED
      BY <3>1, <3>2 DEF PutTold, s
  <2> QED
    BY <2>1, <2>2 DEF PutKnown, PutIsStored, PutOf
<1>3. Put!Once
  <2>1. \A s \in PutTold : Len(s) <= 1
    BY DEF PutTold
  <2>2. ASSUME NEW m \in PutMessages
        PROVE  ctx[m].errs <= ctx[m].all /\ (ctx[m].errs > 0 => fails > 0)
    <3>1. /\ ctx[m].errs <= ctx[m].acks /\ ctx[m].errs \in Nat
          /\ ctx[m].acks <= ctx[m].all
      <4>1. /\ PutCounts(ctx[m], acks, m) /\ PutContext(ctx[m])
            /\ Cardinality(PutMarks(acks, m)) \in Nat
            /\ Cardinality(PutSent(acking, m)) \in Nat
        <5>1. Len(acks) \in Nat /\ Len(acking) \in Nat
          BY DEF PutAnswersInv, PutAnswered, PutAnswerType
        <5> QED
          BY <5>1, PutMarksFinite DEF PutAnswersInv, PutAnswered
      <4> QED
        BY <1>1, <4>1 DEF PutCounts, PutContext, PutContexts
    <3>2. fails \in Nat /\ (fails = 0 => ctx[m].errs = 0)
      BY DEF PutAnswersInv, PutAnswerType, PutOrder
    <3> QED
      BY <1>1, <3>1, <3>2
  <2> QED
    BY <1>1, <2>1, <2>2 DEF Put!Once
<1>4. Put!InvalidIsNotRelayed
  BY DEF Put!InvalidIsNotRelayed, PutAnswersInv, PutOrder
<1>5. Put!WritesAreAnswered
  <2> SUFFICES ASSUME NEW m \in PutMessages \ PutAnswers,
                      ctx[m].stop, ~put_to, acking = <<>>, ctx[m].all > 0,
                      put_at[m] = Put!Count(m), ~put_peers, fails = 0, reloads = 0,
                      \A i \in 1 .. Put!Count(m) : <<m, i>> \notin deferred
               PROVE  ctx[m].told = <<"ok">> /\ ctx[m].errs = 0
    BY DEF Put!WritesAreAnswered, Put!Settled
  <2>1. PutOrder(m) /\ PutCounts(ctx[m], acks, m) /\ acks = <<>>
    BY DEF PutAnswersInv, PutAnswered
  <2>2. PutMarks(acks, m) = {} /\ PutSent(acking, m) = {}
    BY <2>1 DEF PutMarks, PutSent
  <2>3. Cardinality(PutMarks(acks, m)) = 0 /\ Cardinality(PutSent(acking, m)) = 0
    BY <2>2, FS_EmptySet
  <2>4. ctx[m].acks = ctx[m].all
    BY <1>1, <2>1, <2>3 DEF PutCounts
  <2>5. ctx[m].stun = 0 /\ ctx[m].told # <<"err">> /\ ctx[m].errs = 0
    BY <2>1, PutCountType DEF PutOrder
  <2>6. ctx[m].told # <<>>
    BY <1>1, <2>4, <2>5 DEF PutContext
  <2> QED
    BY <1>1, <2>5, <2>6 DEF PutTold
<1> QED
  BY <1>2, <1>3, <1>4, <1>5

(* However acknowledgements fall among turns, entries put off, failures of *)
(* the store and reloads, an ok means that the store has what was written, *)
(* a message is relayed at most once and answered at most once for all its *)
(* entries, errors that are answers of their own come only from a failing  *)
(* store and for an entry each, nothing invalid but in the end is relayed, *)
(* and a write that settles without a fault is answered with ok alone      *)
(* (put, fire, ack and back, gun.js:319-410; flush, gun.js:1747-1758).     *)
THEOREM PutAnswersCorrect == Put!Spec => []PutAnswersAreTrue
<1>1. Put!Init => PutAnswersInv
  BY PutAnswersInit
<1>2. PutAnswersInv /\ [Put!Next]_(Put!vars) => PutAnswersInv'
  BY PutAnswersStep
<1>3. PutAnswersInv => PutAnswersAreTrue
  BY PutAnswersPromise
<1> QED
  BY <1>1, <1>2, <1>3, PTL DEF Put!Spec

-----------------------------------------------------------------------------
(* Turns.                                                                  *)

TurnAll == TurnTasks \cup TurnJobs

TurnType ==
  /\ turn_s \in Seq(TurnAll) /\ turn_asked \in Seq(TurnAll) /\ ran \in Seq(TurnAll)
  /\ turn_i \in Nat
  /\ turn_left \in [TurnJobs -> 0 .. TurnItems + 1]
  /\ ended \in [TurnJobs -> {0, 1}]
  /\ turn_threw \in BOOLEAN

(* What was asked for and has not run is what is left of the queue; the    *)
(* poller is called while there is any, unless a function has thrown.      *)
TurnQueue ==
  /\ turn_i <= Len(turn_s)
  /\ Len(turn_asked) - Len(ran) = Len(turn_s) - turn_i
  /\ \A k \in 1 .. Len(ran) : ran[k] = turn_asked[k]
  /\ \A k \in 1 .. Len(turn_s) - turn_i :
        turn_s[turn_i + k] = turn_asked[Len(ran) + k]
  /\ poll # "no" => turn_i < Len(turn_s)
  /\ poll = "no" /\ ~turn_threw => turn_s = <<>>

(* A list waits at most once for its next batch, and only if it has not    *)
(* ended.                                                                  *)
TurnWaiting ==
  \A k \in Len(ran) + 1 .. Len(turn_asked) : turn_asked[k] \in TurnJobs =>
    /\ ended[turn_asked[k]] = 0 /\ turn_left[turn_asked[k]] <= TurnItems
    /\ \A l \in Len(ran) + 1 .. Len(turn_asked) :
          turn_asked[l] = turn_asked[k] => l = k

TurnEnds ==
  \A j \in TurnJobs : ended[j] = 1 =>
    /\ turn_left[j] <= TurnItems
    /\ j \in broke \/ turn_left[j] = 0

TurnInv == TurnType /\ TurnQueue /\ TurnWaiting /\ TurnEnds

LEMMA TurnConstants ==
  /\ TurnTasks \cap TurnJobs = {} /\ TurnItems \in Nat
  /\ TurnS \in Nat \ {0} /\ TurnK \in Nat \ {0}
  BY PeerAssumption DEF Turn!TurnAssumption

LEMMA TurnInit == Turn!Init => TurnInv
<1> SUFFICES ASSUME Turn!Init PROVE TurnInv
  OBVIOUS
<1>1. /\ turn_s = <<>> /\ turn_i = 0 /\ poll = "no" /\ turn_asked = <<>> /\ ran = <<>>
      /\ turn_left = [j \in TurnJobs |-> TurnItems + 1]
      /\ ended = [j \in TurnJobs |-> 0] /\ turn_threw = FALSE
  BY DEF Turn!Init
<1>2. <<>> \in Seq(TurnAll)
  OBVIOUS
<1>3. TurnItems + 1 \in 0 .. TurnItems + 1
  BY TurnConstants
<1>4. /\ turn_left \in [TurnJobs -> 0 .. TurnItems + 1]
      /\ ended \in [TurnJobs -> {0, 1}]
  BY <1>1, <1>3
<1>5. TurnType
  BY <1>1, <1>2, <1>4 DEF TurnType
<1> QED
  BY <1>1, <1>5 DEF TurnInv, TurnQueue, TurnWaiting, TurnEnds

(* turn(f): f is the last of the queue, and the poller is called.          *)
LEMMA TurnAsks ==
  ASSUME TurnType, TurnQueue, NEW f \in TurnAll, Turn!Turn(f),
         UNCHANGED <<turn_i, ran, turn_threw>>
  PROVE  TurnQueue' /\ turn_s' \in Seq(TurnAll) /\ turn_asked' = Append(turn_asked, f)
<1>0. /\ turn_i' = turn_i /\ ran' = ran /\ turn_threw' = turn_threw
      /\ turn_i \in Nat /\ Len(ran) \in Nat
      /\ Len(turn_s) \in Nat /\ Len(turn_asked) \in Nat
      /\ turn_i <= Len(turn_s)
      /\ Len(turn_asked) - Len(ran) = Len(turn_s) - turn_i
  BY DEF TurnType, TurnQueue
<1>1. /\ turn_s' = Append(turn_s, f) /\ turn_asked' = Append(turn_asked, f)
      /\ IF Len(turn_s') = 1 THEN poll' \in {"stack", "timer"} ELSE poll' = poll
  BY DEF Turn!Turn, Turn!Polls
<1>2. turn_s' \in Seq(TurnAll) /\ Len(turn_s') = Len(turn_s) + 1
      /\ Len(turn_asked') = Len(turn_asked) + 1
  BY <1>1 DEF TurnType
<1>3. turn_i' < Len(turn_s')
  BY <1>2 DEF TurnType, TurnQueue
<1>4. \A k \in 1 .. Len(ran') : ran'[k] = turn_asked'[k]
  BY <1>1 DEF TurnType, TurnQueue
<1>5. ASSUME NEW k \in 1 .. Len(turn_s') - turn_i'
      PROVE  turn_s'[turn_i' + k] = turn_asked'[Len(ran') + k]
  <2>1. CASE k <= Len(turn_s) - turn_i
    <3>1. turn_s[turn_i + k] = turn_asked[Len(ran) + k]
      BY <2>1, <1>5 DEF TurnQueue, TurnType
    <3>2. turn_i + k \in 1 .. Len(turn_s) /\ Len(ran) + k \in 1 .. Len(turn_asked)
      BY <2>1, <1>5 DEF TurnQueue, TurnType
    <3>3. turn_s'[turn_i + k] = turn_s[turn_i + k]
          /\ turn_asked'[Len(ran) + k] = turn_asked[Len(ran) + k]
      BY <1>1, <3>2 DEF TurnType
    <3> QED
      BY <3>1, <3>3, <1>0
  <2>2. CASE k > Len(turn_s) - turn_i
    <3>1. k = Len(turn_s) - turn_i + 1
      BY <2>2, <1>0, <1>2, <1>5
    <3>2. turn_i + k = Len(turn_s) + 1 /\ Len(ran) + k = Len(turn_asked) + 1
      BY <3>1, <1>0
    <3>3. turn_s'[Len(turn_s) + 1] = f /\ turn_asked'[Len(turn_asked) + 1] = f
      BY <1>1 DEF TurnType
    <3> QED
      BY <3>2, <3>3, <1>0
  <2> QED
    BY <2>1, <2>2, <1>5, <1>0, <1>2
<1>6. poll' = "no" /\ ~turn_threw' => turn_s' = <<>>
  <2> SUFFICES ASSUME poll' = "no", ~turn_threw' PROVE FALSE
    OBVIOUS
  <2>1. poll = "no" /\ Len(turn_s') # 1
    BY <1>1
  <2>2. turn_s = <<>>
    BY <2>1 DEF TurnQueue
  <2> QED
    BY <1>2, <2>1, <2>2
<1>7. Len(turn_asked') - Len(ran') = Len(turn_s') - turn_i'
  BY <1>0, <1>2
<1>8. turn_i' <= Len(turn_s')
  BY <1>0, <1>2
<1> QED
  BY <1>1, <1>2, <1>3, <1>4, <1>5, <1>6, <1>7, <1>8 DEF TurnQueue

(* The queue after a function: what is left of it does not depend on       *)
(* whether it is cut.                                                      *)
LEMMA TurnCuts ==
  ASSUME NEW q \in Seq(TurnAll), NEW k \in Nat, k <= Len(q)
  PROVE  LET cut == Turn!Cut(q, k) IN
         /\ cut.s \in Seq(TurnAll) /\ cut.i \in Nat /\ cut.i <= Len(cut.s)
         /\ Len(cut.s) - cut.i = Len(q) - k
         /\ \A n \in 1 .. Len(q) - k : cut.s[cut.i + n] = q[k + n]
         /\ cut.s # <<>> => cut.i < Len(cut.s)
<1> DEFINE cut == Turn!Cut(q, k)
<1>1. CASE k = Len(q) \/ k = TurnK
  <2>1. cut.s = SubSeq(q, k + 1, Len(q)) /\ cut.i = 0
    BY <1>1 DEF Turn!Cut
  <2>2. cut.s \in Seq(TurnAll) /\ Len(cut.s) = Len(q) - k
        /\ \A n \in 1 .. Len(q) - k : cut.s[n] = q[k + n]
    BY <2>1
  <2>3. cut.s # <<>> => 0 < Len(cut.s)
    BY <2>2
  <2> QED
    BY <2>1, <2>2, <2>3
<1>2. CASE ~(k = Len(q) \/ k = TurnK)
  <2>1. cut.s = q /\ cut.i = k
    BY <1>2 DEF Turn!Cut
  <2> QED
    BY <1>2, <2>1
<1> QED
  BY <1>1, <1>2

(* T runs the first that waits, which may queue new.                       *)
LEMMA TurnContinues ==
  ASSUME TurnType, TurnQueue, poll # "no", NEW new \in Seq(TurnAll),
         Turn!Continue(new), turn_threw' = turn_threw
  PROVE  /\ TurnQueue' /\ turn_s' \in Seq(TurnAll) /\ turn_i' \in Nat
         /\ Len(ran) < Len(turn_asked)
         /\ turn_s[turn_i + 1] = turn_asked[Len(ran) + 1]
         /\ ran' = Append(ran, turn_asked[Len(ran) + 1])
         /\ turn_asked' = turn_asked \o new
<1>0. /\ turn_i \in Nat /\ Len(ran) \in Nat /\ Len(new) \in Nat
      /\ Len(turn_s) \in Nat /\ Len(turn_asked) \in Nat
      /\ turn_i <= Len(turn_s)
      /\ Len(turn_asked) - Len(ran) = Len(turn_s) - turn_i
  BY DEF TurnType, TurnQueue
<1> DEFINE q == turn_s \o new
           cut == Turn!Cut(q, turn_i + 1)
<1>1. /\ turn_s' = cut.s /\ turn_i' = cut.i
      /\ turn_asked' = turn_asked \o new
      /\ ran' = Append(ran, turn_s[turn_i + 1])
      /\ IF cut.s = <<>> THEN poll' = "no" ELSE poll' \in {"stack", "timer"}
  BY DEF Turn!Continue, Turn!Polls
<1>2. turn_i < Len(turn_s) /\ Len(ran) < Len(turn_asked)
  BY DEF TurnQueue, TurnType
<1>3. turn_s[turn_i + 1] = turn_asked[Len(ran) + 1]
  BY <1>2 DEF TurnQueue, TurnType
<1>4. q \in Seq(TurnAll) /\ turn_i + 1 \in Nat /\ turn_i + 1 <= Len(q)
      /\ Len(q) = Len(turn_s) + Len(new)
  BY <1>2 DEF TurnType
<1>5. /\ cut.s \in Seq(TurnAll) /\ cut.i \in Nat /\ cut.i <= Len(cut.s)
      /\ Len(cut.s) - cut.i = Len(q) - (turn_i + 1)
      /\ \A n \in 1 .. Len(q) - (turn_i + 1) : cut.s[cut.i + n] = q[(turn_i + 1) + n]
      /\ cut.s # <<>> => cut.i < Len(cut.s)
  BY <1>4, TurnCuts
<1> HIDE DEF cut
<1>6. Len(ran') = Len(ran) + 1 /\ Len(turn_asked') = Len(turn_asked) + Len(new)
  BY <1>1 DEF TurnType
<1>7. Len(turn_asked') - Len(ran') = Len(turn_s') - turn_i'
  BY <1>1, <1>2, <1>4, <1>5, <1>6 DEF TurnQueue, TurnType
<1>8. ASSUME NEW k \in 1 .. Len(ran')
      PROVE  ran'[k] = turn_asked'[k]
  <2>1. k \in 1 .. Len(turn_asked) /\ turn_asked'[k] = turn_asked[k]
    BY <1>1, <1>2, <1>6 DEF TurnType
  <2>2. CASE k <= Len(ran)
    BY <1>1, <2>1, <2>2 DEF TurnQueue, TurnType
  <2>3. CASE k = Len(ran) + 1
    BY <1>1, <1>3, <2>1, <2>3 DEF TurnType
  <2> QED
    BY <2>2, <2>3, <1>0, <1>6
<1>9. ASSUME NEW k \in 1 .. Len(turn_s') - turn_i'
      PROVE  turn_s'[turn_i' + k] = turn_asked'[Len(ran') + k]
  <2>1. k \in 1 .. Len(q) - (turn_i + 1) /\ k \in Nat
    BY <1>1, <1>5, <1>9
  <2>2. turn_s'[turn_i' + k] = q[(turn_i + 1) + k]
    BY <1>1, <1>5, <2>1
  <2>3. CASE turn_i + 1 + k <= Len(turn_s)
    <3>1. k + 1 \in 1 .. Len(turn_s) - turn_i
      BY <2>1, <2>3 DEF TurnType
    <3>2. turn_s[turn_i + (k + 1)] = turn_asked[Len(ran) + (k + 1)]
      BY <3>1 DEF TurnQueue
    <3>3. q[(turn_i + 1) + k] = turn_s[turn_i + (k + 1)]
      BY <2>1, <2>3 DEF TurnType
    <3>4. turn_asked'[Len(ran') + k] = turn_asked[Len(ran) + (k + 1)]
      BY <1>1, <1>6, <2>1, <3>1 DEF TurnType, TurnQueue
    <3> QED
      BY <2>2, <3>2, <3>3, <3>4
  <2>4. CASE turn_i + 1 + k > Len(turn_s)
    <3> DEFINE n == turn_i + 1 + k - Len(turn_s)
    <3>1. n \in 1 .. Len(new)
      BY <1>4, <2>1, <2>4 DEF TurnType
    <3>2. q[(turn_i + 1) + k] = new[n]
      BY <1>4, <2>1, <2>4, <3>1 DEF TurnType
    <3>3. Len(ran') + k = Len(turn_asked) + n
      BY <1>0, <1>6, <2>1
    <3>4. turn_asked'[Len(turn_asked) + n] = new[n]
      BY <1>1, <3>1 DEF TurnType
    <3> QED
      BY <2>2, <3>2, <3>3, <3>4
  <2> QED
    BY <2>1, <2>3, <2>4 DEF TurnType
<1>10. /\ poll' # "no" => turn_i' < Len(turn_s')
       /\ poll' = "no" /\ ~turn_threw' => turn_s' = <<>>
  BY <1>1, <1>5
<1> QED
  BY <1>1, <1>2, <1>3, <1>5, <1>7, <1>8, <1>9, <1>10 DEF TurnQueue

(* Who waits is among those who waited before and the new ones.            *)
LEMMA TurnStillWaiting ==
  ASSUME TurnType, TurnWaiting, Len(ran) <= Len(turn_asked),
         NEW new \in Seq(TurnTasks),
         ran' \in Seq(TurnAll), Len(ran') >= Len(ran),
         turn_asked' = turn_asked \o new,
         UNCHANGED <<turn_left, ended>>
  PROVE  TurnWaiting'
<1>1. turn_asked' \in Seq(TurnAll) /\ Len(turn_asked') = Len(turn_asked) + Len(new)
  BY DEF TurnType, TurnAll
<1>2. ASSUME NEW k \in Len(ran') + 1 .. Len(turn_asked'), turn_asked'[k] \in TurnJobs
      PROVE  k \in Len(ran) + 1 .. Len(turn_asked) /\ turn_asked'[k] = turn_asked[k]
  <2>1. k \in Int /\ k >= Len(ran) + 1 /\ k <= Len(turn_asked) + Len(new)
    BY <1>1, <1>2 DEF TurnType
  <2>2. CASE k <= Len(turn_asked)
    BY <2>1, <2>2 DEF TurnType
  <2>3. CASE k > Len(turn_asked)
    <3>1. turn_asked'[k] = new[k - Len(turn_asked)] /\ k - Len(turn_asked) \in 1 .. Len(new)
      BY <2>1, <2>3 DEF TurnType
    <3>2. turn_asked'[k] \in TurnTasks
      BY <3>1
    <3> QED
      BY <1>2, <3>2, TurnConstants
  <2> QED
    BY <2>1, <2>2, <2>3 DEF TurnType
<1> QED
  BY <1>2 DEF TurnWaiting

(* A list that goes on waits again, behind all others.                     *)
LEMMA TurnWaitsAgain ==
  ASSUME TurnType, TurnWaiting, NEW j \in TurnJobs,
         NEW m \in Nat, Len(ran) <= m, m <= Len(turn_asked),
         \A k \in m + 1 .. Len(turn_asked) : turn_asked[k] # j,
         Len(ran') = m, turn_asked' = Append(turn_asked, j),
         turn_left' \in [TurnJobs -> 0 .. TurnItems + 1],
         ended'[j] = 0, turn_left'[j] <= TurnItems,
         \A other \in TurnJobs \ {j} :
            ended'[other] = ended[other] /\ turn_left'[other] = turn_left[other]
  PROVE  TurnWaiting'
<1>1. /\ Len(turn_asked) \in Nat /\ Len(turn_asked') = Len(turn_asked) + 1
      /\ turn_asked'[Len(turn_asked) + 1] = j /\ Len(ran) \in Nat
  BY DEF TurnType
<1>2. ASSUME NEW k \in Len(ran') + 1 .. Len(turn_asked'), k # Len(turn_asked) + 1
      PROVE  /\ k \in Len(ran) + 1 .. Len(turn_asked) /\ turn_asked'[k] = turn_asked[k]
             /\ turn_asked[k] # j
  <2>1. k \in Len(ran) + 1 .. Len(turn_asked) /\ k \in m + 1 .. Len(turn_asked)
    BY <1>1, <1>2
  <2> QED
    BY <2>1 DEF TurnType
<1>3. ASSUME NEW k \in Len(ran') + 1 .. Len(turn_asked'), turn_asked'[k] \in TurnJobs
      PROVE  /\ ended'[turn_asked'[k]] = 0 /\ turn_left'[turn_asked'[k]] <= TurnItems
             /\ \A l \in Len(ran') + 1 .. Len(turn_asked') :
                   turn_asked'[l] = turn_asked'[k] => l = k
  <2>1. CASE k = Len(turn_asked) + 1
    BY <1>1, <1>2, <2>1
  <2>2. CASE k # Len(turn_asked) + 1
    <3>1. /\ k \in Len(ran) + 1 .. Len(turn_asked) /\ turn_asked'[k] = turn_asked[k]
          /\ turn_asked[k] # j
      BY <1>2, <2>2
    <3>2. /\ ended[turn_asked[k]] = 0 /\ turn_left[turn_asked[k]] <= TurnItems
          /\ \A l \in Len(ran) + 1 .. Len(turn_asked) :
                turn_asked[l] = turn_asked[k] => l = k
      BY <1>3, <3>1 DEF TurnWaiting
    <3>3. ended'[turn_asked[k]] = 0 /\ turn_left'[turn_asked[k]] <= TurnItems
      BY <1>3, <3>1, <3>2
    <3>4. ASSUME NEW l \in Len(ran') + 1 .. Len(turn_asked'),
                 turn_asked'[l] = turn_asked'[k]
          PROVE  l = k
      BY <1>1, <1>2, <3>1, <3>2, <3>4
    <3> QED
      BY <3>1, <3>3, <3>4
  <2> QED
    BY <2>1, <2>2
<1> QED
  BY <1>3 DEF TurnWaiting

(* Who does not wait may change as it likes.                               *)
LEMMA TurnOthersWait ==
  ASSUME TurnType, TurnWaiting, NEW j \in TurnJobs,
         NEW m \in Nat, Len(ran) <= m, m <= Len(turn_asked),
         \A k \in m + 1 .. Len(turn_asked) : turn_asked[k] # j,
         Len(ran') = m, turn_asked' = turn_asked,
         \A other \in TurnJobs \ {j} :
            ended'[other] = ended[other] /\ turn_left'[other] = turn_left[other]
  PROVE  TurnWaiting'
<1>1. Len(turn_asked) \in Nat /\ Len(ran) \in Nat
  BY DEF TurnType
<1>2. ASSUME NEW k \in Len(ran') + 1 .. Len(turn_asked')
      PROVE  k \in Len(ran) + 1 .. Len(turn_asked) /\ turn_asked[k] # j
  BY <1>1, <1>2
<1> QED
  BY <1>2 DEF TurnWaiting

LEMMA TurnTasksRun ==
  ASSUME TurnInv, Turn!RunTask
  PROVE  TurnInv'
<1>1. PICK new \in {<<>>} \cup {<<f>> : f \in TurnTasks} : Turn!Continue(new)
  BY DEF Turn!RunTask
<1>2. /\ poll # "no"
      /\ UNCHANGED <<turn_left, ended, broke, turn_threw>>
  BY DEF Turn!RunTask
<1>3. new \in Seq(TurnTasks) /\ new \in Seq(TurnAll)
  <2>1. CASE new = <<>>
    BY <2>1
  <2>2. CASE \E f \in TurnTasks : new = <<f>>
    BY <2>2 DEF TurnAll
  <2> QED
    BY <2>1, <2>2
<1>4. /\ TurnQueue' /\ turn_s' \in Seq(TurnAll) /\ turn_i' \in Nat
      /\ Len(ran) < Len(turn_asked)
      /\ ran' = Append(ran, turn_asked[Len(ran) + 1])
      /\ turn_asked' = turn_asked \o new
  BY <1>1, <1>2, <1>3, TurnContinues DEF TurnInv
<1>5. ran' \in Seq(TurnAll) /\ Len(ran') >= Len(ran) /\ turn_asked' \in Seq(TurnAll)
  BY <1>3, <1>4 DEF TurnInv, TurnType
<1>6. TurnType'
  BY <1>2, <1>4, <1>5 DEF TurnInv, TurnType
<1>7. TurnWaiting'
  <2>1. TurnType /\ TurnWaiting /\ Len(ran) <= Len(turn_asked)
    BY <1>4 DEF TurnInv, TurnQueue, TurnType
  <2> QED
    BY <1>2, <1>3, <1>4, <1>5, <2>1, TurnStillWaiting
<1>8. TurnEnds'
  BY <1>2 DEF TurnInv, TurnEnds
<1> QED
  BY <1>4, <1>6, <1>7, <1>8 DEF TurnInv

(* A batch: the list waited once, for this one.                            *)
LEMMA TurnBatches ==
  ASSUME TurnInv, Turn!RunBatch
  PROVE  TurnInv'
<1> DEFINE j == turn_s[turn_i + 1]
<1>1. PICK n \in 0 .. TurnS, breaks \in BOOLEAN :
        /\ Turn!Batch(j, n, breaks)
        /\ Turn!Continue(IF Turn!GoesOn(n, breaks) THEN <<j>> ELSE <<>>)
  BY DEF Turn!RunBatch
<1> DEFINE goes == n > 0 /\ ~breaks
           new == IF goes THEN <<j>> ELSE <<>>
<1>2. poll # "no" /\ j \in TurnJobs /\ turn_threw' = turn_threw /\ Turn!Continue(new)
  BY <1>1 DEF Turn!RunBatch, Turn!GoesOn
<1> HIDE DEF j
<1>3. new \in Seq(TurnAll) /\ (goes => new = <<j>>) /\ (~goes => new = <<>>)
  <2>1. <<j>> \in Seq(TurnAll) /\ <<>> \in Seq(TurnAll)
    BY <1>2 DEF TurnAll
  <2> QED
    BY <2>1
<1> HIDE DEF new
<1>4. /\ TurnQueue' /\ turn_s' \in Seq(TurnAll) /\ turn_i' \in Nat
      /\ Len(ran) < Len(turn_asked)
      /\ j = turn_asked[Len(ran) + 1]
      /\ ran' = Append(ran, turn_asked[Len(ran) + 1])
      /\ turn_asked' = turn_asked \o new
  BY <1>2, <1>3, TurnContinues DEF TurnInv, j
<1>5. /\ ran' \in Seq(TurnAll) /\ Len(ran') = Len(ran) + 1 /\ turn_asked' \in Seq(TurnAll)
      /\ Len(ran) \in Nat /\ Len(turn_asked) \in Nat
  BY <1>3, <1>4 DEF TurnInv, TurnType
<1>6. Len(ran) + 1 \in Len(ran) + 1 .. Len(turn_asked)
  BY <1>4, <1>5
<1>7. /\ ended[j] = 0 /\ turn_left[j] <= TurnItems /\ turn_left[j] \in Nat
      /\ \A k \in Len(ran') + 1 .. Len(turn_asked) : turn_asked[k] # j
  BY <1>2, <1>4, <1>5, <1>6 DEF TurnInv, TurnWaiting, TurnType
<1>8. /\ n \in 0 .. Turn!Least(TurnS, turn_left[j])
      /\ ~breaks => n = Turn!Least(TurnS, turn_left[j])
      /\ turn_left' = [turn_left EXCEPT ![j] = @ - n]
      /\ broke' = IF breaks THEN broke \cup {j} ELSE broke
      /\ ended' = IF breaks \/ n = 0 THEN [ended EXCEPT ![j] = @ + 1] ELSE ended
  BY <1>1 DEF Turn!Batch
<1>9. n \in Nat /\ n <= turn_left[j] /\ (n = 0 /\ ~breaks => turn_left[j] = 0)
  BY <1>7, <1>8, TurnConstants DEF Turn!Least
<1>10. turn_left[j] - n \in 0 .. TurnItems + 1 /\ turn_left[j] - n <= TurnItems
  BY <1>7, <1>9, TurnConstants
<1>11. /\ turn_left' \in [TurnJobs -> 0 .. TurnItems + 1]
       /\ turn_left'[j] = turn_left[j] - n
       /\ ended' \in [TurnJobs -> {0, 1}]
       /\ ended'[j] = IF goes THEN 0 ELSE 1
       /\ \A other \in TurnJobs \ {j} :
             ended'[other] = ended[other] /\ turn_left'[other] = turn_left[other]
  BY <1>2, <1>7, <1>8, <1>9, <1>10 DEF TurnInv, TurnType
<1>12. TurnType'
  BY <1>2, <1>4, <1>5, <1>11 DEF TurnInv, TurnType
<1>13. TurnWaiting'
  <2>1. Len(ran') \in Nat /\ Len(ran) <= Len(ran') /\ Len(ran') <= Len(turn_asked)
    BY <1>4, <1>5
  <2>2. CASE goes
    <3>1. turn_asked' = Append(turn_asked, j)
      <4>1. turn_asked' = turn_asked \o <<j>>
        BY <1>3, <1>4, <2>2
      <4>2. turn_asked \in Seq(TurnAll) /\ j \in TurnAll
        BY <1>2 DEF TurnInv, TurnType, TurnAll
      <4> QED
        BY <4>1, <4>2
    <3> QED
      BY <1>2, <1>7, <1>10, <1>11, <2>1, <2>2, <3>1, TurnWaitsAgain DEF TurnInv
  <2>3. CASE ~goes
    <3>1. turn_asked' = turn_asked
      BY <1>3, <1>4, <2>3 DEF TurnInv, TurnType
    <3> QED
      BY <1>2, <1>7, <1>11, <2>1, <3>1, TurnOthersWait DEF TurnInv
  <2> QED
    BY <2>2, <2>3
<1>14. ASSUME NEW k \in TurnJobs, ended'[k] = 1
       PROVE  /\ turn_left'[k] <= TurnItems
              /\ k \in broke' \/ turn_left'[k] = 0
  <2>1. CASE k = j
    <3>1. n = 0 \/ breaks
      BY <1>9, <1>11, <1>14, <2>1
    <3> QED
      BY <1>7, <1>8, <1>9, <1>10, <1>11, <2>1, <3>1
  <2>2. CASE k # j
    <3>1. ended[k] = 1 /\ turn_left'[k] = turn_left[k] /\ broke \subseteq broke'
      BY <1>8, <1>11, <1>14, <2>2
    <3> QED
      BY <3>1 DEF TurnInv, TurnEnds
  <2> QED
    BY <2>1, <2>2
<1> QED
  BY <1>4, <1>12, <1>13, <1>14 DEF TurnInv, TurnEnds

(* The first batch of a list, which does not wait yet.                     *)
LEMMA TurnBegins ==
  ASSUME TurnInv, NEW j \in TurnJobs, NEW breaks \in BOOLEAN, Turn!Each(j, breaks)
  PROVE  TurnInv'
<1> DEFINE n == Turn!Least(TurnS, TurnItems)
           goes == n > 0 /\ ~breaks
<1>1. /\ turn_left[j] = TurnItems + 1
      /\ turn_left' = [turn_left EXCEPT ![j] = TurnItems - n]
      /\ broke' = IF breaks THEN broke \cup {j} ELSE broke
      /\ ended' = IF breaks \/ n = 0 THEN [ended EXCEPT ![j] = 1] ELSE ended
      /\ IF goes THEN Turn!Turn(j) ELSE UNCHANGED <<turn_s, turn_asked, poll>>
      /\ UNCHANGED <<turn_i, ran, turn_threw>>
  BY DEF Turn!Each, Turn!GoesOn
<1>2. n \in Nat /\ n <= TurnItems /\ (n = 0 => TurnItems = 0)
  BY TurnConstants DEF Turn!Least
<1> HIDE DEF n
<1>3. ended[j] = 0 /\ TurnItems - n \in 0 .. TurnItems + 1 /\ TurnItems - n <= TurnItems
      /\ ~(TurnItems + 1 <= TurnItems)
  BY <1>1, <1>2, TurnConstants DEF TurnInv, TurnEnds, TurnType
<1>4. /\ turn_left' \in [TurnJobs -> 0 .. TurnItems + 1]
      /\ turn_left'[j] = TurnItems - n
      /\ ended' \in [TurnJobs -> {0, 1}]
      /\ ended'[j] = IF goes THEN 0 ELSE 1
      /\ \A other \in TurnJobs \ {j} :
            ended'[other] = ended[other] /\ turn_left'[other] = turn_left[other]
  BY <1>1, <1>2, <1>3 DEF TurnInv, TurnType
<1>5. Len(ran) \in Nat /\ Len(turn_asked) \in Nat /\ Len(ran) <= Len(turn_asked)
      /\ ran' = ran
  BY <1>1 DEF TurnInv, TurnType, TurnQueue
<1>6. \A k \in Len(ran) + 1 .. Len(turn_asked) : turn_asked[k] # j
  BY <1>1, <1>3 DEF TurnInv, TurnWaiting
<1>7. TurnQueue' /\ turn_s' \in Seq(TurnAll) /\ turn_asked' \in Seq(TurnAll)
      /\ TurnWaiting'
  <2>1. CASE goes
    <3>1. TurnQueue' /\ turn_s' \in Seq(TurnAll) /\ turn_asked' = Append(turn_asked, j)
      BY <1>1, <2>1, TurnAsks DEF TurnInv, TurnAll
    <3>2. turn_asked' \in Seq(TurnAll)
      BY <3>1 DEF TurnInv, TurnType, TurnAll
    <3>3. TurnWaiting'
      <4>1. /\ ended'[j] = 0 /\ turn_left'[j] <= TurnItems
            /\ Len(ran') = Len(ran) /\ Len(ran) <= Len(ran)
        BY <1>3, <1>4, <1>5, <2>1
      <4> QED
        BY <1>4, <1>5, <1>6, <3>1, <4>1, TurnWaitsAgain DEF TurnInv
    <3> QED
      BY <3>1, <3>2, <3>3
  <2>2. CASE ~goes
    <3>1. UNCHANGED <<turn_s, turn_asked, poll>>
      BY <1>1, <2>2
    <3>2. TurnQueue' /\ turn_s' \in Seq(TurnAll) /\ turn_asked' \in Seq(TurnAll)
      BY <1>1, <3>1 DEF TurnInv, TurnType, TurnQueue
    <3>3. TurnWaiting'
      BY <1>4, <1>5, <1>6, <3>1, TurnOthersWait DEF TurnInv
    <3> QED
      BY <3>2, <3>3
  <2> QED
    BY <2>1, <2>2
<1>8. TurnType'
  BY <1>1, <1>4, <1>7 DEF TurnInv, TurnType
<1>9. ASSUME NEW k \in TurnJobs, ended'[k] = 1
      PROVE  /\ turn_left'[k] <= TurnItems
             /\ k \in broke' \/ turn_left'[k] = 0
  <2>1. CASE k = j
    <3>1. n = 0 \/ breaks
      BY <1>2, <1>4, <1>9, <2>1
    <3> QED
      BY <1>1, <1>2, <1>3, <1>4, <2>1, <3>1
  <2>2. CASE k # j
    <3>1. ended[k] = 1 /\ turn_left'[k] = turn_left[k] /\ broke \subseteq broke'
      BY <1>1, <1>4, <1>9, <2>2
    <3> QED
      BY <3>1 DEF TurnInv, TurnEnds
  <2> QED
    BY <2>1, <2>2
<1> QED
  BY <1>7, <1>8, <1>9 DEF TurnInv, TurnEnds

LEMMA TurnThrows ==
  ASSUME TurnInv, Turn!Throw
  PROVE  TurnInv'
<1>1. /\ poll # "no" /\ turn_i' = turn_i + 1 /\ poll' = "no"
      /\ ran' = Append(ran, turn_s[turn_i + 1]) /\ turn_threw' = TRUE
      /\ UNCHANGED <<turn_s, turn_left, ended, broke, turn_asked>>
  BY DEF Turn!Throw
<1>2. /\ turn_i \in Nat /\ Len(ran) \in Nat /\ Len(turn_s) \in Nat
      /\ Len(turn_asked) \in Nat /\ turn_i < Len(turn_s)
      /\ Len(turn_asked) - Len(ran) = Len(turn_s) - turn_i
  BY <1>1 DEF TurnInv, TurnType, TurnQueue
<1>3. turn_s[turn_i + 1] = turn_asked[Len(ran) + 1] /\ turn_s[turn_i + 1] \in TurnAll
  <2>1. 1 \in 1 .. Len(turn_s) - turn_i /\ turn_i + 1 \in 1 .. Len(turn_s)
    BY <1>2
  <2> QED
    BY <2>1 DEF TurnInv, TurnQueue, TurnType
<1>4. /\ ran' \in Seq(TurnAll) /\ Len(ran') = Len(ran) + 1
      /\ ran'[Len(ran) + 1] = turn_asked[Len(ran) + 1]
      /\ \A k \in 1 .. Len(ran) : ran'[k] = ran[k]
  BY <1>1, <1>3 DEF TurnInv, TurnType
<1>5. TurnType'
  BY <1>1, <1>4 DEF TurnInv, TurnType
<1>6. \A k \in 1 .. Len(ran') : ran'[k] = turn_asked'[k]
  BY <1>1, <1>2, <1>4 DEF TurnInv, TurnQueue
<1>7. ASSUME NEW k \in 1 .. Len(turn_s') - turn_i'
      PROVE  turn_s'[turn_i' + k] = turn_asked'[Len(ran') + k]
  <2>1. k + 1 \in 1 .. Len(turn_s) - turn_i
    BY <1>1, <1>2, <1>7
  <2>2. turn_s[turn_i + (k + 1)] = turn_asked[Len(ran) + (k + 1)]
    BY <2>1 DEF TurnInv, TurnQueue
  <2>3. turn_i' + k = turn_i + (k + 1) /\ Len(ran') + k = Len(ran) + (k + 1)
    BY <1>1, <1>2, <1>4, <2>1
  <2> QED
    BY <1>1, <2>2, <2>3
<1>8. TurnQueue'
  BY <1>1, <1>2, <1>4, <1>6, <1>7 DEF TurnQueue
<1>9. \A k \in Len(ran') + 1 .. Len(turn_asked') : k \in Len(ran) + 1 .. Len(turn_asked)
  BY <1>1, <1>2, <1>4
<1>10. TurnWaiting'
  BY <1>1, <1>9 DEF TurnInv, TurnWaiting
<1>11. TurnEnds'
  BY <1>1 DEF TurnInv, TurnEnds
<1> QED
  BY <1>5, <1>8, <1>10, <1>11 DEF TurnInv

LEMMA TurnStep ==
  ASSUME TurnInv, [Turn!Next]_(Turn!vars)
  PROVE  TurnInv'
<1>1. ASSUME NEW f \in TurnTasks, Turn!CallTurn(f)
      PROVE  TurnInv'
  <2>1. Turn!Turn(f) /\ UNCHANGED <<turn_i, turn_left, ended, broke, ran, turn_threw>>
    BY <1>1 DEF Turn!CallTurn
  <2>2. TurnQueue' /\ turn_s' \in Seq(TurnAll) /\ turn_asked' = Append(turn_asked, f)
    BY <2>1, TurnAsks DEF TurnInv, TurnAll
  <2>3. TurnType'
    BY <2>1, <2>2 DEF TurnInv, TurnType, TurnAll
  <2>4. <<f>> \in Seq(TurnTasks) /\ turn_asked' = turn_asked \o <<f>>
    BY <2>2 DEF TurnInv, TurnType, TurnAll
  <2>5. Len(ran) <= Len(turn_asked) /\ ran' \in Seq(TurnAll) /\ Len(ran') >= Len(ran)
    BY <2>1 DEF TurnInv, TurnType, TurnQueue
  <2>6. TurnWaiting'
    BY <2>1, <2>4, <2>5, TurnStillWaiting DEF TurnInv
  <2>7. TurnEnds'
    BY <2>1 DEF TurnInv, TurnEnds
  <2> QED
    BY <2>2, <2>3, <2>6, <2>7 DEF TurnInv
<1>2. CASE UNCHANGED Turn!vars
  BY <1>2 DEF Turn!vars, TurnInv, TurnType, TurnQueue, TurnWaiting, TurnEnds
<1> QED
  BY <1>1, <1>2, TurnBegins, TurnTasksRun, TurnBatches, TurnThrows DEF Turn!Next

LEMMA TurnPromise ==
  ASSUME TurnInv
  PROVE  TurnForgetsNobody
<1>1. /\ Len(ran) \in Nat /\ Len(turn_asked) \in Nat /\ Len(ran) <= Len(turn_asked)
      /\ ran \in Seq(TurnAll) /\ turn_asked \in Seq(TurnAll)
      /\ \A k \in 1 .. Len(ran) : ran[k] = turn_asked[k]
  BY DEF TurnInv, TurnType, TurnQueue
<1>2. SubSeq(ran, 1, Len(ran)) = SubSeq(turn_asked, 1, Len(ran))
  BY <1>1
<1>3. Turn!RunsInOrder
  BY <1>1, <1>2 DEF Turn!RunsInOrder, Turn!IsPrefix
<1>4. Turn!NobodyForgotten
  <2> SUFFICES ASSUME poll = "no", ~turn_threw PROVE ran = turn_asked
    BY DEF Turn!NobodyForgotten
  <2>1. Len(ran) = Len(turn_asked)
    BY <1>1 DEF TurnInv, TurnQueue, TurnType
  <2> QED
    BY <1>1, <2>1
<1>5. Turn!EndsOnce
  BY DEF Turn!EndsOnce, TurnInv, TurnType, TurnEnds
<1> QED
  BY <1>3, <1>4, <1>5 DEF TurnForgetsNobody

(* Whoever queues functions, on the stack of the poller or not, and        *)
(* however the queue is cut, each is run once and in order; none is left   *)
(* waiting without a poller unless a function has thrown, and a list is    *)
(* ended once (turn and each, gun.js:64-92).                               *)
THEOREM TurnCorrect == Turn!Spec => []TurnForgetsNobody
<1>1. TurnInv /\ [Turn!Next]_(Turn!vars) => TurnInv'
  BY TurnStep
<1> QED
  BY <1>1, TurnInit, TurnPromise, PTL DEF Turn!Spec

-----------------------------------------------------------------------------
(* Callers that wait for a soul.                                           *)

SoulAnswer == [who : SoulCallers, what : {"soul", "nothing"}]

SoulType ==
  /\ soul_core \in BOOLEAN /\ link \in BOOLEAN /\ moved \in BOOLEAN
  /\ soul_threw \in BOOLEAN
  /\ soul_peers \subseteq SoulPeers
  /\ jam \in Seq(SoulCallers)
  /\ going \in Seq(Nat)
  /\ soul_told \in Seq(SoulAnswer)

(* A caller is in the jam, once, or was told, once.                        *)
SoulTells ==
  /\ \A n, m \in DOMAIN soul_told : soul_told[n].who = soul_told[m].who => n = m
  /\ \A n, m \in DOMAIN jam : jam[n] = jam[m] => n = m
  /\ \A n \in DOMAIN soul_told, m \in DOMAIN jam : soul_told[n].who # jam[m]

(* For a core chain one go listens while callers wait, and none otherwise. *)
SoulGoes ==
  soul_core =>
    /\ ~soul_threw
    /\ Len(going) = IF jam = <<>> THEN 0 ELSE 1
    /\ link => jam = <<>>

(* Until the soul is found, go has counted the answers that have come.     *)
SoulCounts ==
  soul_core /\ ~moved /\ ~link =>
    /\ IsFiniteSet(soul_asked)
    /\ jam = <<>> => soul_asked = {}
    /\ jam # <<>> =>
         /\ going[1] <= Cardinality(soul_peers)
         /\ going[1] + Cardinality(soul_asked) = Cardinality(soul_peers) + 1

SoulInv == SoulType /\ SoulTells /\ SoulGoes /\ SoulCounts

SoulNothing ==
  \A n \in DOMAIN soul_told' \ DOMAIN soul_told :
    soul_told'[n].what = "nothing" /\ ~moved => soul_asked' = {}

LEMMA SoulInit == Soul!Init => SoulInv
<1> SUFFICES ASSUME Soul!Init PROVE SoulInv
  OBVIOUS
<1>1. /\ soul_core \in BOOLEAN /\ soul_peers \subseteq SoulPeers /\ soul_asked = {}
      /\ jam = <<>> /\ going = <<>> /\ link = FALSE /\ soul_told = <<>>
      /\ moved = FALSE /\ soul_threw = FALSE
  BY DEF Soul!Init
<1>2. <<>> \in Seq(SoulCallers) /\ <<>> \in Seq(Nat) /\ <<>> \in Seq(SoulAnswer)
  OBVIOUS
<1>3. SoulType
  BY <1>1, <1>2 DEF SoulType
<1> QED
  BY <1>1, <1>3, FS_EmptySet DEF SoulInv, SoulTells, SoulGoes, SoulCounts

(* The instance counts as finite sets do.                                  *)
LEMMA SoulCardinality ==
  ASSUME NEW S
  PROVE  /\ Soul!IsFiniteSet(S) <=> IsFiniteSet(S)
         /\ Soul!Cardinality(S) = Cardinality(S)
  BY DEF Soul!IsFiniteSet, IsFiniteSet, Soul!Cardinality, Cardinality

LEMMA SoulPeersAreFinite ==
  ASSUME NEW P \in SUBSET SoulPeers
  PROVE  IsFiniteSet(P) /\ Cardinality(P) \in Nat
<1>1. IsFiniteSet(SoulPeers)
  BY PeerAssumption, SoulCardinality DEF Soul!SoulAssumption
<1> QED
  BY <1>1, FS_Subset, FS_CardinalityType

(* What callers q are told is put behind what was told before.             *)
SoulAppended(all, told, q, what) ==
  /\ all \in Seq(SoulAnswer) /\ Len(all) = Len(told) + Len(q)
  /\ \A n \in 1 .. Len(told) : all[n] = told[n]
  /\ \A n \in 1 .. Len(q) : /\ all[Len(told) + n].who = q[n]
                           /\ all[Len(told) + n].what = what

LEMMA SoulAppends ==
  ASSUME NEW told \in Seq(SoulAnswer), NEW q \in Seq(SoulCallers),
         NEW what \in {"soul", "nothing"},
         NEW all, all = told \o Soul!Tell(q, what)
  PROVE  SoulAppended(all, told, q, what)
<1> DEFINE new == Soul!Tell(q, what)
<1>1. new = [n \in 1 .. Len(q) |-> [who |-> q[n], what |-> what]]
      /\ Len(q) \in Nat
  BY DEF Soul!Tell
<1>2. \A n \in 1 .. Len(q) : [who |-> q[n], what |-> what] \in SoulAnswer
  BY DEF SoulAnswer
<1>3. new \in Seq(SoulAnswer) /\ Len(new) = Len(q)
      /\ \A n \in 1 .. Len(q) : new[n].who = q[n] /\ new[n].what = what
  BY <1>1, <1>2
<1> HIDE DEF new
<1>4. all = told \o new
  BY DEF new
<1>5. /\ all \in Seq(SoulAnswer) /\ Len(all) = Len(told) + Len(new)
      /\ \A n \in 1 .. Len(told) + Len(new) :
            all[n] = IF n <= Len(told) THEN told[n] ELSE new[n - Len(told)]
  <2>1. new \in Seq(SoulAnswer)
    BY <1>3
  <2>2. /\ told \o new \in Seq(SoulAnswer)
        /\ Len(told \o new) = Len(told) + Len(new)
        /\ \A i \in 1 .. Len(told) + Len(new) : (told \o new)[i] =
              IF i <= Len(told) THEN told[i] ELSE new[i - Len(told)]
    BY <2>1, ConcatProperties, Zenon
  <2> QED
    BY <1>4, <2>2, Zenon
<1>6. Len(told) \in Nat
  OBVIOUS
<1>7. \A n \in 1 .. Len(told) : all[n] = told[n]
  BY <1>1, <1>3, <1>5, <1>6
<1>8. ASSUME NEW n \in 1 .. Len(q)
      PROVE  all[Len(told) + n] = new[n]
  <2>1. /\ Len(told) + n \in 1 .. Len(told) + Len(new)
        /\ ~(Len(told) + n <= Len(told)) /\ (Len(told) + n) - Len(told) = n
    BY <1>1, <1>3, <1>6
  <2> QED
    BY <1>5, <2>1
<1> QED
  BY <1>3, <1>5, <1>7, <1>8 DEF SoulAppended

(* A go is not put off before another.                                     *)
LEMMA SoulOnlyGo ==
  ASSUME NEW q \in Seq(Nat), Len(q) = 1
  PROVE  Tail(q) \in Seq(Nat) /\ Len(Tail(q)) = 0
<1>1. q # <<>>
  <2>1. Len(<<>>) = 0 /\ 0 # 1
    OBVIOUS
  <2> QED
    BY <2>1, Zenon
<1>2. Tail(q) \in Seq(Nat) /\ Len(Tail(q)) = Len(q) - 1
  BY <1>1, HeadTailProperties, Zenon
<1> QED
  BY <1>2

(* All in the jam are told.                                                *)
LEMMA SoulServes ==
  ASSUME SoulType, SoulTells, NEW what \in {"soul", "nothing"},
         jam' = <<>>, soul_told' = soul_told \o Soul!Tell(jam, what)
  PROVE  /\ soul_told' \in Seq(SoulAnswer) /\ SoulTells'
         /\ \A n \in DOMAIN soul_told' \ DOMAIN soul_told : soul_told'[n].what = what
<1>1. Len(jam) \in Nat /\ jam \in Seq(SoulCallers) /\ soul_told \in Seq(SoulAnswer)
  BY DEF SoulType
<1>2. /\ soul_told' \in Seq(SoulAnswer) /\ Len(soul_told) \in Nat
      /\ Len(soul_told') = Len(soul_told) + Len(jam)
      /\ \A n \in 1 .. Len(soul_told) : soul_told'[n] = soul_told[n]
      /\ \A n \in 1 .. Len(jam) : /\ soul_told'[Len(soul_told) + n].who = jam[n]
                                 /\ soul_told'[Len(soul_told) + n].what = what
  <2>1. SoulAppended(soul_told', soul_told, jam, what)
    BY <1>1, SoulAppends, Zenon
  <2> QED
    BY <1>1, <2>1 DEF SoulAppended
<1>3. DOMAIN soul_told' = 1 .. Len(soul_told') /\ DOMAIN soul_told = 1 .. Len(soul_told)
      /\ DOMAIN jam = 1 .. Len(jam)
  BY <1>2 DEF SoulType
<1>4. ASSUME NEW n \in DOMAIN soul_told' \ DOMAIN soul_told
      PROVE  /\ n - Len(soul_told) \in DOMAIN jam
             /\ soul_told'[n].who = jam[n - Len(soul_told)]
             /\ soul_told'[n].what = what
  <2> DEFINE m == n - Len(soul_told)
  <2>1. m \in 1 .. Len(jam) /\ n = Len(soul_told) + m
    BY <1>1, <1>2, <1>3, <1>4
  <2> HIDE DEF m
  <2>2. soul_told'[n].who = jam[m] /\ soul_told'[n].what = what
    BY <1>2, <2>1
  <2> QED
    BY <1>3, <2>1, <2>2 DEF m
<1>5. ASSUME NEW n \in DOMAIN soul_told', NEW m \in DOMAIN soul_told',
             soul_told'[n].who = soul_told'[m].who
      PROVE  n = m
  <2>1. CASE n \in DOMAIN soul_told /\ m \in DOMAIN soul_told
    BY <1>2, <1>3, <1>5, <2>1 DEF SoulTells
  <2>2. CASE n \in DOMAIN soul_told /\ m \notin DOMAIN soul_told
    BY <1>2, <1>3, <1>4, <1>5, <2>2 DEF SoulTells
  <2>3. CASE n \notin DOMAIN soul_told /\ m \in DOMAIN soul_told
    BY <1>2, <1>3, <1>4, <1>5, <2>3 DEF SoulTells
  <2>4. CASE n \notin DOMAIN soul_told /\ m \notin DOMAIN soul_told
    <3>1. n - Len(soul_told) = m - Len(soul_told)
      BY <1>4, <1>5, <2>4 DEF SoulTells
    <3> QED
      BY <1>2, <1>3, <3>1
  <2> QED
    BY <2>1, <2>2, <2>3, <2>4
<1>6. DOMAIN jam' = {}
  OBVIOUS
<1>7. SoulTells'
  BY <1>5, <1>6 DEF SoulTells
<1> QED
  BY <1>2, <1>4, <1>7

LEMMA SoulStarts ==
  ASSUME SoulInv, NEW c \in SoulCallers, Soul!Soul(c)
  PROVE  SoulInv' /\ SoulNothing
<1>1. /\ \A n \in DOMAIN soul_told : soul_told[n].who # c
      /\ ~Soul!Contains(jam, c)
      /\ UNCHANGED <<soul_core, soul_peers, link, moved, soul_threw>>
  BY DEF Soul!Soul
<1>2. DOMAIN jam = 1 .. Len(jam) /\ Len(jam) \in Nat
      /\ DOMAIN soul_told = 1 .. Len(soul_told) /\ Len(soul_told) \in Nat
  BY DEF SoulInv, SoulType
<1>3. \A n \in DOMAIN jam : jam[n] # c
  BY <1>1, <1>2 DEF Soul!Contains
<1>4. CASE link
  <2>1. /\ soul_told' = Append(soul_told, [who |-> c, what |-> "soul"])
        /\ UNCHANGED <<soul_asked, jam, going, requests>>
    BY <1>4 DEF Soul!Soul
  <2>2. [who |-> c, what |-> "soul"] \in SoulAnswer
    BY DEF SoulAnswer
  <2>3. /\ soul_told' \in Seq(SoulAnswer)
        /\ DOMAIN soul_told' = 1 .. Len(soul_told) + 1
        /\ soul_told'[Len(soul_told) + 1] = [who |-> c, what |-> "soul"]
        /\ \A n \in 1 .. Len(soul_told) : soul_told'[n] = soul_told[n]
    BY <2>1, <2>2 DEF SoulInv, SoulType
  <2>4. SoulType'
    BY <1>1, <2>1, <2>3 DEF SoulInv, SoulType
  <2>5. \A n \in DOMAIN soul_told' : n \in DOMAIN soul_told \/ n = Len(soul_told) + 1
    BY <1>2, <2>3
  <2>6. SoulTells'
    BY <1>1, <1>2, <1>3, <2>1, <2>3, <2>5 DEF SoulInv, SoulTells
  <2>7. SoulGoes' /\ SoulCounts'
    BY <1>1, <1>4, <2>1 DEF SoulInv, SoulGoes, SoulCounts
  <2>8. SoulNothing
    BY <1>2, <2>3, <2>5 DEF SoulNothing
  <2> QED
    BY <2>4, <2>6, <2>7, <2>8 DEF SoulInv
<1>5. CASE ~link
  <2>1. /\ jam' = Append(jam, c) /\ soul_told' = soul_told
        /\ IF jam # <<>> THEN UNCHANGED <<soul_asked, going, requests>>
           ELSE /\ requests' = requests + 1
                /\ going' = Append(going, 0)
                /\ soul_asked' = soul_asked \cup
                     {<<requests', w>> : w \in soul_peers \cup {"store"}}
    BY <1>5 DEF Soul!Soul, Soul!Store
  <2>2. /\ jam' \in Seq(SoulCallers) /\ DOMAIN jam' = 1 .. Len(jam) + 1
        /\ jam'[Len(jam) + 1] = c /\ jam' # <<>>
        /\ \A n \in 1 .. Len(jam) : jam'[n] = jam[n]
    BY <2>1 DEF SoulInv, SoulType
  <2>3. \A n \in DOMAIN jam' : n \in DOMAIN jam \/ n = Len(jam) + 1
    BY <1>2, <2>2
  <2>4. SoulTells'
    BY <1>1, <1>2, <1>3, <2>1, <2>2, <2>3 DEF SoulInv, SoulTells
  <2>5. SoulNothing
    BY <2>1 DEF SoulNothing
  <2>6. CASE jam # <<>>
    <3>1. UNCHANGED <<soul_asked, going>>
      BY <2>1, <2>6
    <3>2. SoulType'
      BY <1>1, <2>1, <2>2, <3>1 DEF SoulInv, SoulType
    <3>3. SoulGoes' /\ SoulCounts'
      BY <1>1, <1>5, <2>2, <2>6, <3>1 DEF SoulInv, SoulGoes, SoulCounts
    <3> QED
      BY <2>4, <2>5, <3>2, <3>3 DEF SoulInv
  <2>7. CASE jam = <<>>
    <3> DEFINE all == soul_peers \cup {"store"}
               new == {<<requests', w>> : w \in all}
    <3>1. going' = Append(going, 0) /\ soul_asked' = soul_asked \cup new
      BY <2>1, <2>7
    <3>2. SoulType'
      BY <1>1, <2>1, <2>2, <3>1 DEF SoulInv, SoulType
    <3>3. SoulGoes'
      <4>1. Len(going') = Len(going) + 1
        BY <3>1 DEF SoulInv, SoulType
      <4> QED
        BY <1>1, <1>5, <2>2, <2>7, <4>1 DEF SoulInv, SoulGoes
    <3>4. IsFiniteSet(all) /\ Cardinality(all) = Cardinality(soul_peers) + 1
      <4>1. "store" \notin soul_peers
        BY PeerAssumption DEF Soul!SoulAssumption, Soul!Store, SoulInv, SoulType
      <4>2. IsFiniteSet(soul_peers)
        BY SoulPeersAreFinite DEF SoulInv, SoulType
      <4> QED
        BY <4>1, <4>2, FS_AddElement
    <3>5. IsFiniteSet(new) /\ Cardinality(new) = Cardinality(all)
      <4> DEFINE pair == [w \in all |-> <<requests', w>>]
      <4>1. pair \in Bijection(all, new)
        BY DEF Bijection, Injection, Surjection, IsInjective
      <4> QED
        BY <3>4, <4>1, FS_Bijection DEF ExistsBijection
    <3> HIDE DEF new, all
    <3>6. SoulCounts'
      <4> SUFFICES ASSUME soul_core, ~moved
                   PROVE  /\ IsFiniteSet(soul_asked')
                          /\ going'[1] <= Cardinality(soul_peers')
                          /\ going'[1] + Cardinality(soul_asked')
                               = Cardinality(soul_peers') + 1
        BY <1>1, <2>2 DEF SoulCounts
      <4>1. soul_asked' = new
        BY <1>5, <2>7, <3>1 DEF SoulInv, SoulCounts
      <4>2. going'[1] = 0
        BY <2>7, <3>1 DEF SoulInv, SoulType, SoulGoes
      <4>3. Cardinality(soul_peers) \in Nat /\ soul_peers' = soul_peers
        BY <1>1, SoulPeersAreFinite DEF SoulInv, SoulType
      <4> QED
        BY <3>4, <3>5, <4>1, <4>2, <4>3
    <3> QED
      BY <2>4, <2>5, <3>2, <3>3, <3>6 DEF SoulInv
  <2> QED
    BY <2>6, <2>7
<1> QED
  BY <1>4, <1>5

(* An answer without data is counted; after the last one callers are told. *)
LEMMA SoulMisses ==
  ASSUME SoulInv, NEW a \in soul_asked, Soul!Nothing(a)
  PROVE  SoulInv' /\ SoulNothing
<1>1. /\ soul_asked' = soul_asked \ {a}
      /\ UNCHANGED <<soul_core, soul_peers, link, moved>>
      /\ IF soul_core /\ ~link THEN Soul!Becomes(Soul!GoNothing(Soul!Page))
         ELSE UNCHANGED <<jam, going, soul_told, soul_threw>>
  BY DEF Soul!Nothing
<1>2. CASE ~(soul_core /\ ~link)
  <2>1. UNCHANGED <<jam, going, soul_told, soul_threw>>
    BY <1>1, <1>2
  <2>2. SoulType' /\ SoulTells' /\ SoulGoes'
    BY <1>1, <2>1 DEF SoulInv, SoulType, SoulTells, SoulGoes
  <2>3. SoulCounts'
    BY <1>1, <1>2 DEF SoulCounts
  <2>4. SoulNothing
    BY <2>1 DEF SoulNothing
  <2> QED
    BY <2>2, <2>3, <2>4 DEF SoulInv
<1>3. CASE soul_core /\ ~link
  <2> DEFINE answered == IF soul_peers = {} THEN going[1] ELSE going[1] + 1
  <2>1. Soul!Becomes(Soul!GoNothing(Soul!Page))
    BY <1>1, <1>3
  <2>2. Cardinality(soul_peers) \in Nat /\ (Cardinality(soul_peers) = 0 <=> soul_peers = {})
    BY SoulPeersAreFinite, FS_EmptySet DEF SoulInv, SoulType
  <2>3. ~moved => /\ IsFiniteSet(soul_asked) /\ jam # <<>>
                  /\ going[1] <= Cardinality(soul_peers)
                  /\ going[1] + Cardinality(soul_asked) = Cardinality(soul_peers) + 1
                  /\ IsFiniteSet(soul_asked')
                  /\ Cardinality(soul_asked') = Cardinality(soul_asked) - 1
                  /\ Cardinality(soul_asked') \in Nat
                  /\ Cardinality(soul_asked) \in Nat
    <3> SUFFICES ASSUME ~moved
                 PROVE  /\ IsFiniteSet(soul_asked) /\ jam # <<>>
                        /\ going[1] <= Cardinality(soul_peers)
                        /\ going[1] + Cardinality(soul_asked) = Cardinality(soul_peers) + 1
                        /\ IsFiniteSet(soul_asked')
                        /\ Cardinality(soul_asked') = Cardinality(soul_asked) - 1
                        /\ Cardinality(soul_asked') \in Nat
                        /\ Cardinality(soul_asked) \in Nat
      OBVIOUS
    <3>1. IsFiniteSet(soul_asked) /\ jam # <<>>
      BY <1>3 DEF SoulInv, SoulCounts
    <3>2. /\ going[1] <= Cardinality(soul_peers)
          /\ going[1] + Cardinality(soul_asked) = Cardinality(soul_peers) + 1
      BY <1>3, <3>1 DEF SoulInv, SoulCounts
    <3>3. /\ IsFiniteSet(soul_asked')
          /\ Cardinality(soul_asked') = Cardinality(soul_asked) - 1
      BY <1>1, <3>1, FS_RemoveElement
    <3>4. Cardinality(soul_asked') \in Nat /\ Cardinality(soul_asked) \in Nat
      BY <3>1, <3>3, FS_CardinalityType
    <3> QED
      BY <3>1, <3>2, <3>3, <3>4
  <2>4. CASE going = <<>>
    <3>1. Soul!GoNothing(Soul!Page) = Soul!Page
      BY <2>4 DEF Soul!GoNothing, Soul!Page
    <3>2. UNCHANGED <<jam, going, soul_told, soul_threw>>
      BY <2>1, <3>1 DEF Soul!Becomes, Soul!Page
    <3>3. jam = <<>>
      BY <1>3, <2>4 DEF SoulInv, SoulGoes
    <3>4. moved
      BY <2>3, <3>3
    <3>5. SoulType' /\ SoulTells' /\ SoulGoes'
      BY <1>1, <3>2 DEF SoulInv, SoulType, SoulTells, SoulGoes
    <3>6. SoulCounts' /\ SoulNothing
      BY <1>1, <3>2, <3>4 DEF SoulCounts, SoulNothing
    <3> QED
      BY <3>5, <3>6 DEF SoulInv
  <2>5. CASE going # <<>> /\ Soul!Waits(answered)
    <3>1. Soul!GoNothing(Soul!Page) = [Soul!Page EXCEPT !.going[1] = answered]
      BY <2>5 DEF Soul!GoNothing, Soul!Page
    <3>2. going' = [going EXCEPT ![1] = answered]
          /\ UNCHANGED <<jam, soul_told, soul_threw>>
      BY <2>1, <3>1 DEF Soul!Becomes, Soul!Page
    <3>3. Len(going) \in Nat \ {0} /\ going \in Seq(Nat) /\ going[1] \in Nat
      BY <2>5 DEF SoulInv, SoulType
    <3>4. answered = going[1] + 1 /\ answered <= Cardinality(soul_peers)
      BY <2>5, SoulCardinality DEF Soul!Waits
    <3>5. going' \in Seq(Nat) /\ Len(going') = Len(going) /\ going'[1] = going[1] + 1
      BY <3>2, <3>3, <3>4
    <3>6. SoulType' /\ SoulTells' /\ SoulGoes'
      BY <1>1, <3>2, <3>5 DEF SoulInv, SoulType, SoulTells, SoulGoes
    <3>7. ~moved => /\ going'[1] <= Cardinality(soul_peers')
                    /\ going'[1] + Cardinality(soul_asked') = Cardinality(soul_peers') + 1
      <4>1. soul_peers' = soul_peers
        BY <1>1
      <4>2. ~moved => Cardinality(soul_asked) = Cardinality(soul_asked') + 1
                      /\ Cardinality(soul_asked') \in Nat
        BY <2>3
      <4>3. ~moved => going[1] + Cardinality(soul_asked) = Cardinality(soul_peers) + 1
        BY <2>3
      <4>4. going'[1] = going[1] + 1 /\ going'[1] <= Cardinality(soul_peers)
        BY <3>4, <3>5
      <4> HIDE DEF answered
      <4> QED
        BY <2>2, <3>3, <4>1, <4>2, <4>3, <4>4
    <3>8. SoulCounts'
      BY <1>1, <2>3, <3>2, <3>7 DEF SoulCounts
    <3>9. SoulNothing
      BY <3>2 DEF SoulNothing
    <3> QED
      BY <3>6, <3>8, <3>9 DEF SoulInv
  <2>6. CASE going # <<>> /\ ~Soul!Waits(answered)
    <3>1. Soul!GoNothing(Soul!Page) = Soul!Serve(Soul!Page, "nothing")
      BY <2>6 DEF Soul!GoNothing, Soul!Page
    <3>2. /\ jam' = <<>> /\ soul_told' = soul_told \o Soul!Tell(jam, "nothing")
          /\ going' = Tail(going) /\ soul_threw' = (soul_threw \/ jam = <<>>)
      BY <1>3, <2>1, <3>1 DEF Soul!Becomes, Soul!Serve, Soul!Rid, Soul!Page
    <3>3. jam # <<>> /\ Len(going) = 1
      <4>1. going \in Seq(Nat) /\ Len(going) = IF jam = <<>> THEN 0 ELSE 1
        BY <1>3 DEF SoulInv, SoulGoes, SoulType
      <4> QED
        BY <2>6, <4>1
    <3>4. soul_told' \in Seq(SoulAnswer) /\ SoulTells'
      BY <3>2, SoulServes DEF SoulInv
    <3>5. going' \in Seq(Nat) /\ Len(going') = 0
      <4>1. going \in Seq(Nat)
        BY DEF SoulInv, SoulType
      <4> QED
        BY <3>2, <3>3, <4>1, SoulOnlyGo
    <3>6. SoulType'
      <4>1. <<>> \in Seq(SoulCallers)
        OBVIOUS
      <4>2. soul_threw' \in BOOLEAN
        BY <3>2, <3>3 DEF SoulInv, SoulType
      <4> QED
        BY <1>1, <3>2, <3>4, <3>5, <4>1, <4>2 DEF SoulInv, SoulType
    <3>7. SoulGoes'
      BY <1>1, <1>3, <3>2, <3>3, <3>5 DEF SoulInv, SoulGoes
    <3>8. ~moved => soul_asked' = {}
      <4> SUFFICES ASSUME ~moved PROVE soul_asked' = {}
        OBVIOUS
      <4>1. going[1] \in Nat
        <5>1. going \in Seq(Nat)
          BY DEF SoulInv, SoulType
        <5> QED
          BY <3>3, <5>1
      <4>2. going[1] >= Cardinality(soul_peers)
        BY <2>2, <2>6, <4>1, SoulCardinality DEF Soul!Waits
      <4>3. Cardinality(soul_asked') = 0 /\ IsFiniteSet(soul_asked')
        BY <2>2, <2>3, <4>1, <4>2
      <4> QED
        BY <4>3, FS_EmptySet
    <3>9. SoulCounts' /\ SoulNothing
      BY <1>1, <3>2, <3>8, FS_EmptySet DEF SoulCounts, SoulNothing
    <3> QED
      BY <3>4, <3>6, <3>7, <3>9 DEF SoulInv
  <2> QED
    BY <2>4, <2>5, <2>6
<1> QED
  BY <1>2, <1>3

(* The soul is found: all are told, and a core chain waits no more.        *)
LEMMA SoulFinds ==
  ASSUME SoulInv, Soul!Found
  PROVE  SoulInv' /\ SoulNothing
<1>1. /\ Soul!Becomes(Soul!GoSoul(Soul!Page))
      /\ link' = soul_core
      /\ UNCHANGED <<soul_core, soul_peers, moved>>
  BY DEF Soul!Found
<1>2. SoulCounts'
  BY <1>1 DEF SoulCounts
<1>3. CASE going = <<>>
  <2>1. Soul!GoSoul(Soul!Page) = Soul!Page
    BY <1>3 DEF Soul!GoSoul, Soul!Page
  <2>2. UNCHANGED <<jam, going, soul_told, soul_threw>>
    BY <1>1, <2>1 DEF Soul!Becomes, Soul!Page
  <2>3. soul_core => jam = <<>>
    BY <1>3 DEF SoulInv, SoulGoes
  <2>4. SoulType' /\ SoulTells' /\ SoulGoes'
    BY <1>1, <2>2, <2>3 DEF SoulInv, SoulType, SoulTells, SoulGoes
  <2>5. SoulNothing
    BY <2>2 DEF SoulNothing
  <2> QED
    BY <1>2, <2>4, <2>5 DEF SoulInv
<1>4. CASE going # <<>>
  <2>1. Soul!GoSoul(Soul!Page) =
          [Soul!Serve(Soul!Page, "soul") EXCEPT
             !.threw = @ \/ Len(Soul!Serve(Soul!Page, "soul").going) > 1]
    BY <1>4 DEF Soul!GoSoul, Soul!Page
  <2>2. /\ jam' = <<>> /\ soul_told' = soul_told \o Soul!Tell(jam, "soul")
        /\ going' = IF soul_core THEN Tail(going) ELSE going
        /\ soul_threw' = ((soul_threw \/ jam = <<>>) \/ Len(going') > 1)
    BY <1>1, <2>1 DEF Soul!Becomes, Soul!Serve, Soul!Rid, Soul!Page
  <2>3. /\ soul_told' \in Seq(SoulAnswer) /\ SoulTells'
        /\ \A n \in DOMAIN soul_told' \ DOMAIN soul_told : soul_told'[n].what = "soul"
    BY <2>2, SoulServes DEF SoulInv
  <2>4. going' \in Seq(Nat) /\ (soul_core => Len(going') = 0)
    BY <1>4, <2>2 DEF SoulInv, SoulType, SoulGoes
  <2>5. soul_core => ~soul_threw'
    BY <1>4, <2>2, <2>4 DEF SoulInv, SoulType, SoulGoes
  <2>6. SoulType'
    <3>1. <<>> \in Seq(SoulCallers)
      OBVIOUS
    <3>2. soul_threw' \in BOOLEAN
      BY <2>2, Zenon DEF SoulInv, SoulType
    <3> QED
      BY <1>1, <2>2, <2>3, <2>4, <3>1, <3>2 DEF SoulInv, SoulType
  <2>7. SoulGoes'
    BY <1>1, <2>2, <2>4, <2>5 DEF SoulGoes
  <2>8. SoulNothing
    BY <2>3 DEF SoulNothing
  <2> QED
    BY <1>2, <2>3, <2>6, <2>7, <2>8 DEF SoulInv
<1> QED
  BY <1>3, <1>4

LEMMA SoulStep ==
  ASSUME SoulInv, [Soul!Next]_(Soul!vars)
  PROVE  SoulInv' /\ [SoulNothing]_(Soul!vars)
<1>1. ASSUME NEW p \in SoulPeers, Soul!Leave(p) \/ Soul!Come(p)
      PROVE  SoulInv' /\ SoulNothing
  <2>1. /\ soul_peers' \subseteq SoulPeers /\ moved' = TRUE
        /\ UNCHANGED <<soul_core, jam, going, link, soul_told, soul_threw>>
    BY <1>1 DEF Soul!Leave, Soul!Come, SoulInv, SoulType
  <2>2. SoulType' /\ SoulTells' /\ SoulGoes' /\ SoulCounts'
    BY <2>1 DEF SoulInv, SoulType, SoulTells, SoulGoes, SoulCounts
  <2> QED
    BY <2>1, <2>2 DEF SoulInv, SoulNothing
<1>2. CASE UNCHANGED Soul!vars
  BY <1>2 DEF Soul!vars, SoulInv, SoulType, SoulTells, SoulGoes, SoulCounts
<1> QED
  BY <1>1, <1>2, SoulStarts, SoulMisses, SoulFinds DEF Soul!Next

LEMMA SoulPromise ==
  ASSUME SoulInv
  PROVE  Soul!ToldOnce /\ Soul!NobodyWaitsInTheEnd
<1>1. Soul!ToldOnce
  BY DEF Soul!ToldOnce, SoulInv, SoulTells, SoulGoes
<1>2. Soul!NobodyWaitsInTheEnd
  <2> SUFFICES ASSUME soul_core, ~moved, soul_asked = {}, jam # <<>> PROVE FALSE
    BY DEF Soul!NobodyWaitsInTheEnd
  <2>1. ~link
    BY DEF SoulInv, SoulGoes
  <2>2. Cardinality(soul_asked) = 0 /\ Cardinality(soul_peers) \in Nat
    BY FS_EmptySet, SoulPeersAreFinite DEF SoulInv, SoulType
  <2>3. going[1] <= Cardinality(soul_peers) /\ going[1] + 0 = Cardinality(soul_peers) + 1
    BY <2>1, <2>2 DEF SoulInv, SoulCounts
  <2>4. going[1] \in Nat
    <3>1. going \in Seq(Nat) /\ Len(going) = 1
      BY DEF SoulInv, SoulType, SoulGoes
    <3> QED
      BY <3>1
  <2> QED
    BY <2>2, <2>3, <2>4
<1> QED
  BY <1>1, <1>2

(* However calls, answers, peers that come and go and the soul itself are  *)
(* interleaved, nobody is told twice; and while the peers stay the same,   *)
(* callers are told nothing only when all have answered, and nobody waits  *)
(* then (soul, gun.js:926-970).                                            *)
THEOREM SoulCorrect == Soul!Spec => SoulToldToAll
<1>1. SoulInv /\ [Soul!Next]_(Soul!vars) => SoulInv' /\ [SoulNothing]_(Soul!vars)
  BY SoulStep
<1>2. SoulInv => (part = "soul" => Soul!ToldOnce /\ Soul!NobodyWaitsInTheEnd)
  BY SoulPromise
<1>3. [SoulNothing]_(Soul!vars) =>
        [\A i \in DOMAIN soul_told' \ DOMAIN soul_told :
           soul_told'[i].what = "nothing" /\ ~moved => soul_asked' = {}]_(Soul!vars)
  BY DEF SoulNothing
<1> QED
  BY <1>1, <1>2, <1>3, SoulInit, PTL
     DEF Soul!Spec, SoulToldToAll, Soul!NothingIfNobodyHas

-----------------------------------------------------------------------------
(* A callback for what there is.                                           *)

OnceFields == {"put", "there", "due", "done", "stun", "told", "heard"}
OnceTimers == [at : Once!Ats, via : BOOLEAN]
OnceCalls == [at : Once!Ats, data : {"nothing", "simple", "node"}]

OncePage(p) ==
  /\ p = [f \in OnceFields |-> p[f]]
  /\ p.put \in [Once!Ats -> Once!Values] /\ p.there \in BOOLEAN
  /\ p.due \in Seq(OnceTimers)
  /\ p.done \subseteq Once!Ats /\ p.stun \in BOOLEAN
  /\ p.told \in Seq(OnceCalls)
  /\ p.heard \in [Once!Ats -> {"none", "nothing", "data"}]

OnceTold(p, a) == \E n \in DOMAIN p.told : p.told[n].at = a

OnceWaits(p, a) == p.put[a] = "link" /\ ~p.there

(* Chains that are done with are those that the callback was called for.   *)
OnceTells(p) ==
  /\ \A n, m \in DOMAIN p.told : p.told[n].at = p.told[m].at => n = m
  /\ \A a \in Once!Ats : a \in p.done <=> OnceTold(p, a)
  /\ p.stun <=> once_core /\ p.told # <<>>
  /\ once_core => Len(p.told) <= 1

(* A timer that finds nothing was set for nothing, unless its chain is one *)
(* of X, which have yet to hear.                                           *)
OnceKnows(p, X) ==
  \A n \in DOMAIN p.due :
    /\ p.due[n].at \notin X
    /\ ~Once!Done(p, p.due[n].at)
    /\ p.put[p.due[n].at] = "nothing"
    /\ ~(p.there /\ p.due[n].via)
    => p.heard[p.due[n].at] = "nothing"

(* The chain of a map has no data of its own.                              *)
OnceOwn(p) ==
  ~once_core => /\ p.put["self"] = "nothing"
                /\ \A n \in DOMAIN p.due : p.due[n].at # "self"

(* Who has heard, other than X, waits for a timer or for a link, or was    *)
(* called.                                                                 *)
OnceEnds(p, X) ==
  /\ once_core /\ p.heard["self"] # "none" /\ X = {} =>
       p.due # <<>> \/ p.told # <<>> \/ \E a \in Once!Ats : OnceWaits(p, a)
  /\ ~once_core =>
       \A a \in OnceOthers \ X : p.heard[a] # "none" =>
         OnceTold(p, a) \/ OnceWaits(p, a) \/ \E n \in DOMAIN p.due : p.due[n].at = a

OnceFine(p, X) ==
  OncePage(p) /\ OnceTells(p) /\ OnceKnows(p, X) /\ OnceOwn(p) /\ OnceEnds(p, X)

OnceInv == once_core \in BOOLEAN /\ OnceFine(Once!Page, {})

OnceTruly ==
  \A n \in DOMAIN once_told' \ DOMAIN once_told :
    once_told'[n].data = "nothing" => once_heard'[once_told'[n].at] = "nothing"

LEMMA OnceChains ==
  /\ Once!Ats = OnceOthers \cup {"self"} /\ "self" \notin OnceOthers
  /\ IsFiniteSet(Once!Ats)
<1>1. "self" \notin OnceOthers /\ Once!IsFiniteSet(OnceOthers)
  BY PeerAssumption DEF Once!OnceAssumption, Once!Self
<1>2. IsFiniteSet(OnceOthers)
  BY <1>1 DEF Once!IsFiniteSet, IsFiniteSet
<1> QED
  BY <1>1, <1>2, FS_AddElement DEF Once!Ats, Once!Self

(* What is left of timers q when those of a and of the chain itself are    *)
(* cleared.                                                                *)
OnceKept(h, q, a, n) ==
  h = [k \in 0 .. n |-> IF k = 0 THEN <<>>
                        ELSE IF q[k].at \in {a, "self"} THEN h[k - 1]
                             ELSE Append(h[k - 1], q[k])]

LEMMA OnceKeptExists ==
  ASSUME NEW q, NEW a, NEW n \in Nat
  PROVE  \E h : OnceKept(h, q, a, n)
<1> DEFINE Next(u, k) == IF q[k].at \in {a, "self"} THEN u ELSE Append(u, q[k])
           Keeps(h, m) == h = [k \in 0 .. m |->
                                 IF k = 0 THEN <<>> ELSE Next(h[k - 1], k)]
           None == {m \in Nat : ~ \E h : Keeps(h, m)}
<1> HIDE DEF Next
<1>1. ASSUME None # {}
      PROVE  FALSE
  <2>0. None \in SUBSET Nat
    OBVIOUS
  <2>1. PICK b \in None : \A k \in None : b <= k
    <3> HIDE DEF None
    <3> QED
      BY <1>1, LeastNatural, <2>0
  <2>2. b \in Nat /\ ~ \E h : Keeps(h, b)
    BY <2>1
  <2>3. CASE b = 0
    <3> DEFINE g == [k \in 0 .. b |-> <<>>]
    <3>1. Keeps(g, b)
      BY <2>3
    <3> QED
      BY <2>2, <3>1
  <2>4. CASE b # 0
    <3>0. b - 1 \in Nat /\ ~(b <= b - 1)
      BY <2>2, <2>4
    <3>1. b - 1 \notin None
      BY <2>1, <3>0
    <3>2. PICK h : Keeps(h, b - 1)
      BY <3>0, <3>1
    <3> DEFINE g == [k \in 0 .. b |-> IF k = b THEN Next(h[b - 1], b) ELSE h[k]]
    <3>3. ASSUME NEW k \in 0 .. b
          PROVE  g[k] = IF k = 0 THEN <<>> ELSE Next(g[k - 1], k)
      <4>1. CASE k = b
        BY <2>4, <3>0, <4>1
      <4>2. CASE k # b
        <5>1. k \in 0 .. b - 1 /\ g[k] = h[k]
          BY <2>2, <4>2
        <5>2. h[k] = IF k = 0 THEN <<>> ELSE Next(h[k - 1], k)
          BY <3>2, <5>1
        <5>3. k # 0 => g[k - 1] = h[k - 1]
          BY <2>2, <5>1
        <5> QED
          BY <5>1, <5>2, <5>3
      <4> QED
        BY <4>1, <4>2
    <3>4. Keeps(g, b)
      BY <3>3
    <3> QED
      BY <2>2, <3>4
  <2> QED
    BY <2>3, <2>4
<1>2. n \notin None
  BY <1>1
<1>3. \E h : Keeps(h, n)
  BY <1>2
<1> QED
  BY <1>3 DEF Next, OnceKept

(* What is left are the others of q.                                       *)
OnceLeft(u, q, a, m) ==
  /\ u \in Seq(OnceTimers)
  /\ \A n \in DOMAIN u : /\ u[n].at \notin {a, "self"}
                         /\ \E k \in 1 .. m : q[k] = u[n]
  /\ \A k \in 1 .. m : q[k].at \notin {a, "self"} => \E n \in DOMAIN u : u[n] = q[k]

LEMMA OnceClears ==
  ASSUME NEW q \in Seq(OnceTimers), NEW a
  PROVE  OnceLeft(Once!Clear(q, a), q, a, Len(q))
<1> DEFINE h == CHOOSE h : OnceKept(h, q, a, Len(q))
<1>0. Len(q) \in Nat
  OBVIOUS
<1>7. OnceKept(h, q, a, Len(q))
  BY <1>0, OnceKeptExists, Zenon
<1>1. h = [k \in 0 .. Len(q) |-> IF k = 0 THEN <<>>
                                 ELSE IF q[k].at \in {a, "self"} THEN h[k - 1]
                                      ELSE Append(h[k - 1], q[k])]
  BY <1>7, Zenon DEF OnceKept
<1>2. Once!Clear(q, a) = h[Len(q)]
  BY DEF Once!Clear, Once!Self, OnceKept
<1> HIDE DEF h
<1>3. h[0] = <<>>
  BY <1>0, <1>1
<1>4. ASSUME NEW k \in 1 .. Len(q)
      PROVE  h[k] = IF q[k].at \in {a, "self"} THEN h[k - 1] ELSE Append(h[k - 1], q[k])
  <2>1. k \in 0 .. Len(q) /\ k # 0
    BY <1>0
  <2>2. h[k] = IF k = 0 THEN <<>>
               ELSE IF q[k].at \in {a, "self"} THEN h[k - 1]
                    ELSE Append(h[k - 1], q[k])
    BY <1>1, <2>1
  <2> QED
    BY <2>1, <2>2
<1> DEFINE Wrong == {m \in Nat : m <= Len(q) /\ ~OnceLeft(h[m], q, a, m)}
<1>5. ASSUME Wrong # {}
      PROVE  FALSE
  <2>0. Wrong \in SUBSET Nat
    OBVIOUS
  <2>1. PICK b \in Wrong : \A k \in Wrong : b <= k
    <3> HIDE DEF Wrong
    <3> QED
      BY <1>5, <2>0, LeastNatural
  <2>2. b \in Nat /\ b <= Len(q) /\ ~OnceLeft(h[b], q, a, b)
    BY <2>1
  <2>3. CASE b = 0
    <3>1. <<>> \in Seq(OnceTimers) /\ DOMAIN <<>> = {} /\ 1 .. 0 = {}
      OBVIOUS
    <3>2. OnceLeft(<<>>, q, a, 0)
      BY <3>1 DEF OnceLeft
    <3> QED
      BY <1>3, <2>2, <2>3, <3>2
  <2>4. CASE b # 0
    <3>0. b - 1 \in Nat /\ ~(b <= b - 1) /\ b - 1 <= Len(q) /\ b \in 1 .. Len(q)
      BY <1>0, <2>2, <2>4
    <3>1. b - 1 \notin Wrong
      BY <2>1, <3>0
    <3> DEFINE u == h[b - 1]
    <3>2. OnceLeft(u, q, a, b - 1)
      BY <3>0, <3>1
    <3>3. h[b] = IF q[b].at \in {a, "self"} THEN u ELSE Append(u, q[b])
      BY <1>4, <3>0
    <3>4. q[b] \in OnceTimers
      BY <3>0
    <3>5. \A k \in 1 .. b : k \in 1 .. b - 1 \/ k = b
      BY <3>0
    <3>6. 1 .. b - 1 \subseteq 1 .. b /\ b \in 1 .. b
      BY <3>0
    <3> HIDE DEF u
    <3>7. CASE q[b].at \in {a, "self"}
      <4>1. h[b] = u
        BY <3>3, <3>7
      <4>2. OnceLeft(u, q, a, b)
        BY <3>2, <3>5, <3>6, <3>7 DEF OnceLeft
      <4> QED
        BY <2>2, <4>1, <4>2
    <3>8. CASE q[b].at \notin {a, "self"}
      <4> DEFINE v == Append(u, q[b])
      <4>1. h[b] = v
        BY <3>3, <3>8
      <4>2. /\ v \in Seq(OnceTimers) /\ v[Len(u) + 1] = q[b] /\ Len(u) + 1 \in DOMAIN v
            /\ \A n \in DOMAIN u : n \in DOMAIN v /\ v[n] = u[n]
            /\ \A n \in DOMAIN v : n \in DOMAIN u \/ n = Len(u) + 1
        BY <3>2, <3>4 DEF OnceLeft
      <4> HIDE DEF v
      <4>3. \A n \in DOMAIN v : /\ v[n].at \notin {a, "self"}
                                /\ \E k \in 1 .. b : q[k] = v[n]
        BY <3>2, <3>6, <3>8, <4>2 DEF OnceLeft
      <4>4. \A k \in 1 .. b :
              q[k].at \notin {a, "self"} => \E n \in DOMAIN v : v[n] = q[k]
        BY <3>2, <3>5, <4>2 DEF OnceLeft
      <4>5. OnceLeft(v, q, a, b)
        BY <4>2, <4>3, <4>4 DEF OnceLeft
      <4> QED
        BY <2>2, <4>1, <4>5
    <3> QED
      BY <3>7, <3>8
  <2> QED
    BY <2>3, <2>4
<1>6. Len(q) \notin Wrong
  BY <1>5
<1> QED
  BY <1>0, <1>2, <1>6

(* Sequence s with e at its end.                                           *)
Appended(s, e, t) ==
  /\ t # <<>> /\ Len(t) = Len(s) + 1 /\ Len(s) \in Nat
  /\ Len(s) + 1 \in DOMAIN t /\ t[Len(s) + 1] = e
  /\ \A n \in DOMAIN s : n \in DOMAIN t /\ t[n] = s[n]
  /\ \A n \in DOMAIN t : n \in DOMAIN s \/ n = Len(s) + 1

LEMMA AppendIsAppended ==
  ASSUME NEW S, NEW s \in Seq(S), NEW e \in S
  PROVE  Append(s, e) \in Seq(S) /\ Appended(s, e, Append(s, e))
<1>1. /\ Append(s, e) \in Seq(S) /\ Append(s, e) # <<>>
      /\ Len(Append(s, e)) = Len(s) + 1 /\ Len(s) \in Nat
      /\ DOMAIN s = 1 .. Len(s) /\ DOMAIN Append(s, e) = 1 .. Len(s) + 1
      /\ \A n \in 1 .. Len(s) : Append(s, e)[n] = s[n]
      /\ Append(s, e)[Len(s) + 1] = e
  OBVIOUS
<1> QED
  BY <1>1 DEF Appended

(* once() calls back, or the chain is done with, or has an unknown link.   *)
OnceCalled(p, q, r) ==
  /\ ~Once!Done(p, r.at)
  /\ OncePage(q) /\ OnceTells(q)
  /\ q.put = p.put /\ q.there = p.there /\ q.due = p.due /\ q.heard = p.heard
  /\ p.done \subseteq q.done /\ r.at \in q.done /\ q.stun = once_core
  /\ q.told = Append(p.told, [at |-> r.at, data |-> Once!Data(p, r)])
  /\ Once!Data(p, r) # "link"

LEMMA OnceCallsBack ==
  ASSUME once_core \in BOOLEAN, NEW p, OncePage(p), OnceTells(p),
         NEW r \in OnceTimers
  PROVE  LET q == Once!once(p, r) IN
         \/ q = p /\ Once!Done(p, r.at)
         \/ q = p /\ Once!Data(p, r) = "link"
         \/ OnceCalled(p, q, r)
<1> DEFINE data == Once!Data(p, r)
           call == [at |-> r.at, data |-> data]
           q == [p EXCEPT !.done = @ \cup {r.at}, !.stun = once_core,
                          !.told = Append(@, call)]
<1>1. CASE data = "link" \/ Once!Done(p, r.at)
  BY <1>1 DEF Once!once
<1>2. CASE data # "link" /\ ~Once!Done(p, r.at)
  <2>1. Once!once(p, r) = q
    BY <1>2 DEF Once!once
  <2>2. r.at \in Once!Ats /\ data \in {"nothing", "simple", "node"}
    BY <1>2 DEF OnceTimers, OncePage, Once!Data, Once!Values
  <2>3. call \in OnceCalls /\ call.at = r.at
    BY <2>2 DEF OnceCalls
  <2> HIDE DEF call
  <2>4. /\ q = [f \in OnceFields |-> q[f]]
        /\ q.put = p.put /\ q.there = p.there /\ q.due = p.due /\ q.heard = p.heard
        /\ q.done = p.done \cup {r.at} /\ q.stun = once_core
        /\ q.told = Append(p.told, call)
    BY DEF OncePage, OnceFields
  <2> HIDE DEF q, data
  <2>0. p.told \in Seq(OnceCalls)
    BY DEF OncePage
  <2>5. q.told \in Seq(OnceCalls) /\ Appended(p.told, call, q.told)
    <3>1. /\ Append(p.told, call) \in Seq(OnceCalls)
          /\ Appended(p.told, call, Append(p.told, call))
      BY <2>0, <2>3, AppendIsAppended
    <3> QED
      BY <2>4, <3>1, Zenon
  <2>6. /\ q.told # <<>> /\ Len(q.told) = Len(p.told) + 1
        /\ q.told[Len(p.told) + 1] = call /\ Len(p.told) + 1 \in DOMAIN q.told
        /\ \A n \in DOMAIN p.told : n \in DOMAIN q.told /\ q.told[n] = p.told[n]
        /\ \A n \in DOMAIN q.told : n \in DOMAIN p.told \/ n = Len(p.told) + 1
    BY <2>5, Zenon DEF Appended
  <2>7. OncePage(q)
    BY <2>2, <2>4, <2>5 DEF OncePage
  <2>8. ~p.stun /\ r.at \notin p.done
    BY <1>2 DEF Once!Done
  <2>9. \A n \in DOMAIN p.told : p.told[n].at # r.at
    BY <2>2, <2>8 DEF OnceTells, OnceTold
  <2>10. \A n, m \in DOMAIN q.told : q.told[n].at = q.told[m].at => n = m
    BY <2>3, <2>6, <2>9 DEF OnceTells
  <2>11. \A a \in Once!Ats : a \in q.done <=> OnceTold(q, a)
    <3>1. ASSUME NEW a \in Once!Ats
          PROVE  OnceTold(q, a) <=> OnceTold(p, a) \/ a = r.at
      BY <2>3, <2>6 DEF OnceTold
    <3> QED
      BY <2>4, <3>1 DEF OnceTells
  <2>12. once_core => Len(q.told) <= 1
    <3>1. once_core => p.told = <<>>
      BY <2>8 DEF OnceTells
    <3>2. once_core => Len(p.told) = 0
      BY <3>1
    <3> QED
      BY <2>6, <3>2
  <2>13. q.stun <=> once_core /\ q.told # <<>>
    BY <2>4, <2>6
  <2>14. OnceTells(q)
    BY <2>10, <2>11, <2>12, <2>13 DEF OnceTells
  <2>15. OnceCalled(p, q, r)
    BY <1>2, <2>4, <2>7, <2>14 DEF OnceCalled, call, data
  <2> QED
    BY <2>1, <2>15
<1> QED
  BY <1>1, <1>2

(* A message about a is of data that a has, or of what it links to.        *)
OnceMessage(p, a, data, via) ==
  IF via THEN /\ p.put[a] = "link"
              /\ data = IF p.there THEN "node" ELSE "nothing"
         ELSE data = p.put[a]

OnceGoesOn(p, q, data) ==
  /\ q.put = p.put /\ q.there = p.there
  /\ \/ q.told = p.told
     \/ /\ data = "simple"
        /\ \E a \in Once!Ats : q.told = Append(p.told, [at |-> a, data |-> "simple"])

LEMMA OnceListens ==
  ASSUME once_core \in BOOLEAN, NEW p, NEW X, OnceFine(p, X),
         NEW a \in Once!Ats, once_core \/ a # "self",
         NEW data \in Once!Values, NEW via \in BOOLEAN, OnceMessage(p, a, data, via)
  PROVE  LET q == Once!Listen(p, a, data, via) IN
         OnceFine(q, X \ {a}) /\ OnceGoesOn(p, q, data)
<1> DEFINE r == [at |-> a, via |-> via]
           kind == IF data = "nothing" THEN "nothing" ELSE "data"
           q == [p EXCEPT !.heard[a] = kind, !.heard["self"] = kind]
           u == Once!Listen(p, a, data, via)
<1>1. r \in OnceTimers /\ r.at = a /\ r.via = via
  BY DEF OnceTimers
<1>2. /\ OncePage(p) /\ OnceTells(p) /\ OnceKnows(p, X) /\ OnceOwn(p) /\ OnceEnds(p, X)
      /\ "self" \in Once!Ats /\ Once!Ats = OnceOthers \cup {"self"}
      /\ "self" \notin OnceOthers
  BY OnceChains DEF OnceFine
<1>3. CASE Once!Done(p, a) \/ (data = "link" /\ ~p.there)
  <2>1. Once!Listen(p, a, data, via) = p
    <3>1. CASE Once!Done(p, a)
      BY <3>1 DEF Once!Listen
    <3>2. CASE data = "link" /\ ~p.there
      BY <3>2, Zenon DEF Once!Listen
    <3> QED
      BY <1>3, <3>1, <3>2
  <2>10. u = p
    BY <2>1, Zenon
  <2> HIDE DEF u, q
  <2>2. Once!Done(p, a) => /\ OnceTold(p, a) \/ p.told # <<>>
                           /\ ~once_core => OnceTold(p, a)
    BY <1>2 DEF Once!Done, OnceTells
  <2>3. ~Once!Done(p, a) => OnceWaits(p, a)
    BY <1>3 DEF OnceMessage, OnceWaits
  <2>4. OnceTold(p, a) => p.told # <<>>
    BY DEF OnceTold
  <2>5. OnceKnows(p, X \ {a})
    <3>1. ASSUME NEW n \in DOMAIN p.due, p.due[n].at = a,
                 ~Once!Done(p, p.due[n].at), p.put[p.due[n].at] = "nothing"
          PROVE  FALSE
      BY <2>3, <3>1 DEF OnceWaits
    <3> QED
      BY <1>2, <3>1 DEF OnceKnows
  <2>6. OnceEnds(p, X \ {a})
    BY <1>2, <2>2, <2>3, <2>4 DEF OnceEnds
  <2>7. OnceGoesOn(p, p, data)
    BY Zenon DEF OnceGoesOn
  <2>8. OnceFine(p, X \ {a})
    BY <1>2, <2>5, <2>6, Zenon DEF OnceFine
  <2> QED
    BY <2>1, <2>7, <2>8, Zenon
<1>4. CASE ~Once!Done(p, a) /\ ~(data = "link" /\ ~p.there)
  <2>1. /\ q = [f \in OnceFields |-> q[f]]
        /\ q.put = p.put /\ q.there = p.there /\ q.due = p.due /\ q.done = p.done
        /\ q.stun = p.stun /\ q.told = p.told
        /\ q.heard = [p.heard EXCEPT ![a] = kind, !["self"] = kind]
    BY <1>2 DEF OncePage, OnceFields
  <2>2. kind \in {"nothing", "data"} /\ (kind = "nothing" <=> data = "nothing")
    OBVIOUS
  <2> HIDE DEF kind
  <2>3. /\ q.heard \in [Once!Ats -> {"none", "nothing", "data"}]
        /\ q.heard[a] = kind /\ q.heard["self"] = kind
        /\ \A b \in Once!Ats : b # a /\ b # "self" => q.heard[b] = p.heard[b]
    BY <1>2, <2>1, <2>2 DEF OncePage
  <2>4. u = IF data = "simple" THEN Once!once(q, r)
            ELSE [q EXCEPT !.due = Append(Once!Clear(@, a), r)]
    BY <1>4 DEF Once!Listen, Once!Self, kind
  <2> HIDE DEF q, r
  <2>5. OncePage(q)
    BY <1>2, <2>1, <2>3 DEF OncePage
  <2>6. OnceTells(q)
    BY <1>2, <2>1 DEF OnceTells, OnceTold
  <2>7. ~Once!Done(q, a)
    BY <1>4, <2>1 DEF Once!Done
  <2>8. CASE data = "simple"
    <3>1. ~via /\ p.put[a] = "simple"
      BY <2>8 DEF OnceMessage
    <3>2. Once!Data(q, r) = "simple"
      BY <1>1, <2>1, <3>1 DEF Once!Data
    <3>3. OnceCalled(q, u, r)
      BY <1>1, <2>4, <2>5, <2>6, <2>7, <2>8, <3>2, OnceCallsBack
    <3>4. /\ OncePage(u) /\ OnceTells(u)
          /\ u.put = p.put /\ u.there = p.there /\ u.due = p.due /\ u.heard = q.heard
          /\ a \in u.done /\ u.stun = once_core /\ p.done \subseteq u.done
          /\ u.told = Append(p.told, [at |-> a, data |-> "simple"])
      BY <1>1, <2>1, <3>2, <3>3 DEF OnceCalled
    <3> HIDE DEF u
    <3>5. OnceTold(u, a) /\ u.told # <<>>
      BY <1>2, <3>4 DEF OnceTells, OncePage
    <3>6. OnceKnows(u, X \ {a})
      <4>1. ASSUME NEW n \in DOMAIN u.due, ~Once!Done(u, u.due[n].at)
            PROVE  /\ ~once_core /\ u.due[n].at # a /\ u.due[n].at # "self"
                   /\ u.due[n].at \in Once!Ats /\ ~Once!Done(p, u.due[n].at)
        <5>1. p.due \in Seq(OnceTimers) /\ n \in DOMAIN p.due
          BY <1>2, <3>4 DEF OncePage
        <5>2. p.due[n] \in OnceTimers
          BY <5>1
        <5>3. u.due[n].at \in Once!Ats
          BY <3>4, <5>2 DEF OnceTimers
        <5>4. ~u.stun /\ u.due[n].at \notin u.done
          BY <4>1, Zenon DEF Once!Done
        <5>5. ~once_core
          BY <3>4, <5>4
        <5>6. u.due[n].at # "self"
          BY <1>2, <3>4, <5>1, <5>5 DEF OnceOwn
        <5>7. ~p.stun
          BY <1>2, <5>5 DEF OnceTells
        <5>8. ~Once!Done(p, u.due[n].at)
          BY <3>4, <5>4, <5>7 DEF Once!Done
        <5> QED
          BY <3>4, <5>3, <5>4, <5>5, <5>6, <5>8
      <4> QED
        BY <1>2, <2>3, <3>4, <4>1 DEF OnceKnows
    <3>7. OnceOwn(u)
      BY <1>2, <3>4 DEF OnceOwn
    <3>8. ASSUME NEW b \in OnceOthers \ (X \ {a}), ~once_core, u.heard[b] # "none"
          PROVE  OnceTold(u, b) \/ OnceWaits(u, b)
                   \/ \E n \in DOMAIN u.due : u.due[n].at = b
      <4>1. CASE b = a
        BY <3>5, <4>1
      <4>2. CASE b # a
        <5>1. b \notin X /\ p.heard[b] # "none"
          BY <1>2, <2>3, <3>4, <3>8, <4>2
        <5>2. OnceTold(p, b) \/ OnceWaits(p, b) \/ \E n \in DOMAIN p.due : p.due[n].at = b
          BY <1>2, <3>8, <5>1 DEF OnceEnds
        <5>3. OnceTold(p, b) => OnceTold(u, b)
          BY <1>2, <3>4 DEF OnceTells
        <5> QED
          BY <3>4, <5>2, <5>3 DEF OnceWaits
      <4> QED
        BY <4>1, <4>2
    <3>9. OnceEnds(u, X \ {a})
      BY <3>5, <3>8 DEF OnceEnds
    <3>10. OnceGoesOn(p, u, data)
      BY <2>8, <3>4 DEF OnceGoesOn
    <3>11. OnceFine(u, X \ {a})
      BY <3>4, <3>6, <3>7, <3>9, Zenon DEF OnceFine
    <3> QED
      BY <3>10, <3>11, Zenon DEF u
  <2>9. CASE data # "simple"
    <3> DEFINE left == Once!Clear(p.due, a)
    <3>1. u = [q EXCEPT !.due = Append(left, r)]
      BY <2>1, <2>4, <2>9
    <3>2. OnceLeft(left, p.due, a, Len(p.due)) /\ DOMAIN p.due = 1 .. Len(p.due)
      BY <1>2, OnceClears DEF OncePage
    <3> HIDE DEF left
    <3>3. /\ u = [f \in OnceFields |-> u[f]]
          /\ u.put = p.put /\ u.there = p.there /\ u.done = p.done
          /\ u.stun = p.stun /\ u.told = p.told /\ u.heard = q.heard
          /\ u.due = Append(left, r)
      BY <2>1, <3>1 DEF OnceFields
    <3> HIDE DEF u
    <3>14. left \in Seq(OnceTimers)
      BY <3>2, Zenon DEF OnceLeft
    <3>15. u.due \in Seq(OnceTimers) /\ Appended(left, r, u.due)
      BY <1>1, <3>3, <3>14, AppendIsAppended, Zenon
    <3>4. /\ u.due \in Seq(OnceTimers) /\ u.due # <<>>
          /\ Len(left) + 1 \in DOMAIN u.due /\ u.due[Len(left) + 1] = r
          /\ \A n \in DOMAIN left : n \in DOMAIN u.due /\ u.due[n] = left[n]
          /\ \A n \in DOMAIN u.due : n \in DOMAIN left \/ n = Len(left) + 1
      BY <3>15, Zenon DEF Appended
    <3>5. OncePage(u)
      BY <1>2, <2>3, <3>3, <3>4 DEF OncePage
    <3>6. OnceTells(u)
      <4>1. \A b : OnceTold(u, b) <=> OnceTold(p, b)
        BY <3>3, Zenon DEF OnceTold
      <4> QED
        BY <1>2, <3>3, <4>1 DEF OnceTells
    <3>7. ASSUME NEW n \in DOMAIN u.due
          PROVE  \/ u.due[n] = r
                 \/ /\ u.due[n].at \notin {a, "self"} /\ u.due[n].at \in Once!Ats
                    /\ \E k \in DOMAIN p.due : p.due[k] = u.due[n]
      <4>1. CASE n = Len(left) + 1
        BY <3>4, <4>1
      <4>2. CASE n \in DOMAIN left
        <5>1. u.due[n] = left[n] /\ left[n] \in OnceTimers
          BY <3>4, <3>14, <4>2
        <5>2. left[n].at \notin {a, "self"} /\ \E k \in 1 .. Len(p.due) : p.due[k] = left[n]
          BY <3>2, <4>2, Zenon DEF OnceLeft
        <5>3. left[n].at \in Once!Ats
          BY <5>1 DEF OnceTimers
        <5> QED
          BY <3>2, <5>1, <5>2, <5>3
      <4> QED
        BY <3>4, <3>7, <4>1, <4>2
    <3>8. p.put[a] = "nothing" /\ ~(p.there /\ via) => kind = "nothing"
      BY <2>2 DEF OnceMessage
    <3>9. OnceKnows(u, X \ {a})
      <4> SUFFICES ASSUME NEW n \in DOMAIN u.due,
                          u.due[n].at \notin X \ {a},
                          ~Once!Done(u, u.due[n].at),
                          u.put[u.due[n].at] = "nothing",
                          ~(u.there /\ u.due[n].via)
                   PROVE  u.heard[u.due[n].at] = "nothing"
        BY DEF OnceKnows
      <4>1. CASE u.due[n] = r
        BY <1>1, <2>3, <3>3, <3>8, <4>1
      <4>2. CASE u.due[n] # r
        <5>1. /\ u.due[n].at \notin {a, "self"} /\ u.due[n].at \in Once!Ats
              /\ \E k \in DOMAIN p.due : p.due[k] = u.due[n]
          BY <3>7, <4>2
        <5>2. ~Once!Done(p, u.due[n].at)
          BY <3>3 DEF Once!Done
        <5>3. p.heard[u.due[n].at] = "nothing"
          BY <1>2, <3>3, <5>1, <5>2 DEF OnceKnows
        <5> QED
          BY <2>3, <3>3, <5>1, <5>3
      <4> QED
        BY <4>1, <4>2
    <3>10. OnceOwn(u)
      BY <1>1, <1>2, <3>3, <3>7 DEF OnceOwn
    <3>11. ASSUME NEW b \in OnceOthers \ (X \ {a}), ~once_core, u.heard[b] # "none"
           PROVE  OnceTold(u, b) \/ OnceWaits(u, b)
                    \/ \E n \in DOMAIN u.due : u.due[n].at = b
      <4>1. CASE b = a
        BY <1>1, <3>4, <4>1
      <4>2. CASE b # a
        <5>1. b \notin X /\ p.heard[b] # "none" /\ b \notin {a, "self"}
          BY <1>2, <2>3, <3>3, <3>11, <4>2
        <5>2. OnceTold(p, b) \/ OnceWaits(p, b) \/ \E n \in DOMAIN p.due : p.due[n].at = b
          BY <1>2, <3>11, <5>1 DEF OnceEnds
        <5>3. ASSUME NEW n \in DOMAIN p.due, p.due[n].at = b
              PROVE  \E k \in DOMAIN u.due : u.due[k].at = b
          <6>1. \E k \in DOMAIN left : left[k] = p.due[n]
            BY <3>2, <5>1, <5>3 DEF OnceLeft
          <6> QED
            BY <3>4, <5>3, <6>1
        <5> QED
          BY <3>3, <5>2, <5>3 DEF OnceWaits, OnceTold
      <4> QED
        BY <4>1, <4>2
    <3>12. OnceEnds(u, X \ {a})
      BY <3>4, <3>11 DEF OnceEnds
    <3>13. OnceGoesOn(p, u, data)
      BY <3>3, Zenon DEF OnceGoesOn
    <3>16. OnceFine(u, X \ {a})
      BY <3>5, <3>6, <3>9, <3>10, <3>12, Zenon DEF OnceFine
    <3> QED
      BY <3>13, <3>16, Zenon DEF u
  <2> QED
    BY <2>8, <2>9
<1> QED
  BY <1>3, <1>4

(* Page p after messages about the first n chains of order.                *)
OnceHeard(h, p, order, data, n) ==
  h = [k \in 0 .. n |-> IF k = 0 THEN p
                        ELSE Once!Listen(h[k - 1], order[k], data, TRUE)]

LEMMA OnceHeardExists ==
  ASSUME NEW p, NEW order, NEW data, NEW n \in Nat
  PROVE  \E h : OnceHeard(h, p, order, data, n)
<1> DEFINE Next(u, k) == Once!Listen(u, order[k], data, TRUE)
           Hears(h, m) == h = [k \in 0 .. m |->
                                 IF k = 0 THEN p ELSE Next(h[k - 1], k)]
           None == {m \in Nat : ~ \E h : Hears(h, m)}
<1> HIDE DEF Next
<1>1. ASSUME None # {}
      PROVE  FALSE
  <2>0. None \in SUBSET Nat
    OBVIOUS
  <2>1. PICK b \in None : \A k \in None : b <= k
    <3> HIDE DEF None
    <3> QED
      BY <1>1, LeastNatural, <2>0
  <2>2. b \in Nat /\ ~ \E h : Hears(h, b)
    BY <2>1
  <2>3. CASE b = 0
    <3> DEFINE g == [k \in 0 .. b |-> p]
    <3>1. Hears(g, b)
      BY <2>3
    <3> QED
      BY <2>2, <3>1
  <2>4. CASE b # 0
    <3>0. b - 1 \in Nat /\ ~(b <= b - 1)
      BY <2>2, <2>4
    <3>1. b - 1 \notin None
      BY <2>1, <3>0
    <3>2. PICK h : Hears(h, b - 1)
      BY <3>0, <3>1
    <3> DEFINE g == [k \in 0 .. b |-> IF k = b THEN Next(h[b - 1], b) ELSE h[k]]
    <3>3. ASSUME NEW k \in 0 .. b
          PROVE  g[k] = IF k = 0 THEN p ELSE Next(g[k - 1], k)
      <4>1. CASE k = b
        BY <2>4, <3>0, <4>1
      <4>2. CASE k # b
        <5>1. k \in 0 .. b - 1 /\ g[k] = h[k]
          BY <2>2, <4>2
        <5>2. h[k] = IF k = 0 THEN p ELSE Next(h[k - 1], k)
          BY <3>2, <5>1
        <5>3. k # 0 => g[k - 1] = h[k - 1]
          BY <2>2, <5>1
        <5> QED
          BY <5>1, <5>2, <5>3
      <4> QED
        BY <4>1, <4>2
    <3>4. Hears(g, b)
      BY <3>3
    <3> QED
      BY <2>2, <3>4
  <2> QED
    BY <2>3, <2>4
<1>2. n \notin None
  BY <1>1
<1>3. \E h : Hears(h, n)
  BY <1>2
<1> QED
  BY <1>3 DEF Next, OnceHeard

(* Of the chains S with a link, those after the first n of order.          *)
OnceAfter(S, order, n) == {a \in S : \A k \in 1 .. n : order[k] # a}

OnceSame(p, q) == q.put = p.put /\ q.there = p.there /\ q.told = p.told

LEMMA OnceAllListen ==
  ASSUME once_core \in BOOLEAN, NEW p, NEW S,
         S = {a \in Once!Ats : p.put[a] = "link"}, OnceFine(p, S),
         NEW m \in Nat, NEW order \in [1 .. m -> S],
         \A a \in S : \E n \in 1 .. m : order[n] = a,
         NEW data, data = IF p.there THEN "node" ELSE "nothing"
  PROVE  /\ OnceFine(Once!ListenAll(p, order, data), {})
         /\ OnceSame(p, Once!ListenAll(p, order, data))
<1> DEFINE h == CHOOSE h : OnceHeard(h, p, order, data, m)
           Good(n) == OnceFine(h[n], OnceAfter(S, order, n)) /\ OnceSame(p, h[n])
<1>1. order \in Seq(S) /\ Len(order) = m
  OBVIOUS
<1>2. OnceHeard(h, p, order, data, m)
  BY OnceHeardExists, Zenon
<1>3. h = [k \in 0 .. m |-> IF k = 0 THEN p
                            ELSE Once!Listen(h[k - 1], order[k], data, TRUE)]
  BY <1>2, Zenon DEF OnceHeard
<1>4. Once!ListenAll(p, order, data) = h[m]
  BY <1>1 DEF Once!ListenAll, OnceHeard
<1> HIDE DEF h
<1>5. h[0] = p
  BY <1>3
<1>6. ASSUME NEW k \in 1 .. m
      PROVE  h[k] = Once!Listen(h[k - 1], order[k], data, TRUE)
  <2>1. k \in 0 .. m /\ k # 0
    OBVIOUS
  <2> QED
    BY <1>3, <2>1
<1> DEFINE Wrong == {n \in Nat : n <= m /\ ~Good(n)}
<1> HIDE DEF Good
<1>7. ASSUME Wrong # {}
      PROVE  FALSE
  <2>0. Wrong \in SUBSET Nat
    OBVIOUS
  <2>1. PICK b \in Wrong : \A k \in Wrong : b <= k
    <3> HIDE DEF Wrong
    <3> QED
      BY <1>7, <2>0, LeastNatural
  <2>2. b \in Nat /\ b <= m /\ ~Good(b)
    BY <2>1
  <2>3. CASE b = 0
    <3>1. OnceAfter(S, order, 0) = S
      BY DEF OnceAfter
    <3> QED
      BY <1>5, <2>2, <2>3, <3>1, Zenon DEF Good, OnceSame
  <2>4. CASE b # 0
    <3> DEFINE a == order[b]
               u == h[b - 1]
               X == OnceAfter(S, order, b - 1)
    <3>0. b - 1 \in Nat /\ ~(b <= b - 1) /\ b - 1 <= m /\ b \in 1 .. m
      BY <2>2, <2>4
    <3>1. b - 1 \notin Wrong
      BY <2>1, <3>0
    <3>2. OnceFine(u, X) /\ OnceSame(p, u)
      BY <3>0, <3>1 DEF Good
    <3>3. a \in S /\ a \in Once!Ats /\ p.put[a] = "link"
      BY <3>0
    <3>4. h[b] = Once!Listen(u, a, data, TRUE)
      BY <1>6, <3>0
    <3>5. OnceAfter(S, order, b) = X \ {a}
      <4>1. 1 .. b = (1 .. b - 1) \cup {b}
        BY <3>0
      <4> QED
        BY <4>1, Zenon DEF OnceAfter
    <3> HIDE DEF a, u, X
    <3>6. once_core \/ a # "self"
      BY <3>3 DEF OnceFine, OnceOwn
    <3>7. OnceMessage(u, a, data, TRUE)
      BY <3>2, <3>3 DEF OnceMessage, OnceSame
    <3>8. data \in Once!Values /\ data # "simple"
      BY DEF Once!Values
    <3>9. /\ OnceFine(Once!Listen(u, a, data, TRUE), X \ {a})
          /\ OnceGoesOn(u, Once!Listen(u, a, data, TRUE), data)
      BY <3>2, <3>3, <3>6, <3>7, <3>8, OnceListens
    <3>10. OnceSame(p, h[b])
      BY <3>2, <3>4, <3>8, <3>9, Zenon DEF OnceSame, OnceGoesOn
    <3>11. Good(b)
      BY <3>4, <3>5, <3>9, <3>10, Zenon DEF Good
    <3> QED
      BY <2>2, <3>11
  <2> QED
    BY <2>3, <2>4
<1>8. Good(m)
  BY <1>7
<1>9. OnceAfter(S, order, m) = {}
  BY DEF OnceAfter
<1> QED
  BY <1>4, <1>8, <1>9, Zenon DEF Good

(* The callback is not called, or once, and for nothing only if the last   *)
(* message was of nothing.                                                 *)
OnceTrue(p, q) ==
  \/ q.told = p.told
  \/ \E c \in OnceCalls : /\ q.told = Append(p.told, c)
                          /\ c.data = "nothing" => q.heard[c.at] = "nothing"

(* Sequence s is e and then t.                                             *)
LeftOf(S, s, e, t) ==
  /\ e \in S /\ t \in Seq(S) /\ 1 \in DOMAIN s /\ s[1] = e
  /\ \A n \in DOMAIN t : \E k \in DOMAIN s : s[k] = t[n]
  /\ \A n \in DOMAIN s : s[n] = e \/ \E k \in DOMAIN t : t[k] = s[n]

LEMMA TailIsLeft ==
  ASSUME NEW S, NEW s \in Seq(S), s # <<>>
  PROVE  LeftOf(S, s, Head(s), Tail(s))
<1>1. /\ Len(s) \in Nat /\ Len(s) > 0 /\ DOMAIN s = 1 .. Len(s)
      /\ Head(s) = s[1] /\ Tail(s) \in Seq(S) /\ Len(Tail(s)) = Len(s) - 1
      /\ DOMAIN Tail(s) = 1 .. Len(s) - 1 /\ s \in [1 .. Len(s) -> S]
  OBVIOUS
<1>2. \A n \in 1 .. Len(s) - 1 : Tail(s)[n] = s[n + 1]
  OBVIOUS
<1> DEFINE t == Tail(s)
<1> HIDE DEF t
<1>3. Head(s) \in S /\ 1 \in DOMAIN s
  BY <1>1
<1>4. \A n \in DOMAIN t : \E k \in DOMAIN s : s[k] = t[n]
  <2>1. ASSUME NEW n \in DOMAIN t
        PROVE  n + 1 \in DOMAIN s /\ s[n + 1] = t[n]
    BY <1>1, <1>2 DEF t
  <2> QED
    BY <2>1
<1>5. ASSUME NEW n \in DOMAIN s
      PROVE  s[n] = Head(s) \/ \E k \in DOMAIN t : t[k] = s[n]
  <2>1. CASE n = 1
    BY <1>1, <2>1
  <2>2. CASE n # 1
    <3>1. n - 1 \in DOMAIN t /\ t[n - 1] = s[n - 1 + 1] /\ n - 1 + 1 = n
      BY <1>1, <1>2, <2>2 DEF t
    <3> QED
      BY <3>1
  <2> QED
    BY <2>1, <2>2
<1> QED
  BY <1>1, <1>3, <1>4, <1>5 DEF LeftOf, t

(* A timer ends.                                                           *)
LEMMA OnceTimes ==
  ASSUME once_core \in BOOLEAN, NEW p, OnceFine(p, {}), p.due # <<>>
  PROVE  LET q == Once!once([p EXCEPT !.due = Tail(p.due)], Head(p.due)) IN
         OnceFine(q, {}) /\ OnceTrue(p, q)
<1> DEFINE r == Head(p.due)
           rest == Tail(p.due)
           o == [p EXCEPT !.due = rest]
           q == Once!once(o, r)
<1>1. OncePage(p) /\ OnceTells(p) /\ OnceKnows(p, {}) /\ OnceOwn(p) /\ OnceEnds(p, {})
  BY Zenon DEF OnceFine
<1>0. p.due \in Seq(OnceTimers)
  BY <1>1, Zenon DEF OncePage
<1>2. /\ r \in OnceTimers /\ rest \in Seq(OnceTimers)
      /\ 1 \in DOMAIN p.due /\ p.due[1] = r
      /\ \A n \in DOMAIN rest :
           \E k \in DOMAIN p.due : p.due[k] = rest[n]
      /\ \A n \in DOMAIN p.due :
           p.due[n] = r \/ \E k \in DOMAIN rest : rest[k] = p.due[n]
  <2>0. p.due # <<>>
    OBVIOUS
  <2> QED
    BY <1>0, <2>0, TailIsLeft, Zenon DEF LeftOf
<1>3. /\ o = [f \in OnceFields |-> o[f]]
      /\ o.put = p.put /\ o.there = p.there /\ o.done = p.done /\ o.stun = p.stun
      /\ o.told = p.told /\ o.heard = p.heard /\ o.due = rest
  BY <1>1 DEF OncePage, OnceFields
<1> HIDE DEF o, r, rest
<1>4. OncePage(o)
  BY <1>1, <1>2, <1>3 DEF OncePage
<1>5. OnceTells(o)
  <2>1. \A a : OnceTold(o, a) <=> OnceTold(p, a)
    BY <1>3, Zenon DEF OnceTold
  <2> QED
    BY <1>1, <1>3, <2>1 DEF OnceTells
<1>6. \/ q = o /\ Once!Done(o, r.at)
      \/ q = o /\ Once!Data(o, r) = "link"
      \/ OnceCalled(o, q, r)
  BY <1>2, <1>4, <1>5, OnceCallsBack
<1>7. r.at \in Once!Ats /\ r.via \in BOOLEAN
  BY <1>2 DEF OnceTimers
<1> HIDE DEF q
<1>8. /\ OncePage(q) /\ OnceTells(q) /\ q.put = p.put /\ q.there = p.there
      /\ q.due = rest /\ q.heard = p.heard /\ p.done \subseteq q.done
      /\ q.stun = p.stun \/ q.stun = once_core
  BY <1>3, <1>4, <1>5, <1>6 DEF OnceCalled
<1>9. \A n \in DOMAIN q.due : \E k \in DOMAIN p.due : p.due[k] = q.due[n]
  BY <1>2, <1>8
<1>10. OnceOwn(q)
  BY <1>1, <1>8, <1>9 DEF OnceOwn
<1>11. \A a : ~Once!Done(q, a) => ~Once!Done(p, a)
  BY <1>1, <1>8 DEF Once!Done, OnceTells
<1>12. OnceKnows(q, {})
  BY <1>1, <1>8, <1>9, <1>11 DEF OnceKnows
<1>13. OnceTold(q, r.at) \/ OnceWaits(q, r.at) \/ (once_core /\ q.told # <<>>)
  <2>1. CASE q = o /\ Once!Done(o, r.at)
    <3>1. o.stun \/ r.at \in o.done
      BY <2>1 DEF Once!Done
    <3> QED
      <4>1. q.stun => once_core /\ q.told # <<>>
        BY <1>8, Zenon DEF OnceTells
      <4>2. r.at \in q.done => OnceTold(q, r.at)
        BY <1>7, <1>8, Zenon DEF OnceTells
      <4> QED
        BY <2>1, <3>1, <4>1, <4>2, Zenon
  <2>2. CASE q = o /\ Once!Data(o, r) = "link"
    <3>1. o.put[r.at] = "link" /\ ~o.there
      BY <2>2 DEF Once!Data
    <3> QED
      BY <1>3, <1>8, <3>1 DEF OnceWaits
  <2>3. CASE OnceCalled(o, q, r)
    BY <1>7, <1>8, <2>3 DEF OnceCalled, OnceTells
  <2> QED
    BY <1>6, <2>1, <2>2, <2>3
<1>14. OnceTold(q, r.at) => q.told # <<>>
  BY DEF OnceTold
<1>15. ASSUME NEW a \in OnceOthers, ~once_core, q.heard[a] # "none"
       PROVE  OnceTold(q, a) \/ OnceWaits(q, a) \/ \E n \in DOMAIN q.due : q.due[n].at = a
  <2>0. a \in Once!Ats
    BY OnceChains
  <2>1. OnceTold(p, a) \/ OnceWaits(p, a) \/ \E n \in DOMAIN p.due : p.due[n].at = a
    BY <1>1, <1>8, <1>15 DEF OnceEnds
  <2>2. OnceTold(p, a) => OnceTold(q, a)
    BY <1>1, <1>8, <2>0 DEF OnceTells
  <2>3. OnceWaits(p, a) => OnceWaits(q, a)
    BY <1>8 DEF OnceWaits
  <2>4. ASSUME NEW n \in DOMAIN p.due, p.due[n].at = a
        PROVE  a = r.at \/ \E k \in DOMAIN q.due : q.due[k].at = a
    <3>1. p.due[n] = r \/ \E k \in DOMAIN q.due : q.due[k] = p.due[n]
      BY <1>2, <1>8, Zenon
    <3> QED
      BY <2>4, <3>1
  <2> QED
    BY <1>13, <1>15, <2>1, <2>2, <2>3, <2>4
<1>16. OnceEnds(q, {})
  BY <1>7, <1>13, <1>14, <1>15 DEF OnceEnds
<1>17. OnceFine(q, {})
  BY <1>8, <1>10, <1>12, <1>16, Zenon DEF OnceFine
<1>18. OnceTrue(p, q)
  <2>1. CASE q = o
    BY <1>3, <2>1 DEF OnceTrue
  <2>2. CASE OnceCalled(o, q, r)
    <3> DEFINE data == Once!Data(o, r)
               call == [at |-> r.at, data |-> data]
    <3>1. ~Once!Done(p, r.at)
      BY <1>3, <2>2 DEF OnceCalled, Once!Done
    <3>2. data = "nothing" => p.put[r.at] = "nothing" /\ ~(p.there /\ r.via)
      BY <1>3 DEF Once!Data
    <3>3. data = "nothing" => q.heard[r.at] = "nothing"
      BY <1>1, <1>2, <1>8, <3>1, <3>2 DEF OnceKnows
    <3>4. data \in {"nothing", "simple", "node"}
      BY <1>4, <1>7, <2>2 DEF OnceCalled, Once!Data, OncePage, Once!Values
    <3> HIDE DEF data
    <3>5. call \in OnceCalls /\ call.at = r.at /\ call.data = data
      BY <1>7, <3>4 DEF OnceCalls
    <3>6. q.told = Append(p.told, call)
      BY <1>3, <2>2 DEF OnceCalled, data
    <3> HIDE DEF call
    <3> QED
      BY <3>3, <3>5, <3>6 DEF OnceTrue
  <2> QED
    BY <1>6, <2>1, <2>2
<1> QED
  BY <1>17, <1>18, Zenon DEF q, o, r, rest

LEMMA OnceCardinality == \A S : Once!Cardinality(S) = Cardinality(S)
BY DEF Once!Cardinality, Cardinality, Once!IsFiniteSet, IsFiniteSet

LEMMA OnceBecomes ==
  ASSUME OnceInv, NEW q, OnceFine(q, {}), OnceTrue(Once!Page, q),
         Once!Becomes(q), once_core' = once_core
  PROVE  OnceInv' /\ OnceTruly
<1>1. OncePage(q) /\ OnceTells(q) /\ OnceKnows(q, {}) /\ OnceOwn(q) /\ OnceEnds(q, {})
  BY Zenon DEF OnceFine
<1>2. Once!Page' = q
  <2>1. q = [f \in OnceFields |-> q[f]]
    BY <1>1, Zenon DEF OncePage
  <2>2. Once!Page' = [f \in OnceFields |-> q[f]]
    BY DEF Once!Page, Once!Becomes, OnceFields
  <2> QED
    BY <2>1, <2>2
<1>3. OncePage(Once!Page')
  BY <1>1, <1>2
<1>4. OnceTells(Once!Page)'
  BY <1>1, <1>2 DEF OnceTells, OnceTold
<1>5. OnceKnows(Once!Page, {})'
  BY <1>1, <1>2 DEF OnceKnows, Once!Done
<1>6. OnceOwn(Once!Page)'
  BY <1>1, <1>2 DEF OnceOwn
<1>7. OnceEnds(Once!Page, {})'
  BY <1>1, <1>2 DEF OnceEnds, OnceWaits, OnceTold
<1>8. OnceInv'
  BY <1>3, <1>4, <1>5, <1>6, <1>7 DEF OnceInv, OnceFine, OncePage
<1>9. OnceTruly
  <2>1. once_told \in Seq(OnceCalls)
    BY DEF OnceInv, OnceFine, OncePage, Once!Page
  <2>2. once_told' = q.told /\ once_heard' = q.heard
    BY DEF Once!Becomes
  <2>3. CASE q.told = once_told
    BY <2>2, <2>3 DEF OnceTruly
  <2>4. CASE q.told # once_told
    <3>1. PICK c \in OnceCalls :
            /\ q.told = Append(once_told, c)
            /\ c.data = "nothing" => q.heard[c.at] = "nothing"
      BY <2>4 DEF OnceTrue, Once!Page
    <3>2. Appended(once_told, c, q.told)
      BY <2>1, <3>1, AppendIsAppended
    <3>3. \A n \in DOMAIN q.told \ DOMAIN once_told : q.told[n] = c
      BY <3>2 DEF Appended
    <3> QED
      BY <2>2, <3>1, <3>3 DEF OnceTruly
  <2> QED
    BY <2>3, <2>4
<1> QED
  BY <1>8, <1>9

LEMMA OnceStill ==
  ASSUME OnceInv, Once!Page' = Once!Page, once_core' = once_core
  PROVE  OnceInv' /\ OnceTruly
<1>1. once_told' = once_told
  BY DEF Once!Page
<1>2. OnceFine(Once!Page, {})
  BY DEF OnceInv
<1>3. OnceTrue(Once!Page, Once!Page)
  BY DEF OnceTrue
<1>4. Once!Becomes(Once!Page)
  BY DEF Once!Becomes, Once!Page
<1> QED
  BY <1>2, <1>3, <1>4, OnceBecomes

LEMMA OnceHears ==
  ASSUME OnceInv, NEW a \in Once!Ats, NEW v \in Once!Values, Once!Hear(a, v)
  PROVE  OnceInv' /\ OnceTruly
<1> DEFINE p == Once!Page
           o == [p EXCEPT !.put = [p.put EXCEPT ![a] = v]]
           q == Once!Listen(o, a, v, FALSE)
<1>1. /\ Once!Becomes(q) /\ once_core' = once_core /\ (a = "self" => once_core)
  BY DEF Once!Hear, Once!Counts, Once!Self
<1> HIDE DEF q, p
<1>2. /\ once_core \in BOOLEAN /\ OnceFine(p, {})
  BY DEF OnceInv, p
<1>3. OncePage(p) /\ OnceTells(p) /\ OnceKnows(p, {}) /\ OnceOwn(p) /\ OnceEnds(p, {})
  BY <1>2, Zenon DEF OnceFine
<1>4. /\ o = [f \in OnceFields |-> o[f]]
      /\ o.put = [p.put EXCEPT ![a] = v] /\ o.there = p.there /\ o.due = p.due
      /\ o.done = p.done /\ o.stun = p.stun /\ o.told = p.told /\ o.heard = p.heard
  BY <1>3 DEF OncePage, OnceFields
<1> HIDE DEF o
<1>5. /\ o.put \in [Once!Ats -> Once!Values] /\ o.put[a] = v
      /\ \A b \in Once!Ats : b # a => o.put[b] = p.put[b]
  BY <1>3, <1>4 DEF OncePage
<1>6. OncePage(o)
  BY <1>3, <1>4, <1>5 DEF OncePage
<1>7. OnceTells(o) /\ \A b : OnceTold(o, b) <=> OnceTold(p, b)
  <2>1. \A b : OnceTold(o, b) <=> OnceTold(p, b)
    BY <1>4, Zenon DEF OnceTold
  <2> QED
    BY <1>3, <1>4, <2>1 DEF OnceTells
<1>8. \A n \in DOMAIN p.due : p.due[n].at \in Once!Ats
  <2>1. p.due \in Seq(OnceTimers)
    BY <1>3, Zenon DEF OncePage
  <2>2. \A n \in DOMAIN p.due : p.due[n] \in OnceTimers
    BY <2>1
  <2> QED
    BY <2>2 DEF OnceTimers
<1>9. OnceKnows(o, {a})
  <2> SUFFICES ASSUME NEW n \in DOMAIN o.due, o.due[n].at \notin {a},
                      ~Once!Done(o, o.due[n].at), o.put[o.due[n].at] = "nothing",
                      ~(o.there /\ o.due[n].via)
               PROVE  o.heard[o.due[n].at] = "nothing"
    BY DEF OnceKnows
  <2>1. p.put[p.due[n].at] = "nothing" /\ ~Once!Done(p, p.due[n].at)
    BY <1>4, <1>5, <1>8 DEF Once!Done
  <2> QED
    BY <1>3, <1>4, <2>1 DEF OnceKnows
<1>10. OnceOwn(o)
  BY <1>1, <1>3, <1>4, <1>5, OnceChains DEF OnceOwn
<1>11. OnceEnds(o, {a})
  <2>1. ASSUME NEW b \in OnceOthers \ {a}, ~once_core, o.heard[b] # "none"
        PROVE  OnceTold(o, b) \/ OnceWaits(o, b)
                 \/ \E n \in DOMAIN o.due : o.due[n].at = b
    <3>1. OnceTold(p, b) \/ OnceWaits(p, b) \/ \E n \in DOMAIN p.due : p.due[n].at = b
      BY <1>3, <1>4, <2>1 DEF OnceEnds
    <3>2. OnceWaits(p, b) => OnceWaits(o, b)
      BY <1>4, <1>5, <2>1, OnceChains DEF OnceWaits
    <3> QED
      BY <1>4, <1>7, <3>1, <3>2
  <2> QED
    BY <2>1 DEF OnceEnds
<1>12. OnceFine(o, {a})
  BY <1>6, <1>7, <1>9, <1>10, <1>11, Zenon DEF OnceFine
<1>13. OnceMessage(o, a, v, FALSE)
  BY <1>5 DEF OnceMessage
<1>14. OnceFine(q, {a} \ {a}) /\ OnceGoesOn(o, q, v)
  BY <1>1, <1>2, <1>12, <1>13, OnceListens DEF q
<1>15. OnceFine(q, {})
  <2>1. {a} \ {a} = {}
    OBVIOUS
  <2> QED
    BY <1>14, <2>1
<1>16. OnceTrue(p, q)
  <2>1. CASE q.told = o.told
    BY <1>4, <2>1 DEF OnceTrue
  <2>2. CASE q.told # o.told
    <3>1. PICK b \in Once!Ats : q.told = Append(p.told, [at |-> b, data |-> "simple"])
      BY <1>4, <1>14, <2>2 DEF OnceGoesOn
    <3> DEFINE c == [at |-> b, data |-> "simple"]
    <3>2. c \in OnceCalls /\ c.data # "nothing" /\ q.told = Append(p.told, c)
      BY <3>1 DEF OnceCalls
    <3> HIDE DEF c
    <3> QED
      BY <3>2 DEF OnceTrue
  <2> QED
    BY <2>1, <2>2
<1> QED
  BY <1>1, <1>15, <1>16, OnceBecomes DEF p

(* Chains with a link, which have yet to hear of what it links to.         *)
LEMMA OnceLinked ==
  ASSUME OnceInv, NEW order \in Once!Orders, NEW there1 \in BOOLEAN,
         there => there1, ~there /\ there1 => Once!Linked # {}, NEW data,
         data = IF there1 THEN "node" ELSE "nothing",
         Once!Becomes(Once!ListenAll([Once!Page EXCEPT !.there = there1], order, data)),
         once_core' = once_core
  PROVE  OnceInv' /\ OnceTruly
<1> DEFINE p == Once!Page
           o == [p EXCEPT !.there = there1]
           S == Once!Linked
           q == Once!ListenAll(o, order, data)
           m == Once!Cardinality(Once!Linked)
<1>1. Once!Becomes(q)
  OBVIOUS
<1>2. /\ S = {a \in Once!Ats : p.put[a] = "link"} /\ p.there = there
      /\ order \in [1 .. m -> S] /\ \A a \in S : \E n \in DOMAIN order : order[n] = a
  BY DEF Once!Linked, Once!Page, Once!Orders
<1>3. m \in Nat
  <2>1. S \subseteq Once!Ats
    BY DEF Once!Linked
  <2>2. IsFiniteSet(S)
    BY <2>1, OnceChains, FS_Subset
  <2>3. Cardinality(S) \in Nat
    BY <2>2, FS_CardinalityType
  <2> QED
    BY <2>3, OnceCardinality
<1> HIDE DEF p, q, S, m
<1>4. /\ once_core \in BOOLEAN /\ OnceFine(p, {})
  BY DEF OnceInv, p
<1>5. OncePage(p) /\ OnceTells(p) /\ OnceKnows(p, {}) /\ OnceOwn(p) /\ OnceEnds(p, {})
  BY <1>4, Zenon DEF OnceFine
<1>6. /\ o = [f \in OnceFields |-> o[f]]
      /\ o.put = p.put /\ o.there = there1 /\ o.due = p.due /\ o.done = p.done
      /\ o.stun = p.stun /\ o.told = p.told /\ o.heard = p.heard
  BY <1>5 DEF OncePage, OnceFields
<1> HIDE DEF o
<1>7. OncePage(o)
  BY <1>5, <1>6 DEF OncePage
<1>8. OnceTells(o) /\ \A b : OnceTold(o, b) <=> OnceTold(p, b)
  <2>1. \A b : OnceTold(o, b) <=> OnceTold(p, b)
    BY <1>6, Zenon DEF OnceTold
  <2> QED
    BY <1>5, <1>6, <2>1 DEF OnceTells
<1>9. OnceKnows(o, S)
  <2> SUFFICES ASSUME NEW n \in DOMAIN o.due, o.due[n].at \notin S,
                      ~Once!Done(o, o.due[n].at), o.put[o.due[n].at] = "nothing",
                      ~(o.there /\ o.due[n].via)
               PROVE  o.heard[o.due[n].at] = "nothing"
    BY DEF OnceKnows
  <2>1. ~Once!Done(p, p.due[n].at) /\ ~(p.there /\ p.due[n].via)
    BY <1>2, <1>6 DEF Once!Done
  <2> QED
    BY <1>5, <1>6, <2>1 DEF OnceKnows
<1>10. OnceOwn(o)
  BY <1>5, <1>6 DEF OnceOwn
<1>11. OnceEnds(o, S)
  <2>1. ASSUME NEW b \in OnceOthers \ S, ~once_core, o.heard[b] # "none"
        PROVE  OnceTold(o, b) \/ OnceWaits(o, b)
                 \/ \E n \in DOMAIN o.due : o.due[n].at = b
    <3>1. OnceTold(p, b) \/ OnceWaits(p, b) \/ \E n \in DOMAIN p.due : p.due[n].at = b
      BY <1>5, <1>6, <2>1 DEF OnceEnds
    <3>2. ~OnceWaits(p, b)
      BY <1>2, <2>1, OnceChains DEF OnceWaits
    <3> QED
      BY <1>6, <1>8, <3>1, <3>2
  <2>2. ASSUME once_core, o.heard["self"] # "none", S = {}
        PROVE  o.due # <<>> \/ o.told # <<>> \/ \E a \in Once!Ats : OnceWaits(o, a)
    <3>1. p.due # <<>> \/ p.told # <<>> \/ \E a \in Once!Ats : OnceWaits(p, a)
      BY <1>5, <1>6, <2>2 DEF OnceEnds
    <3>2. \A a \in Once!Ats : ~OnceWaits(p, a)
      BY <1>2, <2>2 DEF OnceWaits
    <3> QED
      BY <1>6, <3>1, <3>2
  <2> QED
    BY <2>1, <2>2 DEF OnceEnds
<1>12. OnceFine(o, S)
  BY <1>7, <1>8, <1>9, <1>10, <1>11, Zenon DEF OnceFine
<1>13. /\ OnceFine(Once!ListenAll(o, order, data), {})
       /\ OnceSame(o, Once!ListenAll(o, order, data))
  <2>1. S = {a \in Once!Ats : o.put[a] = "link"}
    BY <1>2, <1>6
  <2>2. \A a \in S : \E n \in 1 .. m : order[n] = a
    BY <1>2
  <2>3. data = IF o.there THEN "node" ELSE "nothing"
    BY <1>6
  <2> QED
    BY <1>2, <1>3, <1>4, <1>12, <2>1, <2>2, <2>3, OnceAllListen
<1>14. OnceFine(q, {})
  BY <1>13, Zenon DEF q
<1>15. OnceTrue(p, q)
  <2>1. OnceSame(o, q)
    BY <1>13, Zenon DEF q
  <2>2. q.told = p.told
    BY <1>6, <2>1, Zenon DEF OnceSame
  <2> QED
    BY <2>2 DEF OnceTrue
<1> QED
  BY <1>1, <1>14, <1>15, OnceBecomes DEF p

LEMMA OnceInit == Once!Init => OnceInv
<1> SUFFICES ASSUME Once!Init PROVE OnceInv
  OBVIOUS
<1> DEFINE p == Once!Page
<1>1. /\ p = [f \in OnceFields |-> p[f]]
      /\ p.put = [a \in Once!Ats |-> "nothing"] /\ p.there = FALSE /\ p.due = <<>>
      /\ p.done = {} /\ p.stun = FALSE /\ p.told = <<>>
      /\ p.heard = [a \in Once!Ats |-> "none"]
  BY DEF Once!Init, Once!Page, OnceFields
<1>2. once_core \in BOOLEAN
  BY DEF Once!Init
<1> HIDE DEF p
<1>3. /\ <<>> \in Seq(OnceTimers) /\ <<>> \in Seq(OnceCalls)
      /\ DOMAIN <<>> = {} /\ Len(<<>>) = 0
  OBVIOUS
<1>4. OncePage(p)
  BY <1>1, <1>3 DEF OncePage, Once!Values
<1>5. OnceTells(p)
  BY <1>1, <1>3 DEF OnceTells, OnceTold
<1>6. OnceKnows(p, {}) /\ OnceOwn(p) /\ OnceEnds(p, {})
  BY <1>1, <1>3, OnceChains DEF OnceKnows, OnceOwn, OnceEnds
<1> QED
  BY <1>2, <1>4, <1>5, <1>6 DEF OnceInv, OnceFine, p

LEMMA OnceStep ==
  ASSUME OnceInv, [Once!Next]_(Once!vars)
  PROVE  OnceInv' /\ [OnceTruly]_(Once!vars)
<1>0. once_core \in BOOLEAN /\ OnceFine(Once!Page, {})
  BY DEF OnceInv
<1>1. ASSUME NEW a \in Once!Ats, NEW v \in Once!Values, Once!Hear(a, v)
      PROVE  OnceInv' /\ OnceTruly
  BY <1>1, OnceHears
<1>2. CASE Once!HearNode
  <2>1. /\ Once!Linked # {} /\ once_core' = once_core
        /\ \E order \in Once!Orders :
             Once!Becomes(Once!ListenAll([Once!Page EXCEPT !.there = TRUE], order, "node"))
    BY <1>2 DEF Once!HearNode, Once!Counts
  <2> QED
    BY <2>1, OnceLinked
<1>3. CASE Once!HearNoNode
  <2>1. /\ ~there /\ once_core' = once_core
        /\ \E order \in Once!Orders :
             Once!Becomes(Once!ListenAll(Once!Page, order, "nothing"))
    BY <1>3 DEF Once!HearNoNode, Once!Counts
  <2>2. Once!Page = [Once!Page EXCEPT !.there = FALSE]
    <3>1. there = FALSE
      BY <1>0, <2>1 DEF OnceFine, OncePage, Once!Page
    <3>2. /\ Once!Page = [f \in OnceFields |-> Once!Page[f]]
          /\ Once!Page["there"] = FALSE
      BY <1>0, <3>1 DEF OnceFine, OncePage, Once!Page
    <3> QED
      BY <3>2 DEF OnceFields
  <2>3. \E order \in Once!Orders :
          Once!Becomes(Once!ListenAll([Once!Page EXCEPT !.there = FALSE], order, "nothing"))
    BY <2>1, <2>2, Zenon
  <2> QED
    BY <2>1, <2>3, OnceLinked
<1>4. CASE Once!Timer
  <2> DEFINE q == Once!once([Once!Page EXCEPT !.due = Tail(once_due)], Head(once_due))
  <2>1. once_due # <<>> /\ Once!Becomes(q) /\ once_core' = once_core
    BY <1>4 DEF Once!Timer, Once!Page
  <2>2. once_due = Once!Page.due
    BY DEF Once!Page
  <2>3. OnceFine(q, {}) /\ OnceTrue(Once!Page, q)
    BY <1>0, <2>1, <2>2, OnceTimes
  <2> HIDE DEF q
  <2> QED
    BY <2>1, <2>3, OnceBecomes
<1>5. CASE UNCHANGED Once!vars
  BY <1>5, OnceStill DEF Once!vars, Once!Page
<1> QED
  BY <1>1, <1>2, <1>3, <1>4, <1>5 DEF Once!Next

LEMMA OncePromise ==
  ASSUME OnceInv
  PROVE  Once!CalledOnce /\ Once!CalledInTheEnd
<1> DEFINE p == Once!Page
<1>1. /\ p.put = once_put /\ p.there = there /\ p.due = once_due
      /\ p.told = once_told /\ p.heard = once_heard
  BY DEF Once!Page
<1>2. OncePage(p) /\ OnceTells(p) /\ OnceEnds(p, {})
  BY DEF OnceInv, OnceFine
<1> HIDE DEF p
<1>3. Once!CalledOnce
  BY <1>1, <1>2 DEF Once!CalledOnce, OnceTells
<1>4. ASSUME once_due = <<>>, once_core, once_heard["self"] # "none"
      PROVE  once_told # <<>> \/ \E a \in Once!Ats : once_put[a] = "link" /\ ~there
  BY <1>1, <1>2, <1>4 DEF OnceEnds, OnceWaits
<1>5. ASSUME once_due = <<>>, ~once_core, NEW a \in OnceOthers, once_heard[a] # "none"
      PROVE  Once!Told(a) \/ (once_put[a] = "link" /\ ~there)
  <2>1. DOMAIN once_due = {}
    BY <1>5
  <2>2. OnceTold(p, a) \/ OnceWaits(p, a) \/ \E n \in DOMAIN once_due : once_due[n].at = a
    BY <1>1, <1>2, <1>5 DEF OnceEnds
  <2> QED
    BY <1>1, <2>1, <2>2 DEF OnceTold, OnceWaits, Once!Told
<1> QED
  BY <1>3, <1>4, <1>5 DEF Once!CalledInTheEnd, Once!Self

(* However messages about a chain and those that it echoes, links and      *)
(* timers are interleaved, in whatever order the chains with a link hear   *)
(* of what it links to, a callback is called once for a core chain and     *)
(* once for every item of a map; when nothing is waited for it has been    *)
(* called, except for a link to something unknown; and it is called for    *)
(* nothing only if the last message was of nothing (chain.once,            *)
(* gun.js:1184-1204).                                                      *)
THEOREM OnceCorrect == Once!Spec => OnceIsOnce
<1>1. OnceInv /\ [Once!Next]_(Once!vars) => OnceInv' /\ [OnceTruly]_(Once!vars)
  BY OnceStep
<1>2. OnceInv => (part = "once" => Once!CalledOnce /\ Once!CalledInTheEnd)
  BY OncePromise
<1>3. [OnceTruly]_(Once!vars) =>
        [\A i \in DOMAIN once_told' \ DOMAIN once_told :
           once_told'[i].data = "nothing" =>
             once_heard'[once_told'[i].at] = "nothing"]_(Once!vars)
  BY DEF OnceTruly
<1> QED
  BY <1>1, <1>2, <1>3, OnceInit, PTL
     DEF Once!Spec, OnceIsOnce, Once!NothingOnlyIfNothing
=============================================================================
