------------------------------- MODULE GunDup -------------------------------
(***************************************************************************)
(* The memory for message ids of a browser peer, Dup of                    *)
(* assets/stats/gun.js.  A timer, started by the first id that is tracked  *)
(* while none runs, drops what is older than Age, a batch of ids in a      *)
(* turn; ids are tracked and checked in between.                           *)
(***************************************************************************)
EXTENDS Integers, FiniteSets

CONSTANTS
    Ids,
    Age,        \* opt.age
    Slack,      \* how much later the timer is set: 9 in the code
    Batch,      \* ids looked at in a turn: 99 in the code
    MaxTime     \* bound on the time

DupAssumption ==
    /\ {Slack, MaxTime} \subseteq Nat
    /\ {Age, Batch} \subseteq Nat \ {0}

Never == -1

VARIABLES
    time,       \* +new Date
    was,        \* it.was of an id, Never if s does not have it
    now,        \* dup.now
    to,         \* when the timer fires, Never if there is none
    list,       \* ids that drop has still to look at
    begun,      \* history: when the drop that runs, or ran last, began
    used        \* history: when an id was tracked or found last

vars == <<time, was, now, to, list, begun, used>>

Init == /\ time = 0
        /\ was = [i \in Ids |-> Never]
        /\ now = 0
        /\ to = Never
        /\ list = {}
        /\ begun = Never
        /\ used = [i \in Ids |-> Never]

(* dup.track(id)  *)
Track(i) == /\ was' = [was EXCEPT ![i] = time]
            /\ now' = time
            /\ to' = IF to = Never THEN time + Age + Slack ELSE to
            /\ used' = [used EXCEPT ![i] = time]
            /\ UNCHANGED <<time, list, begun>>

(* dup.check(id): what is found is tracked again.  *)
Check(i) == /\ was[i] # Never
            /\ Track(i)

(* What drop deletes when dup.now is t.  *)
IsOld(i, t) == was[i] # Never /\ t - was[i] >= Age

(* Mutant: the rest of the list is left after the first batch.  *)
LookAtOnce(ids, t) ==
    \E batch \in SUBSET ids :
        /\ Cardinality(batch) = IF Cardinality(ids) < Batch THEN Cardinality(ids) ELSE Batch
        /\ was' = [i \in Ids |-> IF i \in batch /\ IsOld(i, t) THEN Never ELSE was[i]]
        /\ list' = {}

(* A turn of drop: the next batch of its ids is looked at.  *)
LookAt(ids, t) ==
    \E batch \in SUBSET ids :
        /\ Cardinality(batch) = IF Cardinality(ids) < Batch THEN Cardinality(ids) ELSE Batch
        /\ was' = [i \in Ids |-> IF i \in batch /\ IsOld(i, t) THEN Never ELSE was[i]]
        /\ list' = ids \ batch

(* dup.drop: the timer fires; the first turn is taken at once.  *)
Drop == /\ to # Never
        /\ time >= to
        /\ list = {}
        /\ to' = Never
        /\ now' = time
        /\ LookAt({i \in Ids : was[i] # Never}, time)
        /\ begun' = time
        /\ UNCHANGED <<time, used>>

(* A later turn; dup.now may have been set by track.  *)
DropMore == /\ list # {}
            /\ LookAt(list, now)
            /\ UNCHANGED <<time, now, to, begun, used>>

Tick == /\ time < MaxTime
        /\ time' = time + 1
        /\ UNCHANGED <<was, now, to, list, begun, used>>

Next == \/ \E i \in Ids : Track(i) \/ Check(i)
        \/ Drop
        \/ DropMore
        \/ Tick

Spec == Init /\ [][Next]_vars

-----------------------------------------------------------------------------
(* An id is known for at least Age after it was tracked or found, also     *)
(* while a drop runs over many turns (dup.drop, gun.js:193-202).           *)
KeepsFresh ==
    [][\A i \in Ids : was[i] # Never /\ was'[i] = Never =>
                          time - used[i] >= Age]_vars

(* When a drop is over, no id is left that was too old when it began.      *)
ForgetsStale ==
    list = {} /\ begun # Never =>
        \A i \in Ids : was[i] # Never => was[i] > begun - Age
=============================================================================
