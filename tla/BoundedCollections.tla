--------------------------- MODULE BoundedCollections ---------------------------
(***************************************************************************)
(* The two bounded containers of src/src/utils.rs, as values and pure      *)
(* operators on them.  A BoundedHashSet is a record [set, queue] and a     *)
(* BoundedHashMap a record [map, queue], where queue is the VecDeque that  *)
(* remembers the order of insertion: newest entry first, oldest last.      *)
(***************************************************************************)
EXTENDS Integers, Sequences

EmptyBoundedSet == [set |-> {}, queue |-> <<>>]

EmptyBoundedMap == [map |-> <<>>, queue |-> <<>>]

(* Mutant: room is made one entry too early.                               *)
EvictedEarly(queue, max) ==
  IF Len(queue) >= max - 1 THEN {queue[i] : i \in {Len(queue)} \ {0}} ELSE {}

(* VecDeque::pop_back when the queue holds max entries: what goes, what stays. *)
Evicted(queue, max) ==
  IF Len(queue) >= max THEN {queue[i] : i \in {Len(queue)} \ {0}} ELSE {}

Kept(queue, max) ==
  IF Len(queue) >= max THEN SubSeq(queue, 1, Len(queue) - 1) ELSE queue

PushFront(s, queue) == <<s>> \o queue

(* BoundedHashSet::insert: inserting a member again changes nothing.       *)
SetInsert(b, s, max) ==
  IF s \in b.set
    THEN b
    ELSE [set   |-> (b.set \ Evicted(b.queue, max)) \cup {s},
          queue |-> PushFront(s, Kept(b.queue, max))]

(* Mutants: the key is queued again each time; an entry that is there is   *)
(* not overwritten; room is made one entry too early.                      *)
MapInsertQueuedTwice(b, key, value, max) ==
  LET left == DOMAIN b.map \ Evicted(b.queue, max)
  IN [map   |-> [k \in left \cup {key} |-> IF k = key THEN value ELSE b.map[k]],
      queue |-> PushFront(key, Kept(b.queue, max))]

MapInsertKeepsValue(b, key, value, max) ==
  LET left == DOMAIN b.map \ Evicted(b.queue, max)
  IN [map   |-> [k \in left \cup {key} |-> IF k \in left THEN b.map[k] ELSE value],
      queue |-> IF key \in left THEN Kept(b.queue, max)
                                ELSE PushFront(key, Kept(b.queue, max))]

MapInsertEarly(b, key, value, max) ==
  LET left == DOMAIN b.map \ Evicted(b.queue, max - 1)
  IN [map   |-> [k \in left \cup {key} |-> IF k = key THEN value ELSE b.map[k]],
      queue |-> IF key \in left THEN Kept(b.queue, max - 1)
                                ELSE PushFront(key, Kept(b.queue, max - 1))]

(* BoundedHashMap::insert: a full queue loses its oldest entry whether or  *)
(* not the key is new, and a key that is still there keeps its old place.  *)
MapInsert(b, key, value, max) ==
  LET left == DOMAIN b.map \ Evicted(b.queue, max)
      kept == Kept(b.queue, max)
  IN [map   |-> [k \in left \cup {key} |-> IF k = key THEN value ELSE b.map[k]],
      queue |-> IF key \in left THEN kept ELSE PushFront(key, kept)]

(* BoundedHashMap::get_mut followed by an assignment through the reference. *)
MapUpdate(b, key, value) == [b EXCEPT !.map[key] = value]
=================================================================================
