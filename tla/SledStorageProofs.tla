----------------------------- MODULE SledStorageProofs -----------------------------
(***************************************************************************)
(* The sled storage, proved for any nodes, children, data, priorities,     *)
(* limit and messages: the types; that public data leaves the index first; *)
(* that what is read out is the newest write that counts; and, without     *)
(* eviction and restarts, that the total size and the index are exact.     *)
(* What a theorem needs of the constants beyond SledStorage's assumptions  *)
(* is stated as its hypotheses.                                            *)
(***************************************************************************)
EXTENDS SledStorage, FiniteSetTheorems, WellFoundedInduction, TLAPS

(* Sums over finite sets.  The library has no induction theorem the        *)
(* provers can instantiate; what takes its place is that a nonempty set of *)
(* subsets of a finite set, here the counterexamples, has a least one.     *)
LEMMA LeastSubset ==
  ASSUME NEW S, IsFiniteSet(S), NEW C \in SUBSET (SUBSET S), C # {}
  PROVE  \E m \in C : \A t \in C : t \subseteq m => t = m
<1> DEFINE R == StrictSubsetOrdering(S)
<1>1. IsWellFoundedOn(R, SUBSET S)
  <2>1. IsWellFoundedOn(R, FiniteSubsetsOf(S))
    BY FS_StrictSubsetOrderingWellFounded
  <2>2. FiniteSubsetsOf(S) = SUBSET S
    BY FS_FiniteSubsetsOfFinite, Zenon
  <2> QED
    BY <2>1, <2>2
<1>2. PICK m \in C : \A t \in C : ~(<<t, m>> \in R)
  <2> HIDE DEF R
  <2> QED
    BY <1>1, WFMin, Zenon
<1>3. ASSUME NEW t \in C, t \subseteq m
      PROVE  t = m
  <2>1. t \in SUBSET S /\ m \in SUBSET S
    OBVIOUS
  <2> QED
    BY <1>2, <1>3, <2>1 DEF StrictSubsetOrdering
<1> QED
  BY <1>3

First(s) == CHOOSE x \in s : TRUE

LEMMA FirstIn == ASSUME NEW s, s # {} PROVE First(s) \in s
BY DEF First

(* The function the sum over S is defined by: the sums over its subsets.   *)
Sums(f, S, g) ==
  g = [s \in SUBSET S |-> IF s = {} THEN 0 ELSE f[First(s)] + g[s \ {First(s)}]]

LEMMA SumsUnique ==
  ASSUME NEW f, NEW S, IsFiniteSet(S), NEW T \in SUBSET S, NEW g, Sums(f, S, g),
         NEW h, Sums(f, T, h)
  PROVE  \A s \in SUBSET T : g[s] = h[s]
<1> DEFINE C == {s \in SUBSET T : g[s] # h[s]}
<1> SUFFICES ASSUME C # {} PROVE FALSE
  OBVIOUS
<1>1. C \in SUBSET (SUBSET S)
  OBVIOUS
<1>2. PICK m \in C : \A t \in C : t \subseteq m => t = m
  <2> HIDE DEF C
  <2> QED
    BY <1>1, LeastSubset
<1>3. m \in SUBSET S /\ m \in SUBSET T
  OBVIOUS
<1>4. g[m] = IF m = {} THEN 0 ELSE f[First(m)] + g[m \ {First(m)}]
  BY <1>3 DEF Sums
<1>5. h[m] = IF m = {} THEN 0 ELSE f[First(m)] + h[m \ {First(m)}]
  BY <1>3 DEF Sums
<1>6. m # {}
  BY <1>4, <1>5
<1>7. First(m) \in m
  BY <1>6, FirstIn
<1>8. m \ {First(m)} \notin C
  BY <1>2, <1>7
<1> QED
  BY <1>3, <1>4, <1>5, <1>6, <1>8

LEMMA SumsRestrict ==
  ASSUME NEW f, NEW S, NEW T \in SUBSET S, NEW g, Sums(f, S, g),
         NEW h, h = [s \in SUBSET T |-> g[s]]
  PROVE  Sums(f, T, h)
<1>1. \A s \in SUBSET T : h[s] = IF s = {} THEN 0 ELSE f[First(s)] + h[s \ {First(s)}]
  <2> TAKE s \in SUBSET T
  <2>1. g[s] = IF s = {} THEN 0 ELSE f[First(s)] + g[s \ {First(s)}]
    BY DEF Sums
  <2>2. h[s \ {First(s)}] = g[s \ {First(s)}]
    OBVIOUS
  <2> QED
    BY <2>1, <2>2
<1> QED
  BY <1>1 DEF Sums

LEMMA SumsExist == ASSUME NEW f, NEW S, IsFiniteSet(S) PROVE \E g : Sums(f, S, g)
<1> DEFINE C == {T \in SUBSET S : ~ \E g : Sums(f, T, g)}
<1> SUFFICES ASSUME C # {} PROVE FALSE
  OBVIOUS
<1>1. C \in SUBSET (SUBSET S)
  OBVIOUS
<1>2. PICK m \in C : \A t \in C : t \subseteq m => t = m
  <2> HIDE DEF C
  <2> QED
    BY <1>1, LeastSubset
<1> DEFINE G(s) == CHOOSE g : Sums(f, s, g)
           rest(s) == s \ {First(s)}
           h == [s \in SUBSET m |-> IF s = {} THEN 0 ELSE f[First(s)] + G(rest(s))[rest(s)]]
<1>3. ASSUME NEW s \in SUBSET m, s # m
      PROVE  Sums(f, s, G(s))
  <2>1. s \notin C /\ s \in SUBSET S
    BY <1>2, <1>3
  <2>2. \E g : Sums(f, s, g)
    BY <2>1
  <2> QED
    BY <2>2
<1>4. ASSUME NEW s \in SUBSET m, s # {}
      PROVE  G(rest(s))[rest(s)] = h[rest(s)]
  <2>1. rest(s) \in SUBSET m /\ rest(s) # m
    BY <1>4, FirstIn
  <2>2. Sums(f, rest(s), G(rest(s)))
    BY <1>3, <2>1
  <2> DEFINE t == rest(s)
  <2> HIDE DEF rest, G, h
  <2>3. G(t)[t] = IF t = {} THEN 0 ELSE f[First(t)] + G(t)[t \ {First(t)}]
    BY <2>2 DEF Sums
  <2>4. CASE t = {}
    BY <2>1, <2>3, <2>4 DEF h
  <2>5. CASE t # {}
    <3>1. rest(t) \in SUBSET t /\ rest(t) # m /\ rest(t) = t \ {First(t)}
      BY <2>1, <2>5, FirstIn DEF rest
    <3>2. Sums(f, rest(t), G(rest(t)))
      BY <1>3, <2>1, <3>1
    <3>3. IsFiniteSet(t)
      BY <2>1, FS_Subset
    <3>4. \A u \in SUBSET rest(t) : G(t)[u] = G(rest(t))[u]
      BY <2>2, <3>1, <3>2, <3>3, SumsUnique
    <3>5. G(t)[rest(t)] = G(rest(t))[rest(t)]
      BY <3>4
    <3> QED
      BY <2>1, <2>3, <2>5, <3>1, <3>5 DEF h
  <2> QED
    BY <2>4, <2>5
<1>5. Sums(f, m, h)
  <2>1. \A s \in SUBSET m : h[s] = IF s = {} THEN 0 ELSE f[First(s)] + h[s \ {First(s)}]
    <3> HIDE DEF G
    <3> TAKE s \in SUBSET m
    <3>1. CASE s = {}
      BY <3>1
    <3>2. CASE s # {}
      <4>1. h[s] = f[First(s)] + G(rest(s))[rest(s)]
        BY <3>2
      <4> QED
        BY <1>4, <3>2, <4>1
    <3> QED
      BY <3>1, <3>2
  <2>2. h = [s \in SUBSET m |-> h[s]]
    OBVIOUS
  <2> HIDE DEF h
  <2> QED
    BY <2>1, <2>2 DEF Sums
<1> QED
  BY <1>5

LEMMA SumIs ==
  ASSUME NEW f, NEW S, IsFiniteSet(S), NEW g, Sums(f, S, g)
  PROVE  SumFunctionOnSet(f, S) = g[S]
<1> DEFINE iter == CHOOSE i : i = [s \in SUBSET S |->
                     IF s = {} THEN 0 ELSE f[First(s)] + i[s \ {First(s)}]]
<1>1. SumFunctionOnSet(f, S) = iter[S]
  BY DEF SumFunctionOnSet, FoldFunctionOnSet, MapThenFoldSet, First
<1>2. Sums(f, S, iter)
  BY DEF Sums
<1> HIDE DEF iter
<1>3. iter[S] = g[S]
  BY <1>2, SumsUnique
<1> QED
  BY <1>1, <1>3

LEMMA SumUnfolded ==
  ASSUME NEW f, NEW S, IsFiniteSet(S)
  PROVE  SumFunctionOnSet(f, S) =
           IF S = {} THEN 0 ELSE f[First(S)] + SumFunctionOnSet(f, S \ {First(S)})
<1>1. PICK g : Sums(f, S, g)
  BY SumsExist
<1>2. g[S] = IF S = {} THEN 0 ELSE f[First(S)] + g[S \ {First(S)}]
  BY <1>1 DEF Sums
<1> DEFINE T == S \ {First(S)}
           h == [s \in SUBSET T |-> g[s]]
<1>3. T \in SUBSET S /\ IsFiniteSet(T)
  BY FS_Subset
<1>4. h = [s \in SUBSET T |-> g[s]] /\ h[T] = g[T]
  OBVIOUS
<1> HIDE DEF h, T
<1>5. Sums(f, T, h)
  BY <1>1, <1>3, <1>4, SumsRestrict
<1>6. SumFunctionOnSet(f, S) = g[S]
  BY <1>1, SumIs
<1>7. SumFunctionOnSet(f, T) = h[T]
  BY <1>3, <1>5, SumIs
<1> QED
  BY <1>2, <1>4, <1>6, <1>7 DEF T

LEMMA SumEmpty == \A f : SumFunctionOnSet(f, {}) = 0
BY FS_EmptySet, SumUnfolded

LEMMA SumType ==
  ASSUME NEW f, NEW S, IsFiniteSet(S), \A x \in S : f[x] \in Nat
  PROVE  SumFunctionOnSet(f, S) \in Nat
<1> DEFINE C == {T \in SUBSET S : SumFunctionOnSet(f, T) \notin Nat}
<1> SUFFICES ASSUME C # {} PROVE FALSE
  OBVIOUS
<1>1. PICK m \in C : \A t \in C : t \subseteq m => t = m
  <2>1. C \in SUBSET (SUBSET S)
    OBVIOUS
  <2> HIDE DEF C
  <2> QED
    BY <2>1, LeastSubset
<1>2. IsFiniteSet(m)
  BY FS_Subset
<1>3. m # {}
  <2>1. {} \notin C
    BY SumEmpty
  <2> QED
    BY <2>1
<1>4. First(m) \in m /\ f[First(m)] \in Nat
  BY <1>3, FirstIn
<1>5. SumFunctionOnSet(f, m \ {First(m)}) \in Nat
  BY <1>1, <1>4
<1> QED
  BY <1>2, <1>3, <1>4, <1>5, SumUnfolded

(* The sum over a set does not depend on the order of adding it up.        *)
LEMMA SumWithout ==
  ASSUME NEW f, NEW S, IsFiniteSet(S), \A x \in S : f[x] \in Nat, NEW x \in S
  PROVE  SumFunctionOnSet(f, S) = f[x] + SumFunctionOnSet(f, S \ {x})
<1> DEFINE Sum(T) == SumFunctionOnSet(f, T)
           C == {T \in SUBSET S : \E y \in T : Sum(T) # f[y] + Sum(T \ {y})}
<1> SUFFICES ASSUME C # {} PROVE FALSE
  OBVIOUS
<1>1. PICK m \in C : \A t \in C : t \subseteq m => t = m
  <2>1. C \in SUBSET (SUBSET S)
    OBVIOUS
  <2> HIDE DEF C
  <2> QED
    BY <2>1, LeastSubset
<1>2. PICK y \in m : Sum(m) # f[y] + Sum(m \ {y})
  OBVIOUS
<1> DEFINE z == First(m)
<1>3. z \in m
  BY FirstIn
<1>4. IsFiniteSet(m) /\ IsFiniteSet(m \ {y}) /\ IsFiniteSet(m \ {z, y}) /\ IsFiniteSet(m \ {z})
  BY FS_Subset
<1>5. Sum(m) = f[z] + Sum(m \ {z})
  BY <1>3, <1>4, SumUnfolded
<1>6. y # z
  BY <1>2, <1>5
<1>7. Sum(m \ {z}) = f[y] + Sum((m \ {z}) \ {y}) /\ Sum(m \ {y}) = f[z] + Sum((m \ {y}) \ {z})
  <2>1. m \ {z} \in SUBSET S /\ m \ {z} \notin C /\ m \ {y} \in SUBSET S /\ m \ {y} \notin C
    BY <1>1, <1>3
  <2>2. y \in m \ {z} /\ z \in m \ {y}
    BY <1>3, <1>6
  <2> HIDE DEF Sum, z
  <2> QED
    BY <2>1, <2>2
<1>8. (m \ {z}) \ {y} = m \ {z, y} /\ (m \ {y}) \ {z} = m \ {z, y}
  OBVIOUS
<1>9. Sum(m \ {z, y}) \in Nat /\ f[y] \in Nat /\ f[z] \in Nat
  BY <1>3, <1>4, SumType
<1> HIDE DEF Sum, z
<1> QED
  BY <1>2, <1>5, <1>7, <1>8, <1>9

LEMMA SumSame ==
  ASSUME NEW f, NEW g, NEW S, IsFiniteSet(S), \A x \in S : f[x] = g[x]
  PROVE  SumFunctionOnSet(f, S) = SumFunctionOnSet(g, S)
<1> DEFINE C == {T \in SUBSET S : SumFunctionOnSet(f, T) # SumFunctionOnSet(g, T)}
<1> SUFFICES ASSUME C # {} PROVE FALSE
  OBVIOUS
<1>1. PICK m \in C : \A t \in C : t \subseteq m => t = m
  <2>1. C \in SUBSET (SUBSET S)
    OBVIOUS
  <2> HIDE DEF C
  <2> QED
    BY <2>1, LeastSubset
<1>2. IsFiniteSet(m)
  BY FS_Subset
<1>3. m # {}
  BY <1>2, SumUnfolded
<1>4. First(m) \in m /\ f[First(m)] = g[First(m)]
  BY <1>3, FirstIn
<1>5. SumFunctionOnSet(f, m \ {First(m)}) = SumFunctionOnSet(g, m \ {First(m)})
  BY <1>1, <1>4
<1> QED
  BY <1>2, <1>3, <1>4, <1>5, SumUnfolded

(* Setting one value changes the sum by the difference.                    *)
LEMMA SumChanged ==
  ASSUME NEW f, NEW g, IsFiniteSet(DOMAIN f), \A x \in DOMAIN f : f[x] \in Nat,
         NEW x, DOMAIN g = DOMAIN f \cup {x}, g[x] \in Nat,
         \A y \in DOMAIN f \ {x} : g[y] = f[y]
  PROVE  /\ IsFiniteSet(DOMAIN g)
         /\ SumFunction(f) \in Nat
         /\ SumFunction(g) = SumFunction(f) + g[x] - (IF x \in DOMAIN f THEN f[x] ELSE 0)
<1> DEFINE S == DOMAIN f
           rest == SumFunctionOnSet(f, S \ {x})
<1>1. IsFiniteSet(S) /\ IsFiniteSet(DOMAIN g) /\ IsFiniteSet(S \ {x})
  BY FS_AddElement, FS_Subset
<1>2. DOMAIN g \ {x} = S \ {x}
  OBVIOUS
<1>3. \A y \in DOMAIN g : g[y] \in Nat
  OBVIOUS
<1>4. SumFunction(g) = g[x] + SumFunctionOnSet(g, S \ {x})
  <2>1. SumFunctionOnSet(g, DOMAIN g) = g[x] + SumFunctionOnSet(g, DOMAIN g \ {x})
    BY <1>1, <1>3, SumWithout
  <2> QED
    BY <1>2, <2>1 DEF SumFunction
<1>5. SumFunctionOnSet(g, S \ {x}) = rest
  BY <1>1, SumSame
<1>6. rest \in Nat /\ SumFunction(f) \in Nat
  BY <1>1, SumType DEF SumFunction
<1>7. SumFunction(f) = rest + (IF x \in S THEN f[x] ELSE 0)
  <2>1. CASE x \in S
    <3>1. SumFunctionOnSet(f, S) = f[x] + SumFunctionOnSet(f, S \ {x})
      BY <1>1, <2>1, SumWithout
    <3> QED
      BY <1>6, <2>1, <3>1 DEF SumFunction
  <2>2. CASE x \notin S
    <3>1. S \ {x} = S
      BY <2>2
    <3> QED
      BY <1>6, <2>2, <3>1 DEF SumFunction
  <2> QED
    BY <2>1, <2>2
<1>8. x \in S => f[x] \in Nat
  OBVIOUS
<1> HIDE DEF rest, S
<1> QED
  BY <1>1, <1>4, <1>5, <1>6, <1>7, <1>8 DEF S
------------------------------------------------------------------------------------
(* What the formula of update_priority yields for the data there is: some  *)
(* natural number, 6 * log10(2^32 + 10) at most.                           *)
WarmthIsNat == \A d \in NodeDatas, t \in Nat : Warmth(d.size, t) \in Nat

Writable == {w \in Writes : w.node_id \notin Reserved}

Records == {record \in Record : record.size = record.data.size}

Entries == [node_id : NodeIds \ Reserved, child_key : Keys, size : Nat]

IndexKeys == Nat \X (0..MaxIds)

Reads == UNION {[D -> NodeDatas] : D \in SUBSET Keys}

PutTask == [pc : {"put"}, todo : SUBSET Writable]

StoreTask ==
  [pc : {"unfile", "file", "store", "resize"}, then : {"store"}, node_id : NodeIds \ Reserved,
   key : ChildKeys, was : IndexKeys, record : Records, change : Int, todo : SUBSET Writable]

GetTask == [pc : {"get"}, get : Gets, read : Reads]

ReadTask ==
  [pc : {"unfile", "file", "writeback"}, then : {"writeback"}, node_id : NodeIds \ Reserved,
   was : IndexKeys, record : Records, get : Gets, read : Reads]

(* The fields a task has at each point of its handler.                     *)
TaskType ==
  /\ task.pc \in {"idle", "put", "unfile", "file", "store", "resize", "get", "writeback"}
  /\ task.pc = "idle" => task = Idle
  /\ task.pc = "put" => task \in PutTask
  /\ task.pc \in {"unfile", "file"} => task \in StoreTask \cup ReadTask
  /\ task.pc \in {"store", "resize"} => task \in StoreTask
  /\ task.pc = "get" => task \in GetTask /\ task.get.node_id \in nodes
  /\ task.pc = "writeback" => task \in ReadTask
  /\ task.pc \in {"unfile", "file", "store", "writeback"} => task.node_id \in nodes
  /\ task \in ReadTask => task.node_id = task.get.node_id

EvictorType ==
  /\ evictor.pc \in {"idle", "pop", "remove", "subtract"}
  /\ evictor.pc = "pop" => evictor \in [pc : {"pop"}, todo : Int]
  /\ evictor.pc \in {"remove", "subtract"} =>
       evictor \in [pc : {"remove", "subtract"}, todo : Int, entry : Entries]

ChildrenType ==
  /\ DOMAIN children = NodeIds
  /\ \A n \in NodeIds : /\ DOMAIN children[n] \subseteq Keys
                        /\ children[n] \in [DOMAIN children[n] -> Records]
                        /\ DOMAIN children[n] # {} => n \in nodes

IndexType ==
  /\ DOMAIN index \subseteq IndexKeys
  /\ \A key \in DOMAIN index : index[key] \in Entries

DataType ==
  /\ nodes \subseteq NodeIds \ Reserved
  /\ size \in Nat
  /\ counter \in 0..MaxIds
  /\ ChildrenType
  /\ IndexType

TypeInv == DataType /\ TaskType /\ EvictorType

LEMMA WithIs ==
  ASSUME NEW f, NEW x, NEW y
  PROVE  /\ DOMAIN With(f, x, y) = DOMAIN f \cup {x}
         /\ With(f, x, y)[x] = y
         /\ \A z \in DOMAIN f \ {x} : With(f, x, y)[z] = f[z]
BY DEF With

LEMMA WithType ==
  ASSUME NEW S, NEW D, NEW f \in [D -> S], NEW x, NEW y \in S
  PROVE  With(f, x, y) \in [D \cup {x} -> S]
BY DEF With

LEMMA WithoutIs ==
  ASSUME NEW f, NEW x
  PROVE  /\ DOMAIN Without(f, x) = DOMAIN f \ {x}
         /\ \A z \in DOMAIN f \ {x} : Without(f, x)[z] = f[z]
BY DEF Without

LEMMA WithoutType ==
  ASSUME NEW S, NEW D, NEW f \in [D -> S], NEW x
  PROVE  Without(f, x) \in [D \ {x} -> S]
BY DEF Without

LEMMA PriorityType ==
  ASSUME WarmthIsNat, NEW n \in NodeIds, NEW d \in NodeDatas, NEW t \in Nat
  PROVE  Priority(n, d.size, t) \in Nat
<1>1. Warmth(d.size, t) \in Nat
  BY DEF WarmthIsNat
<1>2. BasePriority[n] \in {0, 100, 110}
  BY NodesAssumption
<1> QED
  BY <1>1, <1>2 DEF Priority

(* A record is filed under its priority, whatever was changed.             *)
LEMMA NewRecordIs ==
  ASSUME WarmthIsNat, counter \in 0..MaxIds, NEW w \in Writes,
         NEW record, record = NewRecord(w.node_id, w.child_key, w.data)
  PROVE  /\ record \in Records
         /\ record.id = counter /\ record.child_key = w.child_key /\ record.data = w.data
         /\ record.size = w.data.size
         /\ record.priority = Priority(w.node_id, record.size, record.times_opened)
<1>1. w.node_id \in NodeIds /\ w.child_key \in Keys /\ w.data \in NodeDatas
  BY DEF Writes, Keys
<1>2. w.data.size \in Nat
  BY <1>1, DataAssumption
<1>3. Priority(w.node_id, w.data.size, 0) \in Nat
  BY <1>1, PriorityType
<1>4. record = [id |-> counter, child_key |-> w.child_key, data |-> w.data,
                size |-> w.data.size, priority |-> Priority(w.node_id, w.data.size, 0),
                times_opened |-> 0]
  BY DEF NewRecord, Reprioritised
<1> QED
  BY <1>1, <1>2, <1>3, <1>4 DEF Records, Record

LEMMA UpdatedIs ==
  ASSUME WarmthIsNat, NEW n \in NodeIds, NEW old \in Records, NEW d \in NodeDatas,
         NEW record, record = Updated(n, old, d)
  PROVE  /\ record \in Records
         /\ record.id = old.id /\ record.child_key = old.child_key /\ record.data = d
         /\ record.size = d.size
         /\ record.priority = Priority(n, record.size, record.times_opened)
<1>1. d.size \in Nat
  BY DataAssumption
<1>2. old.times_opened \in Nat /\ old \in Record
  BY DEF Records, Record
<1>3. Priority(n, d.size, old.times_opened) \in Nat
  BY <1>2, PriorityType
<1>4. record = [old EXCEPT !.data = d, !.size = d.size,
                           !.priority = Priority(n, d.size, old.times_opened)]
  BY <1>2 DEF Updated, Reprioritised, Record
<1> QED
  BY <1>1, <1>2, <1>3, <1>4 DEF Records, Record

LEMMA OpenedIs ==
  ASSUME WarmthIsNat, NEW n \in NodeIds, NEW old \in Records,
         NEW record, record = Opened(n, old)
  PROVE  /\ record \in Records
         /\ record.id = old.id /\ record.child_key = old.child_key /\ record.data = old.data
         /\ record.size = old.size
         /\ record.priority = Priority(n, record.size, record.times_opened)
<1> DEFINE t == old.times_opened + 1
<1>1. /\ old.times_opened \in Nat /\ old \in Record
      /\ old.data \in NodeDatas /\ old.size = old.data.size
  BY DEF Records, Record
<1>2. t \in Nat
  BY <1>1
<1>3. record = [old EXCEPT !.times_opened = t, !.priority = Priority(n, old.size, t)]
  BY <1>1 DEF Opened, Reprioritised, Record
<1> HIDE DEF t
<1>4. Priority(n, old.size, t) \in Nat
  BY <1>1, <1>2, PriorityType
<1>5. /\ record.id = old.id /\ record.child_key = old.child_key /\ record.data = old.data
      /\ record.size = old.size /\ record.times_opened = t
      /\ record.priority = Priority(n, old.size, t)
  BY <1>1, <1>3 DEF Record
<1>6. record \in Record
  BY <1>1, <1>2, <1>3, <1>4 DEF Record
<1> QED
  BY <1>1, <1>5, <1>6 DEF Records

LEMMA IndexKeyType ==
  ASSUME NEW record \in Records
  PROVE  IndexKey(record) \in IndexKeys /\ IndexKey(record)[2] = record.id
BY DEF IndexKey, IndexKeys, Records, Record

LEMMA IdleType == ASSUME task' = Idle PROVE TaskType'
BY DEF TaskType, Idle, ReadTask

LEMMA PutTaskType == ASSUME task' \in PutTask PROVE TaskType'
BY DEF TaskType, PutTask, ReadTask

LEMMA GetTaskType == ASSUME task' \in GetTask, task'.get.node_id \in nodes' PROVE TaskType'
BY DEF TaskType, GetTask, ReadTask

LEMMA StoreTaskType ==
  ASSUME task' \in StoreTask, task'.pc # "resize" => task'.node_id \in nodes'
  PROVE  TaskType'
BY DEF TaskType, StoreTask, ReadTask

LEMMA ReadTaskType ==
  ASSUME task' \in ReadTask, task'.node_id \in nodes', task'.node_id = task'.get.node_id
  PROVE  TaskType'
BY DEF TaskType, ReadTask

LEMMA SameData == ASSUME DataType, UNCHANGED <<database, counter>> PROVE DataType'
BY DEF DataType, ChildrenType, IndexType, database

LEMMA SameTask == ASSUME TaskType, UNCHANGED <<nodes, task>> PROVE TaskType'
BY DEF TaskType

LEMMA SameEvictor == ASSUME EvictorType, UNCHANGED evictor PROVE EvictorType'
BY DEF EvictorType

(* A tree of a node changes.                                               *)
LEMMA ChildrenChange ==
  ASSUME ChildrenType, NEW n \in NodeIds, NEW tree,
         children' = [children EXCEPT ![n] = tree],
         UNCHANGED nodes,
         DOMAIN tree \subseteq Keys, tree \in [DOMAIN tree -> Records],
         DOMAIN tree # {} => n \in nodes
  PROVE  ChildrenType'
<1>1. DOMAIN children' = NodeIds /\ children'[n] = tree
  BY DEF ChildrenType
<1>2. \A m \in NodeIds \ {n} : children'[m] = children[m]
  BY DEF ChildrenType
<1>3. ASSUME NEW m \in NodeIds
      PROVE  /\ DOMAIN children'[m] \subseteq Keys
             /\ children'[m] \in [DOMAIN children'[m] -> Records]
             /\ DOMAIN children'[m] # {} => m \in nodes'
  <2>1. CASE m = n
    BY <1>1, <2>1
  <2>2. CASE m # n
    <3>1. children'[m] = children[m]
      BY <1>2, <2>2
    <3> QED
      BY <3>1 DEF ChildrenType
  <2> QED
    BY <2>1, <2>2
<1> QED
  BY <1>1, <1>3 DEF ChildrenType

LEMMA MergeType ==
  ASSUME size \in Nat, NEW change \in Int
  PROVE  Merge(change) \in Nat
BY DEF Merge
------------------------------------------------------------------------------------
(* Where a put goes on with a child there is not.                          *)
LEMMA PutNewChildTask ==
  ASSUME WarmthIsNat, TypeInv, NEW w \in Writes, PutNewChild(w)
  PROVE  /\ w \in Writable /\ w.child_key \notin DOMAIN children[w.node_id]
         /\ task' \in StoreTask
         /\ task'.pc = "unfile" /\ task'.node_id = w.node_id /\ task'.key = w.child_key
         /\ task'.was = <<0, counter>>
         /\ task'.record = NewRecord(w.node_id, w.child_key, w.data)
         /\ task'.change = w.data.size
         /\ nodes' = nodes \cup {w.node_id}
         /\ counter < MaxIds /\ counter' = counter + 1
         /\ UNCHANGED <<children, index, size, evictor, received>> /\ served' = {}
<1> DEFINE record == NewRecord(w.node_id, w.child_key, w.data)
<1>1. task \in PutTask /\ task.todo \in SUBSET Writable /\ w \in Writable
  BY DEF TypeInv, TaskType, PutNewChild, PutTask
<1>2. counter \in 0..MaxIds
  BY DEF TypeInv, DataType
<1>3. record \in Records /\ record.id = counter /\ record.size = w.data.size
  BY <1>2, NewRecordIs
<1>4. w.node_id \in NodeIds \ Reserved /\ w.child_key \in ChildKeys /\ w.data.size \in Int
  BY <1>1, DataAssumption DEF Writable, Writes
<1>5. task' = [pc |-> "unfile", then |-> "store", node_id |-> w.node_id, key |-> w.child_key,
               was |-> <<0, record.id>>, record |-> record, change |-> record.size,
               todo |-> task.todo \ {w}]
  BY DEF PutNewChild, StoreNext
<1>6. w.child_key \notin DOMAIN children[w.node_id]
  BY DEF PutNewChild
<1> HIDE DEF record
<1>7. <<0, record.id>> \in IndexKeys
  BY <1>2, <1>3 DEF IndexKeys
<1>8. task' \in StoreTask
  BY <1>1, <1>3, <1>4, <1>5, <1>7 DEF StoreTask
<1>9. /\ nodes' = nodes \cup {w.node_id}
      /\ counter < MaxIds /\ counter' = counter + 1
      /\ UNCHANGED <<children, index, size, evictor, received>> /\ served' = {}
  BY DEF PutNewChild, Quietly
<1> QED
  BY <1>1, <1>3, <1>5, <1>6, <1>8, <1>9 DEF record

LEMMA PutNewChildType ==
  ASSUME WarmthIsNat, TypeInv, NEW w \in Writes, PutNewChild(w)
  PROVE  TypeInv'
<1>1. /\ w \in Writable /\ task' \in StoreTask /\ task'.node_id = w.node_id
      /\ nodes' = nodes \cup {w.node_id}
      /\ counter < MaxIds /\ counter' = counter + 1
      /\ UNCHANGED <<children, index, size, evictor>>
  BY PutNewChildTask
<1>2. TaskType'
  BY <1>1, StoreTaskType
<1>3. counter' \in 0..MaxIds
  BY <1>1, BoundsAssumption DEF TypeInv, DataType
<1>4. ChildrenType' /\ IndexType'
  BY <1>1 DEF TypeInv, DataType, ChildrenType, IndexType
<1>5. DataType'
  BY <1>1, <1>3, <1>4 DEF TypeInv, DataType, Writable, Writes
<1> QED
  BY <1>1, <1>2, <1>5, SameEvictor DEF TypeInv

(* Where a put goes on when it replaces a child.                           *)
LEMMA PutNewerTask ==
  ASSUME WarmthIsNat, TypeInv, NEW w \in Writes, PutNewer(w)
  PROVE  /\ w \in Writable
         /\ w.child_key \in DOMAIN children[w.node_id] /\ Existing(w) \in Records
         /\ w.node_id \in nodes
         /\ w.data.updated_at >= Existing(w).data.updated_at
         /\ task' \in StoreTask
         /\ task'.pc \in {"unfile", "store"}
         /\ task'.node_id = w.node_id /\ task'.key = w.child_key
         /\ task'.was = IndexKey(Existing(w))
         /\ task'.record = Updated(w.node_id, Existing(w), w.data)
         /\ task'.pc = "store" => task'.record.priority = Existing(w).priority
         /\ task'.change = w.data.size - Existing(w).size
         /\ UNCHANGED <<database, counter, evictor, received>> /\ served' = {}
<1> DEFINE record == Updated(w.node_id, Existing(w), w.data)
           pc == IF record.priority # Existing(w).priority THEN "unfile" ELSE "store"
<1>1. task \in PutTask /\ task.todo \in SUBSET Writable /\ w \in Writable
  BY DEF TypeInv, TaskType, PutNewer, PutTask
<1>2. w.node_id \in NodeIds \ Reserved /\ w.child_key \in ChildKeys /\ w.data \in NodeDatas
  BY <1>1 DEF Writable, Writes
<1>3. w.child_key \in DOMAIN children[w.node_id]
  BY DEF PutNewer
<1>4. Existing(w) \in Records /\ w.node_id \in nodes
  BY <1>2, <1>3 DEF TypeInv, DataType, ChildrenType, Existing
<1>5. record \in Records /\ record.size = w.data.size
  BY <1>2, <1>4, UpdatedIs
<1>6. task' = [pc |-> pc, then |-> "store", node_id |-> w.node_id, key |-> w.child_key,
               was |-> IndexKey(Existing(w)), record |-> record,
               change |-> record.size - Existing(w).size, todo |-> task.todo \ {w}]
  BY DEF PutNewer, StoreNext
<1>7. pc \in {"unfile", "store"} /\ (pc = "store" => record.priority = Existing(w).priority)
  OBVIOUS
<1> HIDE DEF record, pc
<1>8. record.size - Existing(w).size \in Int
  BY <1>4, <1>5 DEF Records, Record
<1>9. IndexKey(Existing(w)) \in IndexKeys
  BY <1>4, IndexKeyType
<1>10. task' \in StoreTask
  BY <1>1, <1>2, <1>5, <1>6, <1>7, <1>8, <1>9 DEF StoreTask
<1>11. /\ task'.pc = pc /\ task'.node_id = w.node_id /\ task'.key = w.child_key
       /\ task'.was = IndexKey(Existing(w)) /\ task'.record = record
       /\ task'.change = record.size - Existing(w).size
  BY <1>6
<1>12. /\ w.data.updated_at >= Existing(w).data.updated_at
       /\ UNCHANGED <<database, counter, evictor, received>> /\ served' = {}
  BY DEF PutNewer, Quietly
<1> QED
  BY <1>1, <1>3, <1>4, <1>5, <1>7, <1>10, <1>11, <1>12 DEF record

LEMMA PutType ==
  ASSUME WarmthIsNat, TypeInv, NEW w \in Writes, PutNewer(w) \/ PutOlder(w)
  PROVE  TypeInv'
<1>1. CASE PutNewer(w)
  <2>1. /\ task' \in StoreTask /\ task'.node_id \in nodes
        /\ UNCHANGED <<database, counter, evictor>>
    BY <1>1, PutNewerTask
  <2>2. TaskType'
    BY <2>1, StoreTaskType DEF database
  <2> QED
    BY <2>1, <2>2, SameData, SameEvictor DEF TypeInv
<1>2. CASE PutOlder(w)
  <2>1. task' = [task EXCEPT !.todo = @ \ {w}] /\ task \in PutTask
    BY <1>2 DEF PutOlder, TypeInv, TaskType
  <2>2. task' \in PutTask
    BY <2>1 DEF PutTask
  <2>3. UNCHANGED <<database, counter, evictor>>
    BY <1>2 DEF PutOlder
  <2> QED
    BY <2>2, <2>3, PutTaskType, SameData, SameEvictor DEF TypeInv
<1> QED
  BY <1>1, <1>2

LEMMA UnfileTask ==
  ASSUME TypeInv, Unfile
  PROVE  /\ task.pc = "unfile" /\ task'.pc = "file"
         /\ task \in StoreTask <=> task' \in StoreTask
         /\ task \in ReadTask <=> task' \in ReadTask
         /\ task \in StoreTask \/ task \in ReadTask
         /\ task'.then = task.then /\ task'.node_id = task.node_id
         /\ task'.was = task.was /\ task'.record = task.record
         /\ task \in StoreTask => task'.key = task.key /\ task'.change = task.change
         /\ task \in ReadTask => task'.get = task.get /\ task'.read = task.read
         /\ index' = Without(index, task.was)
         /\ UNCHANGED <<nodes, children, size, counter, evictor, received>> /\ served' = {}
<1>1. task \in StoreTask \/ task \in ReadTask
  BY DEF TypeInv, TaskType, Unfile
<1>2. task' = [task EXCEPT !.pc = "file"] /\ task.pc = "unfile"
  BY DEF Unfile
<1>3. /\ index' = Without(index, task.was)
      /\ UNCHANGED <<nodes, children, size, counter, evictor, received>> /\ served' = {}
  BY DEF Unfile, Quietly
<1>4. ASSUME task \in StoreTask
      PROVE  /\ task' \in StoreTask /\ task' \notin ReadTask /\ task \notin ReadTask
             /\ task'.pc = "file"
             /\ task'.then = task.then /\ task'.node_id = task.node_id
             /\ task'.was = task.was /\ task'.record = task.record
             /\ task'.key = task.key /\ task'.change = task.change
  BY <1>2, <1>4 DEF StoreTask, ReadTask
<1>5. ASSUME task \in ReadTask
      PROVE  /\ task' \in ReadTask /\ task' \notin StoreTask /\ task \notin StoreTask
             /\ task'.pc = "file"
             /\ task'.then = task.then /\ task'.node_id = task.node_id
             /\ task'.was = task.was /\ task'.record = task.record
             /\ task'.get = task.get /\ task'.read = task.read
  BY <1>2, <1>5 DEF StoreTask, ReadTask
<1> QED
  BY <1>1, <1>2, <1>3, <1>4, <1>5

LEMMA FileTask ==
  ASSUME TypeInv, File
  PROVE  /\ task.pc = "file" /\ task'.pc = task.then
         /\ task \in StoreTask <=> task' \in StoreTask
         /\ task \in ReadTask <=> task' \in ReadTask
         /\ task \in StoreTask \/ task \in ReadTask
         /\ task'.then = task.then /\ task'.node_id = task.node_id
         /\ task'.was = task.was /\ task'.record = task.record
         /\ task \in StoreTask => task'.key = task.key /\ task'.change = task.change
         /\ task \in ReadTask => task'.get = task.get /\ task'.read = task.read
         /\ index' = With(index, IndexKey(task.record), Entry(task.node_id, task.record))
         /\ UNCHANGED <<nodes, children, size, counter, evictor, received>> /\ served' = {}
<1>1. task \in StoreTask \/ task \in ReadTask
  BY DEF TypeInv, TaskType, File
<1>2. task' = [task EXCEPT !.pc = task.then] /\ task.pc = "file"
  BY DEF File
<1>3. /\ index' = With(index, IndexKey(task.record), Entry(task.node_id, task.record))
      /\ UNCHANGED <<nodes, children, size, counter, evictor, received>> /\ served' = {}
  BY DEF File, Quietly
<1>4. ASSUME task \in StoreTask
      PROVE  /\ task' \in StoreTask /\ task' \notin ReadTask /\ task \notin ReadTask
             /\ task'.pc = task.then
             /\ task'.then = task.then /\ task'.node_id = task.node_id
             /\ task'.was = task.was /\ task'.record = task.record
             /\ task'.key = task.key /\ task'.change = task.change
  BY <1>2, <1>4 DEF StoreTask, ReadTask
<1>5. ASSUME task \in ReadTask
      PROVE  /\ task' \in ReadTask /\ task' \notin StoreTask /\ task \notin StoreTask
             /\ task'.pc = task.then
             /\ task'.then = task.then /\ task'.node_id = task.node_id
             /\ task'.was = task.was /\ task'.record = task.record
             /\ task'.get = task.get /\ task'.read = task.read
  BY <1>2, <1>5 DEF StoreTask, ReadTask
<1> QED
  BY <1>1, <1>2, <1>3, <1>4, <1>5

LEMMA FilingType == ASSUME TypeInv, Unfile \/ File PROVE TypeInv'
<1>1. /\ task' \in StoreTask \/ task' \in ReadTask
      /\ task'.node_id = task.node_id
      /\ task' \in ReadTask => task \in ReadTask /\ task'.get = task.get
      /\ task.pc \in {"unfile", "file"}
      /\ UNCHANGED <<nodes, children, size, counter, evictor>>
  BY UnfileTask, FileTask
<1>2. task.node_id \in nodes /\ (task \in ReadTask => task.node_id = task.get.node_id)
  BY <1>1 DEF TypeInv, TaskType
<1>3. TaskType'
  BY <1>1, <1>2, StoreTaskType, ReadTaskType
<1>4. IndexType'
  <2>1. CASE Unfile
    <3>1. /\ DOMAIN index' = DOMAIN index \ {task.was}
          /\ \A key \in DOMAIN index \ {task.was} : index'[key] = index[key]
      BY <2>1, WithoutIs DEF Unfile
    <3> QED
      BY <3>1 DEF TypeInv, DataType, IndexType
  <2>2. CASE File
    <3> DEFINE key == IndexKey(task.record)
               entry == Entry(task.node_id, task.record)
    <3>1. task.record \in Records /\ task.node_id \in NodeIds \ Reserved
      BY <2>2, FileTask DEF StoreTask, ReadTask
    <3>2. entry \in Entries
      BY <3>1 DEF Entry, Entries, Records, Record
    <3>3. key \in IndexKeys
      BY <3>1, IndexKeyType
    <3> HIDE DEF key, entry
    <3>4. index' = With(index, key, entry)
      BY <2>2 DEF File, key, entry
    <3>5. /\ DOMAIN index' = DOMAIN index \cup {key} /\ index'[key] = entry
          /\ \A k \in DOMAIN index \ {key} : index'[k] = index[k]
      BY <3>4 DEF With
    <3> QED
      BY <3>2, <3>3, <3>5 DEF TypeInv, DataType, IndexType
  <2> QED
    BY <2>1, <2>2
<1>5. DataType'
  BY <1>1, <1>4 DEF TypeInv, DataType, ChildrenType
<1> QED
  BY <1>1, <1>3, <1>5, SameEvictor DEF TypeInv

LEMMA StoreStep ==
  ASSUME TypeInv, Store
  PROVE  /\ task \in StoreTask /\ task' \in StoreTask
         /\ task.pc = "store" /\ task'.pc = "resize"
         /\ task'.record = task.record /\ task'.node_id = task.node_id /\ task'.key = task.key
         /\ task'.change = task.change /\ task'.was = task.was
         /\ task.node_id \in nodes /\ task.node_id \in NodeIds
         /\ task.key \in ChildKeys /\ task.record \in Records
         /\ children' = [children EXCEPT ![task.node_id] =
                           With(children[task.node_id], task.key, task.record)]
         /\ UNCHANGED <<nodes, index, size, counter, evictor>> /\ served' = {}
<1>1. task \in StoreTask /\ task.node_id \in nodes
  BY DEF TypeInv, TaskType, Store
<1>2. task' = [task EXCEPT !.pc = "resize"] /\ task.pc = "store"
  BY DEF Store
<1>3. /\ task' \in StoreTask /\ task'.pc = "resize"
      /\ task'.record = task.record /\ task'.node_id = task.node_id /\ task'.key = task.key
      /\ task'.change = task.change /\ task'.was = task.was
  BY <1>1, <1>2 DEF StoreTask
<1>4. /\ children' = [children EXCEPT ![task.node_id] =
                           With(children[task.node_id], task.key, task.record)]
      /\ UNCHANGED <<nodes, index, size, counter, evictor>> /\ served' = {}
  BY DEF Store, Quietly
<1> QED
  BY <1>1, <1>2, <1>3, <1>4 DEF StoreTask


LEMMA StoreType == ASSUME TypeInv, Store PROVE TypeInv'
<1> DEFINE tree == With(children[task.node_id], task.key, task.record)
<1>1. /\ task' \in StoreTask /\ task'.pc = "resize" /\ task.node_id \in nodes
      /\ task.node_id \in NodeIds /\ task.key \in Keys /\ task.record \in Records
      /\ children' = [children EXCEPT ![task.node_id] = tree]
      /\ UNCHANGED <<nodes, index, size, counter, evictor>>
  BY StoreStep DEF Keys
<1>2. TaskType'
  BY <1>1, StoreTaskType
<1>3. DOMAIN tree \subseteq Keys /\ tree \in [DOMAIN tree -> Records]
  BY <1>1 DEF With, TypeInv, DataType, ChildrenType
<1> HIDE DEF tree
<1>4. ChildrenType'
  BY <1>1, <1>3, ChildrenChange DEF TypeInv, DataType
<1>5. DataType'
  BY <1>1, <1>4 DEF TypeInv, DataType, IndexType
<1> QED
  BY <1>1, <1>2, <1>5, SameEvictor DEF TypeInv

LEMMA ResizeType == ASSUME TypeInv, Resize PROVE TypeInv'
<1>1. task \in StoreTask
  BY DEF TypeInv, TaskType, Resize
<1>2. task.todo \in SUBSET Writable /\ task.change \in Int
  BY <1>1 DEF StoreTask
<1>3. /\ size' = Merge(task.change)
      /\ task' = [pc |-> "put", todo |-> task.todo]
      /\ UNCHANGED <<nodes, children, index, counter, evictor>>
  BY DEF Resize
<1>4. task' \in PutTask
  BY <1>2, <1>3 DEF PutTask
<1>5. DataType'
  BY <1>2, <1>3, MergeType DEF TypeInv, DataType, ChildrenType, IndexType
<1> QED
  BY <1>3, <1>4, <1>5, PutTaskType, SameEvictor DEF TypeInv

LEMMA ReadChildTask ==
  ASSUME WarmthIsNat, TypeInv, NEW k \in Keys, ReadChild(k),
         NEW n, n = task.get.node_id
  PROVE  /\ n \in nodes /\ n \in NodeIds \ Reserved
         /\ k \in DOMAIN children[n] /\ children[n][k] \in Records
         /\ task' \in ReadTask
         /\ task'.pc \in {"unfile", "writeback"}
         /\ task'.node_id = n /\ task'.get = task.get
         /\ task'.was = IndexKey(children[n][k])
         /\ task'.record = Opened(n, children[n][k])
         /\ task'.pc = "writeback" => task'.record.priority = children[n][k].priority
         /\ served' = {w \in Writes : w = [node_id |-> n, child_key |-> k,
                                           data |-> children[n][k].data]}
         /\ UNCHANGED <<database, counter, evictor, received>>
<1> DEFINE record == Opened(n, children[n][k])
           pc == IF record.priority # children[n][k].priority THEN "unfile" ELSE "writeback"
<1>1. task.pc = "get" /\ k \in DOMAIN children[n] \ DOMAIN task.read
  BY DEF ReadChild
<1>2. task \in GetTask /\ n \in nodes
  BY <1>1 DEF TypeInv, TaskType
<1>3. n \in NodeIds \ Reserved
  BY <1>2 DEF TypeInv, DataType
<1>4. children[n][k] \in Records
  BY <1>1, <1>3 DEF TypeInv, DataType, ChildrenType
<1>5. record \in Records /\ record.data = children[n][k].data
  BY <1>3, <1>4, OpenedIs
<1>6. IndexKey(children[n][k]) \in IndexKeys
  BY <1>4, IndexKeyType
<1>7. task' = [pc |-> pc, then |-> "writeback", node_id |-> n, was |-> IndexKey(children[n][k]),
               record |-> record, get |-> task.get, read |-> With(task.read, k, record.data)]
  BY DEF ReadChild
<1>8. pc \in {"unfile", "writeback"}
      /\ (pc = "writeback" => record.priority = children[n][k].priority)
  OBVIOUS
<1>9. /\ served' = {w \in Writes : w = [node_id |-> n, child_key |-> k, data |-> record.data]}
      /\ UNCHANGED <<database, counter, evictor, received>>
  BY DEF ReadChild
<1> HIDE DEF record, pc
<1>10. With(task.read, k, record.data) \in Reads
  <2>1. PICK D \in SUBSET Keys : task.read \in [D -> NodeDatas]
    BY <1>2 DEF GetTask, Reads
  <2>2. record.data \in NodeDatas
    BY <1>5 DEF Records, Record
  <2>3. With(task.read, k, record.data) \in [D \cup {k} -> NodeDatas]
    BY <2>1, <2>2, WithType
  <2>4. D \cup {k} \in SUBSET Keys
    OBVIOUS
  <2> QED
    BY <2>3, <2>4 DEF Reads
<1>11. task' \in ReadTask
  BY <1>2, <1>3, <1>5, <1>6, <1>7, <1>8, <1>10 DEF ReadTask, GetTask
<1>12. /\ task'.pc = pc /\ task'.node_id = n /\ task'.get = task.get
       /\ task'.was = IndexKey(children[n][k]) /\ task'.record = record
  BY <1>7
<1> QED
  BY <1>1, <1>2, <1>3, <1>4, <1>5, <1>8, <1>9, <1>11, <1>12 DEF record

LEMMA ReadChildType ==
  ASSUME WarmthIsNat, TypeInv, NEW k \in Keys, ReadChild(k)
  PROVE  TypeInv'
<1>1. /\ task' \in ReadTask /\ task'.node_id = task.get.node_id /\ task'.get = task.get
      /\ task'.node_id \in nodes
      /\ UNCHANGED <<database, counter, evictor>>
  BY ReadChildTask
<1>2. TaskType'
  BY <1>1, ReadTaskType DEF database
<1> QED
  BY <1>1, <1>2, SameData, SameEvictor DEF TypeInv

LEMMA WriteBackStep ==
  ASSUME TypeInv, WriteBack
  PROVE  /\ task \in ReadTask /\ task.pc = "writeback"
         /\ task.node_id \in nodes /\ task.node_id \in NodeIds /\ task.record \in Records
         /\ task' \in GetTask /\ task'.get.node_id \in nodes /\ task'.pc = "get"
         /\ children' = [children EXCEPT ![task.node_id] =
                           With(children[task.node_id], task.node_id, task.record)]
         /\ UNCHANGED <<nodes, index, size, counter, evictor, received>> /\ served' = {}
<1>1. task \in ReadTask /\ task.pc = "writeback"
  BY DEF TypeInv, TaskType, WriteBack
<1>2. task.node_id \in nodes /\ task.node_id = task.get.node_id
  BY <1>1 DEF TypeInv, TaskType
<1>3. task' = [pc |-> "get", get |-> task.get, read |-> task.read]
  BY DEF WriteBack
<1>4. task' \in GetTask /\ task'.get = task.get /\ task'.pc = "get"
  BY <1>1, <1>3 DEF ReadTask, GetTask
<1>5. /\ children' = [children EXCEPT ![task.node_id] =
                        With(children[task.node_id], task.node_id, task.record)]
      /\ UNCHANGED <<nodes, index, size, counter, evictor, received>> /\ served' = {}
  BY DEF WriteBack, Quietly
<1> QED
  BY <1>1, <1>2, <1>4, <1>5 DEF ReadTask

LEMMA WriteBackType == ASSUME TypeInv, WriteBack PROVE TypeInv'
<1> DEFINE tree == With(children[task.node_id], task.node_id, task.record)
<1>1. /\ task.node_id \in nodes /\ task.node_id \in NodeIds
      /\ task.node_id \in Keys /\ task.record \in Records
      /\ task' \in GetTask /\ task'.get.node_id \in nodes
      /\ children' = [children EXCEPT ![task.node_id] = tree]
      /\ UNCHANGED <<nodes, index, size, counter, evictor>>
  BY WriteBackStep DEF Keys
<1>2. TaskType'
  BY <1>1, GetTaskType
<1>3. DOMAIN tree \subseteq Keys /\ tree \in [DOMAIN tree -> Records]
  BY <1>1 DEF With, TypeInv, DataType, ChildrenType
<1> HIDE DEF tree
<1>4. ChildrenType'
  BY <1>1, <1>3, ChildrenChange DEF TypeInv, DataType
<1>5. DataType'
  BY <1>1, <1>4 DEF TypeInv, DataType, IndexType
<1> QED
  BY <1>1, <1>2, <1>5, SameEvictor DEF TypeInv

LEMMA ReceiveType ==
  ASSUME TypeInv,
         (\E put \in Puts : ReceivePut(put)) \/ (\E get \in Gets : ReceiveGet(get))
  PROVE  TypeInv'
<1>1. UNCHANGED <<database, counter, evictor>>
  BY DEF ReceivePut, ReceiveGet
<1>2. TaskType'
  <2>1. CASE \E put \in Puts : ReceivePut(put)
    <3>1. PICK put \in Puts : task' = [pc |-> "put",
                                       todo |-> {w \in put : w.node_id \notin Reserved}]
      BY <2>1 DEF ReceivePut
    <3>2. {w \in put : w.node_id \notin Reserved} \in SUBSET Writable
      BY PutsAssumption DEF Writable
    <3>3. task' \in PutTask
      BY <3>1, <3>2 DEF PutTask
    <3> QED
      BY <3>3, PutTaskType
  <2>2. CASE \E get \in Gets : ReceiveGet(get)
    <3>1. PICK get \in Gets : task' = IF get.node_id \in nodes
                                        THEN [pc |-> "get", get |-> get, read |-> <<>>]
                                        ELSE Idle
      BY <2>2 DEF ReceiveGet
    <3>2. CASE get.node_id \in nodes
      <4>1. <<>> \in Reads
        <5>1. <<>> \in [{} -> NodeDatas] /\ {} \in SUBSET Keys
          OBVIOUS
        <5> QED
          BY <5>1 DEF Reads
      <4>2. task' \in GetTask /\ task'.get.node_id \in nodes'
        BY <1>1, <3>1, <3>2, <4>1 DEF GetTask, database
      <4> QED
        BY <4>2, GetTaskType
    <3>3. CASE get.node_id \notin nodes
      BY <3>1, <3>3, IdleType
    <3> QED
      BY <3>2, <3>3
  <2> QED
    BY <2>1, <2>2
<1> QED
  BY <1>1, <1>2, SameData, SameEvictor DEF TypeInv

LEMMA DoneType ==
  ASSUME TypeInv, PutDone \/ AnswerGet \/ NoAnswer
  PROVE  TypeInv'
<1>1. task' = Idle /\ UNCHANGED <<database, counter, evictor>>
  BY DEF PutDone, AnswerGet, NoAnswer
<1> QED
  BY <1>1, IdleType, SameData, SameEvictor DEF TypeInv

LEMMA RestartType == ASSUME TypeInv, Restart PROVE TypeInv'
<1>1. /\ task' = Idle /\ evictor' = Idle /\ counter' = 0
      /\ UNCHANGED <<nodes, children, index, size>>
  BY DEF Restart, database
<1>2. EvictorType'
  BY <1>1 DEF EvictorType, Idle
<1>3. DataType'
  BY <1>1, BoundsAssumption DEF TypeInv, DataType, ChildrenType, IndexType
<1> QED
  BY <1>1, <1>2, <1>3, IdleType DEF TypeInv

LEMMA PopStep ==
  ASSUME TypeInv, NEW key \in DOMAIN index, PopLeast(key)
  PROVE  /\ index' = Without(index, key)
         /\ DOMAIN index' = DOMAIN index \ {key}
         /\ \A k \in DOMAIN index' : index'[k] = index[k]
         /\ EvictorType'
         /\ UNCHANGED <<nodes, children, size, counter, task, received>> /\ served' = {}
<1>1. /\ index' = Without(index, key)
      /\ evictor' = [pc |-> "remove", todo |-> evictor.todo, entry |-> index[key]]
      /\ UNCHANGED <<nodes, children, size, counter, task, received>> /\ served' = {}
      /\ evictor.pc = "pop"
  BY DEF PopLeast, Quietly
<1>2. evictor.todo \in Int /\ index[key] \in Entries
  BY <1>1 DEF TypeInv, EvictorType, DataType, IndexType
<1>3. evictor'.pc = "remove"
      /\ evictor' \in [pc : {"remove", "subtract"}, todo : Int, entry : Entries]
  BY <1>1, <1>2
<1>4. EvictorType'
  BY <1>3 DEF EvictorType
<1> QED
  BY <1>1, <1>4, WithoutIs

LEMMA RemoveStep ==
  ASSUME TypeInv, RemoveEvicted
  PROVE  /\ evictor.entry \in Entries
         /\ children' = [children EXCEPT ![evictor.entry.node_id] =
                           Without(children[evictor.entry.node_id], evictor.entry.child_key)]
         /\ received' = {w \in received : \/ w.node_id # evictor.entry.node_id
                                          \/ w.child_key # evictor.entry.child_key}
         /\ EvictorType'
         /\ UNCHANGED <<nodes, index, size, counter, task>> /\ served' = {}
<1>1. evictor \in [pc : {"remove", "subtract"}, todo : Int, entry : Entries]
  BY DEF TypeInv, EvictorType, RemoveEvicted
<1>2. evictor' = [evictor EXCEPT !.pc = "subtract"]
  BY DEF RemoveEvicted
<1>3. evictor'.pc = "subtract"
      /\ evictor' \in [pc : {"remove", "subtract"}, todo : Int, entry : Entries]
  BY <1>1, <1>2
<1>4. EvictorType'
  BY <1>3 DEF EvictorType
<1>5. /\ children' = [children EXCEPT ![evictor.entry.node_id] =
                        Without(children[evictor.entry.node_id], evictor.entry.child_key)]
      /\ received' = {w \in received : \/ w.node_id # evictor.entry.node_id
                                       \/ w.child_key # evictor.entry.child_key}
      /\ UNCHANGED <<nodes, index, size, counter, task>> /\ served' = {}
  BY DEF RemoveEvicted, Quietly
<1> QED
  BY <1>1, <1>4, <1>5

LEMMA EvictType == ASSUME TypeInv, Evict PROVE TypeInv'
<1>1. CASE StartEviction
  <2>1. /\ Limit # None /\ evictor' = [pc |-> "pop", todo |-> size - Limit]
        /\ UNCHANGED <<database, counter, task>>
    BY <1>1 DEF StartEviction
  <2>2. size - Limit \in Int
    BY <2>1, LimitAssumption DEF TypeInv, DataType
  <2>3. EvictorType'
    BY <2>1, <2>2 DEF EvictorType
  <2> QED
    BY <2>1, <2>3, SameData, SameTask DEF TypeInv, database
<1>2. ASSUME NEW key \in DOMAIN index, PopLeast(key)
      PROVE  TypeInv'
  <2>1. /\ DOMAIN index' = DOMAIN index \ {key}
        /\ \A k \in DOMAIN index' : index'[k] = index[k]
        /\ EvictorType'
        /\ UNCHANGED <<nodes, children, size, counter, task>>
    BY <1>2, PopStep
  <2>2. IndexType'
    BY <2>1 DEF TypeInv, DataType, IndexType
  <2>3. DataType'
    BY <2>1, <2>2 DEF TypeInv, DataType, ChildrenType
  <2> QED
    BY <2>1, <2>3, SameTask DEF TypeInv
<1>3. CASE RemoveEvicted
  <2> DEFINE n == evictor.entry.node_id
             tree == Without(children[n], evictor.entry.child_key)
  <2>1. /\ n \in NodeIds
        /\ children' = [children EXCEPT ![n] = tree]
        /\ EvictorType'
        /\ UNCHANGED <<nodes, index, size, counter, task>>
    BY <1>3, RemoveStep DEF Entries
  <2>2. /\ DOMAIN tree \subseteq Keys /\ tree \in [DOMAIN tree -> Records]
        /\ DOMAIN tree # {} => n \in nodes
    BY <2>1 DEF Without, TypeInv, DataType, ChildrenType
  <2> HIDE DEF n, tree
  <2>3. ChildrenType'
    BY <2>1, <2>2, ChildrenChange DEF TypeInv, DataType
  <2>4. DataType'
    BY <2>1, <2>3 DEF TypeInv, DataType, IndexType
  <2> QED
    BY <2>1, <2>4, SameTask DEF TypeInv
<1>4. CASE SubtractEvicted
  <2>1. evictor.entry \in Entries /\ evictor.todo \in Int
    BY <1>4 DEF TypeInv, EvictorType, SubtractEvicted
  <2>2. evictor.entry.size \in Int
    BY <2>1 DEF Entries
  <2>3. /\ size' = Merge(0 - evictor.entry.size)
        /\ evictor' = [pc |-> "pop", todo |-> evictor.todo - evictor.entry.size]
        /\ UNCHANGED <<nodes, children, index, counter, task>>
    BY <1>4 DEF SubtractEvicted
  <2>4. 0 - evictor.entry.size \in Int /\ evictor.todo - evictor.entry.size \in Int
    BY <2>1, <2>2
  <2>5. EvictorType'
    BY <2>3, <2>4 DEF EvictorType
  <2>6. DataType'
    BY <2>3, <2>4, MergeType DEF TypeInv, DataType, ChildrenType, IndexType
  <2> QED
    BY <2>3, <2>5, <2>6, SameTask DEF TypeInv
<1>5. CASE EvictionDone
  <2>1. evictor' = Idle /\ UNCHANGED <<database, counter, task>>
    BY <1>5 DEF EvictionDone
  <2>2. EvictorType'
    BY <2>1 DEF EvictorType, Idle
  <2> QED
    BY <2>1, <2>2, SameData, SameTask DEF TypeInv, database
<1> QED
  BY <1>1, <1>2, <1>3, <1>4, <1>5 DEF Evict

LEMMA StepType == ASSUME WarmthIsNat, TypeInv, [Next]_vars PROVE TypeInv'
<1>1. CASE Handle
  BY <1>1, ReceiveType DEF Handle
<1>2. CASE Work
  BY <1>2, PutNewChildType, PutType, FilingType, StoreType, ResizeType, ReadChildType,
     WriteBackType, DoneType DEF Work
<1>3. CASE Evict
  BY <1>3, EvictType
<1>4. CASE Restart
  BY <1>4, RestartType
<1>5. CASE UNCHANGED vars
  BY <1>5, SameData, SameTask, SameEvictor DEF vars, TypeInv, database
<1> QED
  BY <1>1, <1>2, <1>3, <1>4, <1>5 DEF Next

LEMMA InitType == Init => TypeInv
<1> SUFFICES ASSUME Init PROVE TypeInv
  OBVIOUS
<1>1. ChildrenType /\ IndexType
  BY DEF Init, ChildrenType, IndexType
<1>2. TaskType /\ EvictorType
  BY DEF Init, Idle, TaskType, EvictorType, ReadTask
<1> QED
  BY <1>1, <1>2, BoundsAssumption DEF Init, TypeInv, DataType

LEMMA TypeInvCorrect == ASSUME WarmthIsNat PROVE Spec => []TypeInv
<1>1. TypeInv /\ [Next]_vars => TypeInv'
  BY StepType
<1> QED
  BY <1>1, InitType, PTL DEF Spec

LEMMA TypeImplied == TypeInv => TypeOK
<1> SUFFICES ASSUME TypeInv PROVE TypeOK
  OBVIOUS
<1>1. ASSUME NEW n \in NodeIds
      PROVE  /\ DOMAIN children[n] \subseteq Keys
             /\ \A k \in DOMAIN children[n] : children[n][k] \in Record
             /\ children[n] # <<>> => n \in nodes \ Reserved
  <2>1. /\ DOMAIN children[n] \subseteq Keys /\ children[n] \in [DOMAIN children[n] -> Records]
        /\ DOMAIN children[n] # {} => n \in nodes
        /\ nodes \cap Reserved = {}
    BY DEF TypeInv, DataType, ChildrenType
  <2>2. DOMAIN children[n] = {} => children[n] = <<>>
    BY <2>1
  <2> QED
    BY <2>1, <2>2 DEF Records
<1>2. /\ DOMAIN index \subseteq Nat \X (0..MaxIds)
      /\ \A key \in DOMAIN index :
           index[key] \in [node_id : NodeIds \ Reserved, child_key : Keys, size : Nat]
  BY DEF TypeInv, DataType, IndexType, IndexKeys, Entries
<1>3. /\ nodes \subseteq NodeIds /\ size \in Nat /\ counter \in 0..MaxIds
      /\ task.pc \in {"idle", "put", "unfile", "file", "store", "resize", "get", "writeback"}
      /\ evictor.pc \in {"idle", "pop", "remove", "subtract"}
  BY DEF TypeInv, DataType, TaskType, EvictorType
<1> QED
  BY <1>1, <1>2, <1>3 DEF TypeOK

(* Whatever eviction, reads and restarts interleave, trees hold records of *)
(* children only under nodes that have a marker and are not the store's    *)
(* own, and the index holds entries for such nodes (sled_storage.rs:       *)
(* 241-331, 338-360).                                                      *)
THEOREM TypeCorrect == ASSUME WarmthIsNat PROVE Spec => []TypeOK
<1> QED
  BY TypeInvCorrect, TypeImplied, PTL
------------------------------------------------------------------------------------
(* The priorities a node's children may have.                              *)
InBand(n, priority) ==
  /\ priority >= BasePriority[n]
  /\ BasePriority[n] = 0 => priority <= 99

(* Every entry of the index, and the one about to be filed, is in its      *)
(* node's band.                                                            *)
Bands ==
  /\ \A key \in DOMAIN index : InBand(index[key].node_id, key[1])
  /\ task.pc \in {"unfile", "file"} => InBand(task.node_id, task.record.priority)

LEMMA PriorityBand ==
  ASSUME WarmthIsNat, NEW n \in NodeIds, NEW record \in Records,
         record.priority = Priority(n, record.size, record.times_opened)
  PROVE  InBand(n, record.priority)
<1> DEFINE warmth == Warmth(record.size, record.times_opened)
<1>1. record.data \in NodeDatas /\ record.size = record.data.size /\ record.times_opened \in Nat
  BY DEF Records, Record
<1>2. warmth \in Nat
  BY <1>1 DEF WarmthIsNat
<1>3. BasePriority[n] \in {0, 100, 110}
  BY NodesAssumption
<1>4. record.priority = IF BasePriority[n] # 0 THEN BasePriority[n] + warmth
                        ELSE IF warmth < 99 THEN warmth ELSE 99
  BY DEF Priority
<1> HIDE DEF warmth
<1> QED
  BY <1>2, <1>3, <1>4 DEF InBand

LEMMA StepBands == ASSUME WarmthIsNat, TypeInv, Bands, [Next]_vars PROVE Bands'
<1>1. ASSUME UNCHANGED index, task'.pc \in {"unfile", "file"} => UNCHANGED task
      PROVE  Bands'
  BY <1>1 DEF Bands
<1>2. ASSUME NEW n \in NodeIds, NEW old \in Records, UNCHANGED index,
             task'.node_id = n, task'.record \in Records,
             task'.record.priority = Priority(n, task'.record.size, task'.record.times_opened)
      PROVE  Bands'
  BY <1>2, PriorityBand DEF Bands
<1>3. CASE Handle
  <2>1. UNCHANGED index /\ task'.pc \in {"put", "get", "idle"}
    BY <1>3 DEF Handle, ReceivePut, ReceiveGet, database, Idle
  <2> QED
    BY <1>1, <2>1
<1>4. ASSUME NEW w \in Writes, PutNewChild(w)
      PROVE  Bands'
  <2>1. counter \in 0..MaxIds /\ w.node_id \in NodeIds
    BY DEF TypeInv, DataType, Writes
  <2>2. /\ UNCHANGED index /\ task'.node_id = w.node_id
        /\ task'.record = NewRecord(w.node_id, w.child_key, w.data)
    BY <1>4, PutNewChildTask
  <2>3. /\ task'.record \in Records
        /\ task'.record.priority =
             Priority(w.node_id, task'.record.size, task'.record.times_opened)
    BY <2>1, <2>2, NewRecordIs
  <2> QED
    BY <1>2, <2>1, <2>2, <2>3
<1>5. ASSUME NEW w \in Writes, PutNewer(w)
      PROVE  Bands'
  <2>1. /\ Existing(w) \in Records /\ UNCHANGED index /\ task'.node_id = w.node_id
        /\ task'.record = Updated(w.node_id, Existing(w), w.data)
    BY <1>5, PutNewerTask DEF database
  <2>2. w.node_id \in NodeIds /\ w.data \in NodeDatas
    BY DEF Writes
  <2>3. /\ task'.record \in Records
        /\ task'.record.priority =
             Priority(w.node_id, task'.record.size, task'.record.times_opened)
    BY <2>1, <2>2, UpdatedIs
  <2> QED
    BY <1>2, <2>1, <2>2, <2>3
<1>6. ASSUME NEW k \in Keys, ReadChild(k)
      PROVE  Bands'
  <2> DEFINE n == task.get.node_id
  <2>1. /\ n \in NodeIds /\ children[n][k] \in Records /\ UNCHANGED index
        /\ task'.node_id = n /\ task'.record = Opened(n, children[n][k])
    BY <1>6, ReadChildTask DEF database
  <2> HIDE DEF n
  <2>2. /\ task'.record \in Records
        /\ task'.record.priority = Priority(n, task'.record.size, task'.record.times_opened)
    BY <2>1, OpenedIs
  <2> QED
    BY <1>2, <2>1, <2>2
<1>7. ASSUME NEW w \in Writes, PutOlder(w)
      PROVE  Bands'
  <2>1. task \in PutTask /\ task' = [task EXCEPT !.todo = @ \ {w}] /\ UNCHANGED index
    BY <1>7 DEF PutOlder, TypeInv, TaskType, database
  <2>2. task'.pc = "put"
    BY <2>1 DEF PutTask
  <2> QED
    BY <1>1, <2>1, <2>2
<1>8. CASE Unfile
  <2>1. /\ index' = Without(index, task.was) /\ task.pc = "unfile"
        /\ task'.node_id = task.node_id /\ task'.record = task.record
    BY <1>8, UnfileTask
  <2>2. DOMAIN index' \subseteq DOMAIN index /\ \A k \in DOMAIN index' : index'[k] = index[k]
    BY <2>1 DEF Without
  <2> QED
    BY <2>1, <2>2 DEF Bands
<1>9. CASE File
  <2> DEFINE key == IndexKey(task.record)
             entry == Entry(task.node_id, task.record)
  <2>1. /\ index' = With(index, key, entry) /\ task.pc = "file"
        /\ task'.pc \notin {"unfile", "file"}
    BY <1>9, FileTask DEF StoreTask, ReadTask
  <2>2. key[1] = task.record.priority /\ entry.node_id = task.node_id
    BY DEF IndexKey, Entry
  <2> HIDE DEF key, entry
  <2>3. /\ DOMAIN index' = DOMAIN index \cup {key} /\ index'[key] = entry
        /\ \A k \in DOMAIN index \ {key} : index'[k] = index[k]
    BY <2>1 DEF With
  <2> QED
    BY <2>1, <2>2, <2>3 DEF Bands
<1>10. CASE Store \/ WriteBack \/ Resize \/ PutDone \/ AnswerGet \/ NoAnswer
  <2>1. UNCHANGED index
    BY <1>10 DEF Store, WriteBack, Resize, PutDone, AnswerGet, NoAnswer, database
  <2>2. task'.pc \in {"resize", "get", "put", "idle"}
    <3>1. CASE Store \/ WriteBack
      BY <3>1, StoreStep, WriteBackStep
    <3>2. CASE Resize \/ PutDone \/ AnswerGet \/ NoAnswer
      BY <3>2 DEF Resize, PutDone, AnswerGet, NoAnswer, Idle
    <3> QED
      BY <1>10, <3>1, <3>2
  <2> QED
    BY <1>1, <2>1, <2>2
<1>11. ASSUME NEW key \in DOMAIN index, PopLeast(key)
       PROVE  Bands'
  <2>1. /\ DOMAIN index' \subseteq DOMAIN index /\ \A k \in DOMAIN index' : index'[k] = index[k]
        /\ UNCHANGED task
    BY <1>11, PopStep
  <2> QED
    BY <2>1 DEF Bands
<1>12. CASE UNCHANGED <<index, task>>
  BY <1>12 DEF Bands
<1>13. CASE Restart
  BY <1>1, <1>13 DEF Restart, Idle, database
<1> QED
  BY <1>3, <1>4, <1>5, <1>6, <1>7, <1>8, <1>9, <1>10, <1>11, <1>12, <1>13
     DEF Next, Work, Evict, StartEviction, RemoveEvicted, SubtractEvicted, EvictionDone, vars, database

LEMMA BandsCorrect == ASSUME WarmthIsNat PROVE Spec => []Bands
<1>1. Init => Bands
  BY DEF Init, Bands, Idle
<1>2. TypeInv /\ Bands /\ [Next]_vars => Bands'
  BY StepBands
<1> QED
  BY <1>1, <1>2, TypeInvCorrect, PTL DEF Spec

(* As long as there is public data in the index nothing signed or content  *)
(* addressed leaves it, however warm the public data is (sled_storage.rs:  *)
(* 83-100, 341-346).                                                       *)
THEOREM PublicLeavesFirst ==
  ASSUME WarmthIsNat
  PROVE  Spec => [][\A key, other \in DOMAIN index :
                      PopLeast(key) /\ BasePriority[index[other].node_id] = 0 =>
                        BasePriority[index[key].node_id] = 0]_vars
<1>1. TypeInv /\ Bands =>
        \A key, other \in DOMAIN index :
          PopLeast(key) /\ BasePriority[index[other].node_id] = 0 =>
            BasePriority[index[key].node_id] = 0
  <2> SUFFICES ASSUME TypeInv, Bands, NEW key \in DOMAIN index, NEW other \in DOMAIN index,
                      PopLeast(key), BasePriority[index[other].node_id] = 0
               PROVE  BasePriority[index[key].node_id] = 0
    OBVIOUS
  <2>1. key[1] <= other[1]
    BY DEF PopLeast
  <2>2. /\ index[key].node_id \in NodeIds
        /\ key[1] \in Nat /\ other[1] \in Nat
    BY DEF TypeInv, DataType, IndexType, Entries, IndexKeys
  <2>3. BasePriority[index[key].node_id] \in {0, 100, 110}
    BY <2>2, NodesAssumption
  <2>4. other[1] <= 99 /\ key[1] >= BasePriority[index[key].node_id]
    BY DEF Bands, InBand
  <2> QED
    BY <2>1, <2>2, <2>3, <2>4
<1> QED
  BY <1>1, TypeInvCorrect, BandsCorrect, PTL

(* With that, my_pub's own data leaves the index after all other signed    *)
(* data, but for what has been read so often that it is warmer by the      *)
(* distance between the two classes (sled_storage.rs:77-107, 338-346).     *)
THEOREM ClassesInOrder ==
  ASSUME WarmthIsNat
  PROVE  Spec => ClassesLeaveInOrder
<1> DEFINE InOrder(key, other) ==
             LET leaves == BasePriority[index[key].node_id]
                 stays  == BasePriority[index[other].node_id]
             IN \/ stays >= leaves
                \/ stays = 100 /\ leaves = 110 /\ other[1] >= 110
<1>1. TypeInv /\ Bands =>
        \A key \in DOMAIN index :
          PopLeast(key) => \A other \in DOMAIN index : InOrder(key, other)
  <2> SUFFICES ASSUME TypeInv, Bands, NEW key \in DOMAIN index, NEW other \in DOMAIN index,
                      PopLeast(key)
               PROVE  InOrder(key, other)
    OBVIOUS
  <2> DEFINE leaves == BasePriority[index[key].node_id]
             stays == BasePriority[index[other].node_id]
  <2>1. key[1] <= other[1]
    BY DEF PopLeast
  <2>2. /\ index[key].node_id \in NodeIds /\ index[other].node_id \in NodeIds
        /\ key[1] \in Nat /\ other[1] \in Nat
    BY DEF TypeInv, DataType, IndexType, Entries, IndexKeys
  <2>3. leaves \in {0, 100, 110} /\ stays \in {0, 100, 110}
    BY <2>2, NodesAssumption
  <2>4. key[1] >= leaves /\ (stays = 0 => other[1] <= 99)
    BY DEF Bands, InBand
  <2> HIDE DEF leaves, stays
  <2>5. stays >= leaves \/ (stays = 100 /\ leaves = 110 /\ other[1] >= 110)
    BY <2>1, <2>2, <2>3, <2>4
  <2> QED
    BY <2>5 DEF leaves, stays
<1>2. TypeInv /\ Bands =>
        \A key \in DOMAIN index :
          PopLeast(key) =>
            \A other \in DOMAIN index :
              LET leaves == BasePriority[index[key].node_id]
                  stays  == BasePriority[index[other].node_id]
              IN \/ stays >= leaves
                 \/ stays = 100 /\ leaves = 110 /\ other[1] >= 110
  BY <1>1
<1> HIDE DEF InOrder
<1> QED
  BY <1>2, TypeInvCorrect, BandsCorrect, PTL DEF ClassesLeaveInOrder
------------------------------------------------------------------------------------
(* handle_get writes what it has read back under the node's id, which is   *)
(* harmless only where no child is called that.                            *)
NoChildNamedLikeNode == NodeIds \cap ChildKeys = {}

(* Every write that counts is for a child that is stored, and not newer.   *)
StoredIsNewest ==
  \A w \in received :
    /\ w.child_key \in DOMAIN children[w.node_id]
    /\ w.data.updated_at <= children[w.node_id][w.child_key].data.updated_at

(* What is stored counts.                                                  *)
StoredIsReceived ==
  \A n \in NodeIds : \A c \in PutChildren(n) :
    [node_id |-> n, child_key |-> c, data |-> children[n][c].data] \in received

(* A record on its way to its tree is not older than what counts: the      *)
(* comparison was made some steps ago, and since then received can only    *)
(* have lost writes.                                                       *)
Pending == task \in StoreTask /\ task.pc # "resize"

PendingIsNewer ==
  Pending => \A w \in received : w.node_id = task.node_id /\ w.child_key = task.key =>
                                   w.data.updated_at <= task.record.data.updated_at

LwwInv == received \subseteq Writes /\ StoredIsNewest /\ StoredIsReceived /\ PendingIsNewer

LEMMA StoredRecord ==
  ASSUME TypeInv, NEW n \in NodeIds, NEW k \in DOMAIN children[n]
  PROVE  /\ children[n][k] \in Records
         /\ children[n][k].data \in NodeDatas
         /\ children[n][k].data.updated_at \in Int
<1>1. children[n][k] \in Records
  BY DEF TypeInv, DataType, ChildrenType
<1>2. children[n][k].data \in NodeDatas
  BY <1>1 DEF Records, Record
<1> QED
  BY <1>1, <1>2, DataAssumption

(* What a tree holds after one of its keys was written, or removed.        *)
LEMMA TreeWith ==
  ASSUME TypeInv, NEW n \in NodeIds, NEW k, NEW record,
         children' = [children EXCEPT ![n] = With(children[n], k, record)]
  PROVE  /\ DOMAIN children = NodeIds /\ DOMAIN children' = NodeIds
         /\ DOMAIN children'[n] = DOMAIN children[n] \cup {k}
         /\ children'[n][k] = record
         /\ \A c \in DOMAIN children[n] \ {k} : children'[n][c] = children[n][c]
         /\ \A m \in NodeIds \ {n} : children'[m] = children[m]
<1> DEFINE tree == With(children[n], k, record)
<1>1. DOMAIN children = NodeIds
  BY DEF TypeInv, DataType, ChildrenType
<1>2. /\ DOMAIN tree = DOMAIN children[n] \cup {k}
      /\ tree[k] = record
      /\ \A c \in DOMAIN children[n] \ {k} : tree[c] = children[n][c]
  BY DEF With
<1> HIDE DEF tree
<1>3. children' = [children EXCEPT ![n] = tree]
  BY DEF tree
<1> QED
  BY <1>1, <1>2, <1>3

LEMMA TreeWithout ==
  ASSUME TypeInv, NEW n \in NodeIds, NEW k,
         children' = [children EXCEPT ![n] = Without(children[n], k)]
  PROVE  /\ DOMAIN children = NodeIds /\ DOMAIN children' = NodeIds
         /\ DOMAIN children'[n] = DOMAIN children[n] \ {k}
         /\ \A c \in DOMAIN children[n] \ {k} : children'[n][c] = children[n][c]
         /\ \A m \in NodeIds \ {n} : children'[m] = children[m]
<1> DEFINE tree == Without(children[n], k)
<1>1. DOMAIN children = NodeIds
  BY DEF TypeInv, DataType, ChildrenType
<1>2. /\ DOMAIN tree = DOMAIN children[n] \ {k}
      /\ \A c \in DOMAIN children[n] \ {k} : tree[c] = children[n][c]
  BY DEF Without
<1> HIDE DEF tree
<1>3. children' = [children EXCEPT ![n] = tree]
  BY DEF tree
<1> QED
  BY <1>1, <1>2, <1>3

LEMMA LwwPut ==
  ASSUME WarmthIsNat, TypeInv, LwwInv, NEW w \in Writes,
         PutNewChild(w) \/ PutNewer(w) \/ PutOlder(w)
  PROVE  LwwInv' /\ served' = {} /\ received \subseteq received'
<1>1. CASE PutNewChild(w)
  <2>1. /\ w.child_key \notin DOMAIN children[w.node_id]
        /\ task'.node_id = w.node_id /\ task'.key = w.child_key
        /\ UNCHANGED <<children, received>> /\ served' = {}
    BY <1>1, PutNewChildTask
  <2>2. \A v \in received : ~(v.node_id = w.node_id /\ v.child_key = w.child_key)
    BY <2>1 DEF LwwInv, StoredIsNewest
  <2>3. PendingIsNewer'
    BY <2>1, <2>2 DEF PendingIsNewer
  <2> QED
    BY <2>1, <2>3 DEF LwwInv, StoredIsNewest, StoredIsReceived, PutChildren
<1>2. CASE PutNewer(w)
  <2>1. /\ w.child_key \in DOMAIN children[w.node_id] /\ Existing(w) \in Records
        /\ w.data.updated_at >= Existing(w).data.updated_at
        /\ task'.node_id = w.node_id /\ task'.key = w.child_key
        /\ task'.record = Updated(w.node_id, Existing(w), w.data)
        /\ UNCHANGED <<children, received>> /\ served' = {}
    BY <1>2, PutNewerTask DEF database
  <2>2. w.node_id \in NodeIds /\ w.data \in NodeDatas /\ w.data.updated_at \in Int
    BY DataAssumption DEF Writes
  <2>3. task'.record.data = w.data
    BY <2>1, <2>2, UpdatedIs
  <2>4. ASSUME NEW v \in received, v.node_id = w.node_id, v.child_key = w.child_key
        PROVE  v.data.updated_at <= w.data.updated_at
    <3>1. v.data.updated_at <= Existing(w).data.updated_at
      BY <2>4 DEF LwwInv, StoredIsNewest, Existing
    <3>2. v.data.updated_at \in Int /\ Existing(w).data.updated_at \in Int
      BY <2>1, <2>2, StoredRecord, DataAssumption DEF LwwInv, Writes, Existing
    <3> QED
      BY <2>1, <2>2, <3>1, <3>2
  <2>5. PendingIsNewer'
    BY <2>1, <2>3, <2>4 DEF PendingIsNewer
  <2> QED
    BY <2>1, <2>5 DEF LwwInv, StoredIsNewest, StoredIsReceived, PutChildren
<1>3. CASE PutOlder(w)
  <2>1. /\ w.child_key \in DOMAIN children[w.node_id]
        /\ w.data.updated_at < Existing(w).data.updated_at
        /\ received' = received \cup {w}
        /\ task' = [task EXCEPT !.todo = @ \ {w}] /\ task \in PutTask
        /\ UNCHANGED children /\ served' = {}
    BY <1>3 DEF PutOlder, Quietly, database, TypeInv, TaskType
  <2>2. task'.pc = "put"
    BY <2>1 DEF PutTask
  <2>3. ~Pending'
    BY <2>2 DEF Pending, StoreTask
  <2>4. w.node_id \in NodeIds /\ w.data.updated_at \in Int
    BY DataAssumption DEF Writes
  <2>5. w.data.updated_at <= Existing(w).data.updated_at
    BY <2>1, <2>4, StoredRecord DEF Existing
  <2>6. StoredIsNewest'
    BY <2>1, <2>5 DEF LwwInv, StoredIsNewest, Existing
  <2>7. StoredIsReceived'
    BY <2>1 DEF LwwInv, StoredIsReceived, PutChildren
  <2> QED
    BY <2>1, <2>3, <2>6, <2>7 DEF LwwInv, PendingIsNewer
<1> QED
  BY <1>1, <1>2, <1>3

LEMMA LwwStored ==
  ASSUME WarmthIsNat, TypeInv, LwwInv, Store
  PROVE  LwwInv' /\ served' = {} /\ received \subseteq received'
<1> DEFINE n == task.node_id
           c == task.key
           record == task.record
           stored == [node_id |-> n, child_key |-> c, data |-> record.data]
<1>1. /\ task \in StoreTask /\ task.pc = "store" /\ task'.pc = "resize"
      /\ n \in NodeIds /\ c \in ChildKeys /\ record \in Records
      /\ children' = [children EXCEPT ![n] = With(children[n], c, record)]
      /\ served' = {}
  BY StoreStep
<1>2. received' = received \cup {stored}
  BY DEF Store
<1>3. record.data \in NodeDatas /\ record.data.updated_at \in Int
  BY <1>1, DataAssumption DEF Records, Record
<1>4. stored \in Writes
  BY <1>1, <1>3 DEF Writes
<1>5. \A v \in received : v.node_id = n /\ v.child_key = c =>
                            v.data.updated_at <= record.data.updated_at
  BY <1>1 DEF LwwInv, PendingIsNewer, Pending
<1>6. /\ DOMAIN children = NodeIds /\ DOMAIN children' = NodeIds
      /\ DOMAIN children'[n] = DOMAIN children[n] \cup {c}
      /\ children'[n][c] = record
      /\ \A k \in DOMAIN children[n] \ {c} : children'[n][k] = children[n][k]
      /\ \A m \in NodeIds \ {n} : children'[m] = children[m]
  BY <1>1, TreeWith
<1> HIDE DEF record, n, c
<1>7. StoredIsNewest'
  <2> SUFFICES ASSUME NEW v \in received'
               PROVE  /\ v.child_key \in DOMAIN children'[v.node_id]
                      /\ v.data.updated_at <= children'[v.node_id][v.child_key].data.updated_at
    BY DEF StoredIsNewest
  <2>1. CASE v = stored
    BY <1>1, <1>3, <1>6, <2>1
  <2>2. CASE v # stored
    <3>1. v \in received /\ v.node_id \in NodeIds
      BY <1>2, <2>2 DEF LwwInv, Writes
    <3>2. /\ v.child_key \in DOMAIN children[v.node_id]
          /\ v.data.updated_at <= children[v.node_id][v.child_key].data.updated_at
      BY <3>1 DEF LwwInv, StoredIsNewest
    <3>3. CASE v.node_id = n /\ v.child_key = c
      BY <1>5, <1>6, <3>1, <3>3
    <3>4. CASE v.node_id = n /\ v.child_key # c
      BY <1>6, <3>1, <3>2, <3>4
    <3>5. CASE v.node_id # n
      BY <1>6, <3>1, <3>2, <3>5
    <3> QED
      BY <3>3, <3>4, <3>5
  <2> QED
    BY <2>1, <2>2
<1>8. StoredIsReceived'
  <2> SUFFICES ASSUME NEW m \in NodeIds, NEW d \in PutChildren(m)'
               PROVE  [node_id |-> m, child_key |-> d, data |-> children'[m][d].data] \in received'
    BY DEF StoredIsReceived
  <2>1. d \in DOMAIN children'[m] /\ d \in ChildKeys
    BY DEF PutChildren
  <2>2. CASE m = n /\ d = c
    BY <1>2, <1>6, <2>2
  <2>3. CASE ~(m = n /\ d = c)
    <3>1. d \in DOMAIN children[m] /\ children'[m][d] = children[m][d]
      BY <1>6, <2>1, <2>3
    <3>2. d \in PutChildren(m)
      BY <2>1, <3>1 DEF PutChildren
    <3> QED
      BY <1>2, <3>1, <3>2 DEF LwwInv, StoredIsReceived
  <2> QED
    BY <2>2, <2>3
<1>9. PendingIsNewer'
  BY <1>1 DEF PendingIsNewer, Pending
<1> QED
  BY <1>1, <1>2, <1>4, <1>7, <1>8, <1>9 DEF LwwInv

LEMMA LwwWrittenBack ==
  ASSUME NoChildNamedLikeNode, TypeInv, LwwInv, WriteBack
  PROVE  LwwInv' /\ served' = {} /\ received' = received
<1> DEFINE n == task.node_id
           record == task.record
<1>1. /\ n \in NodeIds /\ n \notin ChildKeys
      /\ task'.pc = "get" /\ received' = received /\ served' = {}
      /\ children' = [children EXCEPT ![n] = With(children[n], n, record)]
  BY WriteBackStep DEF NoChildNamedLikeNode
<1> HIDE DEF n, record
<1>2. /\ DOMAIN children = NodeIds
      /\ DOMAIN children'[n] = DOMAIN children[n] \cup {n}
      /\ \A k \in DOMAIN children[n] \ {n} : children'[n][k] = children[n][k]
      /\ \A m \in NodeIds \ {n} : children'[m] = children[m]
  BY <1>1, TreeWith
<1>3. ASSUME NEW m \in NodeIds, NEW c \in ChildKeys
      PROVE  /\ c \in DOMAIN children'[m] <=> c \in DOMAIN children[m]
             /\ c \in DOMAIN children[m] => children'[m][c] = children[m][c]
  <2>1. CASE m = n
    BY <1>1, <1>2, <2>1
  <2>2. CASE m # n
    BY <1>2, <2>2
  <2> QED
    BY <2>1, <2>2
<1>4. StoredIsNewest'
  BY <1>1, <1>3 DEF LwwInv, StoredIsNewest, Writes
<1>5. StoredIsReceived'
  BY <1>1, <1>3 DEF LwwInv, StoredIsReceived, PutChildren
<1>6. PendingIsNewer'
  BY <1>1 DEF PendingIsNewer, Pending, StoreTask
<1> QED
  BY <1>1, <1>4, <1>5, <1>6 DEF LwwInv

LEMMA LwwEvicted ==
  ASSUME TypeInv, LwwInv, RemoveEvicted
  PROVE  LwwInv' /\ Lww!Forget
<1> DEFINE n == evictor.entry.node_id
           c == evictor.entry.child_key
<1>1. /\ n \in NodeIds
      /\ children' = [children EXCEPT ![n] = Without(children[n], c)]
      /\ received' = {w \in received : w.node_id # n \/ w.child_key # c}
      /\ UNCHANGED task /\ served' = {}
  BY RemoveStep DEF Entries
<1>2. /\ DOMAIN children = NodeIds
      /\ DOMAIN children'[n] = DOMAIN children[n] \ {c}
      /\ \A k \in DOMAIN children[n] \ {c} : children'[n][k] = children[n][k]
      /\ \A m \in NodeIds \ {n} : children'[m] = children[m]
  BY <1>1, TreeWithout
<1> HIDE DEF n, c
<1>3. StoredIsNewest'
  <2> SUFFICES ASSUME NEW v \in received'
               PROVE  /\ v.child_key \in DOMAIN children'[v.node_id]
                      /\ v.data.updated_at <= children'[v.node_id][v.child_key].data.updated_at
    BY DEF StoredIsNewest
  <2>1. /\ v \in received /\ v.node_id \in NodeIds /\ (v.node_id # n \/ v.child_key # c)
        /\ v.child_key \in DOMAIN children[v.node_id]
        /\ v.data.updated_at <= children[v.node_id][v.child_key].data.updated_at
    BY <1>1 DEF LwwInv, StoredIsNewest, Writes
  <2>2. CASE v.node_id = n
    BY <1>2, <2>1, <2>2
  <2>3. CASE v.node_id # n
    BY <1>2, <2>1, <2>3
  <2> QED
    BY <2>2, <2>3
<1>4. StoredIsReceived'
  <2> SUFFICES ASSUME NEW m \in NodeIds, NEW d \in PutChildren(m)'
               PROVE  [node_id |-> m, child_key |-> d, data |-> children'[m][d].data] \in received'
    BY DEF StoredIsReceived
  <2> DEFINE v == [node_id |-> m, child_key |-> d, data |-> children'[m][d].data]
  <2>1. /\ d \in DOMAIN children[m] /\ d \in ChildKeys
        /\ children'[m][d] = children[m][d] /\ (m # n \/ d # c)
    BY <1>2 DEF PutChildren
  <2>2. v \in received
    BY <2>1 DEF LwwInv, StoredIsReceived, PutChildren
  <2>3. v.node_id = m /\ v.child_key = d
    OBVIOUS
  <2> HIDE DEF v
  <2>4. v \in received'
    BY <1>1, <2>1, <2>2, <2>3
  <2> QED
    BY <2>4 DEF v
<1>5. PendingIsNewer'
  BY <1>1 DEF LwwInv, PendingIsNewer, Pending
<1>6. received' \subseteq Writes
  BY <1>1 DEF LwwInv
<1>7. Lww!Forget
  BY <1>1 DEF Lww!Forget, Lww!SameRegister
<1> QED
  BY <1>3, <1>4, <1>5, <1>6, <1>7 DEF LwwInv

LEMMA LwwUntouched ==
  ASSUME LwwInv, UNCHANGED <<children, received>>,
         Pending' => Pending /\ UNCHANGED <<task.node_id, task.key, task.record>>
  PROVE  LwwInv'
<1>1. StoredIsNewest' /\ StoredIsReceived'
  BY DEF LwwInv, StoredIsNewest, StoredIsReceived, PutChildren
<1>2. PendingIsNewer'
  BY DEF LwwInv, PendingIsNewer
<1> QED
  BY <1>1, <1>2 DEF LwwInv

(* What is read out is the newest write that counts.                       *)
LEMMA ReadsNewest ==
  ASSUME WarmthIsNat, TypeInv, LwwInv, NEW k \in Keys, ReadChild(k)
  PROVE  LwwInv' /\ Lww!Serve
<1> DEFINE n == task.get.node_id
<1>1. /\ n \in NodeIds /\ k \in DOMAIN children[n]
      /\ task' \in ReadTask
      /\ served' = {w \in Writes : w = [node_id |-> n, child_key |-> k,
                                        data |-> children[n][k].data]}
      /\ UNCHANGED <<children, received>>
  BY ReadChildTask DEF database
<1> HIDE DEF n
<1>2. ~Pending'
  BY <1>1 DEF Pending, StoreTask, ReadTask
<1>3. LwwInv'
  BY <1>1, <1>2, LwwUntouched
<1>4. ASSUME NEW w \in served'
      PROVE  w \in Lww!Newest(received)
  <2>1. /\ w.node_id = n /\ w.child_key = k /\ w.data = children[n][k].data
        /\ w = [node_id |-> n, child_key |-> k, data |-> children[n][k].data]
        /\ k \in ChildKeys
    BY <1>1 DEF Writes
  <2>2. w \in received
    BY <1>1, <2>1 DEF LwwInv, StoredIsReceived, PutChildren
  <2>3. \A v \in received : v.node_id = n /\ v.child_key = k =>
                              v.data.updated_at <= children[n][k].data.updated_at
    BY DEF LwwInv, StoredIsNewest
  <2> QED
    BY <2>1, <2>2, <2>3 DEF Lww!Newest, Lww!SameRegister
<1> QED
  BY <1>1, <1>3, <1>4 DEF Lww!Serve

LEMMA LwwReceive ==
  ASSUME LwwInv', served' = {}, received \subseteq received'
  PROVE  Lww!Next
<1>1. received' \in SUBSET Lww!Writes
  BY DEF LwwInv, Lww!Writes, Writes
<1> QED
  BY <1>1 DEF Lww!Next, Lww!Receive

LEMMA StepLww ==
  ASSUME WarmthIsNat, NoChildNamedLikeNode, TypeInv, LwwInv, [Next]_vars
  PROVE  LwwInv' /\ [Lww!Next]_<<received, served>>
<1>1. ASSUME NEW w \in Writes, PutNewChild(w) \/ PutNewer(w) \/ PutOlder(w)
      PROVE  LwwInv' /\ Lww!Next
  BY <1>1, LwwPut, LwwReceive
<1>2. CASE Store
  BY <1>2, LwwStored, LwwReceive
<1>3. CASE WriteBack
  BY <1>3, LwwWrittenBack, LwwReceive
<1>4. ASSUME NEW k \in Keys, ReadChild(k)
      PROVE  LwwInv' /\ Lww!Next
  BY <1>4, ReadsNewest DEF Lww!Next
<1>5. CASE RemoveEvicted
  BY <1>5, LwwEvicted DEF Lww!Next
<1>6. CASE Unfile \/ File
  <2>1. /\ UNCHANGED <<children, received>> /\ served' = {}
        /\ task.pc # "resize"
        /\ task' \in StoreTask => /\ task \in StoreTask /\ task'.node_id = task.node_id
                                  /\ task'.key = task.key /\ task'.record = task.record
    BY <1>6, UnfileTask, FileTask
  <2>2. LwwInv'
    BY <2>1, LwwUntouched DEF Pending
  <2> QED
    BY <2>1, <2>2, LwwReceive
<1>7. CASE Handle \/ PutDone \/ Resize \/ AnswerGet \/ NoAnswer \/ Restart
  <2>1. UNCHANGED <<children, received>> /\ served' = {}
    BY <1>7 DEF Handle, ReceivePut, ReceiveGet, PutDone, Resize, AnswerGet, NoAnswer, Restart,
                database, Quietly
  <2>2. task'.pc \in {"put", "get", "idle"}
    BY <1>7 DEF Handle, ReceivePut, ReceiveGet, PutDone, Resize, AnswerGet, NoAnswer, Restart, Idle
  <2>3. LwwInv'
    BY <2>1, <2>2, LwwUntouched DEF Pending, StoreTask
  <2> QED
    BY <2>1, <2>3, LwwReceive
<1>8. CASE Evict /\ ~RemoveEvicted
  <2>1. UNCHANGED <<children, received, task>> /\ served' = {}
    BY <1>8 DEF Evict, StartEviction, PopLeast, SubtractEvicted, EvictionDone, database, Quietly
  <2>2. LwwInv'
    BY <2>1, LwwUntouched DEF Pending
  <2> QED
    BY <2>1, <2>2, LwwReceive
<1>9. CASE UNCHANGED vars
  BY <1>9, LwwUntouched DEF vars, Pending
<1> QED
  BY <1>1, <1>2, <1>3, <1>4, <1>5, <1>6, <1>7, <1>8, <1>9 DEF Next, Work

(* Whatever the eviction task does between the look-up, the filing and the *)
(* writing of a child, and wherever the process is interrupted, what a get *)
(* reads out is the newest write stored or refused since the last eviction *)
(* (sled_storage.rs:241-331, 338-360).                                     *)
THEOREM Implements ==
  ASSUME WarmthIsNat, NoChildNamedLikeNode
  PROVE  Spec => ImplementsLwwStore
<1>1. Init => LwwInv /\ Lww!Init
  BY DEF Init, LwwInv, StoredIsNewest, StoredIsReceived, PendingIsNewer, Pending, StoreTask,
         PutChildren, Idle, Lww!Init
<1>2. TypeInv /\ LwwInv /\ [Next]_vars => LwwInv' /\ [Lww!Next]_<<received, served>>
  BY StepLww
<1> QED
  BY <1>1, <1>2, TypeInvCorrect, PTL DEF Spec, ImplementsLwwStore, Lww!Spec
----------------------------------------------------------------------------------
(* The books: the total size and the index against the children, without   *)
(* eviction and restarts.  They are only exact between messages; these say *)
(* what is still missing from them at each point of a handler.             *)
Undisturbed == evictor = Idle /\ restarts = 0

Fresh(id) == \A n \in NodeIds : \A c \in PutChildren(n) : children[n][c].id # id

(* The record stands for a child that is stored.                           *)
CopyOf(n, record) ==
  record.child_key \in PutChildren(n) /\ record.id = children[n][record.child_key].id

IdsDiffer ==
  \A n, m \in NodeIds : \A c \in PutChildren(n), d \in PutChildren(m) :
    children[n][c].id = children[m][d].id => n = m /\ c = d

IdsUsed ==
  \A n \in NodeIds : \A c \in PutChildren(n) :
    children[n][c].id < counter /\ children[n][c].child_key = c

(* What handle_get has left behind under a node's own id.                  *)
CopiesAreTrue ==
  \A n \in NodeIds : \A k \in DOMAIN children[n] \ ChildKeys :
    k = n /\ CopyOf(n, children[n][k])

StoreTaskId ==
  task \in StoreTask =>
    /\ task.record.child_key = task.key
    /\ task.record.id < counter
    /\ task.was[2] = task.record.id

PendingId ==
  Pending => IF task.key \in PutChildren(task.node_id)
               THEN task.record.id = children[task.node_id][task.key].id
               ELSE Fresh(task.record.id)

ReadTaskId ==
  task \in ReadTask => CopyOf(task.node_id, task.record) /\ task.was[2] = task.record.id

IdsInv ==
  IdsDiffer /\ IdsUsed /\ CopiesAreTrue /\ StoreTaskId /\ PendingId /\ ReadTaskId

PointsTo(entry, n, c) == entry.node_id = n /\ entry.child_key = c

Found(n, c) ==
  \E key \in DOMAIN index : key[2] = children[n][c].id /\ PointsTo(index[key], n, c)

(* The entry of a record that is being refiled is missing.                 *)
ChildrenAreFound ==
  \A n \in NodeIds : \A c \in PutChildren(n) :
    \/ Found(n, c)
    \/ task.pc = "file" /\ task.record.id = children[n][c].id

(* The entry of a record about to be stored comes first.                   *)
EntryIsTrue(key) ==
  \/ /\ index[key].child_key \in PutChildren(index[key].node_id)
     /\ children[index[key].node_id][index[key].child_key].id = key[2]
  \/ /\ task.pc = "store" /\ key[2] = task.record.id
     /\ PointsTo(index[key], task.node_id, task.key)

EntriesAreTrue == \A key \in DOMAIN index : EntryIsTrue(key)

PendingIsFiled ==
  task.pc = "store" =>
    \E key \in DOMAIN index :
      key[2] = task.record.id /\ PointsTo(index[key], task.node_id, task.key)

IndexInv == ChildrenAreFound /\ EntriesAreTrue /\ PendingIsFiled

OldSize(n, c) == IF c \in PutChildren(n) THEN children[n][c].size ELSE 0

SizeInv ==
  /\ IsFiniteSet(AllPutChildren)
  /\ IF task.pc = "resize" THEN size + task.change = TotalSize ELSE size = TotalSize
  /\ Pending => task.change = task.record.size - OldSize(task.node_id, task.key)

Books == Undisturbed /\ IdsInv /\ IndexInv /\ SizeInv

(* What is stored is as it was.                                            *)
SameStored ==
  \A n \in NodeIds : \A c \in ChildKeys :
    /\ c \in DOMAIN children'[n] <=> c \in DOMAIN children[n]
    /\ c \in DOMAIN children[n] => children'[n][c] = children[n][c]

LEMMA SameChildren == ASSUME UNCHANGED children PROVE SameStored
BY DEF SameStored

LEMMA SameCopies ==
  ASSUME SameStored, NEW n \in NodeIds, NEW record
  PROVE  /\ \A c : c \in PutChildren(n)' <=> c \in PutChildren(n)
         /\ \A c \in PutChildren(n) : children'[n][c] = children[n][c]
         /\ CopyOf(n, record) => CopyOf(n, record)'
<1>1. \A c : c \in PutChildren(n)' <=> c \in PutChildren(n)
  BY DEF SameStored, PutChildren
<1>2. \A c \in PutChildren(n) : children'[n][c] = children[n][c]
  BY DEF SameStored, PutChildren
<1> QED
  BY <1>1, <1>2 DEF CopyOf

LEMMA SameSizes ==
  ASSUME SameStored
  PROVE  AllPutChildren' = AllPutChildren /\ TotalSize' = TotalSize
<1>1. \A x \in NodeIds \X ChildKeys : x[2] \in PutChildren(x[1])' <=> x[2] \in PutChildren(x[1])
  BY DEF SameStored, PutChildren
<1>2. AllPutChildren' = AllPutChildren
  BY <1>1 DEF AllPutChildren
<1>3. \A x \in AllPutChildren : children'[x[1]][x[2]].size = children[x[1]][x[2]].size
  BY DEF SameStored, AllPutChildren, PutChildren
<1>4. [x \in AllPutChildren' |-> children'[x[1]][x[2]].size] =
        [x \in AllPutChildren |-> children[x[1]][x[2]].size]
  BY <1>2, <1>3
<1> QED
  BY <1>2, <1>4 DEF TotalSize

LEMMA WrittenBackStored ==
  ASSUME NoChildNamedLikeNode, TypeInv, WriteBack
  PROVE  SameStored
<1> DEFINE n == task.node_id
           record == task.record
<1>1. /\ n \in NodeIds /\ n \notin ChildKeys
      /\ children' = [children EXCEPT ![n] = With(children[n], n, record)]
  BY WriteBackStep DEF NoChildNamedLikeNode
<1> HIDE DEF n, record
<1>2. /\ DOMAIN children' = NodeIds
      /\ DOMAIN children'[n] = DOMAIN children[n] \cup {n}
      /\ \A k \in DOMAIN children[n] \ {n} : children'[n][k] = children[n][k]
      /\ \A m \in NodeIds \ {n} : children'[m] = children[m]
  BY <1>1, TreeWith
<1>3. ASSUME NEW m \in NodeIds, NEW c \in ChildKeys
      PROVE  /\ c \in DOMAIN children'[m] <=> c \in DOMAIN children[m]
             /\ c \in DOMAIN children[m] => children'[m][c] = children[m][c]
  <2>1. CASE m = n
    BY <1>1, <1>2, <2>1
  <2>2. CASE m # n
    BY <1>2, <2>2
  <2> QED
    BY <2>1, <2>2
<1> QED
  BY <1>3 DEF SameStored

(* The identities: nothing stored changes, and what the task is about is   *)
(* as it was, or nothing.                                                  *)
LEMMA IdsUntouched ==
  ASSUME IdsInv, UNCHANGED <<children, counter>>,
         task' \in StoreTask =>
           /\ task \in StoreTask
           /\ UNCHANGED <<task.node_id, task.key, task.record, task.was>>
           /\ task.pc = "resize" => task'.pc = "resize",
         task' \in ReadTask =>
           task \in ReadTask /\ UNCHANGED <<task.node_id, task.record, task.was>>
  PROVE  IdsInv'
<1>1. IdsDiffer' /\ IdsUsed' /\ CopiesAreTrue'
  BY DEF IdsInv, IdsDiffer, IdsUsed, CopiesAreTrue, CopyOf, PutChildren
<1>2. StoreTaskId'
  BY DEF IdsInv, StoreTaskId
<1>3. PendingId'
  BY DEF IdsInv, PendingId, Pending, Fresh, PutChildren
<1>4. ReadTaskId'
  BY DEF IdsInv, ReadTaskId, CopyOf, PutChildren
<1> QED
  BY <1>1, <1>2, <1>3, <1>4 DEF IdsInv

LEMMA IdsNewChild ==
  ASSUME WarmthIsNat, TypeInv, IdsInv, NEW w \in Writes, PutNewChild(w)
  PROVE  IdsInv'
<1>1. /\ w \in Writable /\ w.child_key \notin DOMAIN children[w.node_id]
      /\ task' \in StoreTask /\ task'.pc = "unfile"
      /\ task'.node_id = w.node_id /\ task'.key = w.child_key /\ task'.was = <<0, counter>>
      /\ task'.record = NewRecord(w.node_id, w.child_key, w.data)
      /\ counter' = counter + 1 /\ UNCHANGED children
  BY PutNewChildTask
<1>2. task'.record.id = counter /\ task'.record.child_key = w.child_key /\ counter \in Nat
  BY <1>1, NewRecordIs DEF TypeInv, DataType
<1>3. \A n \in NodeIds : \A c \in PutChildren(n) : children[n][c].id \in Nat
  BY StoredRecord DEF PutChildren, Records, Record
<1>4. IdsDiffer' /\ CopiesAreTrue'
  BY <1>1 DEF IdsInv, IdsDiffer, CopiesAreTrue, CopyOf, PutChildren
<1>5. IdsUsed'
  BY <1>1, <1>2, <1>3 DEF IdsInv, IdsUsed, PutChildren
<1>6. StoreTaskId'
  BY <1>1, <1>2 DEF StoreTaskId
<1>7. Fresh(counter)
  BY <1>2, <1>3 DEF Fresh, IdsInv, IdsUsed
<1>8. PendingId'
  BY <1>1, <1>2, <1>7 DEF PendingId, PutChildren, Fresh
<1>9. ReadTaskId'
  BY <1>1 DEF ReadTaskId, StoreTask, ReadTask
<1> QED
  BY <1>4, <1>5, <1>6, <1>8, <1>9 DEF IdsInv

LEMMA IdsNewer ==
  ASSUME WarmthIsNat, TypeInv, IdsInv, NEW w \in Writes, PutNewer(w)
  PROVE  IdsInv'
<1> DEFINE n == w.node_id
           c == w.child_key
           old == children[n][c]
<1>1. /\ n \in NodeIds /\ c \in PutChildren(n) /\ old \in Records
      /\ task' \in StoreTask
      /\ task'.node_id = n /\ task'.key = c /\ task'.was = IndexKey(old)
      /\ task'.record = Updated(n, old, w.data)
      /\ UNCHANGED <<children, counter>>
  BY PutNewerTask DEF Existing, database, Writes, PutChildren
<1>2. w.data \in NodeDatas
  BY DEF Writes
<1> HIDE DEF n, c
<1>3. task'.record.id = old.id /\ task'.record.child_key = old.child_key
  BY <1>1, <1>2, UpdatedIs
<1>4. old.id < counter /\ old.child_key = c
  BY <1>1 DEF IdsInv, IdsUsed
<1>5. task'.was[2] = old.id
  BY <1>1, IndexKeyType
<1> HIDE DEF old
<1>6. IdsDiffer' /\ IdsUsed' /\ CopiesAreTrue'
  BY <1>1 DEF IdsInv, IdsDiffer, IdsUsed, CopiesAreTrue, CopyOf, PutChildren
<1>7. StoreTaskId'
  BY <1>1, <1>3, <1>4, <1>5 DEF StoreTaskId
<1>8. PendingId'
  BY <1>1, <1>3 DEF PendingId, PutChildren, old
<1>9. ReadTaskId'
  BY <1>1 DEF ReadTaskId, StoreTask, ReadTask
<1> QED
  BY <1>6, <1>7, <1>8, <1>9 DEF IdsInv

LEMMA IdsFiled ==
  ASSUME TypeInv, IdsInv, Unfile \/ File
  PROVE  IdsInv'
<1>1. /\ UNCHANGED <<children, counter>> /\ task.pc # "resize"
      /\ task' \in StoreTask =>
           /\ task \in StoreTask
           /\ UNCHANGED <<task.node_id, task.key, task.record, task.was>>
      /\ task' \in ReadTask =>
           task \in ReadTask /\ UNCHANGED <<task.node_id, task.record, task.was>>
  BY UnfileTask, FileTask
<1> QED
  BY <1>1, IdsUntouched

(* What the trees hold when a record has been stored.                      *)
LEMMA StoredThen ==
  ASSUME TypeInv, Store
  PROVE  /\ task.node_id \in NodeIds /\ task.key \in ChildKeys
         /\ task.key \in DOMAIN children'[task.node_id]
         /\ children'[task.node_id][task.key] = task.record
         /\ \A m \in NodeIds : \A d \in PutChildren(m)' :
              \/ m = task.node_id /\ d = task.key
              \/ d \in PutChildren(m) /\ children'[m][d] = children[m][d]
         /\ \A m \in NodeIds : \A d \in PutChildren(m) : d \in PutChildren(m)'
         /\ \A m \in NodeIds : \A k \in DOMAIN children'[m] \ ChildKeys :
              k \in DOMAIN children[m] /\ children'[m][k] = children[m][k]
<1> DEFINE n == task.node_id
           c == task.key
           record == task.record
           tree == With(children[n], c, record)
<1>1. /\ n \in NodeIds /\ c \in ChildKeys
      /\ children' = [children EXCEPT ![n] = tree]
  BY StoreStep
<1>2. /\ DOMAIN tree = DOMAIN children[n] \cup {c} /\ tree[c] = record
      /\ \A k \in DOMAIN children[n] \ {c} : tree[k] = children[n][k]
  BY DEF With
<1> HIDE DEF n, c, record, tree
<1>3. /\ DOMAIN children = NodeIds /\ DOMAIN children' = NodeIds
      /\ DOMAIN children'[n] = DOMAIN children[n] \cup {c}
      /\ children'[n][c] = record
      /\ \A k \in DOMAIN children[n] \ {c} : children'[n][k] = children[n][k]
      /\ \A m \in NodeIds \ {n} : children'[m] = children[m]
  BY <1>1, <1>2 DEF TypeInv, DataType, ChildrenType
<1>4. c \in DOMAIN children'[n]
  BY <1>3
<1>5. ASSUME NEW m \in NodeIds, NEW k \in DOMAIN children'[m], ~(m = n /\ k = c)
      PROVE  k \in DOMAIN children[m] /\ children'[m][k] = children[m][k]
  <2>1. CASE m = n
    BY <1>3, <1>5, <2>1
  <2>2. CASE m # n
    BY <1>3, <1>5, <2>2
  <2> QED
    BY <2>1, <2>2
<1>6. ASSUME NEW m \in NodeIds, NEW d \in PutChildren(m)
      PROVE  d \in PutChildren(m)'
  <2>1. CASE m = n
    BY <1>3, <2>1 DEF PutChildren
  <2>2. CASE m # n
    BY <1>3, <2>2 DEF PutChildren
  <2> QED
    BY <2>1, <2>2
<1>7. \A m \in NodeIds : \A d \in PutChildren(m)' :
        (m = n /\ d = c) \/ (d \in PutChildren(m) /\ children'[m][d] = children[m][d])
  BY <1>5 DEF PutChildren
<1>8. \A m \in NodeIds : \A k \in DOMAIN children'[m] \ ChildKeys :
        k \in DOMAIN children[m] /\ children'[m][k] = children[m][k]
  BY <1>1, <1>5
<1> QED
  BY <1>1, <1>3, <1>4, <1>6, <1>7, <1>8 DEF n, c, record

LEMMA IdsStored ==
  ASSUME TypeInv, IdsInv, Store
  PROVE  IdsInv'
<1> DEFINE n == task.node_id
           c == task.key
           id == task.record.id
<1>1. /\ task \in StoreTask /\ task.pc = "store" /\ task' \in StoreTask /\ task'.pc = "resize"
      /\ UNCHANGED <<task.record, task.node_id, task.key, task.was>> /\ UNCHANGED counter
  BY StoreStep
<1>2. /\ n \in NodeIds /\ c \in DOMAIN children'[n] /\ children'[n][c].id = id
      /\ \A m \in NodeIds : \A d \in PutChildren(m)' :
           (m = n /\ d = c) \/ (d \in PutChildren(m) /\ children'[m][d] = children[m][d])
      /\ \A m \in NodeIds : \A d \in PutChildren(m) : d \in PutChildren(m)'
      /\ \A m \in NodeIds : \A k \in DOMAIN children'[m] \ ChildKeys :
           k \in DOMAIN children[m] /\ children'[m][k] = children[m][k]
  <2>1. /\ n \in NodeIds /\ c \in DOMAIN children'[n] /\ children'[n][c] = task.record
        /\ \A m \in NodeIds : \A d \in PutChildren(m)' :
             (m = n /\ d = c) \/ (d \in PutChildren(m) /\ children'[m][d] = children[m][d])
        /\ \A m \in NodeIds : \A d \in PutChildren(m) : d \in PutChildren(m)'
        /\ \A m \in NodeIds : \A k \in DOMAIN children'[m] \ ChildKeys :
             k \in DOMAIN children[m] /\ children'[m][k] = children[m][k]
    BY StoredThen
  <2> QED
    BY <2>1
<1>3. IF c \in PutChildren(n) THEN id = children[n][c].id ELSE Fresh(id)
  BY <1>1 DEF IdsInv, PendingId, Pending
<1>4. task.record.child_key = c /\ id < counter /\ children'[n][c].child_key = c
  BY <1>1, StoredThen DEF IdsInv, StoreTaskId
<1> HIDE DEF n, c, id
<1>5. ASSUME NEW m \in NodeIds, NEW d \in PutChildren(m), children[m][d].id = id
      PROVE  m = n /\ d = c
  BY <1>2, <1>3, <1>5 DEF Fresh, IdsInv, IdsDiffer
<1>6. IdsDiffer'
  BY <1>2, <1>5 DEF IdsInv, IdsDiffer
<1>7. IdsUsed'
  BY <1>1, <1>2, <1>4 DEF IdsInv, IdsUsed
<1>8. CopiesAreTrue'
  <2> SUFFICES ASSUME NEW m \in NodeIds, NEW k \in DOMAIN children'[m] \ ChildKeys
               PROVE  k = m /\ CopyOf(m, children[m][k])'
    BY DEF CopiesAreTrue
  <2> DEFINE record == children[m][k]
  <2>1. k \in DOMAIN children[m] \ ChildKeys /\ children'[m][k] = record
    BY <1>2
  <2>4. k = m
    BY <2>1 DEF IdsInv, CopiesAreTrue
  <2>2. record.child_key \in PutChildren(m) /\ record.id = children[m][record.child_key].id
    BY <2>1 DEF IdsInv, CopiesAreTrue, CopyOf
  <2> HIDE DEF record
  <2>3. record.child_key \in PutChildren(m)' /\ record.id = children'[m][record.child_key].id
    <3>1. CASE m = n /\ record.child_key = c
      BY <1>2, <1>3, <2>2, <3>1
    <3>2. CASE ~(m = n /\ record.child_key = c)
      BY <1>2, <2>2, <3>2
    <3> QED
      BY <3>1, <3>2
  <2> QED
    BY <2>1, <2>3, <2>4 DEF CopyOf
<1>9. StoreTaskId' /\ PendingId' /\ ReadTaskId'
  BY <1>1 DEF IdsInv, StoreTaskId, PendingId, Pending, ReadTaskId, StoreTask, ReadTask
<1> QED
  BY <1>6, <1>7, <1>8, <1>9 DEF IdsInv

LEMMA IdsRead ==
  ASSUME WarmthIsNat, TypeInv, IdsInv, NEW k \in Keys, ReadChild(k)
  PROVE  IdsInv'
<1> DEFINE n == task.get.node_id
           old == children[n][k]
<1>1. /\ n \in NodeIds /\ k \in DOMAIN children[n] /\ old \in Records
      /\ task' \in ReadTask /\ task'.node_id = n
      /\ task'.was = IndexKey(old) /\ task'.record = Opened(n, old)
      /\ UNCHANGED <<children, counter>>
  BY ReadChildTask DEF database
<1> HIDE DEF n
<1>2. task'.record.id = old.id /\ task'.record.child_key = old.child_key
  BY <1>1, OpenedIs
<1>3. task'.was[2] = old.id
  BY <1>1, IndexKeyType
<1>4. CopyOf(n, old)
  <2>1. CASE k \in ChildKeys
    <3>1. k \in PutChildren(n)
      BY <1>1, <2>1 DEF PutChildren
    <3> QED
      BY <1>1, <3>1 DEF IdsInv, IdsUsed, CopyOf
  <2>2. CASE k \notin ChildKeys
    BY <1>1, <2>2 DEF IdsInv, CopiesAreTrue
  <2> QED
    BY <2>1, <2>2
<1> HIDE DEF old
<1>5. IdsDiffer' /\ IdsUsed' /\ CopiesAreTrue'
  BY <1>1 DEF IdsInv, IdsDiffer, IdsUsed, CopiesAreTrue, CopyOf, PutChildren
<1>6. ReadTaskId'
  BY <1>1, <1>2, <1>3, <1>4 DEF ReadTaskId, CopyOf, PutChildren
<1>7. StoreTaskId' /\ PendingId'
  BY <1>1 DEF StoreTaskId, PendingId, Pending, StoreTask, ReadTask
<1> QED
  BY <1>5, <1>6, <1>7 DEF IdsInv

LEMMA IdsWrittenBack ==
  ASSUME NoChildNamedLikeNode, TypeInv, IdsInv, WriteBack
  PROVE  IdsInv'
<1> DEFINE n == task.node_id
           record == task.record
           tree == With(children[n], n, record)
<1>1. /\ n \in NodeIds /\ task \in ReadTask
      /\ children' = [children EXCEPT ![n] = tree]
      /\ task' \in GetTask /\ UNCHANGED counter
  BY WriteBackStep
<1>2. SameStored
  BY WrittenBackStored
<1>3. CopyOf(n, record)
  BY <1>1 DEF IdsInv, ReadTaskId
<1>4. /\ DOMAIN tree = DOMAIN children[n] \cup {n} /\ tree[n] = record
      /\ \A k \in DOMAIN children[n] \ {n} : tree[k] = children[n][k]
  BY DEF With
<1> HIDE DEF n, record, tree
<1>5. /\ DOMAIN children' = NodeIds
      /\ DOMAIN children'[n] = DOMAIN children[n] \cup {n}
      /\ children'[n][n] = record
      /\ \A k \in DOMAIN children[n] \ {n} : children'[n][k] = children[n][k]
      /\ \A m \in NodeIds \ {n} : children'[m] = children[m]
  BY <1>1, <1>4 DEF TypeInv, DataType, ChildrenType
<1>6. /\ \A m \in NodeIds : \A c : c \in PutChildren(m)' <=> c \in PutChildren(m)
      /\ \A m \in NodeIds : \A c \in PutChildren(m) : children'[m][c] = children[m][c]
  BY <1>2, SameCopies
<1>7. IdsDiffer' /\ IdsUsed'
  BY <1>1, <1>6 DEF IdsInv, IdsDiffer, IdsUsed
<1>8. CopiesAreTrue'
  <2> SUFFICES ASSUME NEW m \in NodeIds, NEW k \in DOMAIN children'[m] \ ChildKeys
               PROVE  k = m /\ CopyOf(m, children[m][k])'
    BY DEF CopiesAreTrue
  <2> DEFINE new == children'[m][k]
  <2>1. k = m /\ CopyOf(m, new)
    <3>1. CASE m = n /\ k = n
      BY <1>3, <1>5, <3>1
    <3>2. CASE m = n /\ k # n
      <4>1. k \in DOMAIN children[n] \ ChildKeys /\ new = children[n][k]
        BY <1>5, <3>2
      <4> QED
        BY <3>2, <4>1 DEF IdsInv, CopiesAreTrue
    <3>3. CASE m # n
      <4>1. k \in DOMAIN children[m] \ ChildKeys /\ new = children[m][k]
        BY <1>5, <3>3
      <4> QED
        BY <4>1 DEF IdsInv, CopiesAreTrue
    <3> QED
      BY <3>1, <3>2, <3>3
  <2>2. new.child_key \in PutChildren(m)' /\ new.id = children'[m][new.child_key].id
    BY <1>6, <2>1 DEF CopyOf
  <2> QED
    BY <2>1, <2>2 DEF CopyOf
<1>9. StoreTaskId' /\ PendingId' /\ ReadTaskId'
  BY <1>1 DEF StoreTaskId, PendingId, Pending, ReadTaskId, GetTask, StoreTask, ReadTask
<1> QED
  BY <1>7, <1>8, <1>9 DEF IdsInv

(* The index against the children.                                         *)
LEMMA IndexUntouched ==
  ASSUME IndexInv, SameStored, UNCHANGED index, DOMAIN children' = NodeIds,
         \A key \in DOMAIN index : index[key] \in Entries,
         task.pc \notin {"file", "store"}, task'.pc \notin {"file", "store"}
  PROVE  IndexInv'
<1>1. /\ \A n \in NodeIds : \A c : c \in PutChildren(n)' <=> c \in PutChildren(n)
      /\ \A n \in NodeIds : \A c \in PutChildren(n) : children'[n][c] = children[n][c]
  BY SameCopies
<1>2. ChildrenAreFound'
  BY <1>1 DEF IndexInv, ChildrenAreFound, Found
<1>3. EntriesAreTrue'
  <2> SUFFICES ASSUME NEW key \in DOMAIN index
               PROVE  EntryIsTrue(key)'
    BY DEF EntriesAreTrue
  <2> DEFINE n == index[key].node_id
             c == index[key].child_key
  <2>1. c \in PutChildren(n) /\ children[n][c].id = key[2]
    BY DEF IndexInv, EntriesAreTrue, EntryIsTrue
  <2>2. n \in NodeIds
    BY DEF Entries
  <2>3. c \in DOMAIN children[n] /\ c \in ChildKeys
    BY <2>1 DEF PutChildren
  <2> HIDE DEF n, c
  <2>4. c \in DOMAIN children'[n] /\ children'[n][c].id = key[2]
    BY <2>1, <2>2, <2>3 DEF SameStored
  <2> QED
    BY <2>3, <2>4 DEF EntryIsTrue, PutChildren, n, c
<1>4. PendingIsFiled'
  BY DEF PendingIsFiled
<1> QED
  BY <1>2, <1>3, <1>4 DEF IndexInv

(* An update that leaves the priority as it was is stored at once: the     *)
(* entry there is stands for it.                                           *)
LEMMA IndexNewer ==
  ASSUME WarmthIsNat, TypeInv, IndexInv, NEW w \in Writes, PutNewer(w)
  PROVE  IndexInv'
<1> DEFINE n == w.node_id
           c == w.child_key
           old == children[n][c]
<1>1. /\ n \in NodeIds /\ c \in PutChildren(n) /\ old \in Records
      /\ task'.pc \in {"unfile", "store"} /\ task'.node_id = n /\ task'.key = c
      /\ task'.record = Updated(n, old, w.data) /\ w.data \in NodeDatas
      /\ UNCHANGED <<children, index>>
  BY PutNewerTask DEF Existing, database, Writes, PutChildren
<1>2. task.pc = "put"
  BY DEF PutNewer
<1> HIDE DEF n, c
<1>3. task'.record.id = old.id
  BY <1>1, UpdatedIs
<1>4. ChildrenAreFound' /\ EntriesAreTrue'
  BY <1>1, <1>2
  DEF IndexInv, ChildrenAreFound, EntriesAreTrue, EntryIsTrue, Found, PutChildren
<1>5. Found(n, c)
  BY <1>1, <1>2 DEF IndexInv, ChildrenAreFound
<1>6. PendingIsFiled'
  BY <1>1, <1>3, <1>5 DEF PendingIsFiled, Found
<1> QED
  BY <1>4, <1>6 DEF IndexInv

LEMMA IndexUnfiled ==
  ASSUME TypeInv, IdsInv, IndexInv, Unfile
  PROVE  IndexInv'
<1> DEFINE id == task.record.id
           was == task.was
<1>1. /\ task.pc = "unfile" /\ task'.pc = "file" /\ task'.record = task.record
      /\ task \in StoreTask \/ task \in ReadTask
      /\ index' = Without(index, was) /\ UNCHANGED children
  BY UnfileTask
<1>2. was[2] = id
  BY <1>1 DEF IdsInv, StoreTaskId, ReadTaskId
<1> HIDE DEF id, was
<1>3. /\ DOMAIN index' = DOMAIN index \ {was}
      /\ \A key \in DOMAIN index' : index'[key] = index[key]
  BY <1>1 DEF Without
<1>4. ChildrenAreFound'
  <2> SUFFICES ASSUME NEW n \in NodeIds, NEW c \in PutChildren(n), children[n][c].id # id
               PROVE  Found(n, c)'
    BY <1>1 DEF ChildrenAreFound, PutChildren, id
  <2>1. PICK key \in DOMAIN index : key[2] = children[n][c].id /\ PointsTo(index[key], n, c)
    BY <1>1 DEF IndexInv, ChildrenAreFound, Found
  <2>2. key \in DOMAIN index' /\ index'[key] = index[key]
    BY <1>2, <1>3, <2>1
  <2> QED
    BY <1>1, <2>1, <2>2 DEF Found
<1>5. EntriesAreTrue'
  BY <1>1, <1>3 DEF IndexInv, EntriesAreTrue, EntryIsTrue, PutChildren
<1>6. PendingIsFiled'
  BY <1>1 DEF PendingIsFiled
<1> QED
  BY <1>4, <1>5, <1>6 DEF IndexInv

LEMMA IndexFiled ==
  ASSUME TypeInv, IdsInv, IndexInv, File
  PROVE  IndexInv'
<1> DEFINE n == task.node_id
           record == task.record
           k == IndexKey(record)
           entry == Entry(n, record)
<1>1. /\ task.pc = "file" /\ task'.pc = task.then
      /\ task \in StoreTask \/ task \in ReadTask
      /\ task'.node_id = n /\ task'.record = record
      /\ task \in StoreTask => task'.key = task.key
      /\ UNCHANGED children
  BY FileTask
<1>2. index' = With(index, k, entry)
  BY FileTask
<1>3. k[2] = record.id /\ PointsTo(entry, n, record.child_key)
  BY DEF IndexKey, Entry, PointsTo
<1>4. /\ DOMAIN index' = DOMAIN index \cup {k} /\ index'[k] = entry
      /\ \A key \in DOMAIN index \ {k} : index'[key] = index[key]
  <2> HIDE DEF k, entry
  <2> QED
    BY <1>2 DEF With
<1>5. task \in StoreTask => /\ task.then = "store" /\ record.child_key = task.key
                            /\ IF record.child_key \in PutChildren(n)
                                 THEN record.id = children[n][record.child_key].id
                                 ELSE Fresh(record.id)
  BY <1>1 DEF IdsInv, StoreTaskId, PendingId, Pending, StoreTask
<1>6. task \in ReadTask => task.then = "writeback" /\ CopyOf(n, record)
  BY DEF IdsInv, ReadTaskId, ReadTask
<1>7. n \in NodeIds
  BY <1>1 DEF StoreTask, ReadTask
<1> HIDE DEF n, record, k, entry
<1>8. ASSUME NEW m \in NodeIds, NEW c \in PutChildren(m), children[m][c].id = record.id
      PROVE  m = n /\ c = record.child_key
  BY <1>1, <1>5, <1>6, <1>7, <1>8 DEF Fresh, CopyOf, IdsInv, IdsDiffer
<1>9. ChildrenAreFound'
  <2> SUFFICES ASSUME NEW m \in NodeIds, NEW c \in PutChildren(m)
               PROVE  Found(m, c)'
    BY <1>1 DEF ChildrenAreFound, PutChildren
  <2>1. CASE children[m][c].id = record.id
    BY <1>1, <1>3, <1>4, <1>8, <2>1 DEF Found
  <2>2. CASE children[m][c].id # record.id
    <3>1. PICK key \in DOMAIN index : key[2] = children[m][c].id /\ PointsTo(index[key], m, c)
      BY <1>1, <2>2 DEF IndexInv, ChildrenAreFound, Found, record
    <3>2. key \in DOMAIN index' /\ index'[key] = index[key]
      BY <1>3, <1>4, <2>2, <3>1
    <3> QED
      BY <1>1, <3>1, <3>2 DEF Found
  <2> QED
    BY <2>1, <2>2
<1>10. EntriesAreTrue'
  <2> SUFFICES ASSUME NEW key \in DOMAIN index'
               PROVE  EntryIsTrue(key)'
    BY DEF EntriesAreTrue
  <2>1. CASE key = k
    <3>1. CASE task \in StoreTask
      BY <1>1, <1>3, <1>4, <1>5, <2>1, <3>1 DEF EntryIsTrue
    <3>2. CASE task \in ReadTask
      <4>1. CopyOf(n, record) /\ entry.node_id = n /\ entry.child_key = record.child_key
        BY <1>3, <1>6, <3>2 DEF PointsTo
      <4> QED
        BY <1>1, <1>3, <1>4, <2>1, <4>1 DEF EntryIsTrue, CopyOf, PutChildren
    <3> QED
      BY <1>1, <3>1, <3>2
  <2>2. CASE key # k
    <3>1. key \in DOMAIN index /\ index'[key] = index[key]
      BY <1>4, <2>2
    <3>2. EntryIsTrue(key)
      BY <3>1 DEF IndexInv, EntriesAreTrue
    <3> QED
      BY <1>1, <3>1, <3>2 DEF EntryIsTrue, PutChildren
  <2> QED
    BY <2>1, <2>2
<1>11. PendingIsFiled'
  <2> SUFFICES ASSUME task'.pc = "store"
               PROVE  \E key \in DOMAIN index' :
                        key[2] = task'.record.id /\ PointsTo(index'[key], task'.node_id, task'.key)
    BY DEF PendingIsFiled
  <2>1. task \in StoreTask
    BY <1>1, <1>6
  <2> QED
    BY <1>1, <1>3, <1>4, <1>5, <2>1
<1> QED
  BY <1>9, <1>10, <1>11 DEF IndexInv

LEMMA IndexStored ==
  ASSUME TypeInv, IdsInv, IndexInv, Store
  PROVE  IndexInv'
<1> DEFINE n == task.node_id
           c == task.key
           id == task.record.id
<1>1. /\ task \in StoreTask /\ task.pc = "store" /\ task'.pc = "resize"
      /\ c \in ChildKeys /\ UNCHANGED index
  BY StoreStep
<1>2. /\ n \in NodeIds /\ c \in DOMAIN children'[n] /\ children'[n][c].id = id
      /\ \A m \in NodeIds : \A d \in PutChildren(m)' :
           (m = n /\ d = c) \/ (d \in PutChildren(m) /\ children'[m][d] = children[m][d])
      /\ \A m \in NodeIds : \A d \in PutChildren(m) : d \in PutChildren(m)'
  <2>1. /\ n \in NodeIds /\ c \in DOMAIN children'[n] /\ children'[n][c] = task.record
        /\ \A m \in NodeIds : \A d \in PutChildren(m)' :
             (m = n /\ d = c) \/ (d \in PutChildren(m) /\ children'[m][d] = children[m][d])
        /\ \A m \in NodeIds : \A d \in PutChildren(m) : d \in PutChildren(m)'
    BY StoredThen
  <2> QED
    BY <2>1
<1>3. c \in PutChildren(n) => id = children[n][c].id
  BY <1>1 DEF IdsInv, PendingId, Pending
<1>4. PICK key \in DOMAIN index : key[2] = id /\ PointsTo(index[key], n, c)
  BY <1>1 DEF IndexInv, PendingIsFiled
<1>5. \A k \in DOMAIN index : \/ /\ index[k].child_key \in PutChildren(index[k].node_id)
                                 /\ children[index[k].node_id][index[k].child_key].id = k[2]
                              \/ k[2] = id /\ PointsTo(index[k], n, c)
  BY DEF IndexInv, EntriesAreTrue, EntryIsTrue
<1> HIDE DEF n, c, id
<1>6. ASSUME NEW m \in NodeIds, NEW d \in PutChildren(m), ~(m = n /\ d = c)
      PROVE  d \in DOMAIN children'[m] /\ d \in ChildKeys /\ children'[m][d] = children[m][d]
  BY <1>2, <1>6 DEF PutChildren
<1>7. ChildrenAreFound'
  <2> SUFFICES ASSUME NEW m \in NodeIds, NEW d \in PutChildren(m)'
               PROVE  Found(m, d)'
    BY DEF ChildrenAreFound
  <2>1. CASE m = n /\ d = c
    BY <1>1, <1>2, <1>4, <2>1 DEF Found
  <2>2. CASE ~(m = n /\ d = c)
    <3>1. d \in PutChildren(m) /\ children'[m][d] = children[m][d]
      BY <1>2, <2>2
    <3>2. Found(m, d)
      BY <1>1, <3>1 DEF IndexInv, ChildrenAreFound
    <3> QED
      BY <1>1, <3>1, <3>2 DEF Found
  <2> QED
    BY <2>1, <2>2
<1>8. EntriesAreTrue'
  <2> SUFFICES ASSUME NEW k \in DOMAIN index
               PROVE  EntryIsTrue(k)'
    BY <1>1 DEF EntriesAreTrue
  <2> DEFINE m == index[k].node_id
             d == index[k].child_key
  <2>1. m \in NodeIds
    BY DEF TypeInv, DataType, IndexType, Entries
  <2>2. d \in DOMAIN children'[m] /\ d \in ChildKeys /\ children'[m][d].id = k[2]
    <3>1. CASE m = n /\ d = c
      BY <1>1, <1>2, <1>3, <1>5, <3>1
    <3>2. CASE ~(m = n /\ d = c)
      <4>1. d \in PutChildren(m) /\ children[m][d].id = k[2]
        BY <1>5, <3>2 DEF PointsTo
      <4> HIDE DEF m, d
      <4> QED
        BY <1>6, <2>1, <3>2, <4>1
    <3> QED
      BY <3>1, <3>2
  <2> HIDE DEF m, d
  <2>3. index'[k].node_id = m /\ index'[k].child_key = d
    BY <1>1 DEF m, d
  <2> QED
    BY <2>2, <2>3 DEF EntryIsTrue, PutChildren
<1>9. PendingIsFiled'
  BY <1>1 DEF PendingIsFiled
<1> QED
  BY <1>7, <1>8, <1>9 DEF IndexInv

(* The total size.                                                         *)
LEMMA StoredSizes ==
  ASSUME TypeInv, NEW x \in AllPutChildren
  PROVE  children[x[1]][x[2]].size \in Nat
<1>1. x[1] \in NodeIds /\ x[2] \in DOMAIN children[x[1]]
  BY DEF AllPutChildren, PutChildren
<1>2. children[x[1]][x[2]] \in Records
  BY <1>1, StoredRecord
<1> QED
  BY <1>2 DEF Records, Record

LEMMA SizeUntouched ==
  ASSUME SizeInv, UNCHANGED <<children, size>>, task.pc # "resize",
         task' \in StoreTask =>
           /\ task \in StoreTask /\ task'.pc # "resize"
           /\ UNCHANGED <<task.node_id, task.key, task.record, task.change>>,
         task'.pc # "resize"
  PROVE  SizeInv'
<1>1. AllPutChildren' = AllPutChildren /\ TotalSize' = TotalSize
  BY SameChildren, SameSizes
<1>2. Pending' => /\ Pending
                  /\ UNCHANGED <<task.node_id, task.key, task.record, task.change>>
  BY DEF Pending
<1>3. Pending' => task'.change = task'.record.size - OldSize(task.node_id, task.key)'
  BY <1>2 DEF SizeInv, OldSize, PutChildren
<1> QED
  BY <1>1, <1>3 DEF SizeInv

LEMMA SizePut ==
  ASSUME WarmthIsNat, TypeInv, SizeInv, NEW w \in Writes, PutNewChild(w) \/ PutNewer(w)
  PROVE  SizeInv'
<1> DEFINE n == w.node_id
           c == w.child_key
<1>1. /\ UNCHANGED <<children, size>> /\ task.pc # "resize"
      /\ task'.pc # "resize" /\ task'.node_id = n /\ task'.key = c
      /\ task'.record.size = w.data.size
      /\ task'.change = w.data.size - OldSize(n, c)
  <2>1. w.child_key \in ChildKeys /\ w.data \in NodeDatas /\ w.node_id \in NodeIds
    BY DEF Writes
  <2>2. CASE PutNewChild(w)
    <3>1. /\ UNCHANGED <<children, size>> /\ task'.pc = "unfile"
          /\ task'.node_id = n /\ task'.key = c
          /\ task'.record = NewRecord(n, c, w.data) /\ task'.change = w.data.size
          /\ c \notin DOMAIN children[n]
      BY <2>2, PutNewChildTask
    <3>2. task'.record.size = w.data.size /\ w.data.size \in Nat
      BY <2>1, <3>1, NewRecordIs, DataAssumption DEF TypeInv, DataType
    <3>3. OldSize(n, c) = 0
      BY <3>1 DEF OldSize, PutChildren
    <3>4. task.pc = "put"
      BY <2>2 DEF PutNewChild
    <3> QED
      BY <3>1, <3>2, <3>3, <3>4
  <2>3. CASE PutNewer(w)
    <3>1. /\ UNCHANGED <<children, size>> /\ task'.pc \in {"unfile", "store"}
          /\ task'.node_id = n /\ task'.key = c
          /\ task'.record = Updated(n, Existing(w), w.data)
          /\ task'.change = w.data.size - Existing(w).size
          /\ c \in DOMAIN children[n] /\ Existing(w) \in Records
      BY <2>3, PutNewerTask DEF database
    <3>2. task'.record.size = w.data.size
      BY <2>1, <3>1, UpdatedIs
    <3>3. OldSize(n, c) = Existing(w).size
      BY <2>1, <3>1 DEF OldSize, PutChildren, Existing
    <3>4. task.pc = "put"
      BY <2>3 DEF PutNewer
    <3> QED
      BY <3>1, <3>2, <3>3, <3>4
  <2> QED
    BY <2>2, <2>3
<1> HIDE DEF n, c
<1>2. AllPutChildren' = AllPutChildren /\ TotalSize' = TotalSize
  BY <1>1, SameChildren, SameSizes
<1>3. task'.change = task'.record.size - OldSize(task.node_id, task.key)'
  BY <1>1 DEF OldSize, PutChildren
<1> QED
  BY <1>1, <1>2, <1>3 DEF SizeInv

(* Storing changes the sum by the difference the look-up has reckoned.     *)
LEMMA SizeStored ==
  ASSUME TypeInv, SizeInv, Store
  PROVE  SizeInv'
<1> DEFINE n == task.node_id
           c == task.key
           x == <<n, c>>
           f == [y \in AllPutChildren |-> children[y[1]][y[2]].size]
           g == [y \in AllPutChildren' |-> children'[y[1]][y[2]].size]
<1>1. /\ task \in StoreTask /\ task.pc = "store" /\ task'.pc = "resize"
      /\ task'.change = task.change /\ UNCHANGED size
      /\ task.record \in Records /\ task.change \in Int
  BY StoreStep DEF StoreTask
<1>2. /\ n \in NodeIds /\ c \in ChildKeys
      /\ c \in DOMAIN children'[n] /\ children'[n][c] = task.record
      /\ \A m \in NodeIds : \A d \in PutChildren(m)' :
           (m = n /\ d = c) \/ (d \in PutChildren(m) /\ children'[m][d] = children[m][d])
      /\ \A m \in NodeIds : \A d \in PutChildren(m) : d \in PutChildren(m)'
  BY StoredThen
<1>3. task.change = task.record.size - OldSize(n, c) /\ size = TotalSize
  BY <1>1 DEF SizeInv, Pending
<1>4. x \in AllPutChildren <=> c \in PutChildren(n)
  BY <1>2 DEF AllPutChildren
<1>5. OldSize(n, c) = IF x \in AllPutChildren THEN f[x] ELSE 0
  BY <1>4 DEF OldSize
<1> HIDE DEF n, c
<1>6. AllPutChildren' = AllPutChildren \cup {x}
  BY <1>2 DEF AllPutChildren, PutChildren
<1>7. \A y \in AllPutChildren \ {x} : g[y] = f[y]
  <2> SUFFICES ASSUME NEW y \in AllPutChildren, y # x
               PROVE  g[y] = f[y]
    OBVIOUS
  <2>1. y \in NodeIds \X ChildKeys /\ y[2] \in PutChildren(y[1])
    BY DEF AllPutChildren
  <2>2. ~(y[1] = n /\ y[2] = c)
    BY <2>1
  <2>3. children'[y[1]][y[2]] = children[y[1]][y[2]]
    BY <1>2, <2>1, <2>2
  <2> QED
    BY <1>6, <2>3
<1>8. g[x] = task.record.size /\ g[x] \in Nat
  BY <1>1, <1>2, <1>6 DEF Records, Record
<1>9. /\ DOMAIN f = AllPutChildren /\ DOMAIN g = AllPutChildren \cup {x}
      /\ \A y \in AllPutChildren : f[y] \in Nat
  BY <1>6, StoredSizes
<1>10. IsFiniteSet(AllPutChildren)
  BY DEF SizeInv
<1>11. TotalSize = SumFunction(f) /\ TotalSize' = SumFunction(g)
  BY DEF TotalSize
<1> HIDE DEF f, g, x
<1>12. /\ IsFiniteSet(AllPutChildren')
       /\ SumFunction(f) \in Nat
       /\ SumFunction(g) = SumFunction(f) + g[x] - (IF x \in AllPutChildren THEN f[x] ELSE 0)
  BY <1>6, <1>7, <1>8, <1>9, <1>10, SumChanged
<1>13. x \in AllPutChildren => f[x] \in Nat
  BY <1>9
<1>14. size' + task'.change = TotalSize'
  BY <1>1, <1>3, <1>5, <1>8, <1>11, <1>12, <1>13
<1>15. ~Pending'
  BY <1>1 DEF Pending
<1> QED
  BY <1>1, <1>12, <1>14, <1>15 DEF SizeInv

LEMMA SizeResized ==
  ASSUME TypeInv, SizeInv, Resize
  PROVE  SizeInv'
<1>1. /\ task.pc = "resize" /\ task'.pc = "put"
      /\ size' = Merge(task.change) /\ UNCHANGED children
  BY DEF Resize
<1>2. AllPutChildren' = AllPutChildren /\ TotalSize' = TotalSize
  BY <1>1, SameChildren, SameSizes
<1>3. size + task.change = TotalSize /\ IsFiniteSet(AllPutChildren)
  BY <1>1 DEF SizeInv
<1>4. TotalSize \in Nat
  <2> DEFINE f == [y \in AllPutChildren |-> children[y[1]][y[2]].size]
  <2>1. DOMAIN f = AllPutChildren /\ \A y \in AllPutChildren : f[y] \in Nat
    BY StoredSizes
  <2>2. TotalSize = SumFunction(f)
    BY DEF TotalSize
  <2> HIDE DEF f
  <2> QED
    BY <1>3, <2>1, <2>2, SumType DEF SumFunction
<1>5. size' = TotalSize
  BY <1>1, <1>3, <1>4 DEF Merge
<1>6. ~Pending'
  BY <1>1 DEF Pending, StoreTask
<1> QED
  BY <1>1, <1>2, <1>3, <1>5, <1>6 DEF SizeInv

LEMMA SizeWrittenBack ==
  ASSUME NoChildNamedLikeNode, TypeInv, SizeInv, WriteBack
  PROVE  SizeInv'
<1>1. /\ task.pc = "writeback" /\ task'.pc = "get" /\ UNCHANGED size
  BY WriteBackStep
<1>2. AllPutChildren' = AllPutChildren /\ TotalSize' = TotalSize
  BY WrittenBackStored, SameSizes
<1>3. ~Pending'
  BY <1>1 DEF Pending, StoreTask
<1> QED
  BY <1>1, <1>2, <1>3 DEF SizeInv
----------------------------------------------------------------------------------
LEMMA StepBooks ==
  ASSUME WarmthIsNat, NoChildNamedLikeNode, Limit = None, MaxRestarts = 0,
         TypeInv, TypeInv', Books, [Next]_vars
  PROVE  Books'
<1>0. /\ DOMAIN children' = NodeIds
      /\ \A key \in DOMAIN index : index[key] \in Entries
  BY DEF TypeInv, DataType, ChildrenType, IndexType
<1>1. ~Restart /\ ~Evict
  <2>1. ~StartEviction
    BY DEF StartEviction
  <2>2. evictor.pc = "idle" /\ restarts = 0
    BY DEF Books, Undisturbed, Idle
  <2> QED
    BY <2>1, <2>2
    DEF Restart, Evict, PopLeast, RemoveEvicted, SubtractEvicted, EvictionDone
<1>2. Undisturbed'
  BY <1>1 DEF Next, Handle, Work, ReceivePut, ReceiveGet, PutDone, Unfile, File, Store, Resize,
              PutNewChild, PutNewer, PutOlder, ReadChild, WriteBack, AnswerGet, NoAnswer,
              Quietly, vars, Books, Undisturbed
<1>3. ASSUME NEW w \in Writes, PutNewChild(w)
      PROVE  Books'
  <2>1. /\ task'.pc = "unfile" /\ UNCHANGED <<children, index>>
    BY <1>3, PutNewChildTask
  <2>2. task.pc = "put"
    BY <1>3 DEF PutNewChild
  <2>3. IndexInv'
    BY <1>0, <2>1, <2>2, SameChildren, IndexUntouched DEF Books
  <2> QED
    BY <1>2, <1>3, <2>3, IdsNewChild, SizePut DEF Books
<1>4. ASSUME NEW w \in Writes, PutNewer(w)
      PROVE  Books'
  BY <1>2, <1>4, IdsNewer, IndexNewer, SizePut DEF Books
<1>5. CASE Unfile \/ File
  <2>1. /\ UNCHANGED <<children, size>> /\ task.pc # "resize" /\ task'.pc # "resize"
        /\ task' \in StoreTask =>
             /\ task \in StoreTask
             /\ UNCHANGED <<task.node_id, task.key, task.record, task.change>>
    <3>1. task \in StoreTask => task.then = "store"
      BY DEF StoreTask
    <3>2. task \in ReadTask => task.then = "writeback"
      BY DEF ReadTask
    <3> QED
      BY <1>5, <3>1, <3>2, UnfileTask, FileTask
  <2>2. SizeInv'
    BY <2>1, SizeUntouched DEF Books
  <2> QED
    BY <1>2, <1>5, <2>2, IdsFiled, IndexUnfiled, IndexFiled DEF Books
<1>6. CASE Store
  BY <1>2, <1>6, IdsStored, IndexStored, SizeStored DEF Books
<1>7. CASE Resize
  <2>1. /\ task.pc = "resize" /\ task'.pc = "put" /\ UNCHANGED <<children, index, counter>>
    BY <1>7 DEF Resize
  <2>2. IdsInv'
    BY <2>1, IdsUntouched DEF Books, StoreTask, ReadTask
  <2>3. IndexInv'
    BY <1>0, <2>1, SameChildren, IndexUntouched DEF Books
  <2> QED
    BY <1>2, <1>7, <2>2, <2>3, SizeResized DEF Books
<1>8. ASSUME NEW k \in Keys, ReadChild(k)
      PROVE  Books'
  <2>1. /\ task.pc = "get" /\ task' \in ReadTask /\ task'.pc \in {"unfile", "writeback"}
        /\ UNCHANGED <<children, index, size>>
    BY <1>8, ReadChildTask DEF ReadChild, database
  <2>2. IndexInv'
    BY <1>0, <2>1, SameChildren, IndexUntouched DEF Books
  <2>3. SizeInv'
    BY <2>1, SizeUntouched DEF Books, StoreTask, ReadTask
  <2> QED
    BY <1>2, <1>8, <2>2, <2>3, IdsRead DEF Books
<1>9. CASE WriteBack
  <2>1. /\ task.pc = "writeback" /\ task'.pc = "get" /\ UNCHANGED index
    BY <1>9, WriteBackStep
  <2>2. IndexInv'
    BY <1>0, <1>9, <2>1, WrittenBackStored, IndexUntouched DEF Books
  <2> QED
    BY <1>2, <1>9, <2>2, IdsWrittenBack, SizeWrittenBack DEF Books
<1>10. CASE \/ Handle \/ PutDone \/ AnswerGet \/ NoAnswer
            \/ \E w \in Writes : PutOlder(w)
  <2>1. UNCHANGED <<children, index, size, counter>>
    BY <1>10 DEF Handle, ReceivePut, ReceiveGet, PutDone, PutOlder, AnswerGet, NoAnswer,
                 database
  <2>2. task.pc \in {"idle", "put", "get"}
    BY <1>10 DEF Handle, ReceivePut, ReceiveGet, PutDone, PutOlder, AnswerGet, NoAnswer, ReadAll
  <2>3. task'.pc \in {"idle", "put", "get"}
    <3>1. CASE \E w \in Writes : PutOlder(w)
      <4>1. task \in PutTask /\ \E w \in Writes : task' = [task EXCEPT !.todo = @ \ {w}]
        BY <3>1 DEF PutOlder, TypeInv, TaskType
      <4> QED
        BY <4>1 DEF PutTask
    <3> QED
      BY <1>10, <3>1 DEF Handle, ReceivePut, ReceiveGet, PutDone, AnswerGet, NoAnswer, Idle
  <2>4. task' \notin StoreTask /\ task' \notin ReadTask
    BY <2>3 DEF StoreTask, ReadTask
  <2>5. IdsInv'
    BY <2>1, <2>4, IdsUntouched DEF Books
  <2>6. IndexInv'
    BY <1>0, <2>1, <2>2, <2>3, SameChildren, IndexUntouched DEF Books
  <2>7. SizeInv'
    BY <2>1, <2>2, <2>3, <2>4, SizeUntouched DEF Books
  <2> QED
    BY <1>2, <2>5, <2>6, <2>7 DEF Books
<1>11. CASE UNCHANGED vars
  <2>1. UNCHANGED <<children, index, size, counter, task>>
    BY <1>11 DEF vars
  <2>2. IdsInv'
    BY <2>1, IdsUntouched DEF Books
  <2>3. IndexInv'
    BY <2>1 DEF Books, IndexInv, ChildrenAreFound, EntriesAreTrue, EntryIsTrue, PendingIsFiled,
                Found, PutChildren
  <2>4. SizeInv'
    <3>1. AllPutChildren' = AllPutChildren /\ TotalSize' = TotalSize
      BY <2>1, SameChildren, SameSizes
    <3> QED
      BY <2>1, <3>1 DEF Books, SizeInv, Pending, OldSize, PutChildren
  <2> QED
    BY <1>2, <2>2, <2>3, <2>4 DEF Books
<1> QED
  BY <1>1, <1>3, <1>4, <1>5, <1>6, <1>7, <1>8, <1>9, <1>10, <1>11 DEF Next, Work

LEMMA InitBooks == Init => Books
<1> SUFFICES ASSUME Init PROVE Books
  OBVIOUS
<1>1. \A n \in NodeIds : PutChildren(n) = {} /\ DOMAIN children[n] = {}
  BY DEF Init, PutChildren
<1>2. DOMAIN index = {} /\ task = Idle /\ evictor = Idle /\ size = 0 /\ restarts = 0
  BY DEF Init
<1>3. task.pc = "idle" /\ task \notin StoreTask /\ task \notin ReadTask
  BY <1>2 DEF Idle, StoreTask, ReadTask
<1>4. IdsInv
  BY <1>1, <1>3 DEF IdsInv, IdsDiffer, IdsUsed, CopiesAreTrue, StoreTaskId, PendingId, Pending,
                    ReadTaskId
<1>5. IndexInv
  BY <1>1, <1>2, <1>3 DEF IndexInv, ChildrenAreFound, EntriesAreTrue, PendingIsFiled
<1>6. SizeInv
  <2>1. AllPutChildren = {}
    BY <1>1 DEF AllPutChildren
  <2>2. TotalSize = 0
    <3> DEFINE f == [y \in AllPutChildren |-> children[y[1]][y[2]].size]
    <3>1. DOMAIN f = {} /\ TotalSize = SumFunction(f)
      BY <2>1 DEF TotalSize
    <3> HIDE DEF f
    <3> QED
      BY <3>1, SumEmpty DEF SumFunction
  <2>3. IsFiniteSet(AllPutChildren)
    BY <2>1, FS_EmptySet
  <2> QED
    BY <1>2, <1>3, <2>2, <2>3 DEF SizeInv, Pending
<1> QED
  BY <1>2, <1>4, <1>5, <1>6 DEF Books, Undisturbed

(* Without eviction and restarts, and where no child is called like its    *)
(* node, any sequence of puts and gets leaves the total size the sum of    *)
(* the sizes of the children that puts have stored, everything stored      *)
(* beside them a copy that a get has left of one of them, one in a node,   *)
(* and every child of a put findable through the index, whose every entry  *)
(* points to a child with its own id (sled_storage.rs:91-133, 155-331).    *)
THEOREM PutsAccounted ==
  ASSUME WarmthIsNat, NoChildNamedLikeNode, Limit = None, MaxRestarts = 0
  PROVE  Spec => []PutsAreAccounted
<1>1. Init => Books
  BY InitBooks
<1>2. TypeInv /\ TypeInv' /\ Books /\ [Next]_vars => Books'
  BY StepBooks
<1>3. TypeInv /\ Books => PutsAreAccounted
  <2>0. ASSUME Books PROVE OnlyCopiesAreUncounted
    BY <2>0 DEF Books, IdsInv, CopiesAreTrue, CopyOf, OnlyCopiesAreUncounted, Copies
  <2> SUFFICES ASSUME TypeInv, Books, task = Idle
               PROVE  SizeCountsPuts /\ IndexPointsToChildren
    BY <2>0 DEF PutsAreAccounted, SizeCountsPuts, IndexPointsToChildren
  <2>1. task.pc = "idle"
    BY DEF Idle
  <2>2. size = TotalSize
    BY <2>1 DEF Books, SizeInv
  <2>3. \A n \in NodeIds : \A c \in PutChildren(n) : Found(n, c)
    BY <2>1 DEF Books, IndexInv, ChildrenAreFound
  <2>4. \A key \in DOMAIN index :
          /\ index[key].child_key \in PutChildren(index[key].node_id)
          /\ children[index[key].node_id][index[key].child_key].id = key[2]
    BY <2>1 DEF Books, IndexInv, EntriesAreTrue, EntryIsTrue
  <2> QED
    BY <2>2, <2>3, <2>4
    DEF SizeCountsPuts, IndexPointsToChildren, Found, PointsTo
<1> QED
  BY <1>1, <1>2, <1>3, TypeInvCorrect, PTL DEF Spec
====================================================================================
