# rod: specifications and proofs

rod (`src/src`) is a peer-to-peer graph database: a program, or the server of this
repository, holds a `Node`, reads and writes values by path
(`db.get("a").get("b").put(..)`, `.on()`), and the values travel as *get* and *put*
messages between processes over websockets and multicast. The server also hands out web
pages; its statistics page (`assets/stats`) is itself a peer of the network, by way of the
copy of GUN in `assets/stats/gun.js`. This directory models the parts of both that run
concurrently or keep state that outlives a message, checks them with TLC, and proves what
can be proved about them, nearly all of the Rust side and fourteen of the sixteen parts
of the browser peer, with TLAPS.

## 1. The system

Everything is an actor (`actor.rs`): a task with an unbounded mailbox that handles one
message at a time. In a process there are

| part | source | state it keeps | operations |
|---|---|---|---|
| Actor framework | `actor.rs` | tree of contexts: stop channels, task handles, one shared `is_stopped` flag | start, run (`select!` between stop and mailbox), stop cascade |
| Router | `router.rs` | known peers, `seen_messages`, `seen_get_messages`, subscribers by topic | handle Hi / get / put |
| Bounded containers | `utils.rs` | a set or map and the queue of its insertions | insert, contains, get_mut |
| Memory storage | `adapters/memory_storage.rs` | node id -> child -> data | handle get / put |
| Sled storage | `adapters/sled_storage.rs` | the same on disk, with a priority index, a total size and an id counter | handle get / put, eviction task |
| Graph node (API) | `node.rs` | path, children, parent, broadcast channels | `get`, `on`, `once`, `map`, `put`, `stop`, handle put |
| Websocket connection, server, client manager | `adapters/ws_*.rs` | socket, clients | accept, connect, receive loop, relay |
| Multicast | `adapters/multicast.rs` | socket | receive loop, broadcast |
| Messages | `message.rs`, `types.rs` | none | parse, verify, print |
| Command line, web pages | `main.rs`, `assets/` | none | argument parsing, static files |

The **browser peer** (`gun.js`) is one page, one thread: an event loop with timers, sockets
and `localStorage`. Its parts call each other directly and through events.

| part | lines | state it keeps | operations |
|---|---|---|---|
| Clock | 151-174 | last time, counter | `State` |
| Events, asks | 96-129, 206-232 | linked lists of listeners, timers | `on`, `off`, emit, `ask` |
| Turns | 64-92 | tasks, lists being worked off | `turn`, `each` |
| Message memory | 179-205 | ids and when they were seen | `check`, `track`, `drop` |
| Writes | 298-418, 1715-1760 | the graph, a context per message, the disk | `put`, `ham`, `map`, `fire`, `ack`; the `localStorage` adapter |
| Chains | 548-970, 974-1092, 1184-1244 | a tree of chains with links and echoes | `get`, `put`, `once`, `off`, links |
| Network | 1380-1710 | queues, sockets, peers | `hear`, `say`, `hi`, `bye`, reconnecting, asking again |
| Values, texts, graphs | 25-58, 132-147, 1789-2210 | none | `valid`, `match`, `hash`, `Graph.ify`, `Graph.to` |

A write of the page goes from a chain through `put` into the graph, the disk and out to the
peers; one that is heard goes the same way, and both reach the callbacks through the chains.
`ham` decides by the state (a time) of each value; the memory of ids, a hash of the data and
a list of neighbours keep messages from going round for ever.

They interact through messages only, with these exceptions: the eviction task of the sled
storage works on the same database as the sled actor; all contexts share `is_stopped`; a
parent's context and its actors share the map of stop signals; a graph node's children map
and broadcast channels are shared between its actor and the application's threads.

A **get** goes from a graph node or a connection to the router, which remembers the
requester (`seen_get_messages`) and subscribes it to the topic (first component of the
path), and passes the get on to storage, to *server peers* (multicast, outgoing websockets)
and to a few other actors. A **reply** is a put with `in_response_to`; the router sends it
to the remembered requester. Other puts are **publications**: the router sends them to
storage, the server peers, all subscribers of their topics, and a few others. Storage
answers a get directly to its `from`, not by way of the router.

What is hard: messages come in any order, repeatedly, along several routes, and the
router's memory of them is bounded; actors end while others still hold their address;
storage must end up with the newest write whatever the order; the sled storage's handlers,
its eviction task and the end of the process interleave operation by operation; stopping is
a cascade that races with the starting of actors.

What makes each part correct:

* *Bounded containers, router memory*: a message is handled once per window of
  `SEEN_MSGS_MAX_SIZE` messages; a reply finds the latest requester.
* *Router*: a message enters no mailbox twice, does not go back to its source, reaches
  everybody who asked for its topic and few who did not.
* *Storage*: last writer wins per child; replicas given the same writes agree; the
  bookkeeping (size, index) matches what is stored; eviction takes the least important data
  and ends.
* *Actors*: stop reaches every actor, and nothing else ends one that is not a connection.
* *Graph node*: `get` returns.
* *Browser peer*: states increase; every listener hears every event; every task runs; the
  latest write wins whatever the order; an ok means stored; nothing that is said vanishes
  or is sent twice; a write reaches everyone, and callbacks what there is, once.

## 2. The modules

| module | models | state and actions |
|---|---|---|
| `BoundedCollections` | `BoundedHashSet`, `BoundedHashMap` | records `[set, queue]`, `[map, queue]`; `SetInsert`, `MapInsert`, `MapUpdate` |
| `SeenCache` | the router's two caches by themselves | `seen_messages`, `seen_get_messages` and the history `accepted`; an action per way a handler uses them |
| `Router` | the router actor | its four state fields; `HandleHi`, `HandleGet`, `HandlePublication`, `HandleReply`, `DropReply`, `RefuseDuplicate` are the branches of `handle`; `Close` is the end of a connection; `out` records who was sent how many copies |
| `RouterHistory` | the router with its history | composes `Router` with the history of accepted messages and answers, and refines `SeenCache` |
| `LwwStore` | *abstract*: what any storage adapter promises | `received`, `served`; a served write is always the newest received, forgetting is all or nothing |
| `MemoryStorage` | the memory storage, one per replica | `store`; `HandlePut`, `HandleGet`; refines `LwwStore` per replica |
| `SledStorage` | the sled storage and its eviction task | the database (`nodes`, `children`, `index`, `size`), `counter`, where the actor (`task`) and the eviction task (`evictor`) are; one action per database operation; `Restart`; refines `LwwStore` |
| `ActorTree` | actor lifecycle, stop cascade, accept loops, the multicast loop's flag | `phase`, `stop_signals`, `signal`, `tasks`, `is_stopped`, `listening` |
| `GraphNode` | the children map of a graph node and its lock | `children`, `readers`, where each thread is; one action per acquisition |
| `GunClock` | `State` | `last`, `N`, the machine's time; `SetBack` is a clock that is set back |
| `GunEvents` | `onto`, `ask` | the doubly linked list as the code links it; `On`, `Ask`, `Off`, `Emit`, `HandOn` (one listener), `Answer`, the timers |
| `GunTurn` | `turn`, `each` | the queue `s`, the lists; a task may throw |
| `GunDup` | `Dup` | ids by age; `Drop` goes through them in batches |
| `GunPut` | `put`, `ham`, `map`, `fire`, `ack`, `back`, the `localStorage` adapter | a context per message, graph, disk and store; `Reload`, `Off`, failures of `setItem` |
| `GunMesh` | `say`, `hi`, batches, the websocket with its retries | queue, batch, the socket's state, the page's visibility |
| `GunWire` | `hear`, `say`, `universe` over several peers | messages in the net, what each peer has heard and holds |
| `GunResync` | `gets` | what a peer that comes back is asked |
| `GunRead` | a callback during writes: `hatch`, `latch`, `stun` | writes that nest, callbacks that wait |
| `GunLink` | `input`, `output`, `link`, `unlink` of chains | the graph, the chains that are, their `put`, `link` and `echo` |
| `GunWalk` | `chain.put` of an object | the walk over its parts, souls asked for |
| `GunOnce` | `chain.once` | timers, the chains that are done with; chains with the same link hear of what it links to in any order |
| `GunSoul` | `soul`, `rid` | the jam of callers, answers counted |
| `GunText`, `GunValid`, `GunGraph` | `match`, `hash`, `valid`, `Graph.ify`/`to` and their older forms | pure: a state is an input, and then what came of it |
| `GunPeer` | what parts of one page promise | an instance each of `GunClock`, `GunTurn`, `GunPut`, `GunDup`, `GunOnce`, `GunSoul`, `GunResync`, with all their constants as constants; a promise puts together the properties of one part |
| `GunNetwork` | what the parts that speak to other peers promise | the same, with `GunMesh` and `GunWire` |
| `GunListeners` | what the parts that call listeners promise | the same, with `GunEvents` and `GunRead` |
| `GunObjects` | what the parts that take what is put promise | the same, with `GunWalk`, `GunValid` and `GunText` |
| `GunParts` | | the parts by name, and which one a behaviour is about |
| `MC*` | the instances that TLC checks | constants only; `MCGun` extends `GunPeer`, `GunNetwork`, `GunListeners` and `GunObjects` and adds the two parts that are only checked |
| `*Proofs` | theorems and proofs | |

Definitions whose comment begins with *Mutant* are faulty variants of the definition after
them; no specification uses them. They document what each property is sensitive to.

Abstractions, throughout: an actor's address, a message id, a topic, a checksum, a value
is a model value or member of a small set. A send is the arrival in the mailbox (mailboxes
are unbounded and ordered, so nothing is lost but what is sent to an ended actor).

*Router.* `out.copies` counts the sends of the handler run last; which mailbox they are in
afterwards is not kept. Storage adapters never send to the router (their replies go
straight to the requester). The random sample of subscribers (`choose_multiple`) and the
loop that draws known peers with replacement are nondeterministic: any set the draws can
produce. `SeenCache`'s `AcceptPut`, `AcceptGet` and `AcceptReply` are the parts of the
handlers that touch the caches; `RouterHistory!ImplementsSeenCache` checks that the handlers
do touch them like this.

*MemoryStorage.* The network between replicas is the choice of which put of `Puts` a
replica handles next: any order, any number of times. A restart empties the store.

*SledStorage.* Data is told apart by timestamp and size; `Warmth` stands for the formula of
`update_priority` and the MC module gives it the formula's values for the sizes used. An
operation on the database is atomic (sled's trees are thread-safe), everything between two
operations is local to one task. `Restart` may come at any time and keeps the whole
database: losing an unflushed suffix is the same as restarting earlier. `COUNTER` starts
from 0 again. The order of children within a message (that of a `BTreeMap`) is left open.
Records in the old format that `open_child` migrates are left out, and so are I/O errors.

*Browser peer.* A page has one thread, so an action is what runs from the event loop without
a return to it: a turn, a timer, an event of a socket, a call of the application. (In
`GunMesh`, `hi` is an action for each thing it asks and one for the queue; nothing else
happens in between.) Where the code counts (9 entries a turn, 66 errors, batches of `pack`)
the number is a constant. Time is a counter; timers that take equally long end in the order
in which they were set. A soul, a key, a text are members of small sets, except in `GunText`,
where a text is a sequence of codes. The parts are separate modules, because each keeps its
state to itself and the calls between them are few: `GunRead` takes of `put` and `chain.put`
when a batch begins and ends, `GunLink` of `put` that values arrive, `GunWalk` of finding
souls that they come in any order. `GunPeer`, `GunNetwork`, `GunListeners`, `GunObjects` and
`MCGun` hold an instance of each, `part` says which one a behaviour is about, and the
variables of the others stay as they are: TLC then checks sixteen small state spaces, not
their product. The first four are apart from `MCGun` because they leave their constants open,
for the proofs, and because a module with theorems can reach no `RECURSIVE` operator, and the
two parts that are only checked have some.

*GraphNode.* The lock is `std`'s; which of those that wait it lets in is left open. The read
guard of `get` is a temporary of an `if let` and lives to the end of its `else`.

*ActorTree.* `ActorContext::stop` is two steps (abort the tasks; signal and set the flag),
because the accept loop of a task may start actors in between; the signal loop itself holds
the lock that `start_actor` needs, so it is one step. Handling a message is not modelled
here: it changes nothing of the lifecycle.

## 3. What the runs show

A property in parentheses is a part of the one before it; the first part is often the type
invariant.

| run | bounds | shows |
|---|---|---|
| `seen_cache` | 3 get ids, 2 put ids, window 3, 7 messages | `CachesAreWindows`: deduplication is exactly a window on the last messages and the route table agrees with its queue; `NoEarlyRepeat`; `RepliesAreRoutable`: routes lead to the latest requester, and unless a get id has come back after its window, a remembered get has a route |
| `router` | 2 connections, a graph node, a server peer, storage, 2 topics, window 1, fan-out 2 | `PublicationSentOnce` (`AtMostOneCopy`, `PublicationNotEchoed`), `SubscriptionsKept` (`InterestKept`), `PublicationReachesInterested`, `RelayedToFew` (`GetReachesFew`, `FewStrangers`) |
| `router_history` | 2 connections, 2 gets, 4 puts, window 2, 5 messages | the router implements `SeenCache`; `ReplyReachesRequesterOnly`, `NoRepeatedAnswer`, `FreshReplyForwarded` |
| `memory_storage` | 2 replicas, 2 nodes, 2 children, 5 puts with ties | `NewestEverywhere` (`StoreHoldsNewest`, `ReplicasConverge`), `RepliesComplete`, and each replica implements `LwwStore` |
| `sled_store` | one node, two children, 5 messages, no limit | `PutsAreAccounted` (`SizeCountsPuts`, `OnlyCopiesAreUncounted`, `IndexPointsToChildren`) |
| `sled_evict` | a node of each class, limit below two values, 4 messages, one restart | implements `LwwStore`, `ClassesLeaveInOrder` |
| `actor_tree` | router, a server (TLS, no statistics) and a client manager with a connection each, a server with the default configuration, multicast | `StopFindsAll` (`ParentKnowsTheLiving`, `SweepReachesAll`), `OneEndIsLocal` (`OnlyConnectionsEnd`, `ListeningUntilSomeEnd`), and under fairness `StopCascades` |

The run `browser_peer` checks the parts of `gun.js`. A property of `MCGun` puts together
what is stated, in pieces, in the module of the part (those of `GunPeer`, `GunNetwork`,
`GunListeners` and `GunObjects` are proved, too):

| part and property | bounds | pieces |
|---|---|---|
| clock: `ClockStatesAreUnique` | 3 fractions, times up to 3, 5 calls, the clock may be set back | `StatesIncrease`, `NotAheadOfTime` |
| events: `EventsReachListeners` | 3 listeners, each on and off or asking, 2 listener objects, one event at a time | `ListIsLive`, `EventReachesAll`, `ExpiredIsSilent` |
| turn: `TurnForgetsNobody`, `TurnListsEnd` | 2 tasks, a list of 3 items in batches of 2, one that throws, 5 turns | `RunsInOrder`, `NobodyForgotten`, `EndsOnce`, and under fairness `ListsEnd` |
| put: `PutLatestIsKept`, `PutAnswersAreTrue` | 3 messages for 3 keys: two that tie, one from the future, an answer that puts a key back to an older state or, in a tie, a lesser value, with an invalid entry; one whose last entry is invalid; a failure, reload or off | `LatestWins`, `OnlyAnswersRollBack`, `OkMeansStored`, `Once`, `InvalidIsNotRelayed`, `WritesAreAnswered` |
| mesh: `MeshKeepsMessages`, `MeshComesBack` | 3 messages, some of them asks of a peer that has come back, batches of 2, 3 sockets, 2 retries, one timer that finds the page hidden | `NothingVanishes`, `SentInOrder`, `OneSocket`, and under fairness `ComesBack` |
| wire: `WireReachesAll` | 4 peers in a diamond with a chord, whose ends do not name each other (lists are cut), one asks, one writes, peers hold different versions, messages in any order and twice | `WriteReachesAll`, `LatestIsTaken`, `TakenOnce` |
| dup: `DupKnowsTheRecent` | 2 ids, age 2, times up to 7 | `ForgetsStale`, `KeepsFresh` |
| read: `ReadWaitsForWrites` | 2 callbacks, 3 writes, 2 of them local | `NobodyWaitsForever`, `BatchesAreKept`, `NoReadWhileWrite` |
| link: `LinkHearsTheGraph` | 2 nodes that link to 2 others, 3 listeners, 4 writes | `HearsTheGraph` |
| walk: `WalkSendsTheObject` | 4 objects in 3 shapes: shared parts, cycles, an invalid value | `SentIsWhole`, and under fairness `PutEnds` |
| once: `OnceIsOnce` | a chain and 2 that it echoes, 4 messages | `CalledOnce`, `CalledInTheEnd`, `NothingOnlyIfNothing` |
| soul: `SoulToldToAll` | 2 callers, 2 peers that come and go, 2 answers | `ToldOnce`, `NobodyWaitsInTheEnd`, `NothingIfNobodyHas` |
| resync: `ResyncAskedWhenBack` | `lack` 4, times up to 12, 3 byes | `AskedWhenBack` |
| text: `TextAgrees` | 15 texts, 256 LEXes, 48 objects, hashes of 8 bits, 2 codes a turn | `MatchesTheLex`, `HashIsOfTheWhole`, `OrderDoesNotMatter` |
| valid: `ValidDataSurvives` | every kind of value, objects of up to 3 entries in any order | `Survives`, `OldAgrees` |
| graph: `GraphIsTheObject` | 3 objects in all 216 ways to refer to each other | `IfyIsWhole`, `RoundTrip`, `CyclesAreEndless` |

Several of these properties hold only with the exceptions that their comments name, and the
exceptions are what a reader should know of: an answer to an ask, a reload or an `off` lets
older data replace newer (`OnlyAnswersRollBack`), and an answer also lets the lesser of two
values with one state replace the greater (`LatestWins`); an invalid *last* entry goes
unnoticed (`InvalidIsNotRelayed`); besides the answer that is made when all entries are
stored, each acknowledgement with an error is an answer by itself, also before the walk over
the entries ends, and an ok may follow it (`Once`; gun.js:286, 296, 400); a queue longer than
one turn is overtaken by newer messages, and any queue by what `hi` asks of a peer that has
come back (`SentInOrder`; gun.js:1586, 1629-1636); where a peer has more neighbours than the
seven it names (gun.js:1523-1526) and one of them names it and not the other way round, an
answer can be lost (`LatestIsTaken` speaks of networks where it is mutual); retries that are
used up are not given back (`MeshComesBack`); the timer of an earlier `bye` cancels asking
again after a later one (`ResyncAskedWhenBack`); a peer that leaves can leave callers waiting
(`NobodyWaitsInTheEnd`); parts with one soul lose data (`SentIsWhole`, `IfyIsWhole`);
`-Infinity` becomes a deletion (`Survives`).

Why these bounds are enough: the windows are small enough that ids are forgotten and come
back within the run (the route table falls out of step with the set only after a second
acceptance, which 7 messages allow); with a fan-out of 2 there are more actors to pass a
message on to than it allows; the sled runs have enough messages to store, refile, read and
evict the same child, and the restart reuses ids; the actor tree has every kind of parent.
In the browser peer, lists are longer than a batch, there are two of everything that can get
into each other's way (messages, listeners, sockets, callers), times go past every timer, and
the diamond is the smallest network with two ways round.

Runs that find a statement of the repository violated:

| run | statement | what happens |
|---|---|---|
| `seen_cache_routes` | `utils.rs:51`, the map is "Used to record last seen message IDs" | a key inserted again keeps its old place in the queue, so a get accepted for the second time can lose its route while its id is still remembered: replies to it are dropped |
| `sled_replies` | `sled_storage.rs:267`, "reply with all children of this node" | reading a child stores a copy of it under the node's own id, which later replies include |
| `sled_spin` | `main.rs:103` | the eviction loop never ends when the index runs empty first |
| `graph_node_get` | `node.rs:216`, "Return a child Node corresponding to the given key" | a `get` of a key without a child waits for the write lock of the map whose read lock it holds, and does not return |

Seen while modelling, and not made into a run: a publication is also relayed to random known
peers that never asked for its topic (`README.md:55`, "only relayed to relevant peers";
`FewStrangers` bounds how many); actors that `subscribe_to_everything` receive no replies
(`ReplyReachesRequesterOnly`); a child that is being refiled is missing from the index for a
moment, and data of a higher class may be evicted in its place; a child rewritten while it is
being evicted stays stored, unindexed and not counted, and so does the copy that a get leaves
under a node's own id; after a restart ids begin anew and the index entries of new children
overwrite those of old ones, which eviction then does not find; reading makes signed data
warmer, so that from ten on (data of 8 bytes opened 82 times) it stays longer than the user's
own (`ClassesLeaveInOrder` names this). With the default configuration the websocket server
keeps statistics and calls `get` in `pre_start` (`ws_server.rs:151-153`), which does not
return (`graph_node_get`): such a server accepts no websocket and sees no stop, and keeps its
runtime thread.

An answer can be lost like this: 1-2, 2-3, 2-4 and 3-4 are connected, and 2 has so many other
neighbours that it names 1 and 4, but not 3. A request of 1 goes by 2 to 4, from there to 3,
which 4 has not heard named, before that of 2 comes to 3. 3 answers to 4 and names 2, so 4 does
not hand the answer on to 2 (gun.js:1486), where it should go on to 1.

Fairness. `sled_spin` assumes that the actor and the eviction task each keep being scheduled
(`WF` on each task's next step): tokio polls every ready task, on a multi-threaded runtime
even while another spins. Nothing is assumed of the environment: no message need ever arrive.
`StopCascades` assumes that every spawned task is polled, that `select!` (which polls ready
branches in random order) does not pass over the stop branch for ever, and that `pre_start`
returns except in the client manager, whose `pre_start` loops for ever, and in a server that
keeps statistics, which hangs in `get` (`Stuck`; what is below them is not promised to end);
connections and calls of `stop` are up to the environment. `GetReturns` is refuted even
though the lock is taken to be fair to everybody, which is more than `std` promises. In the
browser, turns and timers that are set are run by the event loop (`TurnListsEnd`,
`MeshComesBack`); a socket opens or closes at some time, and a hidden page is shown again
(`MeshComesBack`); every part's soul that is asked for is answered, at least by
`localStorage` (`PutEnds`). Messages, asks and calls of the application need not come.

## 4. What is proved

Proved by TLAPS for all values of the constants (subject to the named assumptions of the
modules, which TLC evaluates on every run):

* `SeenCacheProofs`: what insertion into the bounded containers keeps, evicts and bounds, and
  all invariants of the run `seen_cache`, and their parts. The inductive invariant is
  `TypeOK` with `SeenIsTheRecentWindow` and `RoutesConsistent` (the caches as functions of
  the history), from which `NoEarlyRepeat` follows by counting positions in the window;
  `RouteIsLatestRequester` is inductive over it because an acceptance always overwrites the
  route. `FreshGetsHaveRoutes` needs the order of the two queues: while no get has been
  accepted twice, the routes' queue is a subsequence of the set's.
* `MemoryStorageProofs`: all properties of the run `memory_storage`, and their parts. `TypeOK` and
  `StoreHoldsNewest` are inductive together: what merging does to one child of one node
  (`SavedAt`) is set against the writes the put adds to that child's register (`WritesAt`),
  and the larger timestamp wins in both. Convergence follows at once, as two stores then
  hold the maximum of one set; complete replies and the refinement need the invariant at
  the moment a get reads the store.
* `ActorTreeProofs`: all invariants of the run `actor_tree`, for any tree. They rest on
  its structure: child tasks run only after `pre_start`, an actor's parent was started
  before it, a connection's context signals only itself. With it `ParentKnowsTheLiving` is
  inductive, `SweepReachesAll` is inductive over that, and the invariants about what ends
  follow from where a signal can come from: before the application stops, only a
  connection whose receive task has ended is signalled or stopping (`EndsAreCaused`).
* `RouterProofs`: all invariants of the run `router`. `TypeOK` and `InterestKept` are
  inductive; the others speak of the message handled last and follow from the shape of its
  *waves*, the loops that send it: the waves of a publication are disjoint and leave out the
  source (`SubscriberWaves`, `DeliveriesDisjoint`), and every subscriber is in the wave of the
  first of the put's topics it is subscribed to (`SubscribersCovered`), which with
  `InterestKept` gives `PublicationReachesInterested`. `RelayedToFew` counts: what each loop
  adds is bounded by what the loops before it have left of the fan-out, and nobody is
  subscribed who has not asked (`SubscribersAsked`, inductive).
  Of the run `router_history`, too, all properties are proved. That the router
  implements `SeenCache` is proved handler by handler (`StepRefines`); with it the invariants
  of `SeenCacheProofs` hold of the router, and `ReplyReachesRequesterOnly` and
  `FreshReplyForwarded` follow from them where a reply looks up its route. For
  `NoRepeatedAnswer` (`NoRepetition`) the route's `last_reply_checksum` is shown to be the last
  of the answers for as long as the route is there. Hypothesis: gets with one id have
  one checksum (`GetsDiffer`; ids are random, `message.rs:27`, and a get is passed on as it is).
* `SledStorageProofs`: all properties of the runs `sled_store` and `sled_evict`, and
  `PublicLeavesFirst`, which needs less. `TypeInv` says in what shape each of the steps of a
  handler and of the eviction task finds the database, whatever the others did since the step
  before; it is inductive. On it rest `Bands` (a priority in the index lies in the band of
  its node's class, or above it by what reading has warmed it), `LwwInv` (what is stored is
  the newest received since the last eviction, and what a handler holds in its hands is not
  older), and `Books` (the size is the sum of the children that puts have stored, what is
  stored beside them is a copy that a get has left, with what the handler is about to do
  taken into account; sums over finite functions are reasoned about by the least set for
  which a claim fails). Hypotheses: `WarmthIsNat` (`update_priority` gives natural numbers,
  as large as it may); for the refinement and the bookkeeping `NoChildNamedLikeNode` (reading
  writes back under the node's id, see `sled_replies`, which overwrites a child of that
  name); for the bookkeeping no limit and no restarts, as in its run (an eviction that meets
  a rewriting leaves data uncounted).
* `GunPeerProofs`: of the browser peer, for each part in `GunPeer` the promise that the run
  checks as a theorem `Part!Spec => promise`, for all values of the part's constants.
  `ClockCorrect`: fractions stay below the next millisecond while there are no more than `D`.
  `DupCorrect`: an id under a drop in turns is either still to be looked at or fresh.
  `ResyncCorrect`: while a peer is remembered, the timer of its last bye has not ended.
  `PutCorrect`: each entry that was walked is in the graph, or something above it, or is put
  off, or its key was rolled back (`PutHas`), kept through walks of any length.
  `TurnCorrect`: what has run and what is queued is, in order, what was asked for.
  `SoulCorrect`: the answers counted are the peers less those that have yet to answer.
  `OnceCorrect`: a timer that finds nothing was set for nothing (`OnceKnows`), the chains done
  with are those called back (`OnceTells`), and whoever has heard waits for a timer or a link,
  or was called (`OnceEnds`); while a link's node is heard of by one chain after the other,
  these hold except for those that have yet to hear.
  `PutAnswersCorrect`: the acknowledgements a message has asked for are those it has got, those
  that wait for the disk and those on their way, so `back` answers it once, when the last is
  in; the answers beside it are counted where an acknowledgement with an error is made; an entry
  that was taken and is not on disk has one that still waits, or there was an error since
  (`PutKnown`). `GunPut` and `GunOnce` walk by recursive functions: that one exists, and what it
  does step by step, is proved from `LeastNatural` (every set of naturals that is not empty has
  a least element).
* `GunNetworkProofs`: the same for the parts in `GunNetwork`.
  `WireCorrect`, for every connected network of finitely many peers, each with any number of
  neighbours, of which it names any seven at most; what it says of answers, for those where
  whoever is named names the other (`Mutual`). Who is left out of
  relaying has the message or will hear it (`WireFloods`), so a peer next to one that has it is
  never forgotten. Requests leave a tree, in which each peer knows how far it is from the asker
  (`WireTree`); an answer goes up the tree and has not been where it goes to (`WireAnswers`); a
  peer that knows a hash has passed an answer with it on, or it is on its way (`WireSeen`), so
  of the peers that know a hash which the asker does not know none is closest to it
  (`WireArrives`).
  `MeshCorrect`, for any number of messages, sockets and retries and any size of batches and
  turns. What was sent, what is queued, the list that is being sent, the batch and what other
  turns have left stand in one line (`MeshAll`), which is kept under a relation that is a
  parameter: *differs*, always, gives that nothing is there twice; *is less* gives the order,
  unless `hi` has given up its turn, or has asked something before it sent a queue. Beside
  it, books are kept of all that was said (`MeshBooks`), and of the sockets only the peer's
  own is live unless one was opened aside (`MeshSockets`).
* `GunListenersProofs`: the same for the parts in `GunListeners` and `GunObjects`.
  `EventsCorrect`: as long as no listener is unlinked twice, the links of an object are those of
  the sequence of its live listeners, both ways (`EventsLists`); taking one out or adding one
  changes the sequence as it changes the links (`EventsUnlinked`, `EventsLinked`). A listener
  that was turned off keeps its link onwards, also when what it leads to is turned off later:
  links lead to younger listeners of the same object (`EventsAges`, `EventsShape`), and whoever
  is still to be called lies ahead along them (`EventsAhead`), wherever the event is.
  `ReadCorrect`: a listener knows all there is and does not wait, or is in the list of a write
  that is being walked, or was put off by a local write that is under way or has failed
  (`ReadKnows`); a write that ends goes back to the list of the one it began in, which is right
  as long as two writes are under way at most.
  `ValidCorrect`: the older check of links goes through an object's entries; the first may be
  an id, and what comes next takes it back (`ValidPlaces`).
  `WalkCorrect`: each key of a part seen is still to be walked, or the node has its value
  (`WalkKeysSound`); a part has keys left exactly when it is on the list of what is to be walked
  (`WalkTodoSound`), and has no soul exactly when it is waited for (`WalkSouls`), so when the
  list is empty and nobody is waited for, the graph is whole. This is the safety part of
  `WalkSendsTheObject`.
  `TextCorrect`: a hash differs from the polynomial without overflow by a multiple of the number
  of hashes (`TextAlike`), and cutting to 32 bits (`|=`) keeps it so, so neither overflows nor the
  ends of the pieces matter, for any number of hashes and size of pieces; the entries of an
  object can be sorted in one way only (`TextRanks`, `TextOneOrder`).

The assumptions on constants say what the code says of them (a batch, an age are positive,
sets of peers and of chains are finite); none bounds how many peers, chains, messages or
sockets there are. The bound of seven in `GunWire` is that of the list that `raw` makes
(`ListsAreCut`, gun.js:1523-1526), not one on the neighbours of a peer.

Model-checked only: of the browser peer, links between chains and the old graph helpers
(`LinkHearsTheGraph`, `GraphIsTheObject`), which are about what recursion computes from data:
`GunGraph` and `GunLink` have `RECURSIVE` operators. Liveness (`StopCascades`,
`TurnListsEnd`, `MeshComesBack`, `PutEnds` in `WalkSendsTheObject`) stays with TLC: the
prover does not handle fairness. `GetReturns`, `sled_spin` and the other runs that find a
violation have nothing to prove.

## 5. What is not modelled, and the plan

Not modelled: parsing, signature and hash checks (`message.rs`: pure functions of one
message), the command line, TLS, the multicast socket; of the Rust adapters only the
lifecycle (`ActorTree`), and of a graph node's broadcast channels only that a value is sent:
that a receiver that lags makes `once` panic (`node.rs:211`) is the whole of that case.

Of `gun.js`: `map`, `set`, `opt`, `back` and `on` with a tag, whose effect is that of the
chain operations they call; `off` beyond what it does to the graph; the handshake of peer
ids; middleware adapters; deprecated helpers of one line. What the application does to an
object while it is being put has no defined outcome.

Of the other files under `assets`: the theme's scripts (`black-dashboard.js`,
`bootstrap-notify.js`) are not loaded by the page, and `iris` is the minified build of
another project; both are static files to this one.

Plan, in order:

1. (done) `BoundedCollections`, `SeenCache`, `Router`, `RouterHistory`.
2. (done) `LwwStore`, `MemoryStorage`, `SledStorage`.
3. (done) `ActorTree`.
4. (done) `GraphNode`, the browser peer.
5. Proofs: (done) `SeenCache`, `Router`, `RouterHistory`, `MemoryStorage`, `SledStorage`,
   `ActorTree`, and of the browser peer the clock, events, turns, message memory, writes, the
   mesh, the wire, reading during writes, walks over objects, `once`, souls, asking again,
   values and texts; then links between chains, whose recursion would have to become functions.
6. `Network`: several routers joined by lossy connections: every get is answered, a
   publication reaches every subscriber in a connected network, floods end.
7. `OutgoingWebsockets`: the client manager's `pre_start` loop, its mailbox.
8. `MessageParse`: which messages are accepted, in which class (public, signed, content
   addressed).
