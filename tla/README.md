# A TLA+ verification of QLever's concurrent core

QLever is a SPARQL engine. Its HTTP server runs many queries at the same time
on a thread pool, runs updates on a single update thread, and lets all of them
share a result cache, an in-memory set of changed triples, and the websocket
channels on which clients follow a running query. Index building parses its
input on many threads. The operators of a query pass tables to each other
block by block. This directory specifies these parts in TLA+, checks them with
TLC on small instances and proves the most important properties with TLAPS for
instances of any size.

Paths below are relative to `src/src/`. `PROJECT.json` has the exact source
lines of every definition (`map`), the places where the code is hard to test
and the properties that watch them (`hazards`), the mutants that show that each
property can be broken by a plausible bug, and the list of all theorems.

## The parts of the system and how they interact

| Part | Source | What is hard about it |
|---|---|---|
| FlexibleCache | `util/Cache.h` | counters that are maintained incrementally, limits lowered at run time, pinned entries above the limit |
| ConcurrentCache | `util/ConcurrentCache.h` | threads that wait for a computation that fails, is not cacheable, or is cleared from the cache in between |
| Located triples | `index/LocatedTriples.*` | merging updates with blocks on disk; metadata that has to cover both |
| DeltaTriples and their manager | `index/DeltaTriples.*` | one update touches all permutations step by step and may be cancelled; a crash between any two steps; readers see snapshots |
| Update requests | `engine/Server.cpp`, `engine/ExecuteUpdate.cpp` | chained updates, one pool thread, a cache whose keys contain the snapshot index |
| CancellationHandle | `util/CancellationHandle.*` | compare-exchange loops of several threads against a watchdog |
| Status of queries | `util/http/websocket/*` | weak pointers, reused ids, late cleanup calls, wake-ups between strands |
| Queues | `util/ThreadSafeQueue.h` | condition variables, order of indices, early destruction |
| TaskQueue and parallel parsers | `util/TaskQueue.h`, `parser/RdfParser.*` | tasks that finish the queue they run in, errors, destruction before the end |
| Lazy joins | `util/JoinAlgorithms/JoinAlgorithms.h`, `engine/AddCombinedRowToTable.h`, `engine/IndexScan.cpp` | equal Ids across blocks, UNDEF, buffered rows of blocks that are released, two coroutines that share one state |

A query takes a snapshot of the delta triples, asks the ConcurrentCache for the
result of each operation, computes missing results by reading blocks of a
permutation (merged with its located triples) and by joining them lazily. Its
CancellationHandle is checked in all of that. A MessageSender announces its
progress through the QueryHub to websocket sessions, which can cancel it. An
update request runs on the update thread: each of its updates is planned on the
snapshot its predecessor made, modifies the delta triples, writes them to disk
and publishes a new snapshot.

## The modules

One module per component. A module that uses another one EXTENDS it, so the
composition reads as a chain:

| Modules | Role |
|---|---|
| `FlexibleCache` | the methods of the class as operators on a record with its members |
| `FlexibleCacheMachine` | one cache and any sequence of calls |
| `ConcurrentCache` | the cache, the map of computations in progress and the threads that share both |
| `LocatedTriples`, `LocatedTriplesPerBlock` | triples located in the blocks of one permutation, merging, augmented metadata, and the life of one such object |
| `DeltaTriples` | the two maps and the located triples of all permutations: what inserting and deleting does, step by step |
| `DeltaTriplesManager` | the lock, the threads inside `modify`, the file, the snapshot, crash and restart |
| `UpdateStore` | the abstract specification: a durable and a visible set of changes, and atomic updates |
| `UpdateRequests` | requests, the pool with one thread, queries and the cache on top of the manager |
| `CancellationHandle` | the atomic state, the watchdog and the clients |
| `QueryToSocketDistributor`, `QueryHub`, `MessageSender`, `WebSocketSession`, `QueryStatus` | a distributor; the hub; operations that send; sessions that receive; all together |
| `ThreadSafeQueue`, `OrderedThreadSafeQueue`, `QueueManager` | both queues at the level of mutexes, waits and notifications; the producers and the generator of `queueManager` |
| `SequentialGenerator` | the abstract specification of `queueManager` |
| `BlockingQueue`, `TaskQueue` | a queue whose methods are atomic, and the pool on top of it |
| `RdfParallelParser`, `RdfMultifileParser` | the parsers on top of `TaskQueue` |
| `PrefilteredTables`, `BlockZipperJoin` | the inputs of a lazy join (plain, or a prefiltered IndexScan with its two coroutines), and the join |
| `MC*` | instances for TLC: the values of constants that a cfg cannot write, and for the join the set of inputs |
| `*Proof` | theorems and proofs about the module of that name; `QueryWakeupProof` goes on from `QueryStatusProof` with the sessions that wait, `QueueSequentialProof` from `QueueManagerProof` with the refinement of `SequentialGenerator`, and `DeltaTriplesProof` is about the manager |

### State and actions

**FlexibleCache.** `cache` has the members `entries` (the non-pinned entries in
the order of their last use), `pinned`, the two size counters and the three
limits. The priority queue behind the entries is reduced to that order. A call
that throws has a status that says why; one of them is `underflow`, the
exception of a MemorySize that would become negative. An action of
`FlexibleCacheMachine` is one method; `last` and `recency` record the last call
and the order of use for the properties.

**ConcurrentCache.** A step is what happens under one lock of
`_cacheAndInProgressMap` or under the mutex of one ResultInProgress.
`inProgress` and `pinRequested` are the map, `ripStatus` the ResultInProgress
objects (an object is reused when nobody refers to it), `pc`, `key`, `pinned`,
`handle`, `outcome` the call of each thread. `computeFunction()` succeeds with
a value that may be cached, succeeds with one that may not (a lazy result), or
throws. A lazy result may be stored after it was consumed, by
`tryInsertIfNotPresent`. The environment clears the cache, makes room and
changes the limits at any moment.

**Located triples.** A triple is a rank, a block is an increasing sequence of
ranks. `DoAdd`, `DoErase` and `Clear` are the calls that DeltaTriples makes,
each with the refresh of the metadata that ends it. `ReadBlock` is the merge of
a block with its updates, and `Scan` reads all blocks.

**DeltaTriples and DeltaTriplesManager.** `located[p]` maps a triple to
`"insert"`, `"delete"` or `"none"` in permutation p, `augmented[p]` is what its
metadata accounts for. `modify` is a sequence of steps per thread: erase from
the inverse map, locate and add in each permutation, register the handles,
write and rename the file, publish. `Cancel` is the exception of a
cancellation check between the permutations, `WriteFails` a failing file
operation; both, and the failing check in `add`, leave `modify` (`Throw`) with
what was done so far. `Crash` loses everything except the files;
`Restart` reads the file. Every blank node in it gets a new id of the process,
one of the index too, because the serializer does not tell them apart
(`NewIds`, an injection into `LocalBlank`); all other ids are kept. The
snapshots that are made while the index is loaded (`setOriginalMetadata`) are
part of Init and Restart.

**UpdateRequests.** `stage` says where a request is: it waits for the pool, has
the pool thread, or is planned. `planned` is the index of the snapshot it is
planned on. A query holds the snapshot it began with (`running`) and reads and
fills `cache`, whose entries are keyed by scan and snapshot index.

**CancellationHandle.** A load and a compare-exchange are separate steps; a
failing `compare_exchange_weak` (`PleaseFails`, `SetFails`) reloads, and may
be spurious. The watchdog loads, acts
and waits. `report` and `cancelDone` are history for the properties.

**QueryStatus.** `refs` are the shared pointers to a distributor, `strand` its
posted handlers, `waiting` the sessions on its timer, `hub` the map with weak
pointers, `registry` the QueryRegistry. An operation registers, constructs its
sender, sends updates, signals its end in three steps (`SetFinished`,
`LeaveHub`, `PostWake`) and releases everything in the order of the
destructors. A session has the two coroutines of the code. The client may send
a command or vanish at every await.

**Queues.** `ThreadSafeQueue` and `OrderedThreadSafeQueue` split each method at
its lock, its wait and its notification; `at` and `oat` say where a thread is.
A thread that waits is woken by a notification or spuriously. `QueueManager`
adds the producers (`makeQueueTask`) and the generator with its cleanup
(`QueueFinisher`, `Join`), for both kinds of queue (`ordered`).

**Parsers.** `TaskQueue` has the tasks, the two flags of `finish` and the
workers that have ended. `finish` is three steps, since workers, the feeder and
the destructor may all be inside it. In both parsers the feeder, the workers
and the user of the parser (`Main`) are threads. `Main` reads until the end or
an exception, or leaves early, and then runs the destructor in the order of
the members.

**Lazy joins.** `input[s]` are the tables of a side, `it` its iterator,
`currentBlocks` and `undefBlocks` the members of a JoinSide, `rowAdder` the
AddCombinedRowToIdTable with the tables set last, the buffered pairs and the
result. A step is a loop round or a function of `BlockZipperJoinImpl` (`pc`).
A row is a pair of table and position, so the result is compared row by row.
For a prefiltered scan, `shared` and `generator` are the state of
`IndexScan::prefilterTables` and its two coroutines, which run whenever the
join advances an iterator.

## The runs

Deadlock is checked unless noted. The liveness properties use the `FairSpec` of
their module.

| Run | Instance | States | Shows |
|---|---|---|---|
| `cache_ops` | 4 keys of sizes 0, 1, 1, 2; limits 1, 2, 4 | 17,504 | the counters are exact (`Accounting`), the limits respected (`LimitsRespected`), eviction is LRU (`EvictionIsLRU`) |
| `concurrent_cache` | 2 threads, 1 key, limits 0, 1, all outcomes | 289,084 | a computing thread finds its own registration (`OwnRegistration`), no thread waits for nobody (`NoOrphanedWaiter`), no registration is left behind (`NoLeakedRegistration`), a pinned call has pinned (`PinnedAfterCall`), every call returns (`EveryCallReturns`) |
| `located_triples` | 5 ranks in 3 graphs, all layouts; 2 graphs stored per block | 29,646 | scans return the right rows (`ScanIsCorrect`), borders contain them (`BordersAreSound`), graph information is complete (`GraphInfoIsComplete`) |
| `delta_triples` | 2 threads, 3 permutations, 3 snapshots, 4 triples: one without blank nodes, one with a blank node of the index, two with blank nodes of the process | 571,008 | `add` never finds a triple (`AddedTriplesAreNew`), permutations of a snapshot agree (`SnapshotIsWhole`), a restart restores the file up to new ids for blank nodes (`RestartRestores`), updates are atomic and durable for the triples without blank nodes (`AtomicAndDurable`, the refinement of `UpdateStore`) |
| `update_requests` | 2 requests of up to 2 updates, 2 queries, 1 triple, 1 permutation; cancellations, write errors, crashes | 1,352,484 | handles never dangle (`HandlesAreValid`), no query finds a stale result (`CachedResultsAreCurrent`), every update of a chain sees its predecessors (`PlannedOnCurrentSnapshot`) |
| `cancellation` | 2 clients and the watchdog | 3,793 | a cancellation takes effect (`CancelTakesEffect`) and stays (`CancelSticky`), the watchdog ends (`WatchDogEnds`), calls return (`CallsReturn`) |
| `query_status` | 2 operations with the same id, 2 updates each, 1 session, 3 distributors | 244,513 | one sender (`OneSenderPerDistributor`), the hub finds a running operation (`RunningIsFound`), updates of one operation in order and without gaps (`ReceivedInOrder`), sessions are closed only at the end (`ClosesOnlyAtTheEnd`) and do end (`SessionsEnd`), the hub forgets (`HubForgets`) |
| `queue_manager` | 2 producers, 3 values, queue of size 1, ordered and not | 276,163 | order (`YieldedInOrder`), no lost wakeup (`NoLostWakeup`), all threads end however the generator is left (`EverythingEnds`), refinement of `SequentialGenerator` (`ImplementsSequential`) |
| `parallel_parser` | 2 workers, 3 batches, queues of size 1, any bad batches, a failing read | 1,062,688 | the end means that everything was parsed (`EndMeansEverything`), the first error is reported (`FirstErrorReported`), a parser that was used up can be destroyed (`UsedUpParserIsDestroyed`) |
| `multifile_parser` | 2 workers, 3 files of 2 batches, queues of size 1 | 298,870 | batches of a file in order and up to its error (`FilesInOrder`), `UsedUpParserIsDestroyed` |
| `multifile_end` | the same with 2 files | violated | `EndMeansEverything` does not hold for `RdfMultifileParser` (see the findings below) |
| `lazy_join` | up to 3 rows in up to 3 tables per side, Ids UNDEF, 1, 2; runs of one Id in up to 5 tables; FETCH_BLOCKS 1 | 1,270,354 | the result is the join (`JoinIsCorrect`), a long run of one Id on one side is streamed and never buffered as a whole (`LongRunsAreStreamed`), prefiltered scans read only what can match, in order (`OnlyNeededBlocks`) |

Deadlock is not checked in four runs. A handle, a hub and its sessions may
simply be at rest when everybody is done (`cancellation`, `query_status`). A
parser that is destroyed before it was used up can hang (`parallel_parser`,
`multifile_parser`; see below), which is a deadlock of the code;
`UsedUpParserIsDestroyed` covers the other executions. The check says little
where the environment can always do something: a crash in `delta_triples` and
`update_requests`, a call that clears the cache in `concurrent_cache`. For the
threads of the cache `EveryCallReturns` says that nobody waits for ever. In
`queue_manager` deadlock freedom follows from `EverythingEnds`. In `lazy_join` it
says that the join ends: every round consumes something, and a failed `AD_CORRECTNESS_CHECK` would be a state without
a successor.

### Bounds, and why they are enough

* `cache_ops`: four values give one that is empty, two of equal size and one
  that needs two others evicted. The limits cover "fits exactly", "does not
  fit" and "everything fits".
* `concurrent_cache`: the protocol of a key does not involve other keys except
  through eviction, which the environment does by `DoMakeRoom` and the limits.
  Two threads and two ResultInProgress objects suffice for one to compute while
  another waits, gives up and starts again. The proofs cover any number of
  threads, keys and limits.
* `located_triples`: five ranks are enough for two blocks of two rows with
  gaps before, between and after them, and for a block with more graphs than
  are stored.
* `delta_triples`, `update_requests`: `MaxSnapshots` bounds the number of
  snapshots, hence of updates, `MaxChain` the updates of a request. One triple
  can be inserted, deleted and inserted again within them; three permutations
  give a first, a middle and a last one. `BlanksFit` bounds the triples with
  blank nodes that are inserted or deleted at a time by the ids in `LocalBlank`,
  which stand for the indices that a process can always allocate. Two of them
  are enough for two triples of the file to be mixed up. Threads and queries of
  `update_requests` are symmetric (only invariants are checked there). The
  proofs need no bound on triples, threads, permutations and chains.
* `query_status`: `MaxUpdates` bounds the updates of an operation. Three
  distributors are one for each operation and one that a session creates
  before the operation arrives. One id makes every reuse happen.
* `queue_manager`, parsers: queues of size one block as early as possible.
  `NumValues`, `NumBatches` and `NumFiles` exceed the number of threads, so that
  somebody waits for space while somebody else holds a value.
* `lazy_join`: `FETCH_BLOCKS` is 3 in the code. It is 1 here so that three
  tables suffice for a run of equal Ids that is longer than what is read at
  once. `MaxBlocks`, `MaxRows` and `MaxId` allow empty tables in all places, a
  run over all tables, and UNDEF followed by two different Ids. `MaxRun` gives
  runs in up to five tables, longer than `LongRunsAreStreamed` lets a side
  buffer when the other side has the Id in up to three; with `<` in place of
  `<=` the property is violated.

### Fairness

* `ConcurrentCache`: weak fairness of each thread inside a call. The operating
  system schedules it, `computeFunction()` ends and a lazy result is consumed.
  Nothing is assumed of calls that have not begun, nor of the environment.
* `CancellationHandle`: weak fairness of the watchdog (its wait has a timeout)
  and of a client inside a call; strong fairness of the successful
  compare-exchange, since `compare_exchange_weak` does not fail spuriously for
  ever.
* `QueryStatus`: weak fairness of the handlers on a strand (the io_context runs
  them), of destructors, of an operation that has begun to end, and of a
  session, whose I/O completes, if only with the error of a timeout that
  `acceptAndWait` sets. No operation has to end and
  no client has to send anything or go away.
* `QueueManager`: weak fairness of each thread inside the queue, of the
  producers (`producer()` returns) and of the generator, which is resumed or
  destroyed. Nothing is assumed of spurious wakeups: notifications alone have
  to suffice.
* `RdfParallelParser`: while some thread is not blocked, a thread runs
  (`ThreadStep`). More is not needed, since every thread takes finitely many
  steps; `Main` reads on, or leaves and destroys the parser.
* `RdfMultifileParser`: weak fairness of the feeder, of each worker and of
  `Main`.

`UpdateRequests`, `DeltaTriplesManager`, the located triples and the lazy join
have no liveness properties. An update may wait for a lock as long as another
one runs, and nothing in the code bounds that.

## The proofs

All theorems are checked by tlapm with Z3, Zenon and LS4. They hold for every
value of the constants that satisfies the named assumptions of the modules
(`NullAssumption`, `OutcomesAssumption`, `LimitsAssumption`,
`ManagerAssumption`, `RequestAssumption`, `DistributorAssumption`,
`HubAssumption`, `UpdatesAssumption`, `ThreadAssumption`, ...). These say that null values are
different from proper ones, that limits and bounds are natural numbers, and that
the threads of `QueueManager` are its consumer and its producers, of which there
are finitely many. TLC evaluates all of them.

**ConcurrentCacheProof** proves `TypeCorrect`, `RegistrationsAreOwn`,
`WaitersAreServed`, `RegistrationsEnd` and `PinnedCallsPin`: the four safety
properties of the run for any number of threads and keys. The inductive
invariant `IInv` is their conjunction with the shape of the cache and
`PinRequestsKept`, which says that a pin request of a waiting thread is still in
the map or has been served. Without it `PinnedAfterCall` is not inductive: the
computing thread pins on behalf of the waiting one, several steps before the
latter returns. `OwnRegistration` and `NoOrphanedWaiter` need each other, since
a waiter is served only by a thread that still finds its registration.
`ResultsAreComputedOnce` is about caches in which every result is suitable: no
result is computed twice at the same time, or while it is cached. Its
strengthening is `Once`. The module begins with the lemmas on the methods of
`FlexibleCache`: what an eviction, an insertion or a setter does to the set of
keys.

**DeltaTriplesProof** proves, with cancellations, failed writes and crashes
anywhere, that no triple is inserted and deleted at once (`MapsStayDisjoint`),
that the handles in the maps never dangle (`HandlesNeverDangle`), and that
modifications exclude each other (`ModificationsExclude`). `HandleInv` adds
`Progress`: during an addition the triples of `todo` are in neither map, and are
located with the right kind in all permutations up to `next`. That is what makes
the step correct that registers them. Without cancellations and failed writes
more is true: `WholeInv` says that a permutation holds exactly the triples of
the two maps and of the modification in progress (`NoLeftovers`), that the
metadata follows, and that the snapshot is whole. `AdditionsNeverFail` and
`SnapshotsAreWhole` follow.

**UpdateRequestsProof** first shows that every step of the server is a step of
the manager (`RequestsUseTheManager`), which transfers `HandleInv`. Then
`CacheIsNeverStale` follows from `CacheInv` (two snapshots or cached results
with the same index are the same, because all indices in use are below
`nextSnapshotIndex`), and `UpdatesSeeTheirPredecessors` from `PoolInv` (only
the request that has the pool thread is inside `modify`).
With `Persists` and no failures, `FileInv` relates the maps, both files and the
snapshot at every step of the write, for the triples without blank nodes
(`Named`). Nothing is assumed of the others: `NewIdsAreFresh` and `ReadIsExact`
say what becomes of them when the file is read. From `HandleInv`,
`WholeInv` and `FileInv` follow `RestartsRestore` and `ImplementsUpdateStore`:
every step of the manager is a step of `UpdateStore` or changes nothing of it.
The commit is the `Rename`, the publication is `UpdateSnapshot`, or a crash in
between, since a restart shows the file.

**CancellationHandleProof** proves that a cancellation is not lost
(`CancellationIsNotLost`) and final (`CancellationIsFinal`). `CancelTakesEffect`
is inductive together with the type invariant, whose last conjuncts say with
which values a compare-exchange is tried.

**QueryStatusProof** first proves `OneSender`, `RunningOperationIsFound` and
`NoDeadEntries` for any number of operations, sessions, distributors and ids.
`HubInv` adds who keeps a distributor alive (`Held`), until when the registry
names an operation (`Owned`), that an entry with a pointer has an active cleanup
call (`Entries`), and that an entry is marked as started only while its
operation runs (`Started`). The last one is why a second sender never meets the
contract check.

Its second part proves `UpdatesInOrder`: what a client has received is a
prefix of the updates of one operation. `ReadInv` says that a session has
written to its client exactly the first `nextIndex` elements of `data_`, and
`StreamInv` that `data_` followed by the updates that are still queued on the
strand are the updates of one operation in the order in which they were sent.
It needs `HubInv`, because two operations that shared a distributor could mix
their updates.

**QueryWakeupProof** proves `ClosedAtTheEnd`: a session closes its websocket by
itself only when the operation has signalled its end. `WakeInv` says that a
session waits at most once, that its continuation is posted at most once
(`WaitsOnce`, `ResumesOnce`), and that a posted continuation finds data, the
end, or a lost connection. Without "at most once" it is not inductive: the
second continuation would find the data already read.

**QueueManagerProof** proves `WakeupsArrive` and `OrderIsKept` for any number of
producers, values and any size of the queue. `CallInv` says where each thread
can be in the inner queue, the ordered queue and its own code (`Local`), and that
`numUnfinishedThreads` is the number of producers that have not counted
themselves down (`Counted`). Its last conjunct, `Wakeups`, is the counting of
`NoLostWakeup`: a step that adds or removes an element puts its own thread among
those that will notify, and a thread that notifies hands its place to the one it
wakes. One lemma (`StepKeeps`) covers all steps that move a single thread. It
leaves the counting to `WakeupsStep` and what the thread is doing to `Local`;
the notifications, which move two or all threads, have lemmas of their own.
For the order, `OrderInv` says that what was yielded, what the
consumer holds and what is in the queue are consecutive numbers (`Sequence`), and
that `nextIndex` is the next one, unless the holder of the mutex has already
counted and still pushes (`Turn`).

**QueueSequentialProof** proves `GeneratorIsSequential`: with the threads hidden,
the generator takes only steps of `SequentialGenerator`. Its invariant `EndInv`
adds to `CallInv` that no value is in two places (`Flow`), that none is missing
while the generator goes on and nobody has thrown (`Count`), and when the queue
may be finished (`Ended`, `Told`). The step from `Count` to the theorem is the
`nullopt` of `pop()`: the queue is finished and empty, so all producers have
left, no thread carries a value, and the number of values handed out is the
number of values yielded. `Count` needs `Ended` in turn, because a push that is
refused loses its value: without an exception this happens only after the end,
when no producer is left. `Woken` and the effects of the steps
(`InnerEffect`, `OrderedEffect`, `TaskEffect`, `GeneratorEffect`) say for one
thread at a time what a step does, so that the invariants are shown without
unfolding the actions again.

### Only model-checked

* Liveness under fairness, hence `EveryCallReturns`, `WatchDogEnds`,
  `CallsReturn`, `SessionsEnd`, `HubForgets`, `EverythingEnds`,
  `UsedUpParserIsDestroyed`: outside what the prover handles.
* `Accounting`, `LimitsRespected` and `EvictionIsLRU` (sums over sets of keys),
  the located triples and the lazy join (folds and recursion over sequences):
  they would need induction over data, which the installed provers cannot do.
* The safety properties of the parsers (`EndMeansEverything`,
  `FirstErrorReported`, `FilesInOrder`): these would be provable in the same way
  as those of the queue, but are not proved.

## Where the code and its comments disagree

One disagreement is a run of its own:

* **`RdfMultifileParser` can report the end too early** (`multifile_end`).
  `numActiveParsers_` counts only the files that the feeder has reached. A file
  that is parsed before the feeder counts the next one takes the counter from 1
  to 0, and `parseFile` finishes `finishedBatchQueue_`
  (`parser/RdfParser.cpp:1337`, "We are the last parser"). The batches of the
  other files are then refused and `getBatch` returns `nullopt`.

The following are stated as properties in the modules but belong to no run. To
see the counterexample, name the property in a copy of the cfg of that module.
All are met in sequences of legal calls.

| Property | What the comment says | What happens |
|---|---|---|
| `FlexibleCacheMachine!InsertThrowsOnlyIfPresent` | `util/Cache.h:154-156`: `insert` throws if the key is present; a value that is too big is ignored | it also throws an underflow error, when the pinned entries exceed a `_maxSize` that was lowered |
| `FlexibleCacheMachine!AtMostMaxNumEntries` | `util/Cache.h:206`: the maximum number of entries | a value of size 0 asks for no room, so there is one entry too many until the next insertion |
| `ConcurrentCache!SuccessIsNotAborted` | `util/ConcurrentCache.h:23-26`: waiting threads are told that the computation failed if it failed | `tryInsertIfNotPresent` stores the key while a thread computes it; the insertion then throws, and a success is reported as a failure to all who wait |
| `CancellationHandle!NoSecondReport` | `util/CancellationHandle.h:196-198`: a missed deadline is not reported a second time | a thread that loaded CHECK_WINDOW_MISSED keeps `windowMissed` while another one reports it and the watchdog asks for the next check |
| `CancellationHandle!MissedIsReported` | `util/CancellationHandle.h:221-222`: infrequent checks are logged | a thread that loaded WAITING_FOR_CHECK resets CHECK_WINDOW_MISSED in its second attempt without logging it |
| `QueryStatus!NothingMissed` | `QueryToSocketDistributor.h`: no more data "if all data has already been consumed" | `signalEnd` sets `finished_` while updates are still posted to the strand; a session that asks in between is closed without them |
| `QueryStatus!CancelsWhatItWatches` | `WebSocketSession.h`: the command cancels "the current query" | when an id is used again, a session that still watches the finished operation cancels the new one |
| `RdfParallelParser!MembersOutliveTasks` | the destructor "has to clean up all the parallel structures that might be still running" | a worker calls `finish`, whoever calls it next returns at once, and members are destroyed while tasks of the pool still use them |
| `RdfMultifileParser!QueueOutlivesFeeder` | the same comment | the feeder may still be about to push when the pool and the counter are gone |
| `RdfParallelParser!DestructorReturns`, `RdfMultifileParser!DestructorReturns` | the destructor works "especially when it is called before the parsing has finished" | it joins the pool first, whose threads wait for space in the queue of results, which it would finish next |
| `SnapshotIsWhole` under `SpecWithFailures` | `DeltaTriplesManager::modify`: a snapshot is never one "of an ongoing modification" | a cancelled update leaves its triples in some of the permutations; the next successful update publishes them |
| `AddedTriplesAreNew` under `SpecWithFailures` | `LocatedTriplesPerBlock::add`: the triples must not exist | the same leftovers make `add` fail when the triple is added again |
| `DeltaTriplesManager!IndexBlankRestored` | `DeltaTriples::readFromDisk` restores the delta triples | a blank node of the index gets a new id when the file is read, so the deletion of a triple that contains it is lost |

`TaskQueue::finish` "blocks until all tasks have been computed" only for its
first caller. A second call returns at once while tasks still run; this is
modelled (`FinishTest`) and behind the rows on the parsers.

The lazy join was checked on all inputs first. `Handled` in `MCBlockZipperJoin`
leaves out the following kinds, which `Kinds` brings back when it is given
`AnyOptional`, `AnyInput` or `AnyLimited`. UNDEF is 0, and a table is a sequence
of Ids.

* `AnyOptional`: in an OPTIONAL join with UNDEF on the left,
  `addRemainingUndefPairs` consumes the left iterator, and
  `fillWithAllFromLeft` no longer finds the rows that match nothing (left
  `<<<<0,2>>>>`, right empty). The comment in `fillBuffer` says that "we will
  add the remaining elements [...] later in the `fillWithAllFromLeft`
  function".
* `AnyOptional`: a run of equal Ids on the right that is longer than
  `FETCH_BLOCKS` tables and ends inside of a table: the last subrange is empty
  and the left row is added as unmatched although it matched (left `<<<<1>>>>`,
  right `<<<<1>>, <<1,2>>, <<>>>>`).
* `AnyInput`: an empty table before one with UNDEF ends
  `findFirstBlockWithoutUndef`, and an `AD_CORRECTNESS_CHECK` fails later, a
  deadlock of the model (left `<<<<>>, <<0>>>>`, right `<<<<0,1>>>>`).
* `AnyInput`: with UNDEF and an Id in more than `FETCH_BLOCKS` tables of one
  side, `BufferedRowsAreAlive` is violated: the pairs added by `joinWithUndefBlocks` after the loop of
  `joinBuffers` are still buffered when their table is released (left
  `<<<<0,1>>, <<1>>, <<>>>>`, right `<<<<1>>>>`).
  `AddCombinedRowToTable.h:181-184` says that rows are materialized "before
  deleting the old inputs".
* `AnyLimited`: an IndexScan with LIMIT or OFFSET (a subquery,
  `QueryPlanner.cpp:3153`) ignores the blocks it is asked for and returns all of
  them each time, so blocks are read that match nothing, and are repeated
  (`<<<<1>>, <<2>>>>` on both sides).
* With UNDEF on any side the result is not sorted, although
  `Join::resultSortedOn` and the join tests say so. `JoinIsCorrect` asks for
  the order only if no row is UNDEF.

## What the models leave out of the modelled parts

* The updates of one request are atomic with respect to other updates, because
  there is one update thread. They are not atomic with respect to queries,
  which may begin between two of them; no property claims that.
* `Crash` is the end of the process. A crash of the operating system, which
  could lose what was written without `fsync`, is not modelled.
* Templates and WHERE clauses of updates are arbitrary sets of triples to
  delete and insert. `rewriteLocalVocabEntriesAndBlankNodes` is the identity on
  triples. The byte format of the file is reduced to complete or not.
* In `located_triples` rows are ranks. Column projections, payload columns and
  the compression of blocks do not occur.
* The priority queue of the cache is the order of its scores; `erase`, which
  nothing calls, is missing.
* `CancellationHandle` is modelled in the mode ENABLED. The texts and the time
  in its warnings are left out.
* `QueryHub` outlives its distributors, as in the server; its own destruction
  occurs only in unit tests. A session's path is already parsed.
* In `TaskQueue` and the parsers each method of ThreadSafeQueue is one step
  (`BlockingQueue`); `queue_manager` checks, with the locks and notifications,
  that no thread stays blocked when its method could go on. A batch parses or does not. An exception that leaves a task
  (`std::terminate`) does not occur, because both parsers catch all of them.
* The join has one join column and no other columns. `addRow` flushes also when
  its buffer has `bufferSize` rows, which the model leaves out: a flush in
  between can only make buffered rows safer. Local vocabularies are missing.
* The tables that a prefiltered scan yields are the blocks themselves. How
  blocks are read and decompressed is outside of the model.

## Not modelled

The models cover the state that threads, coroutines and restarts share. What
remains of the code base is mostly sequential and a pure function of its input.
A model of it would repeat the code row by row, and TLC would check less of it
than the unit tests do.

* **Other operations of the engine** (`engine/*.cpp`: sort, group by, union,
  filter, transitive paths, spatial joins, text, ...), **MINUS**, **joins on
  several columns**, the **galloping join** and **`lazyScanForJoinOfTwoScans`**:
  transformations of tables without shared state.
* **Operation and Result**: their use of the cache is part of
  `ConcurrentCache`. Runtime information, LIMIT and OFFSET, and checks of lazy
  results while they are consumed are not modelled.
* **Query planner**: that all plans are equivalent is a statement about the
  semantics of SPARQL, which is not in the models.
* **SPARQL expressions, ValueIds**: pure functions on values and bit patterns.
* **SPARQL parser and protocol**: a generated ANTLR parser and its visitors,
  without state and concurrency.
* **RDF tokenizers and sequential parsers**: text processing.
* **Index building** (external sorting, vocabulary merging, patterns): data of
  a size TLC cannot reach. Its threads meet in futures and in the queues of
  `ThreadSafeQueue.h`, which are modelled.
* **Compressed relations and permutations**: file layout and compression.
  Graph information and the choice of blocks for a join are in
  `LocatedTriplesPerBlock` and `PrefilteredTables`.
* **Vocabularies, local vocabularies, blank node manager**: strings and their
  positions.
* **Text index**: sequential algorithms on posting lists.
* **Export and HTTP**: formatting and network I/O on Boost.Beast and
  Boost.Asio. The strands of the websocket part are in `QueryStatus`.
* **Memory limits**: a counter behind a mutex. A failing allocation appears in
  `ConcurrentCache` as a computation that throws.
* **Configuration and utilities**: containers and helpers without a protocol.

## Running the checks

    tlc -workers 2 -config MCConcurrentCache.cfg MCConcurrentCache
    tlapm ConcurrentCacheProof.tla

Each run takes at most about five minutes on two cores; the longest are
`concurrent_cache`, `parallel_parser`, `update_requests` and `query_status`.
The proofs take about forty minutes together, the longest are
`QueueSequentialProof`, `QueueManagerProof` and `ConcurrentCacheProof`. Most leaves name the prover that
finds them (`Zenon`). This is for speed: tlapm's translation for the SMT solver
gets slower with every leaf of a module, and it is given up after five seconds,
so the leaves that do not need arithmetic are kept out of it. Some have a timeout
of their own (`SMTT`, `ZenonT`).
