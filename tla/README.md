# A TLA+ model of Pincaster

Pincaster is an in-memory database of geographic records with an HTTP
interface and an append-only journal. This directory holds TLA+ modules
translated from its C source (`src/src/`), the TLC configurations that check
them, and TLAPS proofs. `PROJECT.json` maps each definition to the lines it
models and lists runs, mutants, findings, hazards and theorems.

## The system

| Part | State | Operations | Source |
|---|---|---|---|
| Event loop | `op_tid`, timers, the reply channel | parse a request, push its operation, log it; flush timer; expiration timer; send replies | `http_server.c`, `domain_*.c`, `handle_consumer_ops.c` |
| Operation queue | ring of `MaxQueuedReplies` slots, two ends | push, shift | `cqueue.c` |
| Workers | `should_exit`, the copy of an operation | shift under `mtx_cqueue`, run the handler under `rwlock_layers`, reply | `http_server.c` |
| Layers and records | layers slab, key tree, properties, positions, expiration dates | create, delete, PUT, DELETE, purge | `domain_layers.c`, `domain_records.c`, `key_nodes.c`, `expirables.c` |
| Journal | file, `log_buffer`, offset | append, flush, replay | `db_log.c` |
| Rewrite | `journal_rewrite_process`, `offset_before_fork`, child | stop workers, fork, dump, SIGCHLD, append the tail, rename | `domain_system.c`, `http_server.c` |
| Slab allocator | chunks, bitmaps, partial and full lists | add, remove, foreach, free | `slab.c` |
| Property maps | one buffer per record, slots with 16-bit sizes | replace, remove, find, enumerate | `slipmap.c` |
| Quadtree | quads with `sub_slots`, buckets with `busy_slots`, the slot of each record | add (split), remove (merge) | `pandb.c` |
| Searches | none | walk of the tree over zones, of the key tree | `domain_search.c`, `pandb.c` |
| Replication | clients, their output buffers, `active_slaves`; the slave's connection, journal and queue | accept, initial download, shipping, disconnection; replay, exit | `replication_master.c`, `replication_slave.c` |

How they interact: the event-loop thread pushes an operation under
`mtx_cqueue`, unlocks, signals `cond_cqueue`, and only then appends it to
`log_buffer`. A worker copies the operation out, unlocks, and takes
`rwlock_layers` for reading or writing according to the operation's type.
Replies travel back through a bufferevent pair to the event loop. A rewrite
stops the workers, flushes, forks; the child dumps its copy of the layers to a
temporary file; the parent's SIGCHLD handler appends what was logged since the
fork and renames the file over the journal. At start the journal is replayed,
record by record, through the same handlers. A master sends the file to each
slave that connects and each record when it logs it; the slave logs it, pushes
the operation, and its workers run it. Handlers keep a record's properties in
a slip map and its position in the layer's quadtree, which searches walk.

What is hard: the unlocked `should_exit`; the order of two workers between the
queue and the lock; the two copies (memory and journal) updated by different
threads; crashes in the middle of a write; the fork with operations still
queued; signals between two statements of the parent; the allocator's lists
after long sequences of additions and removals, and likewise the slots of a
property map and the nodes of the quadtree; a slave that connects while the
master has records buffered, and descriptors that are closed twice.
`PROJECT.json` lists these
hazards at their lines.

What makes each part correct: the ring is a FIFO queue that never loses or
overwrites an element; each operation is run once and answered, writers run
alone, `stop_workers` leaves a quiescent process; replaying the journal gives
the memory, a reply means the operation is on disk when `FsyncPeriod` is 0, a
crash loses only the latest operations, a rewrite changes nothing and ends; the
allocator's lists hold each entry once; a slave has its master's records in
their order and catches up; a property map is a partial function; the tree
holds each position once where searches look for it, and a search answers what
a scan of all records would.

## Modules

* `BoundedFifo` - the abstract queue: a sequence, and the result of each call.
* `CQueue` - `cqueue.c`: slots, `first_element`, `last_element` (NULL is
  `NoSlot`). `FifoSpec` is `BoundedFifo` under the mapping that reads the ring
  from its first to its last element. `MCCQueue` gives it four slots.
* `WorkerPool` - the threads, the mutex, the condition variable (a set of
  blocked workers), the read-write lock. A fork that fails leaves the loop
  without workers (`ForkFailed`). Workers step between each test they make, since `should_exit` is written without the mutex; a critical section of
  the event loop is one step. Handlers are one step: `WriterAlone` is what
  justifies that in the modules above it.
* `Store` - the handlers as operators on a database (layer, key, record), and
  what a rewrite dumps. Text is a model value; what writing and reading back
  changes is modelled by what it does: `DecodedKey` (keys are written as they
  are, and the start decodes the URI, or refuses it), `Reread` (texts, values and
  names of properties), `RereadPosition`.
* `Server` - extends `Store`: queue, workers, journal, rewrite, clock, crashes.
  Journals are sequences of operations, `Torn` is a record cut by a crash. A
  start that meets a record it cannot get accepted stays in `replay` until it is
  killed. It reads ahead, so that the file offset, and where a bad tail is cut
  off (`Misread`, `Truncated`), are anywhere behind what was run.
  Statements of the parent after `fork` are separate actions (`SetPid`,
  `SetOffset`) because SIGCHLD may come between them. The history variables
  `acked`, `applied`, `dumped`, `held`, `lost` hold transaction ids; `op_tid`
  goes on over restarts to keep those ids apart, where the program's starts
  again at 1. `cut` (the dump was cut short) and `damaged` (such a dump replaced
  the journal of this process) say what no id can: a dump's records have none.
* `Slab` - chunks with their links, as `slab.c` updates them, and `live`, the
  entries added and not removed.
* `PropertyMap`, `SlipMap` - the abstract map, a partial function and the
  result of each call, and `slipmap.c`: a function from the offset of each
  header to its slot, with sizes modulo 2^16 (`MaxLen` + 1). Keys and values
  keep their identity and length. Callers ignore a refusal, so a property can
  be lost with a reply of 200 (`Replace` removes first).
* `Replication` - a master and its slaves. Records are numbers. Output buffer
  and socket are one queue per connection. Descriptors are part of the model:
  `bufferevent_free` defers the close that `BEV_OPT_CLOSE_ON_FREE` asks for,
  and the master closes the same number by hand (`finalizers`). What happens to
  the bytes of a record with a line feed is known (two lines, neither of which
  is a record, as long as its body does not hold a whole record), so it is a set
  of records that the slave drops. `RefusedRecords` are those that a slave's
  `process_request` never accepts: `fake_request` tries again forever, in the
  slave's event loop. Torn records and several workers are in `Server`.
* `QuadTree` - nodes are identified by their rectangles, positions are on a
  grid of integers on which every split that the accuracy allows is exact.
  `Put` and `Delete` are the handlers' effect on the tree.
* `Searches` - extends `QuadTree` with the searches as operators on a state.
  The walk keeps the order of the program (zones, stack, limit that starts
  again in each zone, clusters); within a bucket the order does not matter,
  since a search that is cut short answers `overflow` without matches.
  `unlisted` are the keys whose slots `slab_foreach` no longer meets, after the
  loss that `ForeachComplete` shows: a bucket that is too small to be split may
  hold more than one chunk. Searches and properties are about the others. The
  cosine of a latitude is there as its reciprocal, `Secant`, a whole number of at
  least 1 for each latitude, in the width of a box and in distances alike.
* `MC*` - constants for TLC.
* `*Proofs` - the theorems about the module of that name, with their proofs.
  `LibraryFacts` has the lemmas on sequences, folds, finite sets and least
  numbers that several of them use.

Definitions whose names end in `_Something` after a name of the source are
mutants: variants with a plausible bug, each of which breaks one property.
They are not used by the specifications.

## Runs

Passing runs:

| Run | Checks | Bounds and why |
|---|---|---|
| `cqueue` | `TypeOK`, `RingConsistent`, `FifoSpec` | 4 slots, 3 elements: every pair of positions of the ends, wrapped or not, full and empty |
| `worker_pool` | `TypeOK`, `OneOwner`, `NotStranded`, `QuiescentWhenJoined`, `WriterAlone`, `EveryOpReplied` | 2 workers, queue of 2, 3 operations of three kinds (writer, reader, without lock), 2 stops: a full queue, all workers asleep, a stop with operations queued, a restart or a failed fork, and a second stop. The invariants are proved for any number of workers |
| `journal_sync` | `TypeOK`, `JournalMatchesMemory`, `AckedOnDisk`, `LoggedOnce` | 1 worker, queue of 1 (so 503s happen), 3 operations out of 5, one of them over the journal's limit, 2 crashes or torn writes (append behind a torn record, then restart), 2 rewrites (the second may read the first one's dump again, from offset 0), failed forks, damaged dumps; integers of two bits (`IntMax` 1), so that two increments overflow. `AckedOnDisk` and `LoggedOnce` are proved for any number of workers |
| `journal_buffered` | `RecoveryIsPrefix`, `CleanStopKeepsAll`, `EventuallyOnDisk`, `RewriteEnds` | `FsyncPeriod` 5, buffer limit of 1 record (so it is passed), 3 operations on records that expire, a key that a rewrite cuts off in its URI and a value that it changes, a rewrite, a crash or stop, failed forks, failed writes (`WriteMayFail`) |
| `slab` | `TypeOK`, `WellLinked`, `ForeachSound`, `SlotsAreOwned` | 4 chunks of 3 slots: lists of up to four chunks, a middle chunk moved or freed, addresses reused |
| `slip_map` | `TypeOK`, `Tiled`, `IsPropertyMap` | 3 keys of 1 and 2 bytes, values of 0, 1 and 8, sizes up to 30: values that fit in place, in another slot, only after growing, or not at all; `realloc` fails or not |
| `replication` | `TypeOK`, `SlaveFollowsMaster`, `MemoryFollowsJournal`, `SlavesAreCounted`, `CatchesUp` | a slave with 3 connections, 4 records (one with a line feed, one that slaves refuse), lag of 1, queue of 1, 2 descriptors (so they are reused), a fault: a restart that finds the old client still active, one more disconnected for lag, a late finalizer, a crash of either side |
| `quadtree` | `TypeOK`, `WellFormed`, `SlotsPointBack`, `Counted`, `BucketsBounded`, `InRectExact`, `ClustersCover`, `NearbyExact`, `KeysByPrefix` | 4 records, 6 positions (three close together, two at edges, one out of bounds), buckets of 2, a layer of 8 by 16: splits on two levels and their merges; 10 rectangles over each edge and a corner, limits below and above the number of matches, two cell sizes; centers at the equator, in between and at a pole, with secants 1, 1, 1, 2 and 100; chunks of 3 slots, so that a search misses records |

Deadlock is not checked where the process may end or the bounds on requests and
restarts are used up (all but `cqueue`, `slip_map` and `quadtree`). The
invariants of `replication` were also checked with two slaves and 3 records (10 million
states, longer than a run kept here should take), and the
parts of `FollowInv`, on which its proof rests, with two slaves and fewer records.

Runs that show a disagreement between the code and a document, a test or an
assertion; each is a finding with its quotation:

| Run | Property | What happens |
|---|---|---|
| `stop_workers_returns` | `StopReturns` | a worker misses the broadcast, and is joined forever |
| `rewrite_queued` | `AckedDurable` | operations queued at the fork leave the journal |
| `slab_foreach_complete` | `ForeachComplete` | a chunk with entries falls off its list |
| `in_rect_limit` | `LimitOverflows` | a search with as many matches as its limit answers them all, and no overflow |

The journal runs show what holds beside these and beside further behaviours
that the model has and the properties allow for:

* `JournalMatchesMemory` is checked with one worker. With two, TLC finds it
  violated: they may take `rwlock_layers` in another order than they shifted
  their operations, while the journal has the order of arrival, and a restart
  gives another database. Its requests have no dates: the purge of an expired
  record is not logged, so a later PUT of its key makes a new record in memory,
  and in a replay updates the expired one, whose properties come back. With
  dated requests the property fails in that way.
* It compares databases with positions as a rewrite writes them down
  (`AsWritten`), with six decimals. Keys and texts must come back as they were,
  and some do not: a rewrite writes keys raw into URIs, so a key with `%` becomes
  another key at the next start, and leaves `+` in names and values as it is,
  which the parser reads as a space, where `README.markdown:29` says "Values are
  binary-safe". The property would be violated by either; its run and its
  theorem are about keys and texts that a rewrite does not change (`SameKey` and
  `SameText`, `ReadsBack`). `journal_buffered` has a key and a value that it does.
* A key with `%3F` or `%00` is worse: what is left of the URI is not accepted,
  and `fake_request` (`http_server.c:346`) tries that record again without end.
  Such a start never serves a request; in the model `main` stays `replay`, and
  `RecoveryIsPrefix` and `CleanStopKeepsAll` exempt a start that gets there.
* `JournalMatchesMemory` is silent while something is lost that was applied or
  waits, the journal has a torn record, or a dump that was cut short replaced it.
* `AckedOnDisk` exempts the operations in `lost`. Only `AddToDbLog` (a request
  over `DB_LOG_MAX_BODY_LEN` is applied and not logged), `Sigchld` (queued at
  the fork, or in a dump that was cut short and became the journal all the
  same) and `Boot` (behind a torn record, where a process that went on
  appending left them) add to it. It counts as on disk what is behind a torn
  record until the restart that does not read it.
* After a killed child `journal_rewrite_process` stays set and each later
  rewrite is answered 304 until a restart: `RewriteEnds` is about children that
  exit by themselves, and says nothing of what comes after a killed one.
* A SIGTERM kills a rewriting child and forgets it. When that child has exited
  by itself a moment before, `sigchld_cb` reaps it next, its assertion
  (`http_server.c:402`) fails, and the process ends without `close_db_log`:
  such a stop is a `Crash` in the model, not a `Shutdown`. `/system/shutdown`
  does not kill the child, which then outlives the process (see below).
* A failed fork leaves the server without workers: requests are queued and
  logged until the queue is full, and never run. `EveryOpReplied` exempts it by
  name (`Deserted`), and what was logged runs at the next start.
* After a swap with nothing to append the offset of the new descriptor is 0: a
  rewrite before anything else is logged copies the whole journal behind its
  dump. Replaying it gives the same database, and `LoggedOnce` holds, as what
  is repeated are the dump's records.
* `flush_db_log(0)` writes nothing: passing `JournalBufferSize` has no effect,
  and with `FsyncPeriod` -1 the file is written at stops and rewrites only.
* No caller looks at the result of `flush_db_log`. With `WriteMayFail`, TRUE in
  `journal_buffered` only, a flush may leave records in the buffer. With
  `FsyncPeriod` 0 the request would be answered all the same (`AckedOnDisk`
  would not hold), and a rewrite whose flush failed puts the rest into its dump
  and, at the next flush, behind it (neither would `LoggedOnce`). A failed
  write that leaves a part of a record, and a failed flush at a clean stop, are
  not modelled.

`CrashInWrite` lets a prefix of the buffer arrive, and possibly a part of the
next record; it assumes that the file system does not reorder the bytes of an
append. A rewriting child dies with its process in the model; the program's
child would finish, and its file is not renamed by anyone, unless a new rewrite
writes to the same name meanwhile. `PromptParent` says that the parent of a
fork runs its next two statements before the child has dumped everything; it is
TRUE in all runs. With FALSE the child may exit first, and the assertion of
`sigchld_cb` on `journal_rewrite_process` (`http_server.c:402`) fails. A swap
that is given up leaves the offset at the end of the journal; a copy that fails
after its first buffer would leave it in the middle, which is not modelled.

The other passing runs allow for these behaviours of the code:

* `SlaveFollowsMaster` leaves out the records that are in `log_buffer` when a
  slave connects (`missed`; `acceptcb` sends the file, so they reach the slave
  by neither way), records with a line feed (`reader_readcb` cuts the stream at
  line feeds and drops what is no record; a body that holds a whole record, which
  the slave would run, is left out), and connections hit by the second
  close of a descriptor (`mixed`). `MemoryFollowsJournal` and
  `SlavesAreCounted` have no such exception.
* `CatchesUp` owes a slave nothing from the first record on that its
  `process_request` refuses (a raw key of a rewrite, another `ApiBaseURI`): for
  such a one the slave waits until it is killed, its event loop included.
* The master reads nothing from its clients: that a slave is gone it notices at
  a write only. A slave whose initial journal is longer than
  `REPLICATION_MAX_LAG` is disconnected at the first record. The slab entry of
  a client disconnected for lag is never removed.
  `slaves_in_initial_download` is 1 only inside `acceptcb`, so a rewrite never
  sees a download in progress.
* A slave empties its journal before it has connected, and exits without
  writing its buffer when the master is gone; a process that finds no master
  leaves an empty journal behind.
* `NearbyExact` is about boxes of at most half the layer's height and width. With
  larger ones two zones meet one bucket, each compares distances only, and
  records are reported twice. The box is wider by 1/cos of the latitude
  (`pandb.c:754`): close to a pole any radius but 0 gives a box over more than
  half of the layer, and at 90 degrees the code divides by a cosine of about 0.
  A whole number as secant keeps boxes and distances on the grid; other values
  lie between these.
* On a layer that wraps (the default) a small quad that two zones touch is
  reported as a cluster by both (`pandb.c:931`). `ClustersCover` asks for exactly
  one cluster or report for each record on flat layers, and for at least one, with
  no second report of the record itself, on layers that wrap.
* A rectangle over a corner of the layer is not looked for on the opposite
  corner; `Expected` says so. `in_rect` overflows with one match more than the
  limit, `nearby` with the match that reaches it; `README.markdown:132` and `:121`
  have the same words for both, which `in_rect_limit` shows to be wrong of the
  first. The limit starts again in each zone, so a wrapped search may answer more
  than the limit. `InRectExact` says what holds: the answer is complete and exact
  unless it overflows, and it does not overflow below the limit.
* Slots that fell off their bucket's lists are found by no search, and the
  searches' properties are about the others (`Listed`). A split or a merge moves
  only what `slab_foreach` meets and frees the bucket, to which the other records
  still point: what follows is undefined, and `LostSlotsStay` leaves such steps
  out.
* `untangle_rect` (`utils.c:474`) assigns `edge0.latitude` twice and exchanges
  nothing: with latitudes in the wrong order a flat layer answers nothing, and
  one that wraps searches the outside of the rectangle.
* `find_zones` clamps edges to twice the bounds, whatever the layer wraps. With
  latitudes in the wrong order and both in the upper half `find_in_rect` adds the
  height of the layer to the second, the clamp cuts it to the middle, and what
  lies between the middle and that latitude is missed. `InRectExact` holds for
  rectangles that reach at most one layer over an edge (`QueriesInReach`).
* A cluster counts all records of its cell, those outside the rectangle too.
* A key search without `*` finds nothing: the final NUL is cut off the pattern
  (`domain_search.c:636`) and not off the keys, where `README.markdown:149`
  says that exact matching is performed.

## Fairness

`WorkerPool.FairSpec`: each thread keeps running what it started (weak
fairness); a worker that wants `mtx_cqueue` or `rwlock_layers` gets it if it is
free again and again (strong fairness on the two acquisitions), since no thread
keeps a lock. Nothing is owed to requests, timers, stops or spurious wake-ups.
`Server.FairSpec`: weak fairness of the event loop's started work, of the flush
timer and the replies (the loop serves all its events), of each worker, of the
child, and of the delivery of SIGCHLD. A flush that writes nothing is no step, so
fairness of the timer says that writes do not fail forever: a disk that stays full
is not covered by `EventuallyOnDisk`. Crashes, rewrites and requests are not
fair, and are bounded.
`Replication.FairSpec`: weak fairness of what a slave does with a record it is
sent (read, retried push, worker, exit at the end of the connection) and of the
master's deferred finalizers. Requests, flushes, accepts, starts and faults are
not fair. `CatchesUp` relies on requests ending (`MaxRecords`), as any slave
does.

## Proofs

Checked by `tlapm` for every value of the constants that satisfies the named
assumptions; a theorem about one run's property says for all sizes what the run
shows on one. Each theorem has an inductive invariant, a lemma per action (or
per class of actions that disturb the same parts of the state), and a last step
that combines them.

* `CQueueProofs`: `CQueueTypeOK`, `CQueueConsistent` and `CQueueIsFifo`. The
  type invariant with `RingConsistent` (the ends are NULL together) is
  inductive; lemmas give the count and the position of the n-th element around
  the wrap, and each action maps to one step of `BoundedFifo`. Assumption: at
  least two slots, as `init_cqueue` demands.
* `WorkerPoolProofs`: `PoolTypeOK`, `NeverStranded`, `JoinedIsQuiescent`,
  `EveryOperationHasOneOwner`, `WritersRunAlone`: all invariants of the run.
  `ControlInv` says who is at a place inside the mutex owns it, who is not in a
  handler holds no lock and no operation in hand is outside `acquire` and
  `handle`, `should_exit` is set from a stop to the next start of the workers,
  who are gone when it is set outside `stop_workers`, and blocked workers are those in `cond_cqueue`. `NotStranded` needs the mutex
  part: between finding the queue empty and blocking a worker owns the mutex, so
  no push falls in between. `OneOwner` (each operation is in the queue, in one
  hand, answered or refused) is inductive next to it; `WriterAlone` needs
  `HandlerInv`, which ties the type of the operation a worker handles to the lock
  it holds, and `OneOwner`, for a push must not change the type of an operation
  in hand. Assumptions: a
  finite, non-empty set of workers, at least one slot.
* `ServerProofs`, for any number of workers, requests, crashes and rewrites:
  `ServerTypes`; `CrashesLoseTheLatest` and `CleanStops`, the action properties
  `RecoveryIsPrefix` and `CleanStopKeepsAll`; `NothingIsLoggedTwice`
  (`LoggedOnce`) and `RepliesAreOnDisk` (`AckedOnDisk`). The invariant
  `JournalInv` is a conjunction: types; transaction ids are at most `op_tid`
  (`TidInv`) and rise along file and buffer (`OrderInv`); what was accepted and
  not lost is in the file, the buffer or the dump the file began with
  (`KeptInv`), and while a child runs in its dump or behind the mark of the
  fork (`RewriteInv`); the queue is first-in first-out (`QueueInv`); what is
  unwritten is newer than whatever it is missing from (`UnwrittenInv`). Without
  `UnwrittenInv` a rewrite might make an operation durable whose predecessor is
  still in the buffer. `OnceInv` (dump and rest of the journal are disjoint)
  and `SyncInv` (with `FsyncPeriod` 0 nothing waits in the buffer) give the
  last two. All but `ServerTypes` assume `PromptParent`, without which a child
  may exit before its offset is known; the last two assume `~WriteMayFail`, for
  the reasons given above. The operators of `Store` do not matter to these
  five: they are about which operations are where. `JournalStandsForMemory`
  (`JournalMatchesMemory`) is about what the operations do. Its invariant
  relates the replay of file and buffer to the memory once the worker and the
  queue are done (`MemoryInv`), the dump and what follows the fork to the same
  memory (`DumpInv`), and says that what a next rewrite copies from offset 0
  changes nothing (`OffsetInv`). Databases are compared by `Same`, equal once
  written down, which every handler of `Store` preserves; replaying a dump
  makes a database that is the `Same` as the dumped one, and its records are
  absorbed by it (`Absorbs`), so that replaying them twice is harmless. The
  queue and the buffer have one order only with one worker, and undated records
  never expire: both are hypotheses, with `PromptParent`, `~WriteMayFail`,
  `ReadsBack` (no key or text is one that a rewrite changes; without it the
  theorem is false, as said above) and `AbsentIsNothing`: the values that stand for no layer and no record are
  neither a layer nor a record. TLC cannot evaluate the last one, for it
  compares model values with records; it holds in every run by what model
  values are. `damaged` came from this proof: after a restart from a cut-short
  dump a second one could become the journal with no transaction id lost.
* `SlabProofs`, for any finite set of chunks and number of slots: `SlabTypes`,
  `LinksAreSound` (`WellLinked`), `EntriesKeepTheirSlots` (`SlotsAreOwned`),
  `ForeachMeetsEntriesOnce` (`ForeachSound`). The invariant speaks of the chunks
  that own a live entry only, for the code itself loses others (the finding on
  `slab_foreach`): `Links` (next and previous are inverse, and stay in one
  list), the two heads, and bitmaps that are exactly the live entries. A walk
  visits no chunk twice since `next` is injective and no chunk precedes the
  head.
* `SlipMapProofs`, for any keys, values and sizes: `SlipMapTypes`, `SlotsTile`
  (`Tiled`) and `SlipMapIsPropertyMap`, the refinement of `PropertyMap`. The invariant `Buffer`
  says that slots tile the buffer, keys occur once, and sizes fit their 16 bits;
  without the last the modular arithmetic of the slots would overlap them.
  Assumption: keys are not empty.
* `ReplicationProofs`, for any number of slaves, connections, descriptors and
  records: `ReplicationTypes`, `MemoryIsJournal` (`MemoryFollowsJournal`),
  `CounterIsRight` (`SlavesAreCounted`) and `SlavesFollow`
  (`SlaveFollowsMaster`): all invariants of the run. `Inv` is made of the
  log's, the connections', the descriptors' and the slaves' parts; the counter
  is the cardinality of a finite set of clients that each action changes by one
  at most. `SlavesFollow` adds `FollowInv`: a slave that is up has a connection
  that is its own and open (`PeerInv`); what a client missed is never among
  what it is sent (`MissedInv`); a descriptor belongs to its client unless it
  was closed under it (`OwnInv`); and for each slave the journal, followed by
  what is on its way, is the master's (`StreamInv`).
* `QuadTreeProofs`, about `QuadTree` and `Searches`, for any finite set of
  keys, any bounds, accuracy and bucket size. The tree: `TreeTypes`,
  `StaysATree` (`WellFormed`), `SlotsFollowMoves` (`SlotsPointBack`),
  `CountersAreRight` (`Counted`), `BucketsStayBounded` (`BucketsBounded`). The
  tree is determined by its nodes and by the bucket and the position of each
  key (`TreeOf`); each operation gives the `TreeOf` of changed parts. `Legal`
  says that nodes nest and their children are there (`Shape`), a key is in a
  bucket that contains its position (`Settled`), and a bucket that can still be
  split has no more keys than there is `Room` for (`Bounded`): a split gives
  the new slot to a child however full it is, so `Room` allows one more per
  split above. Between the two halves of a removal a bucket counts one key too
  many, which the lemmas carry as a surplus. Assumptions: `Accuracy` at least 2
  and at most the height and width of the layer, `MergeBelow` at most
  `BucketSize`. The searches: `RectanglesAreExact` (`InRectExact`),
  `ClustersAreExact` (`ClustersCover`), `NearbyIsExact` (`NearbyExact`),
  `KeysFoundByPrefix` (`KeysByPrefix`), for any records, requests and limits. The
  first three are about `SearchSpec`, whose steps are those of `Spec` that also
  say which slots fall off their lists, so the invariants of the tree hold there
  (`SearchedTree`).
  - Walk: `Walking` holds at each turn of the loop. The quads on the stack and the
    clusters lie pairwise apart, the limit is the first one less what was
    reported, and what was reported are the records that match and are beneath
    none of those. Each turn uses up one quad, so as many turns as there are
    quads empty the stack, or the search overflows.
  - Zones: `Tiled` says that no position is in two zones, and that together
    they hold what is in the rectangle or wraps into it; so the replies of the
    zones add up. It takes `QueriesInReach` (above), which is about the
    requests, not the layer. A quad that two zones touch is a cluster of both, so
    of clusters the sum says that each record is in one at least; on a flat layer
    there is one zone, and it is in one exactly.
  - Nearby tests distances, not zones, so a bucket that two zones meet would
    report twice. With a box of at most half the layer no bucket that holds a
    record within the radius meets a second zone, as that zone lies in the
    other half of the root. Both sides of a distance are multiplied by the
    secant, so the box holds whatever is within the radius at any latitude. It
    takes `CentersOnLayer`: centers within bounds and radii in whole numbers.
  - Keys: `key_node_less` is a strict total order on keys, in which those with a
    common prefix are together and none of them is below the prefix; the n-th
    key reported has n - 1 below it.

  TLC evaluates these hypotheses on the requests of the run
  (`RequestsOfTheorems` in `MCQuadTree`).
* `LibraryFacts` avoids induction over data, which would need an operator as a
  parameter: a claim about a fold or a recursive function is proved by the least
  index at which it would fail, and a recursive function by a witness that
  satisfies its equation.

Only model-checked:

* liveness: `EveryOpReplied`, `EventuallyOnDisk`, `RewriteEnds`, `CatchesUp`,
  which rest on fairness and ENABLED;
* the four findings, which are violations: TLC gives their traces.

Every invariant and action property of a passing run is stated by a theorem.

## Plan

1. Done: queue, workers, store, journal and rewrite with its failures, slab,
   property maps, replication, quadtree, searches; theorems for all safety
   properties of the passing runs.
2. Model: an orphaned child of a killed process; a search for one key; nearby
   searches on flat layers.

## Not modelled

Configuration and log files, daemonizing, JSON, public documents (no state);
the parsing of URIs; the distance formulas other than the rhomboid one, and
with them `nearby` on flat layers (floating point); allocation failures outside
`slipmap.c`; slaves of slaves and requests that clients send to a slave. The
vendored libraries in `src/src/levent2`, `src/src/yajl` and `src/src/ext` are
not Pincaster's code: they are modelled from how it uses them (condition
variables, sockets, the deferred close of a bufferevent) and marked external.
They are nearly nine tenths of the lines under `src/src`, which is why the mapped
share of all lines is small; of Pincaster's own C files the parts above that
keep state are mapped.
