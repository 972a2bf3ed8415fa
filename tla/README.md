# A verification project for c-faas-emulator

c-faas-emulator replays a trace of function invocations against podman
containers, and keeps the containers warm in a memory cache, checkpointed on
disk, and uploaded to a bucket.  The program is small, and nearly all that is
hard in it is concurrency: a pool of workers, a writer, two readers, an
uploader and a pruner share lists, counters and condition variables, and the
main thread stops them one after the other with sentinels.

The modules here are written from `src/source/*.c`.  They describe the mode the
workers can run in completely, with podman, disk and a network cache:
`allocate_invocation` creates a container and dereferences `net_cache`
(`invocation.c:143-151`) on every start that is not warm, whatever the options
say.

## 1. Inventory

| component | source | state | operations | status |
|---|---|---|---|---|
| RAM cache and invocation lifecycle | `ram_cache.c`, `invocation.c` | `ram_t`: list, `memory`, `cache_occupied`, `cache_lock` | `searchRam`, `insertRamItem`, `freeRam`, `allocate_invocation` | modelled: `RamCache` |
| writer thread | `disk_cache.c:389-460` | local buffer of 100 invocations | `writeToDisk` | modelled: polling and buffer in `RamCache`, storing in `DiskCache` |
| checkpoint reads | `disk_cache.c:188-284, 667-709` | two `read_buffer_t`, `time_to_read`, a flag and a condition on each waiter's stack | `addToReadBuffer`, `addToNetworkReadBuffer`, `rejectRead`, `readFromDisk`, `readFromNetwork` | modelled: `ReadQueue` |
| creation and prune gate | `containers.c`, `disk_cache.c:637-665` | `creation_in_progress`, `prune_in_progress`, two locks and conditions | `createContainer`, `startContainer`, `restoreCheckpoint`, `pruneDisk` | modelled: `PruneGate` |
| thread slots | `invocation.c:47-66` | arrays of thread ids | `getTid` | modelled: `TidTable` |
| disk cache | `disk_cache.c` | `disk_t`: LRU list, `memory`, `in_use`, files | `findInDisk`, `retrieveFromDisk`, `insertDiskItem`, `freeDisk` | modelled: `DiskCache` |
| network cache | `disk_cache.c`, `minio.h` | list of uploaded functions, upload queue | `netThreadFunc`, `insertNetCache`, `findInNetwork`, `destroyNetCache` | modelled: `NetCache`, and `DiskCache` for who fills the queue |
| thread pool | `C-Thread-Pool-master/thpool.c` | job queue, binary semaphore, counters, two static flags | `thpool_init`, `thpool_add_work`, `thpool_wait`, `thpool_destroy` | modelled for two pools: `ThreadPool` |
| podman client | `containers.c` | curl handles, ports | one request per function | its requests are steps of the other modules |
| statistics | `stats.c` | counters, five files, a pool for latencies | `saveStarts`, `saveLatency`, `closeFiles` | counters in `RamCache`, the latency pool in `ThreadPool`, the files not |
| main | `main.c` | the pools | `main_loop`, `endPools` | its part in each module |
| option reader | `option_reader.c` | none afterwards | `read_options` | not modelled: sequential parsing into constants |

How they interact:

- `main_loop` queues one job per line of the trace; a worker of the master pool
  runs `allocate_invocation` on it.
- A worker takes a cached container (warm start), or reserves memory, evicting
  the oldest cached containers with `freeRam` when it has to.  It then passes
  the prune gate, creates a container, and either waits for a reader to bring a
  checkpoint from disk (luke) or network (remote), or boots it (cold).  In the
  end `insertRamItem` puts the container into the cache.
- `writeToDisk` polls every 10 ms and moves the oldest cached containers out
  while more than `threshold` per cent of the memory is occupied: each is
  checkpointed by `insertDiskItem`, or killed if its function is on disk.
- `freeDisk` makes room on disk; what leaves it goes to the upload queue.
- `pruneDisk` asks podman every 10 s to remove the containers that do not run.
- `endPools` waits for the workers, then stops each other thread with a
  sentinel: `"quit"` in the read buffers, -1 in `cache_occupied`, -100 in
  `creation_in_progress`.

What makes each part correct, and what is hard about it:

- *RAM cache.*  A container is in one list or in one worker's hands, and is
  alive exactly as long as somebody answers for it.  Memory is neither lost nor
  counted twice, although `freeRam` releases `cache_lock` between unlinking and
  accounting and the writer credits memory before it stops a container.
- *Writer.*  The sentinel -1 lives in a counter that others add to and subtract
  from: accounting must never reach it.  The buffer has a fixed length.
- *Reads.*  The answer goes to a flag, lock and condition on the stack of a
  thread that leaves as soon as it sees it; two locks are taken in both orders;
  no signal may be lost, and the sentinel overwrites the first request.
- *Gate.*  Creations wait for prunes and prunes for creations, over two counters
  under two locks.
- *Slots.*  The scan reads without a lock what others write; the answer -1 would
  be used as an index.
- *Disk.*  A worker's lookup and the reader's retrieval are two critical
  sections, `insertDiskItem` drops its lock in the middle, `in_use` is cleared
  without it, and `freeDisk` spins on it with the lock held.
- *Network.*  The upload queue is appended to without a bound, and the file is
  removed before the upload, which needs it, and when the function may be on disk
  again.
- *Pool.*  The binary semaphore forgets how often it was posted, `thpool_wait`
  reads the length of the queue under a lock that does not protect it, and
  `threads_keepalive` is shared by all pools, so destroying the master pool
  tells the threads of the others to leave after their job.

`PROJECT.json` lists each of these hazards at its line, with the properties that
watch it or the module that is to.

## 2. Plan

Done: `RamCache` with its refinement of `KeepAlive` and its proofs; `NetCache`
and `DiskCache`, composed, with the refinement of `LruCache` and their proofs;
`ReadQueue`, `PruneGate` and `TidTable` with their proofs; `ThreadPool` with its
refinement of `JobPool` and its proofs.  To come, in this order:

1. `Shutdown`: `endPools` over all threads, to replace the part of main each
   module has now, and the last unlock of a pool thread against the `free` of
   its pool.
2. `Stats`: the files of `stats.c`, when `saveStarts` writes them and when
   `closeFiles` closes them.

## 3. The modules

### RamCache, KeepAlive, RamCacheRefinement

Everything in `ram_t` is protected by `cache_lock`, so each stretch of code that
keeps the lock is one action.  `memory`, `cacheOccupied` and `ram` are the
fields of `ram_t`; `pc`, `job`, `cont`, `victims`, `freed` and `needed` are the
locals of the workers; `wr` and `buffer` belong to the writer; `life`, `fn` and
`late` say what podman knows.

| action | code |
|---|---|
| `WarmStart`, `Reserve`, `BeginFreeRam` | the first critical section, `invocation.c:90-140`, up to where `freeRam` unlocks (`ram_cache.c:97`) |
| `KillVictim` | one round of the loop of `ram_cache.c:99-106`, unlocked |
| `EndFreeRam`, `FailInvocation` | from `ram_cache.c:107` to the unlock in `allocate_invocation` |
| `CreateContainer`, `RestoredStart`, `ColdStart`, `BootContainer` | `invocation.c:142-290` |
| `RunReturns`, `RunTimesOut`, `LateRunEnds` | `runFunction` with its timeout of duration + 1000 ms, then `insertRamItem` |
| `WriterPoll`, `WriterStore`, `WriterExit` | `writeToDisk` |
| `EndOfInput`, `StopWriter`, `JoinWriter` | `main_loop` and `endPools` |

The choice between disk, network and cold start is left open (`DiskCache` has its
lookups, `ReadQueue` the waiting), because the RAM cache does not depend on it.  The threshold is
compared as integers, `100 * occupied > Threshold * MaxMemory`, and not in
single precision; no property here depends on the rounding.

`KeepAlive` is what the emulator promises, with no list, lock or counter: a
container is made for one function, serves one worker at a time, idles in the
cache, is reused for that function only, longest idle first, and once retired is
stopped and never reused.  `RamCacheRefinement` reads the stage of a container
off the lists of `RamCache`, and states both halves: `KeepsThePolicy` (safety)
and `NothingHalfDone` (liveness).

### ReadQueue

Both queues in one module.  A critical section in which nothing blocks is one
action, enabled while the lock is free.  Two of them do block: `rejectRead` takes
`cond_lock` inside `read_lock`, and the readers take `read_lock` inside
`cond_lock`.  These are split (`Refuse`/`RejectRead`, `Answer`/`Settle`/
`Signal`), and `ReadLocked` and `CondLocked` say who holds what in between.
`frame` is TRUE while the lock and the condition on the worker's stack exist.
Wake-ups without a signal may happen and are never relied on.

### NetCache, DiskCache, LruCache

The list of the disk cache with its pointers: `head` and `next`, with `List`
read off them by following the links from the head (`ListFrom`), so that a wrong order of the updates in `findInDisk` or
`freeDisk` shows as a loop, a lost node or a wrong order.  `allocated` and
`function` are the heap as far as disk nodes go; `files` is what is under
`containers/`.

`disk_lock` is held across blocking calls by `freeDisk` only, which sleeps until
`in_use` is cleared, and takes `net_lock` and the lock of the upload queue.  So
`freeDisk` is split into steps, `Locked` says when it runs, and every other
section is one action, enabled while it does not.

| action | code |
|---|---|
| `FindInDisk` | a worker's lookup (`disk_cache.c:82-112`) and its read request |
| `TakeRequest`, `Retrieve`, `ReadBin`, `ReleaseNode` | `readFromDisk` and `retrieveFromDisk`; `in_use` is cleared without the lock |
| `TakeContainer`, `Look` | the end of `writeToDisk`, with the lookup that decides to kill |
| `Fits`, `MakeRoom`, `RoomMade`, `NoRoom` | `insertDiskItem` up to the unlock before the checkpoint |
| `Checkpoint`, `DropRestored` | `checkpointContainer`, without the lock |
| `LinkNode` | the rest of `insertDiskItem` |
| `Spin`, `Unlink`, `AskNetwork`, `HandOver`, `Discard`, `Account` | `freeDisk`, for the writer and for the drain of `main_loop` |
| `UploaderSleep`, `UploaderWake`, `Extract`, `UploaderQuit` | `netThreadFunc` |
| `RemoveFile`, `UploadObject`, `LinkAndFree` | `insertNetCache` |
| `EndPools`, `SendQuit`, `JoinUploader` | the end of `main_loop` and the upload half of `destroyNetCache` |

Two places need a word.

- `freeDisk` reads `temp->memory` after it has freed `temp` or given it to the
  upload thread.  `Account` lets a field of a freed node read as what it was or as
  any of `Stale`, and the ghost variable `misread` remembers if it was something else: the
  balance `DiskAccounting` holds until then and cannot be claimed afterwards.
- `readBin` uses what `fopen` returns without a look at it.  `ReadBin` takes the
  reader to "crashed" if the file is not there, which ends the process.  This does
  happen: a function is evicted and queued for upload, inserted again under the
  same file name, and then the upload thread removes the file.
  `StoredIsTraced` says for which functions only: a function on disk or in the
  upload queue has its file, unless the network cache lists it or the upload thread
  is about to enter it there.  `DrainCompletes` excepts the crash.

The bucket is external.  `uploadObject` gets a name and nothing else, and
`test_bandwidth` (`option_reader.c:127-136`) shows where it takes the object from: it
writes `containers/<name>`, uploads the name, and removes the file afterwards.
`insertNetCache` removes the file first.  So `UploadObject` adds the function to the
`bucket` only if its file exists when it is called, which after `RemoveFile` means
that the writer has exported the function again in between; otherwise no object
comes to be, and `LinkAndFree` enters the function into the list all the same.  The list
and the bucket are therefore two variables, and no property takes the one for the
other: `StoredIsTraced` and `NeverForgotten` are about the records (the file, the
list, and the upload thread between the two), and `FoundIsInBucket`, that a record
in the list is worth something, is false (section 4).

`LruCache` is the promise of the list: a sequence of functions in which a lookup
moves what it finds to the end (`Renewed`) and room is made at the front.
`DiskCache` implements it with `Recency`, what `List` says of the functions.

### PruneGate

The two counters, the two conditions, and what podman has for each worker
(`box`).  The step from `gate` to `enter` to `create` is the point of the
module: `createContainer` releases `prune_lock` before it takes
`creation_lock`.  `StopPruner` is the unlocked, unsignalled write of -100.

### ThreadPool, JobPool

`thpool.c`, line by line as far as its locks allow: the critical sections of
`rwmutex`, `thcount_lock` and the semaphore are one action each, and `pc` is the
place of a thread in `thread_do` between them.  Two of the five pools are there (four of `main_loop` and one of `stats.c`),
because they depend on each other: the master pool, whose jobs add the jobs of
the other, and the one-thread pool of `stats.c`.  (The read, write and remove
pools have one job each, which runs from the start to its sentinel;
`ReadQueue`, `RamCache` and `PruneGate` have those jobs.)  `keepalive` is
`threads_keepalive`, one variable for both.  `main` goes through
`thpool_wait` and `thpool_destroy` for `target`, first "master" and then "stats".

`JobPool` is what `thpool.h` says of one pool: jobs are taken in the order in which
they were added, each is run once, and `thpool_wait` returns when none is queued
or running.  `ThreadPool` implements it twice, once for each pool.

### TidTable

`getTid` with one step per array access: `Find` and `Pass` are the unlocked
scan, `Acquire`, `Occupied`, `Vacant` and `Write` the locked one.

### Sums

The total of a quantity over a finite set, defined as the cardinality of a set
of units, so that it needs no recursion and can be proved about; `SumsProofs`
has its laws and those of the members of a list.

## 4. The runs

| run | shows | bounds |
|---|---|---|
| `ram_safety` | types, `OneOwner`, `NoLeak`, `MemoryAccounting`, `OccupiedAccounting`, `WriterStopsLast`, `CountedOnce`, `KeepsThePolicy` | 2 workers, 4 invocations, functions of 1 and 2 units in a memory of 3 |
| `ram_progress` | `ShutdownCompletes`, `NothingHalfDone` | 2 workers, 3 invocations, writer batch 2 |
| `read` | `NoDanglingFrame`, `OneAnswerOwed`, `NoLostWakeup`, `RejectNeverBlocks`, `TimeAccounting`, `WorthTheWait`, `QuitLosesNothing`, `ReadersJoined` | 3 workers, 3 reads, both queues, queue limit 1 |
| `disk` | `NodesHaveOneOwner`, `ReaderHoldsItsNode`, `DiskAccounting`, `StoredIsTraced`, `NothingLeftBehind`, `NeverForgotten`, `KeepsRecency`, `DrainCompletes` | functions of 1, 1 and 2 units on a disk of 2, one of them in the bucket at the start, 4 stores, 1 read, 4 nodes |
| `gate` | `CreationsCounted`, `NoLostWakeup`, `EveryCreationPasses` | 2 workers, no bound on invocations |
| `pool` | `NobodySleepsOverAJob`, `MasterKeepsPromise`, `StatsKeepsPromise`, `MasterDestroyed` | 2 master threads, 1 for the statistics, 2 jobs each |
| `tid` | `OwnHandle`, `NeverFails`, `SameHandle` | 3 threads, 3 slots |

Why the bounds are enough.  A memory of 3 holds a small and a large function and
not two large ones, so starts that fit, that evict one container, that evict
several, and that fail all occur, two workers evict at the same time, and the
writer meets an evicting worker.  Four invocations allow two to fill the cache
and two to compete for it; every invocation can need a new container, hence as
many containers as invocations.  `WriteBatch` 1 or 2 stands for 100 and
`QueueLimit` 1 for 100: the limit is reached.  With 3 workers one is in a queue,
one with the reader and one rejected.  A disk of 2 holds the two small functions or
the large one, so a store fits, evicts one, evicts two, and is refused, and with
4 stores a function that has been evicted comes back while its upload is still
queued; each store needs at most one node, hence 4 nodes.  `Imported` is one function,
so that both ways out of the disk are taken early, with an upload and without.  In `PruneGate` two workers sleep
at the gate, which tells a broadcast from a signal that reaches one of them.  In
`ThreadPool` two queued jobs are the least for which one post has to do for
several, and two threads the least that compete for one.  `MaxInvocations`,
`MaxRequests`, `MaxStores`, `MaxReads` and `MaxJobs` bound the trace and nothing else
(`MaxStores` is also at most the number of nodes, since `malloc` does not run out of them); `PruneGate` and `TidTable` have
no bound besides their threads.  Symmetry is used by
`ram_safety` only, which has no liveness property.

Deadlock is checked in every run: after `main = "done"` there is an explicit
`Terminated` stutter, so any other state without a step would be reported.

Each property has a mutant, a variant of one action or operator with a bug a
programmer could have written (marked `Mutant:` in the modules), that violates
it under the same configuration.

### Fairness

- Weak fairness of every thread: the kernel schedules it, and podman, the disk
  and the bucket answer.  `killContainer` and `initFunction` retry for ever in the
  code, so an answer is what they need too.
- Weak fairness of *signalled* wake-ups only.
- Strong fairness of a worker at the open gate, in `PruneGate` alone: the
  pruner naps for ten seconds between two prunes, so a worker that finds the
  gate open again and again gets to run while it is.
- None for `TakeInvocation`, `Ask`, `FindInDisk`, `TakeContainer` or `AddWork`: the
  trace may end at any time.

### Where the code does not do what its comments say

Five runs look for a violation and find one; the traces are short and worth
reading.

- `ram_overcommit` (`NeverOvercommitted`): `freeRam` computes `mem_needed`, drops
  `cache_lock` to kill its victims, and compares with the old value when it has
  the lock again.  Another worker may have reserved the memory meanwhile, so
  "We were able to free up sufficient memory" (`ram_cache.c:111`) is not true and
  `ram->memory` becomes negative.  In the same way an invocation may be failed
  "due to lack of memory" when enough has been returned meanwhile.
  `MemoryAccounting` holds throughout: nothing is lost, the limit is exceeded.
- `disk_upload` (`FoundIsInBucket`): a checkpoint is evicted, the upload thread removes
  its file, which is the last copy, and then calls `uploadObject`, which finds no
  file to upload; the function is listed as being in the bucket.  From then on
  `allocate_invocation` chooses a remote start for it ("Function is present",
  `invocation.c:211`), which waits for a read that brings nothing and ends as a cold
  one (`disk_cache.c:696`), and `freeDisk` deletes its file without an upload whenever it is
  evicted again.  This is the normal course of an upload and needs no unlucky
  interleaving; what needs one is that the upload succeeds.  (What `uploadObject` does
  without a file is not known; the model says that no object comes to be.)
- `gate_pruned` (`ContainerIsThere`): a creation that has passed the gate and not
  counted itself in is invisible to a prune that starts then.  The prune
  removes the created container, and `initFunction` retries for ever.
- `gate_shutdown` (`PoolsClosed`): if -100 is written after the pruner has tested for
  it, the pruner takes it for creations in progress and waits for ever.
- `pool_shutdown` (`FilesClosed`): `thpool_destroy(master)` clears the static
  `threads_keepalive`, so the thread of the statistics leaves after its present
  job.  If latencies are still queued nobody is left to write them, and
  `thpool_wait` in `closeFiles` never returns.

`ram_progress` and `gate` do not contradict `gate_pruned` and `gate_shutdown`: the
first has no pruner, and the second claims that a creation gets *through the guarded
section*, not that its container is there afterwards.

What was met besides, and has no run of its own: the crash of the
reader and the late reads of `temp->memory` described with `DiskCache`;
a run that outlasts the timeout of `runFunction` (`containers.c:402-407`) leaves a
container in the cache that still executes it, in the one step `RunTimesOut`
(`ram_safety` has such runs); the writer credits the memory of what it moves out
before it stops it, so that up to a buffer of containers lives on beyond the
memory of the pool (`disk_cache.c:415`), which `MemoryAccounting`, about the counter, does not
tell; `freeDisk` is asked for the whole size of the invocation and not for what is
missing (`disk_cache.c:302`), so a store can be refused although the evictions made
room for it (`NoRoom` with enough `memory`); and neither the 500 entries of the
upload queue (`:498`) nor the missing terminators of the copied names
(`:314`, `:368`) are anybody's concern in the code.

## 5. The proofs

All theorems are about the specifications the runs check, for every value of the
constants that satisfies the named assumptions: finite sets of workers and
containers, sizes and limits that are natural numbers, a non-zero batch, and
null values outside the sets, `NoContainer` also outside the workers, where it
stands for no server (`RamCacheAssumption`); finitely many workers
(`PruneGateAssumption`, `ReadQueueAssumption`), read times that are natural
numbers and a limit above zero; any set of functions in the bucket at the start;
functions of a non-zero size, a disk of any size, and a node for
every store (`NetCacheAssumption`, `DiskCacheAssumption`; the nodes are memory, and
`malloc` is not asked whether it failed); finitely many threads in each pool, and at least
one (`ThreadPoolAssumption`: a pool without threads would run nothing); no more
threads than slots (`TidTableAssumption`, which is how `initPodman` allocates the
tables).  `DrainAssumption` is about a number in the code: main empties the disk
with `freeDisk(1000000000, ...)` (`main.c:185`), which does so only if that is
more than `freeDisk` adds up.  The assumption says so of the trace: the largest
megabytes a node may read as, times the stores, stay below it.  A freed field that
reads as more would end the drain early; `Stale` leaves such readings out, and
`NothingStaysBehind` and the lemmas under it hold for the others.

| module | theorems |
|---|---|
| `RamCacheProofs` | `TypesHold`, `ContainersHaveOneOwner`, `ContainersAreNotLeaked`, `ListsKeepThePolicy` |
| `RamCacheAccounts` | `MemoryBalances`, `OccupiedBalances`, `WriterOutlivesWorkers`, `StartsAreExact` |
| `DiskCacheProofs` | `DiskTypesHold`, `OneOwner`, `ReaderKeepsItsNode`, `OnceHolds`, `DiskAddsUp`, `StoredStaysTraced`, `NothingForgotten`, `NothingStaysBehind`, `ListKeepsRecency` |
| `PruneGateProofs` | `GateTypes`, `CountIsExact`, `WakeupsReachAll` |
| `ReadQueueProofs` | `QueuesAreBounded`, `FramesOutliveReads`, `AnswersAreOwed`, `InversionIsHarmless`, `QuitIsLast`, `NobodyIsForgotten`, `TimeBalances`, `WaitsAreShort` |
| `ThreadPoolProofs` | `PoolTypes`, `SemaphoreSuffices`, `MasterPoolImplements`, `StatsPoolImplements` |
| `TidTableProofs` | `HandlesAreOwn`, `HandleExists`, `HandleIsStable` |

The argument for `RamCache` has four layers, each resting on the one before:

1. *Types and shape* (`TypeInv`).  `TypeOK` is not inductive: `Shape` adds what goes
   with each program counter: a worker holds a container exactly from creation
   to insertion, has victims only while it evicts, the writer's buffer is
   non-empty exactly while it stores, and all workers are idle once main has
   written the sentinel.
2. *Ownership* (`OwnInv`).  `OneOwner` and `NoLeak` are inductive only together: a
   live container in two lists could be killed under a worker, and a dead one in
   one list could be run.  The proof leaves the lists behind at once: the
   lemmas of `SumsProofs` say what `Append`, `SubSeq` and unlinking do to the set
   of members of a list without repetitions.
3. *Accounts* (`AccountInv`).  A container in two lists would be counted twice, so
   the sums need ownership.  `BooksBalance` reduces both accounts to the
   one worker that moves.
4. *The sentinel.*  While main has not written -1, `OccupiedAccounting` makes
   `cache_occupied` a sum of natural numbers, so it cannot be -1 by accident and
   the writer does not stop early: `WriterOutlivesWorkers`.

Two more results rest on the second layer and on the first.
`ListsKeepThePolicy`: `RamCache` implements the safety part of `KeepAlive`.  Its
invariant is `Policy`, which adds `Ready` to ownership: what is cached is running,
and a worker runs its function in a container that runs.  Each action is
then a step of the policy (`Requests`, `Reuses`, `Launches`, `Boots`, `Releases`,
`Retires`, `Stops`, `Refuses`) or changes nothing it knows of (`InsideStep`,
`OutsideStep`); that one container moves at a time and all others keep their
stage and server is `OneMoves`, and it is ownership that makes it true.
`StartsAreExact`: a start is counted in the same step in which its invocation leaves
the undecided ones, and `UndecidedMoves` says what that does to their number.

For `DiskCache` everything but the drain's liveness is proved.  The pointers come first.
`ListFrom` is recursive along the links, and the recursion is met in one place:
`Linked(first, link, s)` says that a sequence without repetitions is what the links
make, and `ListIsRead` that `ListFrom` then returns just that sequence; of two ways
along the links the first node at which they differ would be a least number
(`LeastNumber`).  From there on each handler that moves pointers has a lemma of what
it does to a linked sequence, and the list is a sequence like any other.

The inductive invariant is `Core`; none of its parts is inductive without the rest:

- `TypeOK` contains that the list has no loop, which is `Chain` and what it says of
  `List`.  Appending keeps it only if the new node is not in the list, which is
  `Apart` (`NodesHaveOneOwner`, spelled out).
- `Stages` says which variables of the writer, reader, uploader and main are in use
  when; in particular main is in `freeDisk` only when writer and reader have stopped.
- `Contents` says what is in the nodes: an allocated node has a function, the one
  being inserted has the function being stored.
- `QuitIsLast`: only the last entry of the queue can be the "quit", and only at the
  end, so it is never taken for a node and no node is queued behind it.
- `StoresCounted`: every allocated node is a store of the writer, so `malloc` has a node
  left.

`Steps` divides the actions into those after which each node is where it was
(`Still`) and those that move one node between the five places (`CreateMoves` to
`UploadedMoves`); `NodesStep` says that a node keeps its function
as long as it has an owner.  On `Core` rest, each with what has to be added to it:

- `ReaderHoldsItsNode`: inductive on `Core`.  `freeDisk` spins on the mark with the lock held, lookups
  move the node but leave the mark.
- `OncePerFunction`: the writer looks and inserts in two critical sections with a
  third in between; nobody else inserts, and `freeDisk` only takes away.
- `DiskAccounting` needs `Room`: what the writer has found free for its function stays free
  until `LinkNode` takes it, and what `freeDisk` has added to `freed` is in `memory`.  A node
  that were listed twice would be charged twice, so the totals need `Core`.
- `StoredIsTraced` needs `TracedOnTheWay`: what the writer is about to link or to queue is
  traced, and what is about to be discarded is in the list of the network cache although
  that was asked before: nothing is ever taken off it.  `NeverForgotten` follows step by
  step (`TraceStays`): a file is removed by `Discard` and by `RemoveFile` only, and the
  upload thread keeps its node until it has linked it.
- `NothingLeftBehind` needs `FilesAreKnown`, that each file belongs to a node somebody
  answers for, and `Drained`: what main has freed and may still free stays below
  what it asked for, so its loop ends at the empty list.
- `ListKeepsRecency`: with `OncePerFunction` every step of the pointers is a step of
  `LruCache` on the functions (`LruStep`).

For `TidTable` the invariant says that only a thread itself writes its id, so what
its unlocked scan has passed cannot become its id behind its back; `NeverFails`
is the pigeonhole principle: a thread that has no slot finds one free, since the
other threads hold one each at most.

For `PruneGate` the invariant joins the two properties with the range of the
program counters (`Places`) and the fact that all workers are idle once main has
waited for them (`AllIdle`), without which the -100 could be decremented.  The
count is exact because each step moves at most one worker across the border of the
guarded section: `InsideSame`, `InsideMore` and `InsideLess` say what that does to
the cardinality.  `NoLostWakeup` then follows step by step: who goes to sleep has
tested under the lock what he waits for, and the step that ends it signals.

For `ReadQueue` all safety invariants are proved.  `NoDanglingFrame` and
`OneAnswerOwed` are inductive together with the types, the `Shape` that goes with
the program counters, and `Held`: the worker whose `cond_lock` a reader holds has
its answer and has not left.  `Held` is what the inverted lock order hangs on: a
worker that rejects its own read is with no reader, so nobody holds the lock it
takes.  `QuitLosesNothing` follows from this invariant alone: when the workers are
idle they have no frames, so the queues are empty.  Wake-ups (`WorkersWoken`,
`ReadersWoken`) and the accounts of the time rest on it; the latter use the laws of
totals, since a read that were queued twice would be charged once.

For `ThreadPool` the invariant says what the counters count (`CountsExact`), which
threads have a job (`JobsAtWork`), that a job is in a pool once, queued, running or
finished (`AllSingle`), and where jobs come from: the master pool has those
`main_loop` has added (`MasterOrigin`), the pool of the statistics those of a master
thread that has saved its latency (`StatsOrigin`).  From that and the order in which main
goes about the pools (`MainOrder`) it follows that nothing comes into a pool whose
wait has returned (`StaysIdle`), although the statistics are fed by another
pool.  `JobMoves` reduces each step to one of: the pool stays, a job comes,
the head of the queue is started, a job ends; and each of these is a step of
`JobPool`.  `SemaphoreSuffices` needs two more facts: while jobs
are queued, the semaphore is up or a thread is on its way to the queue, where it
posts again if it leaves jobs behind (`OnTheWay`); and while the semaphore is up,
somebody is awake to take it (`Awake`).

Checked by TLC only: what needs fairness (`ShutdownCompletes`, `NothingHalfDone`,
`ReadersJoined`, `DrainCompletes`, `EveryCreationPasses`, `MasterDestroyed`), since
liveness and ENABLED are beyond the prover.  Every safety property of a passing run
is a theorem.

## 6. Not modelled

- The modes without podman, disk or network cache (see the introduction).
- The function's memory is a constant of the function (`Mem`), as in the traces;
  the code reads it from each line.
- Requests to podman, JSON, ports, curl handles: a request is one step that
  succeeds after any number of retries.  Those that `exit(1)` on an error end the
  program, and nothing is promised after that.
- Clock values and latencies: a poll or a timeout may happen at any time.
- `minio.cpp` is not in the repository; `findObject`, `retrieveObject`, `getObject` and
  `uploadObject` are known from their uses (see `UploadObject` in section 3).
  `checkpointContainer` is taken to ask the bucket with `findObject`, and not the
  list, for which there is `findInNetwork`.
- The number of entries in the upload queue, and the contents of names and files: a
  function is a model value, and its file or object exists or does not.  An export
  and a read of a file are one step each.
- `importCache`, which is not in the repository either.  `main_loop` calls it
  (`main.c:77`) before it starts the pools; `initNetCache` has started the upload and
  the download thread by then, which have nothing to do yet.  The models start
  after it: what it has found in the bucket is in the list (`Imported`).
- `deleteObject`, which only `test_bandwidth` calls (`option_reader.c:137`).
- `read_options`, `destroyPodman` and the printing of totals.
- `thpool_pause`, `thpool_resume`, `thpool_num_threads_working`: never called here.
  `thpool_init` is the initial state of `ThreadPool`; a failed `malloc` is left out.
- What section 2 lists as still to come.
