------------------------------ MODULE RamCache ------------------------------
(***************************************************************************)
(* The RAM cache of warm containers and the three kinds of thread that     *)
(* share it: the workers that run allocate_invocation (invocation.c), the  *)
(* single writeToDisk thread (disk_cache.c), and the main thread that      *)
(* shuts the pools down (main.c).                                          *)
(*                                                                         *)
(* Everything ram_t holds is protected by ram->cache_lock, so a stretch of *)
(* code that keeps the lock is one action; freeRam, which drops the lock   *)
(* while it kills containers, is three.  Only the mode with containers and *)
(* a network cache is modelled: allocate_invocation dereferences both on   *)
(* every start that is not warm.                                           *)
(***************************************************************************)
EXTENDS Sums

CONSTANTS
  Workers,         \* the threads of the master pool
  Containers,      \* the ids podman can hand out
  Functions,       \* the function hashes of the trace
  Mem,             \* AverageAllocatedMb of each function
  MaxMemory,       \* options->memory, the initial ram->memory
  Threshold,       \* options->threshold, a percentage of MaxMemory
  WriteBatch,      \* entries writeToDisk moves per poll (100 in the code)
  MaxInvocations,  \* BOUND: lines of the input trace
  SlowRuns,        \* whether a run may outlast the timeout of runFunction
  NoFunction, NoContainer

ASSUME RamCacheAssumption ==
  /\ IsFiniteSet(Workers)
  /\ IsFiniteSet(Containers)
  /\ Mem \in [Functions -> Nat]
  /\ MaxMemory \in Nat
  /\ Threshold \in Nat
  /\ WriteBatch \in Nat \ {0}
  /\ MaxInvocations \in Nat
  /\ SlowRuns \in BOOLEAN
  /\ NoFunction \notin Functions
  /\ NoContainer \notin Containers \cup Workers

VARIABLES
  memory,         \* ram->memory: megabytes not promised to anybody
  cacheOccupied,  \* *(ram->cache_occupied), -1 once the emulation is over
  ram,            \* ram->head: the cached containers, oldest first
  pc,             \* where each worker is in allocate_invocation
  job,            \* args->invocation->hash_function of each worker
  cont,           \* args->invocation->container_id of each worker
  victims,        \* to_remove: what freeRam unlinked and has not killed yet
  freed,          \* the local variable of freeRam
  needed,         \* mem_needed, computed before freeRam is called
  fn,             \* the function each container was created for
  life,           \* what podman knows of each container
  late,           \* containers whose timed-out run is still executing
  starts,         \* the counters main prints, and the failures of stats
  served,         \* how many invocations the workers have taken
  wr,             \* where the writeToDisk thread is
  buffer,         \* its local array of invocations
  main            \* where the main thread is in main_loop and endPools

workerVars == <<pc, job, cont, victims, freed, needed>>
podmanVars == <<fn, life, late>>
writerVars == <<wr, buffer>>
vars == <<memory, cacheOccupied, ram, workerVars, podmanVars, starts,
          served, writerVars, main>>

WorkerPCs == {"idle", "lookup", "evict", "create", "created", "boot", "run"}
StartKinds == {"warm", "luke", "remote", "cold", "failed"}

-----------------------------------------------------------------------------
SizeOf == [c \in Containers |->
             IF fn[c] = NoFunction THEN 0 ELSE Mem[fn[c]]]

\* Megabytes of the first k nodes of the list.
PrefixSize(k) == Total(Elements(SubSeq(ram, 1, k)), SizeOf)

\* Mutant: the head of the list is returned and not unlinked.
WithoutNodeHeadKept(s, i) ==
  IF i = 1 THEN s
           ELSE [j \in 1..Len(s) - 1 |-> IF j < i THEN s[j] ELSE s[j + 1]]

WithoutNode(s, i) == [j \in 1..Len(s) - 1 |-> IF j < i THEN s[j] ELSE s[j + 1]]

Init ==
  /\ memory = MaxMemory
  /\ cacheOccupied = 0
  /\ ram = <<>>
  /\ pc = [w \in Workers |-> "idle"]
  /\ job = [w \in Workers |-> NoFunction]
  /\ cont = [w \in Workers |-> NoContainer]
  /\ victims = [w \in Workers |-> <<>>]
  /\ freed = [w \in Workers |-> 0]
  /\ needed = [w \in Workers |-> 0]
  /\ fn = [c \in Containers |-> NoFunction]
  /\ life = [c \in Containers |-> "absent"]
  /\ late = {}
  /\ starts = [k \in StartKinds |-> 0]
  /\ served = 0
  /\ wr = "poll"
  /\ buffer = <<>>
  /\ main = "feeding"

Count(kind) == starts' = [starts EXCEPT ![kind] = @ + 1]
Goto(w, label) == pc' = [pc EXCEPT ![w] = label]

-----------------------------------------------------------------------------
(***************************************************************************)
(* allocate_invocation                                                     *)
(***************************************************************************)

\* main_loop queues an invocation and an idle worker takes it.
TakeInvocation(w, f) ==
  /\ main = "feeding"
  /\ served < MaxInvocations
  /\ pc[w] = "idle"
  /\ served' = served + 1
  /\ job' = [job EXCEPT ![w] = f]
  /\ Goto(w, "lookup")
  /\ UNCHANGED <<memory, cacheOccupied, ram, cont, victims, freed, needed,
                 podmanVars, starts, writerVars, main>>

\* Mutant: the head of the list is taken without comparing its function.
FirstMatchHead(f, i) == i \in DOMAIN ram /\ i = 1

\* searchRam: the oldest cached container of the function, if there is one.
FirstMatch(f, i) ==
  /\ i \in DOMAIN ram
  /\ fn[ram[i]] = f
  /\ \A j \in 1..i - 1 : fn[ram[j]] # f

Cached(f) == \E i \in DOMAIN ram : fn[ram[i]] = f

\* Mutant: a warm start leaves cache_occupied alone.
WarmOccupiedUnchanged(c) == cacheOccupied

WarmOccupied(c) == cacheOccupied - SizeOf[c]

WarmStart(w) ==
  /\ pc[w] = "lookup"
  /\ \E i \in 1..Len(ram) :
       /\ FirstMatch(job[w], i)
       /\ cont' = [cont EXCEPT ![w] = ram[i]]
       /\ ram' = WithoutNode(ram, i)
       /\ cacheOccupied' = WarmOccupied(ram[i])
  /\ Count("warm")
  /\ Goto(w, "run")
  /\ UNCHANGED <<memory, job, victims, freed, needed, podmanVars, served,
                 writerVars, main>>

\* Not cached, and enough memory is free: it is reserved at once.
Reserve(w) ==
  /\ pc[w] = "lookup"
  /\ ~Cached(job[w])
  /\ memory >= Mem[job[w]]
  /\ memory' = memory - Mem[job[w]]
  /\ Goto(w, "create")
  /\ UNCHANGED <<cacheOccupied, ram, job, cont, victims, freed, needed,
                 podmanVars, starts, served, writerVars, main>>

\* The loop of freeRam stops after k nodes: before that it had freed too
\* little, and now it has freed enough or there is no node left.
EvictStop(k, amount) ==
  /\ \A j \in 0..k - 1 : PrefixSize(j) < amount
  /\ k = Len(ram) \/ PrefixSize(k) >= amount

\* Not cached and not enough memory: freeRam unlinks the oldest containers
\* and releases cache_lock.
BeginFreeRam(w) ==
  /\ pc[w] = "lookup"
  /\ ~Cached(job[w])
  /\ memory < Mem[job[w]]
  /\ needed' = [needed EXCEPT ![w] = Mem[job[w]] - memory]
  /\ \E k \in 0..Len(ram) :
       /\ EvictStop(k, Mem[job[w]] - memory)
       /\ victims' = [victims EXCEPT ![w] = SubSeq(ram, 1, k)]
       /\ freed' = [freed EXCEPT ![w] = PrefixSize(k)]
       /\ ram' = SubSeq(ram, k + 1, Len(ram))
  /\ Goto(w, "evict")
  /\ UNCHANGED <<memory, cacheOccupied, job, cont, podmanVars, starts,
                 served, writerVars, main>>

\* killContainer retries until podman has answered.
KillContainer(c) ==
  /\ life' = [life EXCEPT ![c] = "stopped"]
  /\ late' = late \ {c}
  /\ UNCHANGED fn

KillVictim(w) ==
  /\ pc[w] = "evict"
  /\ victims[w] # <<>>
  /\ KillContainer(Head(victims[w]))
  /\ victims' = [victims EXCEPT ![w] = Tail(@)]
  /\ UNCHANGED <<memory, cacheOccupied, ram, pc, job, cont, freed, needed,
                 starts, served, writerVars, main>>

\* freeRam takes the lock again and accounts for what it freed; a success
\* is followed by the reservation in the same critical section.
Credit(w) == memory + freed[w]

EndFreeRam(w) ==
  /\ pc[w] = "evict"
  /\ victims[w] = <<>>
  /\ freed[w] >= needed[w]
  /\ memory' = Credit(w) - Mem[job[w]]
  /\ cacheOccupied' = cacheOccupied - freed[w]
  /\ freed' = [freed EXCEPT ![w] = 0]
  /\ Goto(w, "create")
  /\ UNCHANGED <<ram, job, cont, victims, needed, podmanVars, starts,
                 served, writerVars, main>>

\* Mutant: the failure is counted and the early return is missing.
FailInvocationNoReturn(w) ==
  /\ pc[w] = "evict"
  /\ victims[w] = <<>>
  /\ freed[w] < needed[w]
  /\ memory' = Credit(w) - Mem[job[w]]
  /\ cacheOccupied' = cacheOccupied - freed[w]
  /\ freed' = [freed EXCEPT ![w] = 0]
  /\ Count("failed")
  /\ Goto(w, "create")
  /\ UNCHANGED <<ram, job, cont, victims, needed, podmanVars, served,
                 writerVars, main>>

FailInvocation(w) ==
  /\ pc[w] = "evict"
  /\ victims[w] = <<>>
  /\ freed[w] < needed[w]
  /\ memory' = Credit(w)
  /\ cacheOccupied' = cacheOccupied - freed[w]
  /\ freed' = [freed EXCEPT ![w] = 0]
  /\ Count("failed")
  /\ Goto(w, "idle")
  /\ UNCHANGED <<ram, job, cont, victims, needed, podmanVars, served,
                 writerVars, main>>

\* createContainer: podman answers with an id it never gave before.
CreateContainer(w) ==
  /\ pc[w] = "create"
  /\ \E c \in Containers :
       /\ life[c] = "absent"
       /\ life' = [life EXCEPT ![c] = "created"]
       /\ fn' = [fn EXCEPT ![c] = job[w]]
       /\ cont' = [cont EXCEPT ![w] = c]
  /\ Goto(w, "created")
  /\ UNCHANGED <<memory, cacheOccupied, ram, job, victims, freed, needed,
                 late, starts, served, writerVars, main>>

StartContainer(w) ==
  /\ life' = [life EXCEPT ![cont[w]] = "running"]
  /\ UNCHANGED <<fn, late>>

\* The read queues answered with a checkpoint, from disk or from the network,
\* and restoreCheckpoint starts the container with it.
RestoredStart(w, kind) ==
  /\ pc[w] = "created"
  /\ kind \in {"luke", "remote"}
  /\ Count(kind)
  /\ StartContainer(w)
  /\ Goto(w, "run")
  /\ UNCHANGED <<memory, cacheOccupied, ram, job, cont, victims, freed,
                 needed, served, writerVars, main>>

\* No checkpoint was found, or the read was rejected.
ColdStart(w) ==
  /\ pc[w] = "created"
  /\ Count("cold")
  /\ Goto(w, "boot")
  /\ UNCHANGED <<memory, cacheOccupied, ram, job, cont, victims, freed,
                 needed, podmanVars, served, writerVars, main>>

\* startContainer and initFunction, outside the lock.
BootContainer(w) ==
  /\ pc[w] = "boot"
  /\ StartContainer(w)
  /\ Goto(w, "run")
  /\ UNCHANGED <<memory, cacheOccupied, ram, job, cont, victims, freed,
                 needed, starts, served, writerVars, main>>

InsertRamItem(w) ==
  /\ ram' = Append(ram, cont[w])
  /\ cacheOccupied' = cacheOccupied + Mem[job[w]]

\* runFunction returns with the answer of the function, or gives up on it
\* after duration + 1000 ms; either way the container becomes a cached one.
Finish(w, lateRuns) ==
  /\ pc[w] = "run"
  /\ InsertRamItem(w)
  /\ late' = lateRuns
  /\ cont' = [cont EXCEPT ![w] = NoContainer]
  /\ Goto(w, "idle")
  /\ UNCHANGED <<memory, job, victims, freed, needed, fn, life, starts,
                 served, writerVars, main>>

RunReturns(w) == cont[w] \notin late /\ Finish(w, late)
RunTimesOut(w) == SlowRuns /\ Finish(w, late \cup {cont[w]})

\* A run nobody waits for any longer comes to its end.
LateRunEnds(c) ==
  /\ c \in late
  /\ late' = late \ {c}
  /\ UNCHANGED <<memory, cacheOccupied, ram, workerVars, fn, life, starts,
                 served, writerVars, main>>

-----------------------------------------------------------------------------
(***************************************************************************)
(* writeToDisk                                                             *)
(***************************************************************************)
OverThreshold(occupied) == 100 * occupied > Threshold * MaxMemory

\* Mutant: the write buffer is filled without looking at its size.
MoveOnUnbounded(k) == OverThreshold(cacheOccupied - PrefixSize(k))

\* The loop that fills the write buffer stops after k nodes.
MoveOn(k) ==
  /\ OverThreshold(cacheOccupied - PrefixSize(k))
  /\ k < WriteBatch
PollStop(k) ==
  /\ \A j \in 0..k - 1 : MoveOn(j)
  /\ k = Len(ram) \/ ~MoveOn(k)

\* Mutant: an empty cache is taken for the end of the emulation.
EndedWhenEmpty == cacheOccupied = 0

\* The writer's end of emulation test.
Ended == cacheOccupied = -1

\* Mutant: the memory of a container handed to the writer is not returned.
MovedOutUncredited(k) ==
  /\ cacheOccupied' = cacheOccupied - PrefixSize(k)
  /\ memory' = memory

MovedOut(k) ==
  /\ cacheOccupied' = cacheOccupied - PrefixSize(k)
  /\ memory' = memory + PrefixSize(k)

WriterPoll ==
  /\ wr = "poll"
  /\ ~Ended
  /\ OverThreshold(cacheOccupied)
  /\ \E k \in 1..Len(ram) :
       /\ PollStop(k)
       /\ MovedOut(k)
       /\ buffer' = SubSeq(ram, 1, k)
       /\ ram' = SubSeq(ram, k + 1, Len(ram))
  /\ wr' = "store"
  /\ UNCHANGED <<workerVars, podmanVars, starts, served, main>>

\* Mutant: a container that is not stored is not killed either.
WriterStoreNoKill ==
  /\ wr = "store"
  /\ buffer' = Tail(buffer)
  /\ wr' = IF Len(buffer) = 1 THEN "poll" ELSE "store"
  /\ UNCHANGED <<memory, cacheOccupied, ram, workerVars, podmanVars, starts,
                 served, main>>

\* insertDiskItem checkpoints the container or kills it, and a function that
\* is on disk already is only killed: the container is stopped either way.
WriterStore ==
  /\ wr = "store"
  /\ KillContainer(Head(buffer))
  /\ buffer' = Tail(buffer)
  /\ wr' = IF Len(buffer) = 1 THEN "poll" ELSE "store"
  /\ UNCHANGED <<memory, cacheOccupied, ram, workerVars, starts, served,
                 main>>

WriterExit ==
  /\ wr = "poll"
  /\ Ended
  /\ wr' = "exited"
  /\ UNCHANGED <<memory, cacheOccupied, ram, workerVars, podmanVars, starts,
                 served, buffer, main>>

-----------------------------------------------------------------------------
(***************************************************************************)
(* main_loop and endPools                                                  *)
(***************************************************************************)
EndOfInput ==
  /\ main = "feeding"
  /\ main' = "waiting"
  /\ UNCHANGED <<memory, cacheOccupied, ram, workerVars, podmanVars, starts,
                 served, writerVars>>

\* Mutant: the writer is not told to stop.
StopWriterUnsaid ==
  /\ main = "waiting"
  /\ \A w \in Workers : pc[w] = "idle"
  /\ main' = "draining"
  /\ UNCHANGED <<memory, cacheOccupied, ram, workerVars, podmanVars, starts,
                 served, writerVars>>

\* thpool_wait(master) has returned; the writer is told to stop.
StopWriter ==
  /\ main = "waiting"
  /\ \A w \in Workers : pc[w] = "idle"
  /\ cacheOccupied' = -1
  /\ main' = "draining"
  /\ UNCHANGED <<memory, ram, workerVars, podmanVars, starts, served,
                 writerVars>>

\* thpool_wait(write) has returned.
JoinWriter ==
  /\ main = "draining"
  /\ wr = "exited"
  /\ main' = "done"
  /\ UNCHANGED <<memory, cacheOccupied, ram, workerVars, podmanVars, starts,
                 served, writerVars>>

Terminated == main = "done" /\ UNCHANGED vars

-----------------------------------------------------------------------------
WorkerStep(w) ==
  \/ WarmStart(w)
  \/ Reserve(w)
  \/ BeginFreeRam(w)
  \/ KillVictim(w)
  \/ EndFreeRam(w)
  \/ FailInvocation(w)
  \/ CreateContainer(w)
  \/ \E kind \in StartKinds : RestoredStart(w, kind)
  \/ ColdStart(w)
  \/ BootContainer(w)
  \/ RunReturns(w)
  \/ RunTimesOut(w)

WriterStep == WriterPoll \/ WriterStore \/ WriterExit
MainStep == EndOfInput \/ StopWriter \/ JoinWriter

Next ==
  \/ \E w \in Workers, f \in Functions : TakeInvocation(w, f)
  \/ \E w \in Workers : WorkerStep(w)
  \/ \E c \in Containers : LateRunEnds(c)
  \/ WriterStep
  \/ MainStep
  \/ Terminated

Spec == Init /\ [][Next]_vars

\* The kernel schedules every thread, podman answers every request, the runs
\* the emulator starts come to an end, and the trace file is finite.
Fairness ==
  /\ \A w \in Workers : WF_vars(WorkerStep(w))
  /\ \A c \in Containers : WF_vars(LateRunEnds(c))
  /\ WF_vars(WriterStep)
  /\ WF_vars(MainStep)

FairSpec == Spec /\ Fairness

-----------------------------------------------------------------------------
(***************************************************************************)
(* Correctness                                                             *)
(***************************************************************************)
Live == {"created", "running"}

\* Every variable keeps its range: in particular writeToDisk never fills its
\* array of WriteBatch entries beyond the end (disk_cache.c:410), and a worker
\* works on a container exactly between its creation and its insertion.
TypeOK ==
  /\ memory \in Int
  /\ cacheOccupied \in Int
  /\ ram \in Seq(Containers)
  /\ pc \in [Workers -> WorkerPCs]
  /\ job \in [Workers -> Functions \cup {NoFunction}]
  /\ cont \in [Workers -> Containers \cup {NoContainer}]
  /\ victims \in [Workers -> Seq(Containers)]
  /\ freed \in [Workers -> Nat]
  /\ needed \in [Workers -> Int]
  /\ fn \in [Containers -> Functions \cup {NoFunction}]
  /\ life \in [Containers -> {"absent", "created", "running", "stopped"}]
  /\ late \subseteq Containers
  /\ starts \in [StartKinds -> Nat]
  /\ served \in 0..MaxInvocations
  /\ wr \in {"poll", "store", "exited"}
  /\ buffer \in Seq(Containers)
  /\ Len(buffer) <= WriteBatch
  /\ main \in {"feeding", "waiting", "draining", "done"}

\* Where a container can be: in the cache, with the writer, in a worker's
\* hands, or in the list a worker is killing.
InRam(c) == c \in Elements(ram)
InBuffer(c) == c \in Elements(buffer)
InHand(w, c) == cont[w] = c
InVictims(w, c) == c \in Elements(victims[w])
Owned(c) ==
  \/ InRam(c)
  \/ InBuffer(c)
  \/ \E w \in Workers : InHand(w, c) \/ InVictims(w, c)

\* A container has one owner at a time: no two workers run in it, nobody runs
\* in a container that is cached or being killed, and no list holds it twice
\* (searchRam, freeRam and writeToDisk all unlink, insertRamItem links).
OneOwner ==
  /\ ~Repeats(ram)
  /\ ~Repeats(buffer)
  /\ \A w \in Workers : ~Repeats(victims[w])
  /\ \A c \in Containers :
       /\ ~(InRam(c) /\ InBuffer(c))
       /\ \A w \in Workers :
            /\ ~(InHand(w, c) /\ (InRam(c) \/ InBuffer(c)))
            /\ ~(InVictims(w, c) /\ (InRam(c) \/ InBuffer(c)))
            /\ \A v \in Workers :
                 /\ InHand(w, c) => ~InVictims(v, c)
                 /\ w # v => ~(InHand(w, c) /\ InHand(v, c))
                 /\ w # v => ~(InVictims(w, c) /\ InVictims(v, c))

\* No container is leaked or used after its death: podman has it alive if and
\* only if somebody in the emulator still answers for it, and the one a worker
\* answers for was made for the function it serves.
NoLeak ==
  /\ \A c \in Containers : life[c] \in Live <=> Owned(c)
  /\ \A w \in Workers : cont[w] # NoContainer => fn[cont[w]] = job[w]

\* The megabytes a worker has taken out of ram->memory.
Charge ==
  [w \in Workers |->
     CASE pc[w] = "evict" -> freed[w]
       [] pc[w] \in {"create", "created", "boot", "run"} -> Mem[job[w]]
       [] OTHER -> 0]

\* No megabyte is lost or counted twice: ram->memory, the cached containers
\* and what the workers hold add up to options->memory, through reservation,
\* eviction, failure, warm start, write-out and shutdown.
MemoryAccounting ==
  memory + Total(Elements(ram), SizeOf) + Total(Workers, Charge) = MaxMemory

\* The megabytes freeRam has unlinked and not yet subtracted.
Unsettled == [w \in Workers |-> IF pc[w] = "evict" THEN freed[w] ELSE 0]

\* Until the end of the emulation *(ram->cache_occupied) is the size of the
\* list plus what the running freeRam calls have still to subtract; the value
\* -1 is therefore never reached by accounting and is safe as a sentinel.
OccupiedAccounting ==
  IF main \in {"feeding", "waiting"}
    THEN cacheOccupied = Total(Elements(ram), SizeOf)
                           + Total(Workers, Unsettled)
    ELSE cacheOccupied = -1

\* writeToDisk stops only when endPools has asked it to, every invocation is
\* over, and its buffer is empty (disk_cache.c:401, main.c:35).
WriterStopsLast ==
  wr = "exited" => /\ main \in {"draining", "done"}
                   /\ buffer = <<>>
                   /\ \A w \in Workers : pc[w] = "idle"

\* The start statistics are exact: every invocation is counted under exactly
\* one kind of start once that is decided (invocation.c:94, 131, 236, 246, 263).
Undecided == {w \in Workers : pc[w] \in {"lookup", "evict", "create", "created"}}
CountedOnce ==
  served = starts["warm"] + starts["luke"] + starts["remote"]
             + starts["cold"] + starts["failed"] + Cardinality(Undecided)

\* The emulator reaches the end of endPools' wait for the writer: every
\* invocation that was taken is run or failed, and the writer stops.
ShutdownCompletes == <>(main = "done")

-----------------------------------------------------------------------------
(***************************************************************************)
(* What a comment of the code says, and the code does not keep.            *)
(***************************************************************************)

\* ram_cache.c:111, "We were able to free up sufficient memory": a successful
\* freeRam leaves enough for the reservation that follows it.
NeverOvercommitted == memory >= 0
=============================================================================
