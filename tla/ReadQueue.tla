------------------------------ MODULE ReadQueue ------------------------------
(***************************************************************************)
(* The two queues of checkpoint reads.  A worker that expects a restore to *)
(* beat a cold start puts its invocation into the queue of the disk or of  *)
(* the network, and sleeps on a condition variable of its own stack frame  *)
(* until the one reader of that queue has set its flag to 1 (read) or -1   *)
(* (not found, or rejected).                                               *)
(*                                                                         *)
(* A critical section in which nothing blocks is one action, enabled while *)
(* the lock is free.  Two sections do block: rejectRead takes cond_lock    *)
(* with read_lock held, and the reader takes read_lock with cond_lock      *)
(* held.  Those are split, and ReadLocked and CondLocked say who is inside *)
(* them.                                                                   *)
(***************************************************************************)
EXTENDS Sums

CONSTANTS
  Workers,      \* the threads of the master pool
  Functions,    \* the function hashes of the trace
  Cost,         \* memory / read_speed, or / net_speed, for each queue
  Budget,       \* cold_lat - restore_lat, in the same unit of time
  QueueLimit,   \* the longest queue that takes another request (100)
  MaxRequests,  \* BOUND: reads the trace gives rise to
  NoWorker, NoFunction

Queues == {"disk", "net"}

ASSUME ReadQueueAssumption ==
  /\ IsFiniteSet(Workers)
  /\ Cost \in [Queues -> [Functions -> Nat]]
  /\ Budget \in Int
  /\ QueueLimit \in Nat \ {0}
  /\ MaxRequests \in Nat
  /\ NoWorker \notin Workers
  /\ NoFunction \notin Functions

VARIABLES
  pc,          \* where each worker is
  target,      \* the queue its read is meant for (start_type)
  wanted,      \* invocation->hash_function
  flag,        \* *(invocation->conc_n): 0, 1 or -1
  frame,       \* whether its cond and cond_lock exist
  woken,       \* whether its pthread_cond_wait has been signalled
  queue,       \* read_buffer->buffer, of workers for their invocations
  timeToRead,  \* time_to_read of each queue
  reader,      \* where the reader of each queue is
  current,     \* inv, the invocation it is reading
  alerted,     \* whether its pthread_cond_wait has been signalled
  quit,        \* whether buffer[0] is the "quit" invocation
  main,        \* where the main thread is in endPools and destroyNetCache
  requests     \* how many reads have been asked for

workerVars == <<pc, target, wanted, flag, frame, woken, requests>>
readerVars == <<reader, current, alerted>>
vars == <<workerVars, queue, timeToRead, readerVars, quit, main>>

Init ==
  /\ pc = [w \in Workers |-> "idle"]
  /\ target = [w \in Workers |-> "disk"]
  /\ wanted = [w \in Workers |-> NoFunction]
  /\ flag = [w \in Workers |-> 0]
  /\ frame = [w \in Workers |-> FALSE]
  /\ woken = [w \in Workers |-> FALSE]
  /\ queue = [q \in Queues |-> <<>>]
  /\ timeToRead = [q \in Queues |-> 0]
  /\ reader = [q \in Queues |-> "next"]
  /\ current = [q \in Queues |-> NoWorker]
  /\ alerted = [q \in Queues |-> FALSE]
  /\ quit = [q \in Queues |-> FALSE]
  /\ main = "running"
  /\ requests = 0

\* read_lock is held across a blocking call by a worker that rejects its own
\* read, and cond_lock by a reader between its answer and its signal.
ReadLocked(q) == \E w \in Workers : pc[w] = "reject" /\ target[w] = q

\* Mutant: the reader signals after it has released cond_lock.
CondLockedTooShort(w) ==
  \E q \in Queues : reader[q] = "settle" /\ current[q] = w

CondLocked(w) ==
  \E q \in Queues : reader[q] \in {"settle", "signal"} /\ current[q] = w

CostOf(w) == IF wanted[w] = NoFunction THEN 0 ELSE Cost[target[w]][wanted[w]]
Goto(w, label) == pc' = [pc EXCEPT ![w] = label]

-----------------------------------------------------------------------------
(***************************************************************************)
(* The worker: invocation.c:187-231                                        *)
(***************************************************************************)

\* The worker has chosen start_type and set up its condition variable.
Ask(w, q, f) ==
  /\ main = "running"
  /\ requests < MaxRequests
  /\ pc[w] = "idle"
  /\ requests' = requests + 1
  /\ target' = [target EXCEPT ![w] = q]
  /\ wanted' = [wanted EXCEPT ![w] = f]
  /\ frame' = [frame EXCEPT ![w] = TRUE]
  /\ Goto(w, "enqueue")
  /\ UNCHANGED <<flag, woken, queue, timeToRead, readerVars, quit, main>>

\* Mutant: the reads already queued are not counted.
TooSlowAlone(w, q) == CostOf(w) >= Budget

\* A read is worth its while if it is expected to be over before a cold start.
TooSlow(w, q) == timeToRead[q] + CostOf(w) >= Budget

\* Mutant: off by one.
FullOneLate(q) == Len(queue[q]) > QueueLimit

Full(q) == Len(queue[q]) >= QueueLimit

\* Mutant: the reader is not signalled.
AcceptSilently(w, q) ==
  /\ pc[w] = "enqueue"
  /\ target[w] = q
  /\ ~ReadLocked(q)
  /\ ~TooSlow(w, q)
  /\ ~Full(q)
  /\ timeToRead' = [timeToRead EXCEPT ![q] = @ + CostOf(w)]
  /\ queue' = [queue EXCEPT ![q] = Append(@, w)]
  /\ Goto(w, "check")
  /\ UNCHANGED <<target, wanted, flag, frame, woken, requests, readerVars,
                 quit, main>>

Accept(w, q) ==
  /\ pc[w] = "enqueue"
  /\ target[w] = q
  /\ ~ReadLocked(q)
  /\ ~TooSlow(w, q)
  /\ ~Full(q)
  /\ timeToRead' = [timeToRead EXCEPT ![q] = @ + CostOf(w)]
  /\ queue' = [queue EXCEPT ![q] = Append(@, w)]
  /\ alerted' = [alerted EXCEPT ![q] = (reader[q] = "asleep")]
  /\ Goto(w, "check")
  /\ UNCHANGED <<target, wanted, flag, frame, woken, requests, reader, current,
                 quit, main>>

\* Mutant: no return after the rejection, so the read is queued as well.
RefuseAndQueue(w, q) ==
  /\ pc[w] = "enqueue"
  /\ target[w] = q
  /\ ~ReadLocked(q)
  /\ TooSlow(w, q) \/ Full(q)
  /\ queue' = [queue EXCEPT ![q] = Append(@, w)]
  /\ Goto(w, "reject")
  /\ UNCHANGED <<target, wanted, flag, frame, woken, requests, timeToRead,
                 readerVars, quit, main>>

Refuse(w, q) ==
  /\ pc[w] = "enqueue"
  /\ target[w] = q
  /\ ~ReadLocked(q)
  /\ TooSlow(w, q) \/ Full(q)
  /\ Goto(w, "reject")
  /\ UNCHANGED <<target, wanted, flag, frame, woken, requests, queue,
                 timeToRead, readerVars, quit, main>>

AddToReadBuffer(w) == Accept(w, "disk") \/ Refuse(w, "disk")
AddToNetworkReadBuffer(w) == Accept(w, "net") \/ Refuse(w, "net")

\* The worker signals itself: nobody sleeps on the condition variable yet.
RejectRead(w) ==
  /\ pc[w] = "reject"
  /\ ~CondLocked(w)
  /\ flag' = [flag EXCEPT ![w] = -1]
  /\ Goto(w, "check")
  /\ UNCHANGED <<target, wanted, frame, woken, requests, queue, timeToRead,
                 readerVars, quit, main>>

\* The loop around pthread_cond_wait: still no answer, so the worker sleeps.
Sleep(w) ==
  /\ pc[w] = "check"
  /\ ~CondLocked(w)
  /\ flag[w] = 0
  /\ woken' = [woken EXCEPT ![w] = FALSE]
  /\ Goto(w, "asleep")
  /\ UNCHANGED <<target, wanted, flag, frame, requests, queue, timeToRead,
                 readerVars, quit, main>>

\* pthread_cond_wait may also return with no signal.
Wake(w) ==
  /\ pc[w] = "asleep"
  /\ Goto(w, "check")
  /\ UNCHANGED <<target, wanted, flag, frame, woken, requests, queue,
                 timeToRead, readerVars, quit, main>>

\* The answer has come: unlock, destroy the lock and the condition, and go on
\* to the luke, remote or cold start it stands for; the frame is gone.
Leave(w) ==
  /\ pc[w] = "check"
  /\ ~CondLocked(w)
  /\ flag[w] # 0
  /\ frame' = [frame EXCEPT ![w] = FALSE]
  /\ flag' = [flag EXCEPT ![w] = 0]
  /\ woken' = [woken EXCEPT ![w] = FALSE]
  /\ wanted' = [wanted EXCEPT ![w] = NoFunction]
  /\ Goto(w, "idle")
  /\ UNCHANGED <<target, requests, queue, timeToRead, readerVars, quit, main>>

-----------------------------------------------------------------------------
(***************************************************************************)
(* The reader: readFromDisk and readFromNetwork                            *)
(***************************************************************************)
ReaderGoto(q, label) == reader' = [reader EXCEPT ![q] = label]

ReaderSleep(q) ==
  /\ reader[q] = "next"
  /\ ~ReadLocked(q)
  /\ queue[q] = <<>>
  /\ ~quit[q]
  /\ alerted' = [alerted EXCEPT ![q] = FALSE]
  /\ ReaderGoto(q, "asleep")
  /\ UNCHANGED <<workerVars, queue, timeToRead, current, quit, main>>

ReaderWake(q) ==
  /\ reader[q] = "asleep"
  /\ ReaderGoto(q, "next")
  /\ UNCHANGED <<workerVars, queue, timeToRead, current, alerted, quit, main>>

ReaderQuit(q) ==
  /\ reader[q] = "next"
  /\ ~ReadLocked(q)
  /\ quit[q]
  /\ ReaderGoto(q, "exited")
  /\ UNCHANGED <<workerVars, queue, timeToRead, current, alerted, quit, main>>

\* Mutant: buffer_size is not decremented, so the same read is taken again.
ExtractUnshifted(q) ==
  /\ reader[q] = "next"
  /\ ~ReadLocked(q)
  /\ queue[q] # <<>>
  /\ ~quit[q]
  /\ current' = [current EXCEPT ![q] = Head(queue[q])]
  /\ ReaderGoto(q, "read")
  /\ UNCHANGED <<workerVars, queue, timeToRead, alerted, quit, main>>

\* The first invocation is taken and the others shift one place.
Extract(q) ==
  /\ reader[q] = "next"
  /\ ~ReadLocked(q)
  /\ queue[q] # <<>>
  /\ ~quit[q]
  /\ current' = [current EXCEPT ![q] = Head(queue[q])]
  /\ queue' = [queue EXCEPT ![q] = Tail(@)]
  /\ ReaderGoto(q, "read")
  /\ UNCHANGED <<workerVars, timeToRead, alerted, quit, main>>

\* retrieveFromDisk or getObject has returned, with the checkpoint or (evicted
\* in the meantime, not in the bucket) without; the answer is set under
\* cond_lock, which the reader keeps.
Answer(q, found) ==
  /\ reader[q] = "read"
  /\ ~CondLocked(current[q])
  /\ flag' = [flag EXCEPT ![current[q]] = IF found THEN 1 ELSE -1]
  /\ ReaderGoto(q, "settle")
  /\ UNCHANGED <<pc, target, wanted, frame, woken, requests, queue,
                 timeToRead, current, alerted, quit, main>>

\* Mutant: the time of a read that found nothing is never given back.
SettleHitsOnly(q) ==
  /\ reader[q] = "settle"
  /\ ~ReadLocked(q)
  /\ timeToRead' = [timeToRead EXCEPT ![q] =
                      IF flag[current[q]] = 1 THEN @ - CostOf(current[q]) ELSE @]
  /\ ReaderGoto(q, "signal")
  /\ UNCHANGED <<workerVars, queue, current, alerted, quit, main>>

Settle(q) ==
  /\ reader[q] = "settle"
  /\ ~ReadLocked(q)
  /\ timeToRead' = [timeToRead EXCEPT ![q] = @ - CostOf(current[q])]
  /\ ReaderGoto(q, "signal")
  /\ UNCHANGED <<workerVars, queue, current, alerted, quit, main>>

Signal(q) ==
  /\ reader[q] = "signal"
  /\ woken' = [woken EXCEPT ![current[q]] = (pc[current[q]] = "asleep")]
  /\ ReaderGoto(q, "next")
  /\ current' = [current EXCEPT ![q] = NoWorker]
  /\ UNCHANGED <<pc, target, wanted, flag, frame, requests, queue,
                 timeToRead, alerted, quit, main>>

ReaderStep(q) ==
  \/ ReaderSleep(q)
  \/ ReaderQuit(q)
  \/ Extract(q)
  \/ \E found \in BOOLEAN : Answer(q, found)
  \/ Settle(q)
  \/ Signal(q)

ReadFromDisk == ReaderStep("disk")
ReadFromNetwork == ReaderStep("net")

-----------------------------------------------------------------------------
(***************************************************************************)
(* The main thread: endPools, then destroyNetCache                         *)
(***************************************************************************)
\* "quit" is written over buffer[0], whatever is there.
SendQuit(q) ==
  /\ ~ReadLocked(q)
  /\ quit' = [quit EXCEPT ![q] = TRUE]
  /\ queue' = [queue EXCEPT ![q] = IF @ = <<>> THEN @ ELSE Tail(@)]
  /\ alerted' = [alerted EXCEPT ![q] = (reader[q] = "asleep")]
  /\ UNCHANGED <<workerVars, timeToRead, reader, current>>

\* Mutant: the quit is sent without waiting for the master pool.
QuitDiskAtOnce ==
  /\ main = "running"
  /\ SendQuit("disk")
  /\ main' = "joining disk"

\* thpool_wait(master) has returned, so every worker is idle.
QuitDisk ==
  /\ main = "running"
  /\ \A w \in Workers : pc[w] = "idle"
  /\ SendQuit("disk")
  /\ main' = "joining disk"

QuitNet ==
  /\ main = "joining disk"
  /\ reader["disk"] = "exited"
  /\ SendQuit("net")
  /\ main' = "joining net"

JoinNet ==
  /\ main = "joining net"
  /\ reader["net"] = "exited"
  /\ main' = "done"
  /\ UNCHANGED <<workerVars, queue, timeToRead, readerVars, quit>>

Terminated == main = "done" /\ UNCHANGED vars

-----------------------------------------------------------------------------
WorkerStep(w) ==
  \/ AddToReadBuffer(w)
  \/ AddToNetworkReadBuffer(w)
  \/ RejectRead(w)
  \/ Sleep(w)
  \/ Leave(w)

Next ==
  \/ \E w \in Workers, q \in Queues, f \in Functions : Ask(w, q, f)
  \/ \E w \in Workers : WorkerStep(w) \/ Wake(w)
  \/ ReadFromDisk \/ ReadFromNetwork
  \/ \E q \in Queues : ReaderWake(q)
  \/ QuitDisk \/ QuitNet \/ JoinNet
  \/ Terminated

Spec == Init /\ [][Next]_vars

\* Threads are scheduled, locks are handed over, a signalled waiter wakes, and
\* the storage answers.  A wake-up with no signal is never relied on.
Fairness ==
  /\ \A w \in Workers : /\ WF_vars(WorkerStep(w))
                        /\ WF_vars(woken[w] /\ Wake(w))
  /\ \A q \in Queues : WF_vars(alerted[q] /\ ReaderWake(q))
  /\ WF_vars(ReadFromDisk)
  /\ WF_vars(ReadFromNetwork)
  /\ WF_vars(QuitDisk \/ QuitNet \/ JoinNet)

FairSpec == Spec /\ Fairness

-----------------------------------------------------------------------------
(***************************************************************************)
(* Correctness                                                             *)
(***************************************************************************)
WorkerPCs == {"idle", "enqueue", "reject", "check", "asleep"}
ReaderPCs == {"next", "asleep", "read", "settle", "signal", "exited"}

\* Every variable keeps its range; no queue outgrows its limit, far below the
\* 1000 entries of read_buffer_t (disk_cache.c:237, 252, 273).
TypeOK ==
  /\ pc \in [Workers -> WorkerPCs]
  /\ target \in [Workers -> Queues]
  /\ wanted \in [Workers -> Functions \cup {NoFunction}]
  /\ flag \in [Workers -> -1..1]
  /\ frame \in [Workers -> BOOLEAN]
  /\ woken \in [Workers -> BOOLEAN]
  /\ queue \in [Queues -> Seq(Workers)]
  /\ \A q \in Queues : Len(queue[q]) <= QueueLimit
  /\ timeToRead \in [Queues -> Int]
  /\ reader \in [Queues -> ReaderPCs]
  /\ current \in [Queues -> Workers \cup {NoWorker}]
  /\ alerted \in [Queues -> BOOLEAN]
  /\ quit \in [Queues -> BOOLEAN]
  /\ main \in {"running", "joining disk", "joining net", "done"}
  /\ requests \in 0..MaxRequests

Queued(q, w) == w \in Elements(queue[q])
Busy(q, w) == reader[q] \in {"read", "settle", "signal"} /\ current[q] = w
Reading(q, w) == reader[q] = "read" /\ current[q] = w
Waiting(w) == pc[w] \in {"check", "asleep"} /\ flag[w] = 0

\* The condition variable, its lock and the flag live on the worker's stack:
\* no queue and no reader refers to them once the worker has moved on
\* (invocation.c:189-207 against disk_cache.c:214-227).
NoDanglingFrame ==
  \A q \in Queues, w \in Workers :
    Queued(q, w) \/ Busy(q, w) => frame[w] /\ target[w] = q

\* A worker that waits for an answer is owed exactly one: its invocation is
\* in its queue once or with the reader, and in neither when it has the answer.
OneAnswerOwed ==
  /\ \A q \in Queues : ~Repeats(queue[q])
  /\ \A w \in Workers :
       LET q == target[w] IN
       /\ Waiting(w) <=> Queued(q, w) \/ Reading(q, w)
       /\ ~(Queued(q, w) /\ Busy(q, w))

\* No sleeper is forgotten: a worker asleep and not signalled has its answer
\* still to come, and a reader asleep and not signalled has nothing to do.
NoLostWakeup ==
  /\ \A w \in Workers :
       pc[w] = "asleep" /\ ~woken[w] => flag[w] = 0 \/ CondLocked(w)
  /\ \A q \in Queues :
       reader[q] = "asleep" /\ ~alerted[q] => queue[q] = <<>> /\ ~quit[q]

\* addToReadBuffer takes read_lock and then cond_lock, the reader takes them
\* the other way round; a worker that rejects its read never waits for a lock
\* a reader holds, so the inversion cannot close a cycle.
RejectNeverBlocks == \A w \in Workers : pc[w] = "reject" => ~CondLocked(w)

\* time_to_read is the time of the reads accepted and not yet settled.
Outstanding(q) ==
  {w \in Workers : Queued(q, w)
                     \/ (reader[q] \in {"read", "settle"} /\ current[q] = w)}
Costs == [w \in Workers |-> CostOf(w)]
TimeAccounting ==
  \A q \in Queues : timeToRead[q] = Total(Outstanding(q), Costs)

\* A restore is only queued when it is expected to beat a cold start, and the
\* reads accepted before it keep it so (disk_cache.c:252, 273).
WorthTheWait ==
  \A q \in Queues : Outstanding(q) # {} => timeToRead[q] < Budget

\* The quit that overwrites buffer[0] destroys no request, and nobody waits
\* for a reader that has been told to stop (main.c:17-29, disk_cache.c:606).
QuitLosesNothing ==
  \A q \in Queues :
    quit[q] => /\ queue[q] = <<>>
               /\ \A w \in Workers : target[w] = q => pc[w] = "idle"

\* Every read is answered and its worker goes on, both readers stop, and the
\* joins of endPools and destroyNetCache return.
ReadersJoined == <>(main = "done")
=============================================================================
