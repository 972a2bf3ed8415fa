------------------------------ MODULE ThreadPool ------------------------------
(***************************************************************************)
(* The thread pool (thpool.c) as the emulator uses it: the master pool,    *)
(* which runs one job for every line of the trace, and the pool of stats.c *)
(* with one thread, into which a master job adds the writing of its        *)
(* latency.  Main waits for the master pool, destroys it, and later does   *)
(* the same to the other.                                                  *)
(*                                                                         *)
(* Each pool has its job queue, binary semaphore and counters; the flag    *)
(* that keeps the threads alive is one static variable for all pools.  The *)
(* critical sections of rwmutex, thcount_lock and the mutex of the         *)
(* semaphore are one action each.                                          *)
(***************************************************************************)
EXTENDS Integers, Sequences, FiniteSets

CONSTANTS
  MasterThreads,  \* options->threads threads
  StatsThreads,   \* the thread of stats->pool
  MaxJobs         \* BOUND: lines of the trace

Pools == {"master", "stats"}
Threads == MasterThreads \cup StatsThreads
Jobs == 1..MaxJobs
NoJob == 0

ASSUME ThreadPoolAssumption ==
  /\ IsFiniteSet(MasterThreads)
  /\ IsFiniteSet(StatsThreads)
  /\ MasterThreads \cap StatsThreads = {}
  /\ MasterThreads # {} /\ StatsThreads # {}
  /\ MaxJobs \in Nat

VARIABLES
  keepalive,  \* threads_keepalive, shared by every pool
  queue,      \* the job queue of each pool
  hasJobs,    \* has_jobs->v, its binary semaphore
  alive,      \* num_threads_alive
  working,    \* num_threads_working
  finished,   \* the jobs of each pool that have been run
  pc,         \* where each thread is in thread_do
  job,        \* job_p of each thread
  woken,      \* whether its wait on the semaphore has been signalled
  added,      \* how many jobs main has added to the master pool
  main,       \* where the main thread is ...
  target,     \* ... and the pool it waits for or destroys
  called      \* whether its wait on threads_all_idle has been signalled

threadVars == <<pc, job, woken>>
countVars == <<alive, working>>
mainVars == <<added, main, target, called>>
vars == <<keepalive, queue, hasJobs, countVars, finished, threadVars, mainVars>>

Members(p) == IF p = "master" THEN MasterThreads ELSE StatsThreads
PoolOf(t) == IF t \in MasterThreads THEN "master" ELSE "stats"

\* Both pools have been created and thpool_init has seen all threads alive.
Init ==
  /\ keepalive = TRUE
  /\ queue = [p \in Pools |-> <<>>]
  /\ hasJobs = [p \in Pools |-> 0]
  /\ alive = [p \in Pools |-> Cardinality(Members(p))]
  /\ working = [p \in Pools |-> 0]
  /\ finished = [p \in Pools |-> {}]
  /\ pc = [t \in Threads |-> "loop"]
  /\ job = [t \in Threads |-> NoJob]
  /\ woken = [t \in Threads |-> FALSE]
  /\ added = 0
  /\ main = "feeding"
  /\ target = "master"
  /\ called = FALSE

Goto(t, label) == pc' = [pc EXCEPT ![t] = label]
Sleepers(p) == {t \in Members(p) : pc[t] = "asleep"}

-----------------------------------------------------------------------------
(***************************************************************************)
(* The binary semaphore and the job queue                                  *)
(***************************************************************************)

\* bsem_post wakes one sleeper, if there is any.
Post(p) ==
  /\ hasJobs' = [hasJobs EXCEPT ![p] = 1]
  /\ IF Sleepers(p) = {} THEN UNCHANGED woken
     ELSE \E t \in Sleepers(p) : woken' = [woken EXCEPT ![t] = TRUE]

\* bsem_post_all wakes all of them.
PostAll(p) ==
  /\ hasJobs' = [hasJobs EXCEPT ![p] = 1]
  /\ woken' = [t \in Threads |-> woken[t] \/ t \in Sleepers(p)]

\* jobqueue_push, called by thpool_add_work.
Push(p, j) ==
  /\ queue' = [queue EXCEPT ![p] = Append(@, j)]
  /\ Post(p)

\* Mutant: the semaphore is not posted for the jobs that are left.
PullNoPost(t) ==
  LET p == PoolOf(t) IN
  /\ job' = [job EXCEPT ![t] = IF queue[p] = <<>> THEN NoJob ELSE Head(queue[p])]
  /\ queue' = [queue EXCEPT ![p] = IF @ = <<>> THEN @ ELSE Tail(@)]
  /\ UNCHANGED <<hasJobs, woken>>

\* Mutant: the queue gives out its rear, as a stack would.
PullRear(t) ==
  LET p == PoolOf(t)
      n == Len(queue[p]) IN
  /\ job' = [job EXCEPT ![t] = IF n = 0 THEN NoJob ELSE queue[p][n]]
  /\ queue' = [queue EXCEPT ![p] = IF n = 0 THEN @ ELSE SubSeq(@, 1, n - 1)]
  /\ IF n > 1 THEN Post(p) ELSE UNCHANGED <<hasJobs, woken>>

\* jobqueue_pull takes the first job, and posts if it was not the last.
Pull(t) ==
  LET p == PoolOf(t) IN
  /\ job' = [job EXCEPT ![t] = IF queue[p] = <<>> THEN NoJob ELSE Head(queue[p])]
  /\ queue' = [queue EXCEPT ![p] = IF @ = <<>> THEN @ ELSE Tail(@)]
  /\ IF Len(queue[p]) > 1 THEN Post(p) ELSE UNCHANGED <<hasJobs, woken>>

\* jobqueue_clear
ClearQueue(p) ==
  /\ queue' = [queue EXCEPT ![p] = <<>>]
  /\ hasJobs' = [hasJobs EXCEPT ![p] = 0]

-----------------------------------------------------------------------------
(***************************************************************************)
(* thread_do                                                               *)
(***************************************************************************)
LoopTest(t) ==
  /\ pc[t] = "loop"
  /\ Goto(t, IF keepalive THEN "wait" ELSE "leave")
  /\ UNCHANGED <<keepalive, queue, hasJobs, countVars, finished, job, woken,
                 mainVars>>

\* bsem_wait
TakeSemaphore(t) ==
  /\ pc[t] = "wait"
  /\ hasJobs[PoolOf(t)] = 1
  /\ hasJobs' = [hasJobs EXCEPT ![PoolOf(t)] = 0]
  /\ Goto(t, "test")
  /\ UNCHANGED <<keepalive, queue, countVars, finished, job, woken, mainVars>>

Sleep(t) ==
  /\ pc[t] = "wait"
  /\ hasJobs[PoolOf(t)] # 1
  /\ woken' = [woken EXCEPT ![t] = FALSE]
  /\ Goto(t, "asleep")
  /\ UNCHANGED <<keepalive, queue, hasJobs, countVars, finished, job, mainVars>>

Wake(t) ==
  /\ pc[t] = "asleep"
  /\ Goto(t, "wait")
  /\ UNCHANGED <<keepalive, queue, hasJobs, countVars, finished, job, woken,
                 mainVars>>

SecondTest(t) ==
  /\ pc[t] = "test"
  /\ Goto(t, IF keepalive THEN "count" ELSE "loop")
  /\ UNCHANGED <<keepalive, queue, hasJobs, countVars, finished, job, woken,
                 mainVars>>

CountIn(t) ==
  /\ pc[t] = "count"
  /\ working' = [working EXCEPT ![PoolOf(t)] = @ + 1]
  /\ Goto(t, "pull")
  /\ UNCHANGED <<keepalive, queue, hasJobs, alive, finished, job, woken, mainVars>>

PullJob(t) ==
  /\ pc[t] = "pull"
  /\ Pull(t)
  /\ Goto(t, "run")
  /\ UNCHANGED <<keepalive, countVars, finished, mainVars>>

\* A master job calls saveLatency, unless its invocation fails ...
SaveLatency(t) ==
  /\ pc[t] = "run"
  /\ t \in MasterThreads
  /\ job[t] # NoJob
  /\ Push("stats", job[t])
  /\ Goto(t, "saved")
  /\ UNCHANGED <<keepalive, countVars, finished, job, mainVars>>

\* ... and a job of either pool comes to its end.
EndJob(t) ==
  /\ pc[t] \in {"run", "saved"}
  /\ finished' = [finished EXCEPT ![PoolOf(t)] = @ \cup ({job[t]} \ {NoJob})]
  /\ job' = [job EXCEPT ![t] = NoJob]
  /\ Goto(t, "uncount")
  /\ UNCHANGED <<keepalive, queue, hasJobs, countVars, woken, mainVars>>

\* Mutant: the thread is not counted out.
CountOutForgotten(t) ==
  /\ pc[t] = "uncount"
  /\ Goto(t, "loop")
  /\ UNCHANGED <<keepalive, queue, hasJobs, countVars, finished, job, woken,
                 mainVars>>

CountOut(t) ==
  /\ pc[t] = "uncount"
  /\ working' = [working EXCEPT ![PoolOf(t)] = @ - 1]
  /\ called' = (called \/ (working[PoolOf(t)] = 1 /\ main = "asleep"
                                                  /\ target = PoolOf(t)))
  /\ Goto(t, "loop")
  /\ UNCHANGED <<keepalive, queue, hasJobs, alive, finished, job, woken, added,
                 main, target>>

Leave(t) ==
  /\ pc[t] = "leave"
  /\ alive' = [alive EXCEPT ![PoolOf(t)] = @ - 1]
  /\ Goto(t, "gone")
  /\ UNCHANGED <<keepalive, queue, hasJobs, working, finished, job, woken,
                 mainVars>>

-----------------------------------------------------------------------------
(***************************************************************************)
(* main_loop, endPools and closeFiles                                      *)
(***************************************************************************)
AddWork ==
  /\ main = "feeding"
  /\ added < MaxJobs
  /\ added' = added + 1
  /\ Push("master", added + 1)
  /\ UNCHANGED <<keepalive, countVars, finished, pc, job, main, target, called>>

EndOfInput ==
  /\ main = "feeding"
  /\ main' = "wait"
  /\ UNCHANGED <<keepalive, queue, hasJobs, countVars, finished, threadVars,
                 added, target, called>>

\* Mutant: only the running jobs are waited for.
DrainedRunningOnly(p) == working[p] = 0

\* What thpool_wait waits for.
Drained(p) == queue[p] = <<>> /\ working[p] = 0

WaitSleeps ==
  /\ main = "wait"
  /\ ~Drained(target)
  /\ called' = FALSE
  /\ main' = "asleep"
  /\ UNCHANGED <<keepalive, queue, hasJobs, countVars, finished, threadVars,
                 added, target>>

WaitWakes ==
  /\ main = "asleep"
  /\ main' = "wait"
  /\ UNCHANGED <<keepalive, queue, hasJobs, countVars, finished, threadVars,
                 added, target, called>>

WaitReturns ==
  /\ main = "wait"
  /\ Drained(target)
  /\ main' = "destroy"
  /\ UNCHANGED <<keepalive, queue, hasJobs, countVars, finished, threadVars,
                 added, target, called>>

\* Mutant: the threads are not told to leave.
BeginDestroyUntold ==
  /\ main = "destroy"
  /\ main' = "polling"
  /\ UNCHANGED <<keepalive, queue, hasJobs, countVars, finished, threadVars,
                 added, target, called>>

BeginDestroy ==
  /\ main = "destroy"
  /\ keepalive' = FALSE
  /\ main' = "polling"
  /\ UNCHANGED <<queue, hasJobs, countVars, finished, threadVars, added, target,
                 called>>

PollThreads ==
  /\ main = "polling"
  /\ alive[target] # 0
  /\ PostAll(target)
  /\ UNCHANGED <<keepalive, queue, countVars, finished, pc, job, mainVars>>

\* jobqueue_destroy and the deallocations; main goes on to the next pool.
EndDestroy ==
  /\ main = "polling"
  /\ alive[target] = 0
  /\ ClearQueue(target)
  /\ main' = IF target = "master" THEN "wait" ELSE "done"
  /\ target' = "stats"
  /\ UNCHANGED <<keepalive, countVars, finished, threadVars, added, called>>

Terminated == main = "done" /\ UNCHANGED vars

-----------------------------------------------------------------------------
ThreadStep(t) ==
  \/ LoopTest(t)
  \/ TakeSemaphore(t)
  \/ Sleep(t)
  \/ SecondTest(t)
  \/ CountIn(t)
  \/ PullJob(t)
  \/ SaveLatency(t)
  \/ EndJob(t)
  \/ CountOut(t)
  \/ Leave(t)

MainStep ==
  \/ EndOfInput
  \/ WaitSleeps
  \/ WaitReturns
  \/ BeginDestroy
  \/ PollThreads
  \/ EndDestroy

Next ==
  \/ \E t \in Threads : ThreadStep(t) \/ Wake(t)
  \/ AddWork
  \/ MainStep \/ WaitWakes
  \/ Terminated

Spec == Init /\ [][Next]_vars

\* Threads are scheduled and signalled waiters wake; jobs come to their end.
Fairness ==
  /\ \A t \in Threads : WF_vars(ThreadStep(t)) /\ WF_vars(woken[t] /\ Wake(t))
  /\ WF_vars(MainStep)
  /\ WF_vars(called /\ WaitWakes)

FairSpec == Spec /\ Fairness

-----------------------------------------------------------------------------
(***************************************************************************)
(* Correctness                                                             *)
(***************************************************************************)
ThreadPCs == {"loop", "wait", "asleep", "test", "count", "pull", "run",
              "saved", "uncount", "leave", "gone"}
MainPCs == {"feeding", "wait", "asleep", "destroy", "polling", "done"}

\* Every variable keeps its range.
TypeOK ==
  /\ keepalive \in BOOLEAN
  /\ queue \in [Pools -> Seq(Jobs)]
  /\ hasJobs \in [Pools -> 0..1]
  /\ \A p \in Pools : /\ alive[p] \in 0..Cardinality(Members(p))
                      /\ working[p] \in 0..Cardinality(Members(p))
  /\ finished \in [Pools -> SUBSET Jobs]
  /\ pc \in [Threads -> ThreadPCs]
  /\ job \in [Threads -> Jobs \cup {NoJob}]
  /\ woken \in [Threads -> BOOLEAN]
  /\ added \in 0..MaxJobs
  /\ main \in MainPCs
  /\ target \in Pools
  /\ called \in BOOLEAN

\* The binary semaphore forgets how often it was posted, and that is enough:
\* while jobs are queued and the threads are kept, it is up or somebody has
\* taken it and will pull; and when it is up somebody is awake to take it.
NobodySleepsOverAJob ==
  keepalive =>
    \A p \in Pools :
      /\ queue[p] # <<>> => \/ hasJobs[p] = 1
                            \/ \E t \in Members(p) : pc[t] \in {"test", "count", "pull"}
      /\ hasJobs[p] = 1 => \E t \in Members(p) : pc[t] # "asleep" \/ woken[t]

\* The jobs of a pool as thpool.h describes them: each one is run once, in
\* order, and thpool_wait returns when all of them are finished.
RunningJobs(p) == {job[t] : t \in Members(p)} \ {NoJob}
WaitedFor(p) ==
  \/ main = "done"
  \/ p = "master" /\ target = "stats"
  \/ p = target /\ main \in {"destroy", "polling"}
MasterPool == INSTANCE JobPool WITH
  queued <- queue["master"],
  running <- RunningJobs("master"),
  finished <- finished["master"],
  drained <- WaitedFor("master")
StatsPool == INSTANCE JobPool WITH
  queued <- queue["stats"],
  running <- RunningJobs("stats"),
  finished <- finished["stats"],
  drained <- WaitedFor("stats")
MasterKeepsPromise == MasterPool!JPSpec
StatsKeepsPromise == StatsPool!JPSpec

\* Main gets through the wait for the master pool and its destruction.
MasterDestroyed == <>(target = "stats")

-----------------------------------------------------------------------------
(***************************************************************************)
(* What the comments of the code say, and the code does not keep.          *)
(***************************************************************************)

\* main.c:179, "Close the pools and files", and thpool.h:71, "Will wait for all
\* jobs - both queued and currently running to finish": closeFiles gets through
\* its thpool_wait for the latencies that are still queued.
FilesClosed == target = "stats" ~> main = "done"
=============================================================================
