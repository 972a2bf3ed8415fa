-------------------------- MODULE ThreadPoolProofs --------------------------
(***************************************************************************)
(* The thread pools, for any number of threads and jobs: the counters are  *)
(* exact, the binary semaphore leaves nobody asleep over a job, and each   *)
(* pool keeps what thpool.h promises of it (JobPool): it starts its jobs   *)
(* in their order, each one once, and thpool_wait returns when none is     *)
(* left.                                                                   *)
(***************************************************************************)
EXTENDS ThreadPool, FiniteSetTheorems, TLAPS

\* Where the variables live; the ranges of the counters follow from what they
\* count.
Places ==
  /\ keepalive \in BOOLEAN
  /\ queue \in [Pools -> Seq(Jobs)]
  /\ hasJobs \in [Pools -> 0..1]
  /\ alive \in [Pools -> Int]
  /\ working \in [Pools -> Int]
  /\ finished \in [Pools -> SUBSET Jobs]
  /\ pc \in [Threads -> ThreadPCs]
  /\ job \in [Threads -> Jobs \cup {NoJob}]
  /\ woken \in [Threads -> BOOLEAN]
  /\ added \in 0..MaxJobs
  /\ main \in MainPCs
  /\ target \in Pools
  /\ called \in BOOLEAN

\* The counters of thcount_lock: the threads of a pool that are there, and those
\* between the two critical sections around a job.
WorkPCs == {"pull", "run", "saved", "uncount"}
Present(p) == {t \in Members(p) : pc[t] # "gone"}
AtWork(p) == {t \in Members(p) : pc[t] \in WorkPCs}
CountsExact ==
  \A p \in Pools : /\ alive[p] = Cardinality(Present(p))
                   /\ working[p] = Cardinality(AtWork(p))

\* A job is with its thread from the pull to its end.
JobsAtWork == \A t \in Threads : job[t] # NoJob => pc[t] \in {"run", "saved"}

\* A job is in a pool once: queued, with one thread, or finished.
Queued(p, j) == \E i \in DOMAIN queue[p] : queue[p][i] = j
Running(p, j) == \E t \in Members(p) : job[t] = j
InPool(p, j) == Queued(p, j) \/ Running(p, j) \/ j \in finished[p]
Single(p) ==
  /\ \A i, k \in DOMAIN queue[p] : queue[p][i] = queue[p][k] => i = k
  /\ \A j \in Jobs : /\ Queued(p, j) => ~Running(p, j)
                     /\ j \in finished[p] => ~Queued(p, j) /\ ~Running(p, j)
  /\ \A t, u \in Members(p) : job[t] = job[u] /\ job[t] # NoJob => t = u
AllSingle == \A p \in Pools : Single(p)

\* Main has added the jobs of the master pool in the order of the trace, and
\* those of the other come from master jobs past their saveLatency.
MasterOrigin == \A j \in Jobs : InPool("master", j) => j <= added
Saved(j) ==
  \/ j \in finished["master"]
  \/ \E t \in MasterThreads : pc[t] = "saved" /\ job[t] = j
StatsOrigin == \A j \in Jobs : InPool("stats", j) => Saved(j)

\* Nothing comes into a pool whose thpool_wait has returned.
Idle(p) == queue[p] = <<>> /\ \A t \in Members(p) : job[t] = NoJob
StaysIdle == \A p \in Pools : WaitedFor(p) => Idle(p)

\* Main closes the master pool first.
MainOrder ==
  /\ main = "feeding" => target = "master"
  /\ main = "done" => target = "stats"

Inv ==
  /\ Places
  /\ CountsExact
  /\ JobsAtWork
  /\ AllSingle
  /\ MasterOrigin
  /\ StatsOrigin
  /\ StaysIdle
  /\ MainOrder

-----------------------------------------------------------------------------
\* Every thread is in one pool.
LEMMA ThreadsOfPools ==
  /\ \A t \in Threads : PoolOf(t) \in Pools /\ t \in Members(PoolOf(t))
  /\ \A p \in Pools : \A t \in Members(p) : t \in Threads /\ PoolOf(t) = p
BY ThreadPoolAssumption DEF Threads, PoolOf, Members, Pools

\* The threads of a pool are finitely many, and there are some.
LEMMA MembersFinite ==
  ASSUME NEW p \in Pools
  PROVE  /\ IsFiniteSet(Members(p))
         /\ Cardinality(Members(p)) \in Nat
         /\ Members(p) # {}
<1>1. IsFiniteSet(Members(p)) /\ Members(p) # {}
  BY ThreadPoolAssumption DEF Members, Pools
<1> QED
  BY <1>1, FS_CardinalityType

\* So are any that are picked from them.
LEMMA SomeFinite ==
  ASSUME NEW p \in Pools, NEW S, S \subseteq Members(p)
  PROVE  /\ IsFiniteSet(S)
         /\ Cardinality(S) \in 0..Cardinality(Members(p))
<1>1. IsFiniteSet(S) /\ Cardinality(S) <= Cardinality(Members(p))
  BY MembersFinite, FS_Subset
<1>2. Cardinality(S) \in Nat
  BY <1>1, FS_CardinalityType
<1> QED
  BY <1>1, <1>2, MembersFinite

\* One thread in, one thread out.
LEMMA OneIn ==
  ASSUME NEW p \in Pools, NEW S, S \subseteq Members(p), NEW t, t \notin S
  PROVE  Cardinality(S \cup {t}) = Cardinality(S) + 1
BY SomeFinite, FS_AddElement

LEMMA OneOut ==
  ASSUME NEW p \in Pools, NEW S, S \subseteq Members(p), NEW t \in S
  PROVE  Cardinality(S \ {t}) = Cardinality(S) - 1
BY SomeFinite, FS_RemoveElement

-----------------------------------------------------------------------------
(***************************************************************************)
(* What happens to the jobs of one pool                                    *)
(***************************************************************************)

\* A pool none of whose jobs moves.
LEMMA JobsStay ==
  ASSUME Inv, NEW p \in Pools,
         queue'[p] = queue[p], finished'[p] = finished[p],
         \A t \in Members(p) : job'[t] = job[t]
  PROVE  /\ Single(p)'
         /\ \A j \in Jobs : InPool(p, j)' <=> InPool(p, j)
         /\ RunningJobs(p)' = RunningJobs(p)
BY DEF Inv, AllSingle, Single, InPool, Queued, Running, RunningJobs

\* jobqueue_push of a job that the pool has not seen.
LEMMA JobComes ==
  ASSUME Inv, NEW p \in Pools, NEW j \in Jobs, ~InPool(p, j),
         queue' = [queue EXCEPT ![p] = Append(@, j)],
         UNCHANGED <<finished, job>>
  PROVE  /\ Single(p)'
         /\ \A k \in Jobs : InPool(p, k)' <=> InPool(p, k) \/ k = j
         /\ RunningJobs(p)' = RunningJobs(p)
<1> DEFINE q == queue[p]
<1>1. /\ q \in Seq(Jobs)
      /\ queue'[p] = Append(q, j)
      /\ DOMAIN queue'[p] = DOMAIN q \cup {Len(q) + 1}
      /\ \A i \in DOMAIN q : queue'[p][i] = q[i]
      /\ queue'[p][Len(q) + 1] = j
      /\ Len(q) + 1 \notin DOMAIN q
  BY DEF Inv, Places
<1> HIDE DEF q
<1>2. \A k \in Jobs : Queued(p, k)' <=> Queued(p, k) \/ k = j
  BY <1>1 DEF Queued, q
<1>3. \A k \in Jobs : Running(p, k)' <=> Running(p, k)
  BY DEF Running
<1>4. \A i, k \in DOMAIN queue'[p] : queue'[p][i] = queue'[p][k] => i = k
  BY <1>1 DEF Inv, AllSingle, Single, InPool, Queued, q
<1> QED
  BY <1>2, <1>3, <1>4 DEF Inv, AllSingle, Single, InPool, RunningJobs

\* The indices of a queue move up by one when its head is taken.
LEMMA TailShifts ==
  ASSUME NEW q \in Seq(Jobs), q # <<>>
  PROVE  /\ Head(q) \in Jobs /\ Head(q) = q[1] /\ 1 \in DOMAIN q
         /\ \A i \in DOMAIN Tail(q) :
              /\ i \in Nat \ {0}
              /\ i + 1 \in DOMAIN q
              /\ i + 1 # 1
              /\ Tail(q)[i] = q[i + 1]
         /\ \A i \in DOMAIN q :
              i = 1 \/ (i - 1 \in DOMAIN Tail(q) /\ Tail(q)[i - 1] = q[i])
<1>1. /\ Len(q) \in Nat \ {0}
      /\ DOMAIN q = 1..Len(q)
      /\ Head(q) = q[1]
      /\ Head(q) \in Jobs
      /\ Tail(q) \in Seq(Jobs)
      /\ Len(Tail(q)) = Len(q) - 1
      /\ DOMAIN Tail(q) = 1..(Len(q) - 1)
  OBVIOUS
<1>2. \A i \in 1..(Len(q) - 1) : Tail(q)[i] = q[i + 1]
  BY <1>1
<1> QED
  BY <1>1, <1>2

\* jobqueue_pull by a thread that has no job.
LEMMA JobStarts ==
  ASSUME Inv, NEW t \in Threads, job[t] = NoJob, queue[PoolOf(t)] # <<>>,
         job' = [job EXCEPT ![t] = Head(queue[PoolOf(t)])],
         queue' = [queue EXCEPT ![PoolOf(t)] = Tail(@)],
         UNCHANGED finished
  PROVE  LET p == PoolOf(t) IN
         /\ Single(p)'
         /\ \A j \in Jobs : InPool(p, j)' <=> InPool(p, j)
         /\ RunningJobs(p)' = RunningJobs(p) \cup {Head(queue[p])}
<1> DEFINE p == PoolOf(t)
<1> DEFINE q == queue[p]
<1>1. p \in Pools /\ t \in Members(p) /\ Members(p) \subseteq Threads
  BY ThreadsOfPools
<1>2. /\ q \in Seq(Jobs)
      /\ q # <<>>
      /\ queue'[p] = Tail(q)
      /\ job'[t] = Head(q)
      /\ \A u \in Members(p) : u # t => job'[u] = job[u]
      /\ NoJob \notin Jobs
  BY <1>1 DEF Inv, Places, Jobs, NoJob
<1> HIDE DEF p, q
<1>3. PICK h \in Jobs : h = Head(q)
  BY <1>2, TailShifts
<1>4. /\ h = q[1] /\ 1 \in DOMAIN q
      /\ \A i \in DOMAIN Tail(q) :
           /\ i \in Nat \ {0}
           /\ i + 1 \in DOMAIN q
           /\ i + 1 # 1
           /\ Tail(q)[i] = q[i + 1]
      /\ \A i \in DOMAIN q :
           i = 1 \/ (i - 1 \in DOMAIN Tail(q) /\ Tail(q)[i - 1] = q[i])
  BY <1>2, <1>3, TailShifts
<1>5. /\ Queued(p, h)
      /\ \A j \in Jobs : Queued(p, j) <=> Queued(p, j)' \/ j = h
      /\ ~Queued(p, h)'
      /\ \A i, k \in DOMAIN queue'[p] : queue'[p][i] = queue'[p][k] => i = k
  <2>0. \A i, k \in DOMAIN q : q[i] = q[k] => i = k
    BY <1>1 DEF Inv, AllSingle, Single, q
  <2>1. Queued(p, h)
    BY <1>4 DEF Queued, q
  <2>2. \A j \in Jobs : Queued(p, j) <=> Queued(p, j)' \/ j = h
    <3>1. ASSUME NEW j \in Jobs, Queued(p, j)
          PROVE  Queued(p, j)' \/ j = h
      <4>1. PICK i \in DOMAIN q : q[i] = j
        BY <3>1 DEF Queued, q
      <4> QED
        BY <4>1, <1>2, <1>4 DEF Queued
    <3>2. ASSUME NEW j \in Jobs, Queued(p, j)'
          PROVE  Queued(p, j)
      <4>1. PICK i \in DOMAIN Tail(q) : Tail(q)[i] = j
        BY <3>2, <1>2 DEF Queued
      <4> QED
        BY <4>1, <1>4 DEF Queued, q
    <3> QED
      BY <2>1, <3>1, <3>2
  <2>3. ~Queued(p, h)'
    <3> SUFFICES ASSUME NEW i \in DOMAIN Tail(q), Tail(q)[i] = h
                 PROVE  FALSE
      BY <1>2 DEF Queued
    <3> QED
      BY <1>4, <2>0
  <2>4. \A i, k \in DOMAIN queue'[p] : queue'[p][i] = queue'[p][k] => i = k
    <3>1. ASSUME NEW i \in DOMAIN Tail(q), NEW k \in DOMAIN Tail(q),
                 Tail(q)[i] = Tail(q)[k]
          PROVE  i = k
      <4>1. i + 1 = k + 1 /\ i \in Nat /\ k \in Nat
        BY <1>4, <2>0, <3>1
      <4> QED
        BY <4>1
    <3> QED
      BY <1>2, <3>1
  <2> QED
    BY <2>1, <2>2, <2>3, <2>4
<1>6. \A j \in Jobs : Running(p, j)' <=> Running(p, j) \/ j = h
  BY <1>1, <1>2, <1>3 DEF Running
<1>7. ~Running(p, h) /\ h \notin finished[p]
  BY <1>1, <1>2, <1>5 DEF Inv, AllSingle, Single
<1>8. \A u, v \in Members(p) : job'[u] = job'[v] /\ job'[u] # NoJob => u = v
  BY <1>1, <1>2, <1>3, <1>7 DEF Inv, AllSingle, Single, Running
<1>9. Single(p)'
  <2>1. \A j \in Jobs : /\ Queued(p, j) => ~Running(p, j)
                        /\ j \in finished[p] => ~Queued(p, j) /\ ~Running(p, j)
    BY <1>1 DEF Inv, AllSingle, Single
  <2>2. \A j \in Jobs :
          /\ Queued(p, j)' => ~Running(p, j)'
          /\ j \in finished[p]' => ~Queued(p, j)' /\ ~Running(p, j)'
    BY <2>1, <1>5, <1>6, <1>7
  <2> QED
    BY <1>5, <1>8, <2>2 DEF Single
<1>10. \A j \in Jobs : InPool(p, j)' <=> InPool(p, j)
  BY <1>5, <1>6 DEF InPool
<1>11. RunningJobs(p)' = RunningJobs(p) \cup {h}
  BY <1>1, <1>2, <1>3 DEF RunningJobs
<1> QED
  BY <1>3, <1>9, <1>10, <1>11 DEF p, q

\* The job of a thread comes to its end.
LEMMA JobEnds ==
  ASSUME Inv, NEW t \in Threads, job[t] # NoJob,
         finished' = [finished EXCEPT ![PoolOf(t)] = @ \cup {job[t]}],
         job' = [job EXCEPT ![t] = NoJob],
         UNCHANGED queue
  PROVE  LET p == PoolOf(t) IN
         /\ Single(p)'
         /\ \A j \in Jobs : InPool(p, j)' <=> InPool(p, j)
         /\ RunningJobs(p)' = RunningJobs(p) \ {job[t]}
<1> DEFINE p == PoolOf(t)
<1>1. p \in Pools /\ t \in Members(p) /\ Members(p) \subseteq Threads
  BY ThreadsOfPools
<1>2. /\ job'[t] = NoJob
      /\ \A u \in Members(p) : u # t => job'[u] = job[u]
      /\ finished'[p] = finished[p] \cup {job[t]}
      /\ job[t] \in Jobs /\ Running(p, job[t])
      /\ NoJob \notin Jobs
  BY <1>1 DEF Inv, Places, Running, NoJob, Jobs
<1> HIDE DEF p
<1>3. \A u, v \in Members(p) : job[u] = job[v] /\ job[u] # NoJob => u = v
  BY <1>1 DEF Inv, AllSingle, Single
<1>4. \A j \in Jobs : Running(p, j)' <=> Running(p, j) /\ j # job[t]
  BY <1>1, <1>2, <1>3 DEF Running
<1>5. \A j \in Jobs : Queued(p, j)' <=> Queued(p, j)
  BY DEF Queued
<1>6. \A u, v \in Members(p) : job'[u] = job'[v] /\ job'[u] # NoJob => u = v
  BY <1>1, <1>2, <1>3
<1>7. Single(p)'
  BY <1>1, <1>2, <1>4, <1>5, <1>6 DEF Inv, AllSingle, Single
<1>8. \A j \in Jobs : InPool(p, j)' <=> InPool(p, j)
  BY <1>2, <1>4, <1>5 DEF InPool
<1>9. RunningJobs(p)' = RunningJobs(p) \ {job[t]}
  BY <1>1, <1>2, <1>3 DEF RunningJobs
<1> QED
  BY <1>7, <1>8, <1>9 DEF p

-----------------------------------------------------------------------------
(***************************************************************************)
(* The invariant                                                           *)
(***************************************************************************)

\* thpool_init leaves idle pools with all of their threads.
LEMMA InvInit == Init => Inv
<1> SUFFICES ASSUME Init PROVE Inv
  OBVIOUS
<1>1. \A p \in Pools : Cardinality(Members(p)) \in Nat
  BY MembersFinite
<1>2. Places
  <2>1. /\ queue \in [Pools -> Seq(Jobs)]
        /\ hasJobs \in [Pools -> 0..1]
        /\ finished \in [Pools -> SUBSET Jobs]
    BY DEF Init
  <2>2. alive \in [Pools -> Int] /\ working \in [Pools -> Int]
    BY <1>1 DEF Init
  <2>3. /\ pc \in [Threads -> ThreadPCs]
        /\ job \in [Threads -> Jobs \cup {NoJob}]
        /\ woken \in [Threads -> BOOLEAN]
    BY DEF Init, ThreadPCs
  <2>4. keepalive \in BOOLEAN /\ called \in BOOLEAN
    BY DEF Init
  <2>5. added \in 0..MaxJobs
    BY ThreadPoolAssumption DEF Init
  <2>6. main \in MainPCs /\ target \in Pools
    BY DEF Init, MainPCs, Pools
  <2> QED
    BY <2>1, <2>2, <2>3, <2>4, <2>5, <2>6 DEF Places
<1>3. CountsExact
  <2> SUFFICES ASSUME NEW p \in Pools
               PROVE  /\ alive[p] = Cardinality(Present(p))
                      /\ working[p] = Cardinality(AtWork(p))
    BY DEF CountsExact
  <2>1. Present(p) = Members(p) /\ AtWork(p) = {}
    BY ThreadsOfPools DEF Init, Present, AtWork, WorkPCs
  <2> QED
    BY <2>1, FS_EmptySet DEF Init
<1>4. \A p \in Pools : \A j \in Jobs : ~InPool(p, j)
  BY ThreadsOfPools
  DEF Init, InPool, Queued, Running, Jobs, NoJob
<1>5. AllSingle
  BY <1>4, ThreadsOfPools DEF Init, AllSingle, Single, InPool
<1>6. JobsAtWork /\ StaysIdle /\ MainOrder
  BY ThreadsOfPools DEF Init, JobsAtWork, StaysIdle, Idle, MainOrder
<1>7. MasterOrigin /\ StatsOrigin
  BY <1>4 DEF MasterOrigin, StatsOrigin, Pools
<1> QED
  BY <1>2, <1>3, <1>5, <1>6, <1>7 DEF Inv

\* bsem_post raises the semaphore, and sends nobody to sleep.
LEMMA PostTypes ==
  ASSUME Inv, NEW p \in Pools, Post(p)
  PROVE  hasJobs' \in [Pools -> 0..1] /\ woken' \in [Threads -> BOOLEAN]
<1>1. hasJobs' \in [Pools -> 0..1]
  BY DEF Post, Inv, Places
<1>2. CASE Sleepers(p) = {}
  BY <1>1, <1>2 DEF Post, Inv, Places
<1>3. CASE Sleepers(p) # {}
  <2>1. PICK t \in Sleepers(p) : woken' = [woken EXCEPT ![t] = TRUE]
    BY <1>3 DEF Post
  <2> QED
    BY <1>1, <2>1 DEF Inv, Places
<1> QED
  BY <1>2, <1>3

\* The variables stay where they live.
LEMMA PlacesStep == Inv /\ [Next]_vars => Places'
<1> SUFFICES ASSUME Inv, [Next]_vars PROVE Places'
  OBVIOUS
<1> USE DEF Inv, Places, Goto, ThreadPCs, countVars, threadVars, mainVars
<1>1. ASSUME NEW t \in Threads, LoopTest(t) \/ Sleep(t) \/ SecondTest(t) \/ Wake(t)
      PROVE  Places'
  <2>1. pc' \in [Threads -> ThreadPCs]
    BY <1>1 DEF LoopTest, Sleep, SecondTest, Wake
  <2>2. woken' \in [Threads -> BOOLEAN]
    BY <1>1 DEF LoopTest, Sleep, SecondTest, Wake
  <2> QED
    BY <1>1, <2>1, <2>2 DEF LoopTest, Sleep, SecondTest, Wake
<1>2. ASSUME NEW t \in Threads,
             TakeSemaphore(t) \/ CountIn(t) \/ CountOut(t) \/ Leave(t)
      PROVE  Places'
  <2>1. pc' \in [Threads -> ThreadPCs]
    BY <1>2 DEF TakeSemaphore, CountIn, CountOut, Leave
  <2>2. /\ hasJobs' \in [Pools -> 0..1]
        /\ alive' \in [Pools -> Int]
    <3>1. /\ \/ UNCHANGED hasJobs
             \/ hasJobs' = [hasJobs EXCEPT ![PoolOf(t)] = 0]
          /\ \/ UNCHANGED alive
             \/ alive' = [alive EXCEPT ![PoolOf(t)] = @ - 1]
      BY <1>2 DEF TakeSemaphore, CountIn, CountOut, Leave
    <3>2. hasJobs' \in [Pools -> 0..1]
      <4>1. CASE UNCHANGED hasJobs
        BY <4>1
      <4>2. CASE hasJobs' = [hasJobs EXCEPT ![PoolOf(t)] = 0]
        <5>1. \A p \in Pools : hasJobs'[p] \in 0..1
          BY <4>2
        <5>2. hasJobs' = [p \in Pools |-> hasJobs'[p]]
          BY <4>2
        <5> QED
          BY <5>1, <5>2
      <4> QED
        BY <3>1, <4>1, <4>2
    <3>3. alive' \in [Pools -> Int]
      BY <3>1, ThreadsOfPools
    <3> QED
      BY <3>2, <3>3
  <2>3. working' \in [Pools -> Int]
    <3>1. \/ UNCHANGED working
          \/ working' = [working EXCEPT ![PoolOf(t)] = @ + 1]
          \/ working' = [working EXCEPT ![PoolOf(t)] = @ - 1]
      BY <1>2 DEF TakeSemaphore, CountIn, CountOut, Leave
    <3> QED
      BY <3>1, ThreadsOfPools
  <2>4. called' \in BOOLEAN
    BY <1>2 DEF TakeSemaphore, CountIn, CountOut, Leave
  <2> QED
    BY <1>2, <2>1, <2>2, <2>3, <2>4 DEF TakeSemaphore, CountIn, CountOut, Leave
<1>3. ASSUME NEW t \in Threads, PullJob(t)
      PROVE  Places'
  <2>1. PoolOf(t) \in Pools
    BY ThreadsOfPools
  <2>2. queue' \in [Pools -> Seq(Jobs)]
    BY <1>3, <2>1 DEF PullJob, Pull
  <2>3. job' \in [Threads -> Jobs \cup {NoJob}]
    BY <1>3, <2>1 DEF PullJob, Pull
  <2>4. hasJobs' \in [Pools -> 0..1] /\ woken' \in [Threads -> BOOLEAN]
    <3>1. UNCHANGED <<hasJobs, woken>> \/ Post(PoolOf(t))
      BY <1>3 DEF PullJob, Pull
    <3> QED
      BY <2>1, <3>1, PostTypes
  <2> QED
    BY <1>3, <2>2, <2>3, <2>4 DEF PullJob
<1>4. ASSUME NEW t \in Threads, SaveLatency(t)
      PROVE  Places'
  <2>1. job[t] \in Jobs /\ "stats" \in Pools
    BY <1>4 DEF SaveLatency, Pools
  <2>2. queue' \in [Pools -> Seq(Jobs)]
    BY <1>4, <2>1 DEF SaveLatency, Push
  <2>3. hasJobs' \in [Pools -> 0..1] /\ woken' \in [Threads -> BOOLEAN]
    BY <1>4, <2>1, PostTypes DEF SaveLatency, Push
  <2> QED
    BY <1>4, <2>2, <2>3 DEF SaveLatency
<1>5. ASSUME NEW t \in Threads, EndJob(t)
      PROVE  Places'
  BY <1>5, ThreadsOfPools DEF EndJob
<1>6. CASE AddWork
  <2>1. added + 1 \in Jobs /\ "master" \in Pools
    BY <1>6, ThreadPoolAssumption DEF AddWork, Pools, Jobs
  <2>2. queue' \in [Pools -> Seq(Jobs)]
    BY <1>6, <2>1 DEF AddWork, Push
  <2>3. hasJobs' \in [Pools -> 0..1] /\ woken' \in [Threads -> BOOLEAN]
    BY <1>6, <2>1, PostTypes DEF AddWork, Push
  <2> QED
    BY <1>6, <2>1, <2>2, <2>3 DEF AddWork, Jobs
<1>7. CASE EndOfInput \/ WaitSleeps \/ WaitReturns \/ WaitWakes \/ BeginDestroy
  BY <1>7 DEF EndOfInput, WaitSleeps, WaitReturns, WaitWakes, BeginDestroy, MainPCs
<1>8. CASE PollThreads
  BY <1>8 DEF PollThreads, PostAll
<1>9. CASE EndDestroy
  BY <1>9 DEF EndDestroy, ClearQueue, MainPCs, Pools
<1>10. CASE UNCHANGED vars
  BY <1>10 DEF vars
<1> QED
  BY <1>1, <1>2, <1>3, <1>4, <1>5, <1>6, <1>7, <1>8, <1>9, <1>10
  DEF Next, ThreadStep, MainStep, Terminated

\* A thread that moves on changes the two sets of its own pool at most.
LEMMA ThreadMoves ==
  ASSUME Inv, NEW t \in Threads, NEW label, pc' = [pc EXCEPT ![t] = label]
  PROVE  LET p == PoolOf(t) IN
         /\ \A q \in Pools \ {p} : Present(q)' = Present(q) /\ AtWork(q)' = AtWork(q)
         /\ (pc[t] = "gone" <=> label = "gone") => Present(p)' = Present(p)
         /\ pc[t] # "gone" /\ label = "gone" =>
              t \in Present(p) /\ Present(p)' = Present(p) \ {t}
         /\ (pc[t] \in WorkPCs <=> label \in WorkPCs) => AtWork(p)' = AtWork(p)
         /\ pc[t] \notin WorkPCs /\ label \in WorkPCs =>
              t \notin AtWork(p) /\ AtWork(p)' = AtWork(p) \cup {t}
         /\ pc[t] \in WorkPCs /\ label \notin WorkPCs =>
              t \in AtWork(p) /\ AtWork(p)' = AtWork(p) \ {t}
<1> DEFINE p == PoolOf(t)
<1>1. /\ p \in Pools /\ t \in Members(p)
      /\ \A q \in Pools : \A u \in Members(q) : u \in Threads /\ PoolOf(u) = q
  BY ThreadsOfPools
<1>2. pc'[t] = label /\ \A u \in Threads \ {t} : pc'[u] = pc[u]
  BY DEF Inv, Places
<1>3. \A q \in Pools \ {p} : Present(q)' = Present(q) /\ AtWork(q)' = AtWork(q)
  BY <1>1, <1>2 DEF Present, AtWork
<1>4. /\ (pc[t] = "gone" <=> label = "gone") => Present(p)' = Present(p)
      /\ pc[t] # "gone" /\ label = "gone" =>
           t \in Present(p) /\ Present(p)' = Present(p) \ {t}
  BY <1>1, <1>2 DEF Present
<1>5. /\ (pc[t] \in WorkPCs <=> label \in WorkPCs) => AtWork(p)' = AtWork(p)
      /\ pc[t] \notin WorkPCs /\ label \in WorkPCs =>
           t \notin AtWork(p) /\ AtWork(p)' = AtWork(p) \cup {t}
      /\ pc[t] \in WorkPCs /\ label \notin WorkPCs =>
           t \in AtWork(p) /\ AtWork(p)' = AtWork(p) \ {t}
  BY <1>1, <1>2 DEF AtWork
<1> QED
  BY <1>3, <1>4, <1>5

\* The sets as they are when no thread moves.
LEMMA NobodyMoves ==
  ASSUME UNCHANGED pc
  PROVE  \A p \in Pools : Present(p)' = Present(p) /\ AtWork(p)' = AtWork(p)
BY DEF Present, AtWork

\* Both counters are exact between the critical sections of thcount_lock.
LEMMA CountsStep == Inv /\ [Next]_vars => CountsExact'
<1> SUFFICES ASSUME Inv, [Next]_vars PROVE CountsExact'
  OBVIOUS
<1>1. ASSUME NEW t \in Threads, NEW label,
             pc' = [pc EXCEPT ![t] = label], UNCHANGED countVars,
             pc[t] \in WorkPCs <=> label \in WorkPCs,
             pc[t] = "gone" <=> label = "gone"
      PROVE  CountsExact'
  <2>1. \A p \in Pools : Present(p)' = Present(p) /\ AtWork(p)' = AtWork(p)
    BY <1>1, ThreadMoves
  <2> QED
    BY <1>1, <2>1 DEF Inv, CountsExact, countVars
<1>2. ASSUME NEW t \in Threads,
             LoopTest(t) \/ TakeSemaphore(t) \/ Sleep(t) \/ SecondTest(t) \/ Wake(t)
      PROVE  CountsExact'
  <2>1. UNCHANGED countVars
    BY <1>2 DEF LoopTest, TakeSemaphore, Sleep, SecondTest, Wake
  <2>2. PICK label \in {"wait", "leave", "test", "asleep", "count", "loop"} :
          pc' = [pc EXCEPT ![t] = label]
    BY <1>2 DEF LoopTest, TakeSemaphore, Sleep, SecondTest, Wake, Goto
  <2>3. pc[t] \in {"loop", "wait", "asleep", "test"}
    BY <1>2 DEF LoopTest, TakeSemaphore, Sleep, SecondTest, Wake
  <2> QED
    BY <1>1, <2>1, <2>2, <2>3 DEF WorkPCs
<1>3. ASSUME NEW t \in Threads, PullJob(t) \/ SaveLatency(t) \/ EndJob(t)
      PROVE  CountsExact'
  <2>1. UNCHANGED countVars
    BY <1>3 DEF PullJob, SaveLatency, EndJob
  <2>2. PICK label \in {"run", "saved", "uncount"} : pc' = [pc EXCEPT ![t] = label]
    BY <1>3 DEF PullJob, SaveLatency, EndJob, Goto
  <2>3. pc[t] \in {"pull", "run", "saved"}
    BY <1>3 DEF PullJob, SaveLatency, EndJob
  <2> QED
    BY <1>1, <2>1, <2>2, <2>3 DEF WorkPCs
<1>4. ASSUME NEW t \in Threads, CountIn(t)
      PROVE  CountsExact'
  <2>1. /\ AtWork(PoolOf(t))' = AtWork(PoolOf(t)) \cup {t}
        /\ t \notin AtWork(PoolOf(t))
        /\ Present(PoolOf(t))' = Present(PoolOf(t))
        /\ \A q \in Pools \ {PoolOf(t)} :
             Present(q)' = Present(q) /\ AtWork(q)' = AtWork(q)
    <3>1. pc' = [pc EXCEPT ![t] = "pull"] /\ pc[t] = "count"
      BY <1>4 DEF CountIn, Goto
    <3>2. /\ pc[t] \notin WorkPCs /\ "pull" \in WorkPCs
          /\ pc[t] # "gone" /\ "pull" # "gone"
      BY <3>1 DEF WorkPCs
    <3> QED
      BY <3>1, <3>2, ThreadMoves
  <2>2. Cardinality(AtWork(PoolOf(t))') = Cardinality(AtWork(PoolOf(t))) + 1
    BY <2>1, OneIn, ThreadsOfPools DEF AtWork
  <2> QED
    BY <1>4, <2>1, <2>2, ThreadsOfPools DEF CountIn, Inv, Places, CountsExact
<1>5. ASSUME NEW t \in Threads, CountOut(t)
      PROVE  CountsExact'
  <2>1. /\ AtWork(PoolOf(t))' = AtWork(PoolOf(t)) \ {t}
        /\ t \in AtWork(PoolOf(t))
        /\ Present(PoolOf(t))' = Present(PoolOf(t))
        /\ \A q \in Pools \ {PoolOf(t)} :
             Present(q)' = Present(q) /\ AtWork(q)' = AtWork(q)
    <3>1. pc' = [pc EXCEPT ![t] = "loop"] /\ pc[t] = "uncount"
      BY <1>5 DEF CountOut, Goto
    <3>2. /\ pc[t] \in WorkPCs /\ "loop" \notin WorkPCs
          /\ pc[t] # "gone" /\ "loop" # "gone"
      BY <3>1 DEF WorkPCs
    <3> QED
      BY <3>1, <3>2, ThreadMoves
  <2>2. Cardinality(AtWork(PoolOf(t))') = Cardinality(AtWork(PoolOf(t))) - 1
    BY <2>1, OneOut, ThreadsOfPools DEF AtWork
  <2> QED
    BY <1>5, <2>1, <2>2, ThreadsOfPools DEF CountOut, Inv, Places, CountsExact
<1>6. ASSUME NEW t \in Threads, Leave(t)
      PROVE  CountsExact'
  <2>1. /\ Present(PoolOf(t))' = Present(PoolOf(t)) \ {t}
        /\ t \in Present(PoolOf(t))
        /\ AtWork(PoolOf(t))' = AtWork(PoolOf(t))
        /\ \A q \in Pools \ {PoolOf(t)} :
             Present(q)' = Present(q) /\ AtWork(q)' = AtWork(q)
    <3>1. pc[t] = "leave" /\ pc' = [pc EXCEPT ![t] = "gone"]
      BY <1>6 DEF Leave, Goto
    <3>2. pc[t] # "gone" /\ (pc[t] \in WorkPCs <=> "gone" \in WorkPCs)
      BY <3>1 DEF WorkPCs
    <3> QED
      BY <3>1, <3>2, ThreadMoves
  <2>2. Cardinality(Present(PoolOf(t))') = Cardinality(Present(PoolOf(t))) - 1
    BY <2>1, OneOut, ThreadsOfPools DEF Present
  <2> QED
    BY <1>6, <2>1, <2>2, ThreadsOfPools DEF Leave, Inv, Places, CountsExact
<1>7. CASE AddWork \/ MainStep \/ WaitWakes \/ UNCHANGED vars
  <2>1. UNCHANGED <<pc, countVars>>
    BY <1>7 DEF AddWork, MainStep, EndOfInput, WaitSleeps, WaitReturns, WaitWakes,
                BeginDestroy, PollThreads, EndDestroy, threadVars, vars
  <2> QED
    BY <2>1, NobodyMoves DEF Inv, CountsExact, countVars
<1> QED
  BY <1>2, <1>3, <1>4, <1>5, <1>6, <1>7 DEF Next, ThreadStep, Terminated

\* A thread has no job but between its pull and its end.
LEMMA JobsAtWorkStep == Inv /\ [Next]_vars => JobsAtWork'
<1> SUFFICES ASSUME Inv, [Next]_vars PROVE JobsAtWork'
  OBVIOUS
<1> USE DEF Inv, Places, JobsAtWork, Goto, threadVars
<1>1. ASSUME NEW t \in Threads, ThreadStep(t) \/ Wake(t)
      PROVE  JobsAtWork'
  BY <1>1 DEF ThreadStep, LoopTest, TakeSemaphore, Sleep, Wake, SecondTest,
              CountIn, PullJob, Pull, SaveLatency, EndJob, CountOut, Leave
<1>2. CASE AddWork \/ MainStep \/ WaitWakes \/ UNCHANGED vars
  <2>1. UNCHANGED <<pc, job>>
    BY <1>2 DEF AddWork, MainStep, EndOfInput, WaitSleeps, WaitReturns, WaitWakes,
                BeginDestroy, PollThreads, EndDestroy, vars
  <2> QED
    BY <2>1
<1> QED
  BY <1>1, <1>2 DEF Next, Terminated

-----------------------------------------------------------------------------
(***************************************************************************)
(* The jobs                                                                *)
(***************************************************************************)

\* What a step does to the jobs of pool p, and nothing else to its queue: they
\* stay, one comes, one is started or one ends.
Stay(p) ==
  /\ queue'[p] = queue[p] /\ finished'[p] = finished[p]
  /\ \A t \in Members(p) : job'[t] = job[t]
Come(p, j) ==
  /\ ~InPool(p, j)
  /\ queue' = [queue EXCEPT ![p] = Append(@, j)]
  /\ UNCHANGED <<finished, job>>
StartOf(t) ==
  /\ job[t] = NoJob /\ queue[PoolOf(t)] # <<>>
  /\ job' = [job EXCEPT ![t] = Head(queue[PoolOf(t)])]
  /\ queue' = [queue EXCEPT ![PoolOf(t)] = Tail(@)]
  /\ UNCHANGED finished
EndOf(t) ==
  /\ job[t] # NoJob
  /\ finished' = [finished EXCEPT ![PoolOf(t)] = @ \cup {job[t]}]
  /\ job' = [job EXCEPT ![t] = NoJob]
  /\ UNCHANGED queue

\* Both pools have come to their wait with nothing left: what EndDestroy clears
\* is empty.
LEMMA ClearedIsEmpty ==
  ASSUME Inv, EndDestroy
  PROVE  UNCHANGED queue
<1>1. WaitedFor(target) /\ target \in Pools
  BY DEF EndDestroy, WaitedFor, Inv, Places
<1>2. queue[target] = <<>>
  BY <1>1 DEF Inv, StaysIdle, Idle
<1> QED
  BY <1>2 DEF EndDestroy, ClearQueue, Inv, Places

\* main_loop adds a job the master pool has not had.
LEMMA AddedIsNew ==
  ASSUME Inv, AddWork
  PROVE  added + 1 \in Jobs /\ Come("master", added + 1)
<1>1. added + 1 \in Jobs /\ ~(added + 1 <= added)
  BY ThreadPoolAssumption DEF AddWork, Inv, Places, Jobs
<1>2. ~InPool("master", added + 1)
  BY <1>1 DEF Inv, MasterOrigin
<1> QED
  BY <1>1, <1>2 DEF AddWork, Push, Come

\* A latency is saved once: no other thread has this job, and it has not ended.
LEMMA SavedIsNew ==
  ASSUME Inv, NEW t \in Threads, SaveLatency(t)
  PROVE  job[t] \in Jobs /\ Come("stats", job[t])
<1>1. /\ job[t] \in Jobs /\ pc[t] = "run"
      /\ t \in Members("master") /\ Members("master") = MasterThreads
      /\ "master" \in Pools
  BY DEF SaveLatency, Inv, Places, Members, Pools
<1>2. Running("master", job[t])
  BY <1>1 DEF Running
<1>3. job[t] \notin finished["master"]
  BY <1>1, <1>2 DEF Inv, AllSingle, Single
<1>4. \A u \in MasterThreads : job[u] = job[t] => u = t
  BY <1>1 DEF Inv, AllSingle, Single, SaveLatency
<1>5. ~Saved(job[t])
  BY <1>1, <1>3, <1>4 DEF Saved
<1>6. ~InPool("stats", job[t])
  BY <1>1, <1>5 DEF Inv, StatsOrigin
<1> QED
  BY <1>1, <1>6 DEF SaveLatency, Push, Come

\* Every step moves one job of one pool at most.
LEMMA JobMoves ==
  ASSUME Inv, [Next]_vars
  PROVE  \/ UNCHANGED <<queue, job, finished>>
         \/ AddWork /\ added + 1 \in Jobs /\ Come("master", added + 1)
         \/ \E t \in Threads :
              \/ SaveLatency(t) /\ job[t] \in Jobs /\ Come("stats", job[t])
              \/ PullJob(t) /\ StartOf(t)
              \/ EndJob(t) /\ EndOf(t)
<1>1. ASSUME NEW t \in Threads,
             \/ LoopTest(t) \/ TakeSemaphore(t) \/ Sleep(t) \/ SecondTest(t)
             \/ CountIn(t) \/ CountOut(t) \/ Leave(t) \/ Wake(t)
      PROVE  UNCHANGED <<queue, job, finished>>
  BY <1>1 DEF LoopTest, TakeSemaphore, Sleep, SecondTest, CountIn, CountOut,
              Leave, Wake
<1>2. ASSUME NEW t \in Threads, PullJob(t)
      PROVE  UNCHANGED <<queue, job, finished>> \/ StartOf(t)
  <2>1. job[t] = NoJob
    BY <1>2 DEF PullJob, Inv, JobsAtWork
  <2>2. CASE queue[PoolOf(t)] = <<>>
    BY <1>2, <2>1, <2>2, ThreadsOfPools DEF PullJob, Pull, Inv, Places
  <2>3. CASE queue[PoolOf(t)] # <<>>
    BY <1>2, <2>1, <2>3, ThreadsOfPools DEF PullJob, Pull, StartOf, Inv, Places
  <2> QED
    BY <2>2, <2>3
<1>3. ASSUME NEW t \in Threads, EndJob(t)
      PROVE  UNCHANGED <<queue, job, finished>> \/ EndOf(t)
  <2>1. CASE job[t] = NoJob
    BY <1>3, <2>1, ThreadsOfPools DEF EndJob, Inv, Places
  <2>2. CASE job[t] # NoJob
    <3>1. {job[t]} \ {NoJob} = {job[t]}
      BY <2>2
    <3> QED
      BY <1>3, <2>2, <3>1 DEF EndJob, EndOf
  <2> QED
    BY <2>1, <2>2
<1>4. CASE EndDestroy
  BY <1>4, ClearedIsEmpty DEF EndDestroy, threadVars
<1>5. CASE EndOfInput \/ WaitSleeps \/ WaitReturns \/ BeginDestroy \/ PollThreads
           \/ WaitWakes \/ UNCHANGED vars
  BY <1>5 DEF EndOfInput, WaitSleeps, WaitReturns, BeginDestroy, PollThreads,
              WaitWakes, vars, threadVars
<1> QED
  BY <1>1, <1>2, <1>3, <1>4, <1>5, AddedIsNew, SavedIsNew
  DEF Next, ThreadStep, MainStep, Terminated

\* The pool to which a job comes takes it in; the other keeps what it has.
LEMMA CameStep ==
  ASSUME Inv, NEW p \in Pools, NEW j \in Jobs, Come(p, j)
  PROVE  /\ AllSingle'
         /\ \A k \in Jobs : InPool(p, k)' <=> InPool(p, k) \/ k = j
         /\ \A q \in Pools \ {p} : \A k \in Jobs : InPool(q, k)' <=> InPool(q, k)
<1>1. Single(p)' /\ \A k \in Jobs : InPool(p, k)' <=> InPool(p, k) \/ k = j
  BY JobComes DEF Come
<1>2. ASSUME NEW q \in Pools \ {p}
      PROVE  Single(q)' /\ \A k \in Jobs : InPool(q, k)' <=> InPool(q, k)
  <2>1. queue'[q] = queue[q] /\ finished'[q] = finished[q]
    BY DEF Come, Inv, Places
  <2> QED
    BY <2>1, JobsStay DEF Come
<1> QED
  BY <1>1, <1>2 DEF AllSingle

\* A job that is started or ends stays where it is.
LEMMA MovedStep ==
  ASSUME Inv, NEW t \in Threads, StartOf(t) \/ EndOf(t)
  PROVE  /\ AllSingle'
         /\ \A q \in Pools : \A k \in Jobs : InPool(q, k)' <=> InPool(q, k)
<1> DEFINE p == PoolOf(t)
<1>1. /\ p \in Pools
      /\ \A q \in Pools \ {p} : t \notin Members(q) /\ Members(q) \subseteq Threads
  BY ThreadsOfPools
<1>2. Single(p)' /\ \A k \in Jobs : InPool(p, k)' <=> InPool(p, k)
  BY JobStarts, JobEnds DEF StartOf, EndOf
<1>3. ASSUME NEW q \in Pools \ {p}
      PROVE  Single(q)' /\ \A k \in Jobs : InPool(q, k)' <=> InPool(q, k)
  <2>1. queue'[q] = queue[q] /\ finished'[q] = finished[q]
    BY DEF StartOf, EndOf, Inv, Places
  <2>2. \A u \in Members(q) : job'[u] = job[u]
    BY <1>1 DEF StartOf, EndOf, Inv, Places
  <2> QED
    BY <2>1, <2>2, JobsStay
<1> QED
  BY <1>1, <1>2, <1>3 DEF AllSingle

\* No job is lost, doubled or made up.
LEMMA AllSingleStep == Inv /\ [Next]_vars => AllSingle'
<1> SUFFICES ASSUME Inv, [Next]_vars PROVE AllSingle'
  OBVIOUS
<1>1. CASE UNCHANGED <<queue, job, finished>>
  BY <1>1, JobsStay DEF AllSingle
<1>2. "master" \in Pools /\ "stats" \in Pools
  BY DEF Pools
<1> QED
  BY <1>1, <1>2, JobMoves, CameStep, MovedStep

\* The jobs of the master pool are the lines main has read.
LEMMA MasterOriginStep == Inv /\ [Next]_vars => MasterOrigin'
<1> SUFFICES ASSUME Inv, [Next]_vars, NEW j \in Jobs, InPool("master", j)'
             PROVE  j <= added'
  BY DEF MasterOrigin
<1>1. added' = added \/ (AddWork /\ added' = added + 1)
  BY DEF Next, ThreadStep, MainStep, LoopTest, TakeSemaphore, Sleep, SecondTest,
         CountIn, PullJob, SaveLatency, EndJob, CountOut, Leave, Wake, AddWork,
         EndOfInput, WaitSleeps, WaitReturns, BeginDestroy, PollThreads,
         EndDestroy, WaitWakes, Terminated, vars, mainVars
<1>2. "master" \in Pools /\ "stats" \in Pools /\ "master" # "stats"
  BY DEF Pools
<1>3. InPool("master", j) \/ (AddWork /\ j = added + 1)
  <2>1. CASE UNCHANGED <<queue, job, finished>>
    BY <1>2, <2>1, JobsStay
  <2>2. CASE AddWork /\ added + 1 \in Jobs /\ Come("master", added + 1)
    BY <1>2, <2>2, CameStep
  <2>3. ASSUME NEW t \in Threads, job[t] \in Jobs, Come("stats", job[t])
        PROVE  InPool("master", j)
    BY <1>2, <2>3, CameStep
  <2>4. ASSUME NEW t \in Threads, StartOf(t) \/ EndOf(t)
        PROVE  InPool("master", j)
    BY <1>2, <2>4, MovedStep
  <2> QED
    BY <2>1, <2>2, <2>3, <2>4, JobMoves
<1>4. added \in Int /\ j \in Int
  BY DEF Inv, Places, Jobs
<1> QED
  BY <1>1, <1>3, <1>4 DEF Inv, MasterOrigin, AddWork

\* A latency that has been handed on belongs to a job past its saveLatency.
LEMMA StatsOriginStep == Inv /\ [Next]_vars => StatsOrigin'
<1> SUFFICES ASSUME Inv, [Next]_vars, NEW j \in Jobs, InPool("stats", j)'
             PROVE  Saved(j)'
  BY DEF StatsOrigin
<1>1. "master" \in Pools /\ "stats" \in Pools /\ "master" # "stats"
  BY DEF Pools
<1>2. /\ MasterThreads \subseteq Threads
      /\ \A t \in MasterThreads : PoolOf(t) = "master"
  BY DEF Threads, PoolOf
<1>3. ASSUME NEW t \in Threads, SaveLatency(t), job[t] \in Jobs,
             Come("stats", job[t])
      PROVE  Saved(j)'
  <2>1. InPool("stats", j) \/ j = job[t]
    BY <1>1, <1>3, CameStep
  <2>2. \A k : Saved(k) => Saved(k)'
    BY <1>2, <1>3 DEF Saved, SaveLatency, Goto, Inv, Places
  <2>3. \A k : k = job[t] => Saved(k)'
    BY <1>2, <1>3 DEF Saved, SaveLatency, Goto, Inv, Places
  <2>4. InPool("stats", j) => Saved(j)
    BY DEF Inv, StatsOrigin
  <2> QED
    BY <2>1, <2>2, <2>3, <2>4
<1>4. ASSUME NEW t \in Threads, EndJob(t), EndOf(t)
      PROVE  Saved(j)'
  <2>1. InPool("stats", j)
    BY <1>1, <1>4, MovedStep
  <2>2. Saved(j)
    BY <2>1 DEF Inv, StatsOrigin
  <2>3. \A k : k \in finished["master"] => k \in finished'["master"]
    BY <1>1, <1>4, ThreadsOfPools DEF EndOf, Inv, Places
  <2>4. t \in MasterThreads => job[t] \in finished'["master"]
    BY <1>1, <1>2, <1>4 DEF EndOf, Inv, Places
  <2>5. \A u \in MasterThreads \ {t} : pc'[u] = pc[u] /\ job'[u] = job[u]
    BY <1>2, <1>4 DEF EndJob, EndOf, Goto, Inv, Places
  <2> QED
    BY <2>2, <2>3, <2>4, <2>5 DEF Saved
<1>5. ASSUME NEW t \in Threads, PullJob(t), StartOf(t)
      PROVE  Saved(j)'
  <2>1. InPool("stats", j)
    BY <1>1, <1>5, MovedStep
  <2>2. \A u \in MasterThreads \ {t} : pc'[u] = pc[u] /\ job'[u] = job[u]
    BY <1>2, <1>5 DEF PullJob, StartOf, Goto, Inv, Places
  <2>3. pc[t] # "saved" /\ UNCHANGED finished
    BY <1>5 DEF PullJob, StartOf
  <2> QED
    BY <2>1, <2>2, <2>3 DEF Inv, StatsOrigin, Saved
<1>6. CASE AddWork /\ added + 1 \in Jobs /\ Come("master", added + 1)
  <2>1. InPool("stats", j)
    BY <1>1, <1>6, CameStep
  <2> QED
    BY <1>6, <2>1 DEF AddWork, Inv, StatsOrigin, Saved
<1>7. CASE UNCHANGED <<queue, job, finished>>
  <2>1. InPool("stats", j)
    BY <1>1, <1>7, JobsStay
  <2>2. \A t \in MasterThreads : pc[t] = "saved" /\ job[t] = j => pc'[t] = "saved"
    <3> SUFFICES ASSUME NEW u \in MasterThreads, pc[u] = "saved", job[u] = j
                 PROVE  pc'[u] = "saved"
      OBVIOUS
    <3>1. ASSUME NEW t \in Threads, ThreadStep(t) \/ Wake(t)
          PROVE  pc'[u] = "saved"
      <4>1. CASE t = u
        <5>1. EndJob(t)
          BY <3>1, <4>1 DEF ThreadStep, LoopTest, TakeSemaphore, Sleep, SecondTest,
             CountIn, PullJob, SaveLatency, CountOut, Leave, Wake
        <5>2. job[t] = NoJob
          BY <1>2, <1>7, <4>1, <5>1 DEF EndJob, Inv, Places
        <5> QED
          BY <4>1, <5>2 DEF Jobs, NoJob
      <4>2. CASE t # u
        BY <1>2, <3>1, <4>2
        DEF ThreadStep, LoopTest, TakeSemaphore, Sleep, SecondTest, CountIn,
            PullJob, SaveLatency, EndJob, CountOut, Leave, Wake, Goto, Inv, Places
      <4> QED
        BY <4>1, <4>2
    <3>2. CASE AddWork \/ MainStep \/ WaitWakes \/ UNCHANGED vars
      BY <3>2 DEF AddWork, MainStep, EndOfInput, WaitSleeps, WaitReturns, WaitWakes,
                  BeginDestroy, PollThreads, EndDestroy, threadVars, vars
    <3> QED
      BY <3>1, <3>2 DEF Next, Terminated
  <2> QED
    BY <1>7, <2>1, <2>2 DEF Inv, StatsOrigin, Saved
<1> QED
  BY <1>3, <1>4, <1>5, <1>6, <1>7, JobMoves

\* When thpool_wait sees its pool drained no thread of it has a job.
LEMMA DrainedIsIdle ==
  ASSUME Inv, NEW p \in Pools, Drained(p)
  PROVE  Idle(p)
<1>1. Cardinality(AtWork(p)) = 0
  BY DEF Drained, Inv, CountsExact
<1>2. AtWork(p) = {}
  <2>1. IsFiniteSet(AtWork(p))
    BY SomeFinite DEF AtWork
  <2> QED
    BY <1>1, <2>1, FS_EmptySet
<1> QED
  BY <1>2, ThreadsOfPools DEF Drained, Idle, AtWork, WorkPCs, Inv, JobsAtWork

\* Main goes from the master pool to the other and never back.
LEMMA WaitsReturn ==
  ASSUME Inv, [Next]_vars, NEW p \in Pools, WaitedFor(p)'
  PROVE  /\ WaitedFor(p) \/ (WaitReturns /\ p = target)
         /\ AddWork => p # "master"
<1> USE DEF WaitedFor, Inv, MainOrder, Places, Pools
<1>1. CASE WaitReturns
  BY <1>1 DEF WaitReturns, AddWork
<1>2. CASE EndDestroy
  BY <1>2 DEF EndDestroy, AddWork
<1>3. CASE BeginDestroy \/ PollThreads
  BY <1>3 DEF BeginDestroy, PollThreads, AddWork, mainVars
<1>4. CASE AddWork
  BY <1>4 DEF AddWork
<1>5. CASE EndOfInput \/ WaitSleeps \/ WaitWakes
  BY <1>5 DEF EndOfInput, WaitSleeps, WaitWakes, AddWork
<1>6. ASSUME NEW t \in Threads, ThreadStep(t) \/ Wake(t)
      PROVE  UNCHANGED <<main, target, added>>
  BY <1>6 DEF ThreadStep, LoopTest, TakeSemaphore, Sleep, SecondTest, CountIn,
              PullJob, SaveLatency, EndJob, CountOut, Leave, Wake, mainVars
<1>7. CASE UNCHANGED <<main, target, added>>
  BY <1>7 DEF AddWork
<1> QED
  BY <1>1, <1>2, <1>3, <1>4, <1>5, <1>6, <1>7
  DEF Next, MainStep, Terminated, vars, mainVars

\* Main and the pool it is at.
LEMMA MainOrderStep == Inv /\ [Next]_vars => MainOrder'
<1> SUFFICES ASSUME Inv, [Next]_vars PROVE MainOrder'
  OBVIOUS
<1> USE DEF Inv, MainOrder, Places, Pools
<1>1. ASSUME NEW t \in Threads, ThreadStep(t) \/ Wake(t)
      PROVE  UNCHANGED <<main, target>>
  BY <1>1 DEF ThreadStep, LoopTest, TakeSemaphore, Sleep, SecondTest, CountIn,
              PullJob, SaveLatency, EndJob, CountOut, Leave, Wake, mainVars
<1>2. CASE AddWork \/ MainStep \/ WaitWakes \/ UNCHANGED vars
  BY <1>2 DEF AddWork, MainStep, EndOfInput, WaitSleeps, WaitReturns, WaitWakes,
              BeginDestroy, PollThreads, EndDestroy, vars, mainVars
<1> QED
  BY <1>1, <1>2 DEF Next, Terminated

\* Nothing comes into a pool that is done with: main has stopped feeding it, or
\* those who would have no job any more.
LEMMA StaysIdleStep == Inv /\ [Next]_vars => StaysIdle'
<1> SUFFICES ASSUME Inv, [Next]_vars, NEW p \in Pools, WaitedFor(p)'
             PROVE  Idle(p)'
  BY DEF StaysIdle
<1>1. CASE WaitReturns /\ p = target
  <2>1. Idle(p)
    BY <1>1, DrainedIsIdle DEF WaitReturns
  <2> QED
    BY <1>1, <2>1 DEF WaitReturns, Idle, threadVars
<1>2. CASE WaitedFor(p)
  <2>1. Idle(p)
    BY <1>2 DEF Inv, StaysIdle
  <2>2. CASE UNCHANGED <<queue, job, finished>>
    BY <2>1, <2>2 DEF Idle
  <2>3. CASE AddWork /\ Come("master", added + 1)
    <3>1. p # "master"
      BY <2>3, WaitsReturn
    <3> QED
      BY <2>1, <2>3, <3>1 DEF Come, Idle, Inv, Places
  <2>4. ASSUME NEW t \in Threads, SaveLatency(t), Come("stats", job[t])
        PROVE  Idle(p)'
    <3>1. CASE p = "master"
      BY <2>1, <2>4, <3>1 DEF Come, Idle, Inv, Places
    <3>2. CASE p = "stats"
      <4>1. WaitedFor("master") /\ "master" \in Pools
        BY <1>2, <3>2 DEF WaitedFor, Pools
      <4>2. job[t] = NoJob
        BY <2>4, <4>1 DEF Inv, StaysIdle, Idle, SaveLatency, Members
      <4> QED
        BY <2>4, <4>2 DEF SaveLatency
    <3> QED
      BY <3>1, <3>2 DEF Pools
  <2>5. ASSUME NEW t \in Threads, StartOf(t) \/ EndOf(t)
        PROVE  Idle(p)'
    <3>1. p # PoolOf(t)
      BY <2>1, <2>5, ThreadsOfPools DEF StartOf, EndOf, Idle
    <3> QED
      BY <2>1, <2>5, <3>1, ThreadsOfPools DEF StartOf, EndOf, Idle, Inv, Places
  <2> QED
    BY <2>2, <2>3, <2>4, <2>5, JobMoves
<1> QED
  BY <1>1, <1>2, WaitsReturn

\* The invariant holds in every reachable state.
LEMMA InvAlways == Spec => []Inv
<1>1. Inv /\ [Next]_vars => Inv'
  BY PlacesStep, CountsStep, JobsAtWorkStep, AllSingleStep, MasterOriginStep,
     StatsOriginStep, StaysIdleStep, MainOrderStep DEF Inv
<1> QED
  BY InvInit, <1>1, PTL DEF Spec

-----------------------------------------------------------------------------
\* Every variable keeps its range; the counters of thcount_lock never leave
\* 0..threads.
THEOREM PoolTypes == Spec => []TypeOK
<1>1. Inv => TypeOK
  <2> SUFFICES ASSUME Inv PROVE TypeOK
    OBVIOUS
  <2>1. \A p \in Pools : /\ alive[p] \in 0..Cardinality(Members(p))
                         /\ working[p] \in 0..Cardinality(Members(p))
    BY SomeFinite DEF Inv, CountsExact, Present, AtWork
  <2> QED
    BY <2>1 DEF Inv, Places, TypeOK
<1> QED
  BY InvAlways, <1>1, PTL

-----------------------------------------------------------------------------
(***************************************************************************)
(* The semaphore                                                           *)
(***************************************************************************)

\* While jobs are queued the semaphore is up or somebody is on the way ...
OnTheWay(p) ==
  queue[p] # <<>> =>
    hasJobs[p] = 1 \/ \E t \in Members(p) : pc[t] \in {"test", "count", "pull"}

\* ... and when it is up somebody is awake to take it.
Awake(p) == hasJobs[p] = 1 => \E t \in Members(p) : pc[t] # "asleep" \/ woken[t]

\* A post finds somebody awake or wakes a sleeper.
LEMMA PostWakes ==
  ASSUME Inv, NEW p \in Pools, Post(p),
         \A t \in Members(p) : pc'[t] = "asleep" => pc[t] = "asleep"
  PROVE  /\ OnTheWay(p)' /\ Awake(p)'
         /\ \A t \in Threads : woken[t] => woken'[t]
         /\ \A q \in Pools \ {p} : hasJobs'[q] = hasJobs[q]
<1>1. hasJobs'[p] = 1 /\ \A q \in Pools \ {p} : hasJobs'[q] = hasJobs[q]
  BY DEF Post, Inv, Places
<1>2. /\ \A t \in Threads : woken[t] => woken'[t]
      /\ \E t \in Members(p) : pc[t] # "asleep" \/ woken'[t]
  <2>1. CASE Sleepers(p) = {}
    BY <2>1, MembersFinite DEF Post, Sleepers
  <2>2. CASE Sleepers(p) # {}
    <3>1. PICK t \in Sleepers(p) : woken' = [woken EXCEPT ![t] = TRUE]
      BY <2>2 DEF Post
    <3>2. t \in Members(p) /\ t \in Threads
      BY ThreadsOfPools DEF Sleepers
    <3> QED
      BY <3>1, <3>2 DEF Inv, Places
  <2> QED
    BY <2>1, <2>2
<1> QED
  BY <1>1, <1>2 DEF OnTheWay, Awake

\* Who posts is not asleep; neither pool is left with a job and only sleepers.
LEMMA SemaphoreStep ==
  Inv /\ NobodySleepsOverAJob /\ [Next]_vars => NobodySleepsOverAJob'
<1> SUFFICES ASSUME Inv, NobodySleepsOverAJob, [Next]_vars, keepalive',
                    NEW p \in Pools
             PROVE  OnTheWay(p)' /\ Awake(p)'
  BY DEF NobodySleepsOverAJob, OnTheWay, Awake
<1>1. keepalive
  BY DEF Next, ThreadStep, MainStep, LoopTest, TakeSemaphore, Sleep, SecondTest,
         CountIn, PullJob, SaveLatency, EndJob, CountOut, Leave, Wake, AddWork,
         EndOfInput, WaitSleeps, WaitReturns, BeginDestroy, PollThreads,
         EndDestroy, WaitWakes, Terminated, vars
<1>2. OnTheWay(p) /\ Awake(p)
  BY <1>1 DEF NobodySleepsOverAJob, OnTheWay, Awake
<1>3. Members(p) \subseteq Threads /\ \A t \in Members(p) : PoolOf(t) = p
  BY ThreadsOfPools
<1> USE DEF Inv, Places, Goto, OnTheWay, Awake
<1>4. ASSUME NEW t \in Threads, LoopTest(t)
      PROVE  OnTheWay(p)' /\ Awake(p)'
  BY <1>2, <1>3, <1>4 DEF LoopTest
<1>5. ASSUME NEW t \in Threads, TakeSemaphore(t)
      PROVE  OnTheWay(p)' /\ Awake(p)'
  BY <1>2, <1>3, <1>5, ThreadsOfPools DEF TakeSemaphore
<1>6. ASSUME NEW t \in Threads, Sleep(t)
      PROVE  OnTheWay(p)' /\ Awake(p)'
  BY <1>2, <1>3, <1>6 DEF Sleep
<1>7. ASSUME NEW t \in Threads, Wake(t)
      PROVE  OnTheWay(p)' /\ Awake(p)'
  BY <1>2, <1>3, <1>7 DEF Wake
<1>8. ASSUME NEW t \in Threads, SecondTest(t)
      PROVE  OnTheWay(p)' /\ Awake(p)'
  BY <1>1, <1>2, <1>3, <1>8 DEF SecondTest
<1>9. ASSUME NEW t \in Threads, CountIn(t)
      PROVE  OnTheWay(p)' /\ Awake(p)'
  BY <1>2, <1>3, <1>9 DEF CountIn
<1>10. ASSUME NEW t \in Threads, EndJob(t) \/ CountOut(t) \/ Leave(t)
       PROVE  OnTheWay(p)' /\ Awake(p)'
  BY <1>2, <1>3, <1>10 DEF EndJob, CountOut, Leave
<1>11. ASSUME NEW q \in Pools, Post(q), queue'[p] = queue[p] \/ p = q,
              \A u \in Members(p) :
                /\ pc'[u] = "asleep" <=> pc[u] = "asleep"
                /\ pc[u] \in {"test", "count", "pull"} => pc'[u] = pc[u] \/ p = q
       PROVE  OnTheWay(p)' /\ Awake(p)'
  <2>1. CASE p = q
    BY <1>11, <2>1, PostWakes
  <2>2. CASE p # q
    <3>1. hasJobs'[p] = hasJobs[p] /\ queue'[p] = queue[p]
      BY <1>11, <2>2 DEF Post
    <3>2. \A t \in Threads : woken[t] => woken'[t]
      <4>1. CASE Sleepers(q) = {}
        BY <1>11, <4>1 DEF Post
      <4>2. CASE Sleepers(q) # {}
        <5>1. PICK t \in Sleepers(q) : woken' = [woken EXCEPT ![t] = TRUE]
          BY <1>11, <4>2 DEF Post
        <5> QED
          BY <5>1
      <4> QED
        BY <4>1, <4>2
    <3> QED
      BY <1>2, <1>3, <1>11, <2>2, <3>1, <3>2
  <2> QED
    BY <2>1, <2>2
<1>12. ASSUME NEW t \in Threads, PullJob(t)
       PROVE  OnTheWay(p)' /\ Awake(p)'
  <2>1. /\ pc' = [pc EXCEPT ![t] = "run"] /\ pc[t] = "pull"
        /\ queue' = [queue EXCEPT ![PoolOf(t)] = IF @ = <<>> THEN @ ELSE Tail(@)]
        /\ PoolOf(t) \in Pools /\ t \in Members(PoolOf(t))
    BY <1>12, ThreadsOfPools DEF PullJob, Pull
  <2>2. CASE Len(queue[PoolOf(t)]) > 1
    <3>1. Post(PoolOf(t))
      BY <1>12, <2>2 DEF PullJob, Pull
    <3>2. queue'[p] = queue[p] \/ p = PoolOf(t)
      BY <2>1
    <3> QED
      BY <1>3, <1>11, <2>1, <3>1, <3>2
  <2>3. CASE ~(Len(queue[PoolOf(t)]) > 1)
    <3>1. UNCHANGED <<hasJobs, woken>>
      BY <1>12, <2>3 DEF PullJob, Pull
    <3>2. CASE p = PoolOf(t)
      <4>1. queue[p] \in Seq(Jobs) /\ Len(queue[p]) \in Nat /\ Len(queue[p]) <= 1
        BY <2>3, <3>2
      <4>2. queue'[p] = <<>>
        BY <2>1, <3>2, <4>1
      <4>3. pc'[t] = "run"
        BY <2>1
      <4> QED
        BY <2>1, <3>2, <4>2, <4>3
    <3>3. CASE p # PoolOf(t)
      BY <1>2, <1>3, <2>1, <3>1, <3>3
    <3> QED
      BY <3>2, <3>3
  <2> QED
    BY <2>2, <2>3
<1>13. ASSUME NEW t \in Threads, SaveLatency(t)
       PROVE  OnTheWay(p)' /\ Awake(p)'
  <2>1. /\ pc' = [pc EXCEPT ![t] = "saved"] /\ pc[t] = "run"
        /\ "stats" \in Pools /\ Post("stats")
        /\ queue'[p] = queue[p] \/ p = "stats"
    BY <1>13 DEF SaveLatency, Push, Pools
  <2> QED
    BY <1>3, <1>11, <2>1
<1>14. CASE AddWork
  <2>1. /\ UNCHANGED pc
        /\ "master" \in Pools /\ Post("master")
        /\ queue'[p] = queue[p] \/ p = "master"
    BY <1>14 DEF AddWork, Push, Pools
  <2> QED
    BY <1>11, <2>1
<1>15. CASE EndOfInput \/ WaitSleeps \/ WaitReturns \/ WaitWakes \/ UNCHANGED vars
  BY <1>2, <1>15 DEF EndOfInput, WaitSleeps, WaitReturns, WaitWakes, threadVars, vars
<1>16. CASE BeginDestroy
  BY <1>16 DEF BeginDestroy
<1>17. CASE PollThreads
  <2>1. /\ hasJobs' = [hasJobs EXCEPT ![target] = 1]
        /\ woken' = [t \in Threads |-> woken[t] \/ t \in Sleepers(target)]
        /\ UNCHANGED <<queue, pc>>
    BY <1>17 DEF PollThreads, PostAll
  <2>2. CASE p = target
    <3>1. PICK t \in Members(p) : TRUE
      BY MembersFinite
    <3>2. pc'[t] # "asleep" \/ woken'[t]
      BY <1>3, <2>1, <2>2, <3>1 DEF Sleepers
    <3> QED
      BY <2>1, <2>2, <3>1, <3>2
  <2>3. CASE p # target
    BY <1>2, <1>3, <2>1, <2>3
  <2> QED
    BY <2>2, <2>3
<1>18. CASE EndDestroy
  <2>1. queue'[p] = queue[p] /\ UNCHANGED <<pc, woken>>
    BY <1>18, ClearedIsEmpty DEF EndDestroy, threadVars
  <2>2. hasJobs'[p] = 0 \/ hasJobs'[p] = hasJobs[p]
    BY <1>18 DEF EndDestroy, ClearQueue
  <2>3. CASE p = target
    BY <1>18, <2>3 DEF EndDestroy, ClearQueue
  <2>4. CASE p # target
    <3>1. hasJobs'[p] = hasJobs[p]
      BY <1>18, <2>4 DEF EndDestroy, ClearQueue
    <3> QED
      BY <1>2, <2>1, <3>1
  <2> QED
    BY <2>3, <2>4
<1> QED
  BY <1>4, <1>5, <1>6, <1>7, <1>8, <1>9, <1>10, <1>12, <1>13, <1>14, <1>15,
     <1>16, <1>17, <1>18
  DEF Next, ThreadStep, MainStep, Terminated

\* The binary semaphore of thpool.c leaves nobody asleep over a job
\* (jobqueue_push, jobqueue_pull, bsem_wait), however many threads there are.
THEOREM SemaphoreSuffices == Spec => []NobodySleepsOverAJob
<1>1. Init => NobodySleepsOverAJob
  BY MembersFinite, ThreadsOfPools DEF Init, NobodySleepsOverAJob
<1> QED
  BY InvAlways, <1>1, SemaphoreStep, PTL DEF Spec

-----------------------------------------------------------------------------
(***************************************************************************)
(* The promise of thpool.h                                                 *)
(***************************************************************************)

\* Who is executing what, in the terms of JobPool.
LEMMA RunningIsRunning ==
  ASSUME NEW p, NEW j \in Jobs
  PROVE  j \in RunningJobs(p) <=> Running(p, j)
BY DEF RunningJobs, Running, Jobs, NoJob

\* The steps of JobPool, in terms of one pool of two.
Adds(p, j) ==
  /\ j \notin RunningJobs(p) \cup finished[p]
  /\ \A i \in DOMAIN queue[p] : queue[p][i] # j
  /\ queue'[p] = Append(queue[p], j)
  /\ UNCHANGED <<RunningJobs(p), finished[p], WaitedFor(p)>>
Starts(p) ==
  /\ queue[p] # <<>>
  /\ queue'[p] = Tail(queue[p])
  /\ RunningJobs(p)' = RunningJobs(p) \cup {Head(queue[p])}
  /\ UNCHANGED <<finished[p], WaitedFor(p)>>
Finishes(p, j) ==
  /\ j \in RunningJobs(p)
  /\ RunningJobs(p)' = RunningJobs(p) \ {j}
  /\ finished'[p] = finished[p] \cup {j}
  /\ UNCHANGED <<queue[p], WaitedFor(p)>>
Returns(p) ==
  /\ ~WaitedFor(p)
  /\ queue[p] = <<>>
  /\ RunningJobs(p) = {}
  /\ WaitedFor(p)' = TRUE
  /\ UNCHANGED <<queue[p], RunningJobs(p), finished[p]>>
Stutters(p) ==
  UNCHANGED <<queue[p], RunningJobs(p), finished[p], WaitedFor(p)>>

\* Once the wait has returned it stays so.
LEMMA WaitedForStays ==
  ASSUME Inv, [Next]_vars, NEW p \in Pools, WaitedFor(p)
  PROVE  WaitedFor(p)'
<1> USE DEF WaitedFor, Inv, MainOrder, Places, Pools
<1>1. ASSUME NEW t \in Threads, ThreadStep(t) \/ Wake(t)
      PROVE  UNCHANGED <<main, target>>
  BY <1>1 DEF ThreadStep, LoopTest, TakeSemaphore, Sleep, SecondTest, CountIn,
              PullJob, SaveLatency, EndJob, CountOut, Leave, Wake, mainVars
<1>2. CASE AddWork \/ EndOfInput \/ WaitSleeps \/ WaitReturns \/ WaitWakes
  BY <1>2 DEF AddWork, EndOfInput, WaitSleeps, WaitReturns, WaitWakes
<1>3. CASE BeginDestroy \/ PollThreads \/ EndDestroy
  BY <1>3 DEF BeginDestroy, PollThreads, EndDestroy, mainVars
<1>4. CASE UNCHANGED <<main, target>>
  BY <1>4
<1> QED
  BY <1>1, <1>2, <1>3, <1>4 DEF Next, MainStep, Terminated, vars, mainVars

\* A step in which main does not come out of its wait.
LEMMA WaitedForSame ==
  ASSUME Inv, [Next]_vars, NEW p \in Pools, ~(WaitReturns /\ p = target)
  PROVE  WaitedFor(p)' = WaitedFor(p)
<1>1. WaitedFor(p)' <=> WaitedFor(p)
  BY WaitedForStays, WaitsReturn
<1>2. WaitedFor(p)' \in BOOLEAN /\ WaitedFor(p) \in BOOLEAN
  BY DEF WaitedFor
<1> QED
  BY <1>1, <1>2

\* Each step of the code is a step of JobPool for each pool, or none.
LEMMA PoolSteps ==
  ASSUME Inv, [Next]_vars, NEW p \in Pools
  PROVE  \/ Stutters(p)
         \/ Starts(p)
         \/ \E j \in Jobs : Adds(p, j) \/ Finishes(p, j)
         \/ Returns(p)
<1>1. CASE WaitReturns /\ p = target
  <2>1. Idle(p)
    BY <1>1, DrainedIsIdle DEF WaitReturns
  <2>2. RunningJobs(p) = {}
    BY <2>1 DEF Idle, RunningJobs
  <2>3. ~WaitedFor(p) /\ WaitedFor(p)'
    BY <1>1 DEF WaitReturns, WaitedFor, Inv, MainOrder, Places, Pools
  <2>4. UNCHANGED <<queue[p], RunningJobs(p), finished[p]>>
    BY <1>1 DEF WaitReturns, threadVars, RunningJobs
  <2>5. WaitedFor(p)' = TRUE
    BY <2>3 DEF WaitedFor
  <2> QED
    BY <2>1, <2>2, <2>3, <2>4, <2>5 DEF Returns, Idle
<1>2. CASE ~(WaitReturns /\ p = target)
  <2>0. WaitedFor(p)' = WaitedFor(p)
    BY <1>2, WaitedForSame
  <2>1. ASSUME queue'[p] = queue[p], finished'[p] = finished[p],
               \A t \in Members(p) : job'[t] = job[t]
        PROVE  Stutters(p)
    BY <2>0, <2>1 DEF Stutters, RunningJobs
  <2>2. CASE UNCHANGED <<queue, job, finished>>
    BY <2>1, <2>2
  <2>3. ASSUME NEW j \in Jobs, NEW q \in Pools, Come(q, j)
        PROVE  Stutters(p) \/ Adds(p, j)
    <3>1. CASE p = q
      <4>1. /\ ~InPool(p, j)
            /\ queue'[p] = Append(queue[p], j)
            /\ UNCHANGED <<finished, job>>
        BY <2>3, <3>1 DEF Come, Inv, Places
      <4>2. RunningJobs(p)' = RunningJobs(p)
        BY <4>1 DEF RunningJobs
      <4> QED
        BY <2>0, <4>1, <4>2, RunningIsRunning DEF Adds, InPool, Queued
    <3>2. CASE p # q
      BY <2>1, <2>3, <3>2 DEF Come, Inv, Places
    <3> QED
      BY <3>1, <3>2
  <2>4. ASSUME NEW t \in Threads, StartOf(t) \/ EndOf(t), p # PoolOf(t)
        PROVE  Stutters(p)
    <3>1. t \notin Members(p) /\ Members(p) \subseteq Threads
      BY <2>4, ThreadsOfPools
    <3>2. /\ queue'[p] = queue[p] /\ finished'[p] = finished[p]
          /\ \A u \in Members(p) : job'[u] = job[u]
      BY <2>4, <3>1 DEF StartOf, EndOf, Inv, Places
    <3> QED
      BY <2>1, <3>2
  <2>5. ASSUME NEW t \in Threads, StartOf(t), p = PoolOf(t)
        PROVE  Starts(p)
    <3>1. RunningJobs(p)' = RunningJobs(p) \cup {Head(queue[p])}
      BY <2>5, JobStarts DEF StartOf
    <3>2. /\ queue[p] # <<>> /\ queue'[p] = Tail(queue[p])
          /\ finished'[p] = finished[p]
      BY <2>5 DEF StartOf, Inv, Places
    <3> QED
      BY <2>0, <3>1, <3>2 DEF Starts
  <2>6. ASSUME NEW t \in Threads, EndOf(t), p = PoolOf(t)
        PROVE  \E j \in Jobs : Finishes(p, j)
    <3>1. RunningJobs(p)' = RunningJobs(p) \ {job[t]}
      BY <2>6, JobEnds DEF EndOf
    <3>2. /\ job[t] \in Jobs /\ job[t] \in RunningJobs(p)
          /\ queue'[p] = queue[p]
          /\ finished'[p] = finished[p] \cup {job[t]}
      BY <2>6, ThreadsOfPools DEF EndOf, RunningJobs, Inv, Places
    <3> QED
      BY <2>0, <3>1, <3>2 DEF Finishes
  <2>7. "master" \in Pools /\ "stats" \in Pools
    BY DEF Pools
  <2> QED
    BY <2>2, <2>3, <2>4, <2>5, <2>6, <2>7, JobMoves
<1> QED
  BY <1>1, <1>2

\* The two pools start empty, with nobody waiting.
LEMMA PoolsStart ==
  ASSUME Init, NEW p \in Pools
  PROVE  /\ queue[p] = <<>> /\ RunningJobs(p) = {} /\ finished[p] = {}
         /\ WaitedFor(p) = FALSE
<1>1. RunningJobs(p) = {}
  BY ThreadsOfPools DEF Init, RunningJobs
<1>2. ~WaitedFor(p)
  BY DEF Init, WaitedFor
<1> QED
  BY <1>1, <1>2 DEF Init, WaitedFor

\* thpool.h of the master pool (main.c:173, 17): the jobs of the trace are
\* started in order, each once, and thpool_wait returns when none is left.
THEOREM MasterPoolImplements == Spec => MasterKeepsPromise
<1>1. Init => MasterPool!JPInit
  BY PoolsStart DEF MasterPool!JPInit, Pools
<1>2. Inv /\ [Next]_vars => [MasterPool!JPNext]_(MasterPool!jpVars)
  <2> SUFFICES ASSUME Inv, [Next]_vars
               PROVE  [MasterPool!JPNext]_(MasterPool!jpVars)
    OBVIOUS
  <2>1. "master" \in Pools
    BY DEF Pools
  <2>2. CASE Stutters("master")
    BY <2>2 DEF Stutters, MasterPool!jpVars
  <2>3. CASE Starts("master")
    BY <2>3 DEF Starts, MasterPool!JPNext, MasterPool!StartJob
  <2>4. ASSUME NEW j \in Jobs, Adds("master", j)
        PROVE  MasterPool!JPNext
    BY <2>4 DEF Adds, MasterPool!JPNext, MasterPool!AddJob
  <2>5. ASSUME NEW j \in Jobs, Finishes("master", j)
        PROVE  MasterPool!JPNext
    BY <2>5 DEF Finishes, MasterPool!JPNext, MasterPool!FinishJob
  <2>6. CASE Returns("master")
    BY <2>6 DEF Returns, MasterPool!JPNext, MasterPool!WaitReturns
  <2> QED
    BY <2>1, <2>2, <2>3, <2>4, <2>5, <2>6, PoolSteps
<1> QED
  BY InvAlways, <1>1, <1>2, PTL DEF Spec, MasterKeepsPromise, MasterPool!JPSpec

\* The same of the pool of the statistics (stats.c:34), whose jobs the master's
\* threads add: no latency is written twice, or after the wait has returned.
THEOREM StatsPoolImplements == Spec => StatsKeepsPromise
<1>1. Init => StatsPool!JPInit
  BY PoolsStart DEF StatsPool!JPInit, Pools
<1>2. Inv /\ [Next]_vars => [StatsPool!JPNext]_(StatsPool!jpVars)
  <2> SUFFICES ASSUME Inv, [Next]_vars
               PROVE  [StatsPool!JPNext]_(StatsPool!jpVars)
    OBVIOUS
  <2>1. "stats" \in Pools
    BY DEF Pools
  <2>2. CASE Stutters("stats")
    BY <2>2 DEF Stutters, StatsPool!jpVars
  <2>3. CASE Starts("stats")
    BY <2>3 DEF Starts, StatsPool!JPNext, StatsPool!StartJob
  <2>4. ASSUME NEW j \in Jobs, Adds("stats", j)
        PROVE  StatsPool!JPNext
    BY <2>4 DEF Adds, StatsPool!JPNext, StatsPool!AddJob
  <2>5. ASSUME NEW j \in Jobs, Finishes("stats", j)
        PROVE  StatsPool!JPNext
    BY <2>5 DEF Finishes, StatsPool!JPNext, StatsPool!FinishJob
  <2>6. CASE Returns("stats")
    BY <2>6 DEF Returns, StatsPool!JPNext, StatsPool!WaitReturns
  <2> QED
    BY <2>1, <2>2, <2>3, <2>4, <2>5, <2>6, PoolSteps
<1> QED
  BY InvAlways, <1>1, <1>2, PTL DEF Spec, StatsKeepsPromise, StatsPool!JPSpec
=============================================================================
