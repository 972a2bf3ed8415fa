------------------------------ MODULE TidTable ------------------------------
(***************************************************************************)
(* getTid: the threads of a pool share an array of thread ids, one slot    *)
(* for each thread of the pool, and the index of a thread's slot selects   *)
(* its curl handle.  A thread first looks for its own id without the lock, *)
(* while others may be writing theirs, and takes a free slot with the lock *)
(* held when it finds none.                                                *)
(***************************************************************************)
EXTENDS Integers, FiniteSets

CONSTANTS
  Threads,   \* the threads of the pool
  N,         \* n_threads, the length of the array
  Free       \* 0, the content of a slot nobody has taken

ASSUME TidTableAssumption ==
  /\ IsFiniteSet(Threads)
  /\ N \in Nat
  /\ Cardinality(Threads) <= N
  /\ Free \notin Threads

Slots == 0..N - 1

VARIABLES
  ids,     \* thread_ids
  holder,  \* who holds the lock, Free if nobody does
  step,    \* where each thread is in getTid
  i,       \* the index of the loop it is in
  tid      \* what its last getTid returned, Never before the first

vars == <<ids, holder, step, i, tid>>

Steps == {"out", "scan", "claim", "write"}
Never == -2

Init ==
  /\ ids = [s \in Slots |-> Free]
  /\ holder = Free
  /\ step = [t \in Threads |-> "out"]
  /\ i = [t \in Threads |-> 0]
  /\ tid = [t \in Threads |-> Never]

Goto(t, label) == step' = [step EXCEPT ![t] = label]
Advance(t) == i' = [i EXCEPT ![t] = @ + 1]

Return(t, slot) ==
  /\ tid' = [tid EXCEPT ![t] = slot]
  /\ Goto(t, "out")
  /\ UNCHANGED i

Call(t) ==
  /\ step[t] = "out"
  /\ i' = [i EXCEPT ![t] = 0]
  /\ Goto(t, "scan")
  /\ UNCHANGED <<ids, holder, tid>>

\* One round of the unlocked loop finds the thread's own id ...
Find(t) ==
  /\ step[t] = "scan"
  /\ i[t] < N
  /\ ids[i[t]] = t
  /\ Return(t, i[t])
  /\ UNCHANGED <<ids, holder>>

\* Mutant: a match does not end the loop.
PassRegardless(t) ==
  /\ step[t] = "scan"
  /\ i[t] < N
  /\ Advance(t)
  /\ UNCHANGED <<ids, holder, step, tid>>

\* ... or another thread's, or none.
Pass(t) ==
  /\ step[t] = "scan"
  /\ i[t] < N
  /\ ids[i[t]] # t
  /\ Advance(t)
  /\ UNCHANGED <<ids, holder, step, tid>>

\* Mutant: the lock is not taken.
AcquireNothing(t) ==
  /\ step[t] = "scan"
  /\ i[t] = N
  /\ i' = [i EXCEPT ![t] = 0]
  /\ Goto(t, "claim")
  /\ UNCHANGED <<ids, holder, tid>>

Acquire(t) ==
  /\ step[t] = "scan"
  /\ i[t] = N
  /\ holder = Free
  /\ holder' = t
  /\ i' = [i EXCEPT ![t] = 0]
  /\ Goto(t, "claim")
  /\ UNCHANGED <<ids, tid>>

\* The locked loop goes on from a taken slot, and gives -1 after the last one.
Occupied(t) ==
  /\ step[t] = "claim"
  /\ i[t] < N
  /\ ids[i[t]] # Free
  /\ IF i[t] + 1 < N
       THEN Advance(t) /\ UNCHANGED <<holder, step, tid>>
       ELSE holder' = Free /\ Return(t, -1)
  /\ UNCHANGED ids

Vacant(t) ==
  /\ step[t] = "claim"
  /\ i[t] < N
  /\ ids[i[t]] = Free
  /\ Goto(t, "write")
  /\ UNCHANGED <<ids, holder, i, tid>>

\* Mutant: the slot is returned and not marked as taken.
WriteNothing(t) ==
  /\ step[t] = "write"
  /\ holder' = Free
  /\ Return(t, i[t])
  /\ UNCHANGED ids

Write(t) ==
  /\ step[t] = "write"
  /\ ids' = [ids EXCEPT ![i[t]] = t]
  /\ holder' = Free
  /\ Return(t, i[t])

GetTid(t) ==
  \/ Find(t)
  \/ Pass(t)
  \/ Acquire(t)
  \/ Occupied(t)
  \/ Vacant(t)
  \/ Write(t)

Next == \E t \in Threads : Call(t) \/ GetTid(t)

Spec == Init /\ [][Next]_vars

-----------------------------------------------------------------------------
\* Every variable keeps its range: the loops stay inside the table, and a
\* call returns a slot of it or -1.
TypeOK ==
  /\ ids \in [Slots -> Threads \cup {Free}]
  /\ holder \in Threads \cup {Free}
  /\ step \in [Threads -> Steps]
  /\ i \in [Threads -> 0..N]
  /\ tid \in [Threads -> Slots \cup {-1, Never}]

\* No two threads use the same curl handle (containers.c:271, 315).
OwnHandle ==
  \A t, u \in Threads : tid[t] \in Slots /\ tid[u] = tid[t] => t = u

\* A thread keeps its handle: a second call returns what the first did, so the
\* tid that allocate_invocation computes once and freeRam computes again
\* (invocation.c:87, ram_cache.c:98) select the same handle.
SameHandle ==
  [][\A t \in Threads : tid[t] = Never \/ tid'[t] = tid[t]]_vars

\* With no more threads than slots the answer -1, which the callers use as an
\* index, is never given.
NeverFails == \A t \in Threads : tid[t] # -1
=============================================================================
