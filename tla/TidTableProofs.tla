--------------------------- MODULE TidTableProofs ---------------------------
(***************************************************************************)
(* getTid gives every thread a handle of its own and always the same one,  *)
(* for any number of threads and any table with a slot for each.  The      *)
(* unlocked scan is safe because only the thread itself ever writes its    *)
(* id: what it has passed it need not look at again.                       *)
(***************************************************************************)
EXTENDS TidTable, FiniteSetTheorems, TLAPS

\* A slot is never given away, and no thread has two.
Settled == \A t \in Threads : tid[t] \in Slots => ids[tid[t]] = t
OneSlot == \A r, s \in Slots : ids[r] = ids[s] /\ ids[r] # Free => r = s

\* Only the holder of the lock is in the locked part, which it enters with no
\* slot of its own; it writes into a slot that is still free.
Locked == \A t \in Threads : step[t] \in {"claim", "write"} <=> holder = t
Scanned(t) ==
  /\ step[t] = "scan" => \A s \in 0..i[t] - 1 : ids[s] # t
  /\ step[t] \in {"claim", "write"} => \A s \in Slots : ids[s] # t
  /\ step[t] = "claim" => \A s \in 0..i[t] - 1 : ids[s] # Free
  /\ step[t] = "write" => i[t] \in Slots /\ ids[i[t]] = Free

Inv ==
  /\ TypeOK
  /\ Settled
  /\ OneSlot
  /\ Locked
  /\ \A t \in Threads : Scanned(t)
  /\ NeverFails

\* The empty table of initPodman satisfies the invariant.
LEMMA InvInit == Init => Inv
BY TidTableAssumption
DEF Init, Inv, TypeOK, Settled, OneSlot, Locked, Scanned, NeverFails, Steps,
    Slots, Never

\* A thread without a slot finds a free one, so the locked loop never reaches
\* its end: there are no more threads than slots.
LEMMA SomeSlotFree ==
  ASSUME Inv, NEW t \in Threads, Occupied(t)
  PROVE  i[t] + 1 < N
<1> SUFFICES ASSUME i[t] + 1 = N PROVE FALSE
  BY TidTableAssumption DEF Inv, TypeOK, Occupied
<1> DEFINE Others == Threads \ {t}
<1>1. \A s \in Slots : ids[s] \in Others
  <2>1. N \in Nat /\ i[t] \in 0..N
    BY TidTableAssumption DEF Inv, TypeOK
  <2>2. ASSUME NEW s \in Slots PROVE s = i[t] \/ s \in 0..i[t] - 1
    BY <2>1 DEF Slots
  <2> QED
    BY <2>2 DEF Inv, TypeOK, Scanned, Occupied
<1>2. ids \in [Slots -> Others]
  BY <1>1 DEF Inv, TypeOK
<1>3. /\ IsFiniteSet(Others)
      /\ Cardinality(Others) = Cardinality(Threads) - 1
  BY FS_RemoveElement, TidTableAssumption
<1>4. IsFiniteSet(Slots) /\ Cardinality(Slots) = N
  <2>1. 0 \in Int /\ N - 1 \in Int /\ N \in Nat
    BY TidTableAssumption
  <2>2. /\ IsFiniteSet(0..N - 1)
        /\ Cardinality(0..N - 1) = IF 0 > N - 1 THEN 0 ELSE (N - 1) - 0 + 1
    BY <2>1, FS_Interval
  <2> QED
    BY <2>1, <2>2 DEF Slots
<1>5. Cardinality(Others) < Cardinality(Slots)
  <2>1. Cardinality(Threads) \in Nat
    BY FS_CardinalityType, TidTableAssumption
  <2> QED
    BY <1>3, <1>4, <2>1, TidTableAssumption
<1>6. \E r, s \in Slots : r # s /\ ids[r] = ids[s]
  BY <1>2, <1>3, <1>4, <1>5, FS_PigeonHole
<1>7. Free \notin Others
  BY TidTableAssumption
<1> QED
  BY <1>1, <1>6, <1>7 DEF Inv, OneSlot

\* Every array access and lock operation of getTid preserves the invariant.
LEMMA InvStep == Inv /\ [Next]_vars => Inv'
<1> SUFFICES ASSUME Inv, [Next]_vars PROVE Inv'
  OBVIOUS
<1> USE TidTableAssumption
<1> USE DEF Inv, TypeOK, Settled, OneSlot, Locked, Scanned, NeverFails, Steps,
            Slots, Never, Goto, Advance, Return
<1>1. ASSUME NEW t \in Threads, Call(t) PROVE Inv'
  BY <1>1 DEF Call
<1>2. ASSUME NEW t \in Threads, Find(t) PROVE Inv'
  BY <1>2 DEF Find
<1>3. ASSUME NEW t \in Threads, Pass(t) PROVE Inv'
  BY <1>3 DEF Pass
<1>4. ASSUME NEW t \in Threads, Acquire(t) PROVE Inv'
  BY <1>4 DEF Acquire
<1>5. ASSUME NEW t \in Threads, Occupied(t) PROVE Inv'
  <2>1. i[t] + 1 < N
    BY <1>5, SomeSlotFree
  <2>2. /\ step[t] = "claim"
        /\ ids[i[t]] # Free
        /\ Advance(t)
        /\ UNCHANGED <<ids, holder, step, tid>>
    BY <1>5, <2>1 DEF Occupied
  <2>3. /\ i'[t] = i[t] + 1 /\ i'[t] \in 0..N
        /\ \A u \in Threads : u # t => i'[u] = i[u]
    BY <2>1, <2>2
  <2>4. \A s \in 0..i[t] : ids[s] # Free
    BY <2>2
  <2> QED
    BY <2>2, <2>3, <2>4
<1>6. ASSUME NEW t \in Threads, Vacant(t) PROVE Inv'
  BY <1>6 DEF Vacant
<1>7. ASSUME NEW t \in Threads, Write(t) PROVE Inv'
  BY <1>7 DEF Write
<1>8. CASE UNCHANGED vars
  BY <1>8 DEF vars
<1> QED
  BY <1>1, <1>2, <1>3, <1>4, <1>5, <1>6, <1>7, <1>8 DEF Next, GetTid

\* The invariant holds in every reachable state.
LEMMA InvAlways == Spec => []Inv
BY InvInit, InvStep, PTL DEF Spec

\* No two threads get the same curl handle (invocation.c:47-66).
THEOREM HandlesAreOwn == Spec => []OwnHandle
<1>1. Inv => OwnHandle
  BY DEF Inv, Settled, OwnHandle
<1> QED
  BY <1>1, InvAlways, PTL

\* getTid never runs out of slots and answers -1, which its callers would use
\* as an index.
THEOREM HandleExists == Spec => []NeverFails
<1>1. Inv => NeverFails
  BY DEF Inv
<1> QED
  BY <1>1, InvAlways, PTL

\* A thread gets the same handle in every call, whatever the others write
\* while it scans the table.
THEOREM HandleIsStable == Spec => SameHandle
<1>1. Inv /\ [Next]_vars =>
        [\A t \in Threads : tid[t] = Never \/ tid'[t] = tid[t]]_vars
  <2> SUFFICES ASSUME Inv, Next, NEW t \in Threads, tid[t] # Never
               PROVE  tid'[t] = tid[t]
    BY DEF vars
  <2>1. tid[t] \in Slots /\ ids[tid[t]] = t /\ tid \in [Threads -> Slots \cup {-1, Never}]
    BY DEF Inv, TypeOK, Settled, NeverFails
  <2>2. PICK u \in Threads : Call(u) \/ GetTid(u)
    BY DEF Next
  <2>3. CASE Find(u)
    <3>1. i[u] \in Slots
      BY <2>3, TidTableAssumption DEF Find, Inv, TypeOK, Slots
    <3> QED
      BY <2>1, <2>3, <3>1, TidTableAssumption DEF Find, Return, Inv, OneSlot
  <2>4. CASE Write(u)
    BY <2>1, <2>4 DEF Write, Return, Inv, Scanned
  <2>5. CASE Occupied(u)
    BY <2>5, SomeSlotFree DEF Occupied
  <2>6. CASE Call(u) \/ Pass(u) \/ Acquire(u) \/ Vacant(u)
    BY <2>6 DEF Call, Pass, Acquire, Vacant
  <2> QED
    BY <2>2, <2>3, <2>4, <2>5, <2>6 DEF GetTid
<1> QED
  BY <1>1, InvAlways, PTL DEF Spec, SameHandle
=============================================================================
