--------------------------- MODULE PruneGateProofs ---------------------------
(***************************************************************************)
(* The gate between creations and prunes, for any number of workers: the   *)
(* counter is the number of creations under way, and nobody sleeps with    *)
(* nothing to wake him.                                                    *)
(***************************************************************************)
EXTENDS PruneGate, FiniteSetTheorems, TLAPS

\* Where the variables live, but for the range of the counter, which follows
\* from what it counts.
Places ==
  /\ pc \in [Workers -> WorkerPCs]
  /\ woken \in [Workers -> BOOLEAN]
  /\ box \in [Workers -> {"none", "created", "running", "gone"}]
  /\ pruneInProgress \in BOOLEAN
  /\ pruner \in PrunerPCs
  /\ alerted \in BOOLEAN
  /\ main \in {"feeding", "waiting", "joining", "done"}

\* Once the flag is written no worker is left that would count.
Over == main \in {"joining", "done"}
AllIdle == Over => \A w \in Workers : pc[w] = "idle"

Inv == Places /\ AllIdle /\ CreationsCounted /\ NoLostWakeup

Guarded == {"create", "start", "leave"}

\* The workers inside are some of all workers.
LEMMA InsideFinite ==
  /\ IsFiniteSet(Inside)
  /\ Cardinality(Inside) \in 0..Cardinality(Workers)
<1>1. Inside \subseteq Workers
  BY DEF Inside
<1>2. /\ IsFiniteSet(Inside)
      /\ Cardinality(Inside) <= Cardinality(Workers)
  BY <1>1, FS_Subset, PruneGateAssumption
<1>3. Cardinality(Inside) \in Nat /\ Cardinality(Workers) \in Nat
  BY <1>2, FS_CardinalityType, PruneGateAssumption
<1> QED
  BY <1>2, <1>3

\* A worker that does not pass the border leaves the set as it is.
LEMMA InsideSame ==
  ASSUME Places, NEW w \in Workers, NEW label,
         pc' = [pc EXCEPT ![w] = label],
         pc[w] \in Guarded <=> label \in Guarded
  PROVE  Inside' = Inside
BY DEF Places, Inside, Guarded

\* One that comes in makes one more ...
LEMMA InsideMore ==
  ASSUME Places, NEW w \in Workers, NEW label,
         pc' = [pc EXCEPT ![w] = label],
         pc[w] \notin Guarded, label \in Guarded
  PROVE  Cardinality(Inside') = Cardinality(Inside) + 1
<1>1. Inside' = Inside \cup {w} /\ w \notin Inside
  BY DEF Places, Inside, Guarded
<1> QED
  BY <1>1, InsideFinite, FS_AddElement

\* ... and one that goes out one less.
LEMMA InsideLess ==
  ASSUME Places, NEW w \in Workers, NEW label,
         pc' = [pc EXCEPT ![w] = label],
         pc[w] \in Guarded, label \notin Guarded
  PROVE  /\ Cardinality(Inside') = Cardinality(Inside) - 1
         /\ Cardinality(Inside) > 0
<1>1. Inside' = Inside \ {w} /\ w \in Inside
  BY DEF Places, Inside, Guarded
<1>2. /\ IsFiniteSet(Inside)
      /\ Cardinality(Inside') = Cardinality(Inside) - 1
  BY <1>1, InsideFinite, FS_RemoveElement
<1>3. Cardinality(Inside) # 0 /\ Cardinality(Inside) \in Nat
  BY <1>1, <1>2, FS_EmptySet, FS_CardinalityType
<1> QED
  BY <1>2, <1>3

\* Nobody is inside when everybody is idle.
LEMMA InsideEmpty ==
  ASSUME Places, \A w \in Workers : pc[w] = "idle"
  PROVE  Cardinality(Inside) = 0
<1>1. Inside = {}
  BY DEF Inside
<1> QED
  BY <1>1, FS_EmptySet

-----------------------------------------------------------------------------
\* The state that initPodman leaves satisfies the invariant.
LEMMA InvInit == Init => Inv
<1> SUFFICES ASSUME Init PROVE Inv
  OBVIOUS
<1>1. Places /\ AllIdle /\ NoLostWakeup
  BY DEF Init, Places, AllIdle, Over, NoLostWakeup, WorkerPCs, PrunerPCs
<1>2. Cardinality(Inside) = 0
  BY <1>1, InsideEmpty DEF Init
<1> QED
  BY <1>1, <1>2 DEF Inv, CreationsCounted, Init

\* The variables stay where they live.
LEMMA PlacesStep == Inv /\ [Next]_vars => Places'
<1> SUFFICES ASSUME Inv, [Next]_vars PROVE Places'
  OBVIOUS
<1> USE DEF Inv, Places, WorkerPCs, PrunerPCs, Goto
<1>1. ASSUME NEW w \in Workers,
             TakeInvocation(w) \/ WaitForPrune(w) \/ Wake(w) \/ PassGate(w)
               \/ CountIn(w) \/ Create(w)
      PROVE  Places'
  BY <1>1 DEF TakeInvocation, WaitForPrune, Wake, PassGate, CountIn, Create,
              prunerVars
<1>2. ASSUME NEW w \in Workers, Start(w)
      PROVE  Places'
  BY <1>2 DEF Start, prunerVars
<1>3. ASSUME NEW w \in Workers, StartContainer(w) \/ RestoreCheckpoint(w)
      PROVE  Places'
  BY <1>3 DEF StartContainer, RestoreCheckpoint, CountOut, SignalPruner
<1>4. ASSUME NEW w \in Workers, InitFunction(w)
      PROVE  Places'
  BY <1>4 DEF InitFunction, prunerVars
<1>5. CASE PrunerStep \/ PrunerWakes
  BY <1>5 DEF PrunerStep, PrunerLooks, Announce, PrunerSleeps, NobodyCreates,
              PruneContainers, PruneOver, PrunerWakes, workerVars
<1>6. CASE MainStep
  BY <1>6 DEF MainStep, EndOfInput, StopPruner, JoinPruner, workerVars,
              prunerVars
<1>7. CASE UNCHANGED vars
  BY <1>7 DEF vars, workerVars, prunerVars
<1> QED
  BY <1>1, <1>2, <1>3, <1>4, <1>5, <1>6, <1>7
  DEF Next, WorkerStep, Terminated

\* Workers only start on an invocation while main still reads the trace.
LEMMA AllIdleStep == Inv /\ [Next]_vars => AllIdle'
<1> SUFFICES ASSUME Inv, [Next]_vars PROVE AllIdle'
  OBVIOUS
<1> USE DEF Inv, Places, AllIdle, Over, Goto
<1>1. ASSUME NEW w \in Workers, TakeInvocation(w)
      PROVE  AllIdle'
  BY <1>1 DEF TakeInvocation
<1>2. ASSUME NEW w \in Workers, WorkerStep(w) \/ Wake(w)
      PROVE  AllIdle'
  <2>1. pc[w] # "idle" /\ main' = main
    BY <1>2 DEF WorkerStep, Wake, WaitForPrune, PassGate, CountIn, Create, Start,
                StartContainer, RestoreCheckpoint, InitFunction
  <2> QED
    BY <2>1
<1>3. CASE PrunerStep \/ PrunerWakes
  BY <1>3 DEF PrunerStep, PrunerLooks, Announce, PrunerSleeps, NobodyCreates,
              PruneContainers, PruneOver, PrunerWakes, workerVars
<1>4. CASE MainStep
  BY <1>4 DEF MainStep, EndOfInput, StopPruner, JoinPruner, workerVars
<1>5. CASE UNCHANGED vars
  BY <1>5 DEF vars, workerVars
<1> QED
  BY <1>1, <1>2, <1>3, <1>4, <1>5 DEF Next, Terminated

\* A creation is counted in before it is inside for podman, and out after.
LEMMA CountedStep == Inv /\ [Next]_vars => CreationsCounted'
<1> SUFFICES ASSUME Inv, [Next]_vars PROVE CreationsCounted'
  OBVIOUS
<1>0. Cardinality(Inside) \in Nat
  BY InsideFinite
<1>1. ASSUME NEW w \in Workers,
             TakeInvocation(w) \/ WaitForPrune(w) \/ Wake(w) \/ PassGate(w)
               \/ Create(w) \/ Start(w) \/ InitFunction(w)
      PROVE  CreationsCounted'
  <2>1. /\ UNCHANGED <<creationInProgress, main>>
        /\ \E label : /\ pc' = [pc EXCEPT ![w] = label]
                      /\ pc[w] \in Guarded <=> label \in Guarded
    BY <1>1 DEF TakeInvocation, WaitForPrune, Wake, PassGate, Create, Start,
                InitFunction, Goto, Guarded
  <2>2. Inside' = Inside
    BY <2>1, InsideSame DEF Inv
  <2> QED
    BY <2>1, <2>2 DEF Inv, CreationsCounted
<1>2. ASSUME NEW w \in Workers, CountIn(w)
      PROVE  CreationsCounted'
  <2>1. ~Over
    BY <1>2 DEF CountIn, Inv, AllIdle
  <2>2. Cardinality(Inside') = Cardinality(Inside) + 1
    BY <1>2, InsideMore DEF CountIn, Goto, Inv, Guarded
  <2> QED
    BY <1>2, <2>1, <2>2 DEF CountIn, Inv, CreationsCounted, Places, Over
<1>3. ASSUME NEW w \in Workers, StartContainer(w) \/ RestoreCheckpoint(w)
      PROVE  CreationsCounted'
  <2>1. /\ pc[w] = "leave"
        /\ creationInProgress' = creationInProgress - 1
        /\ main' = main
        /\ \E label \in {"init", "idle"} : pc' = [pc EXCEPT ![w] = label]
    BY <1>3 DEF StartContainer, RestoreCheckpoint, CountOut, Goto
  <2>2. ~Over
    BY <2>1 DEF Inv, AllIdle
  <2>3. Cardinality(Inside') = Cardinality(Inside) - 1
    BY <2>1, InsideLess DEF Inv, Guarded
  <2> QED
    BY <2>1, <2>2, <2>3 DEF Inv, CreationsCounted, Places, Over
<1>4. CASE PrunerStep \/ PrunerWakes
  BY <1>4 DEF PrunerStep, PrunerLooks, Announce, PrunerSleeps, NobodyCreates,
              PruneContainers, PruneOver, PrunerWakes, workerVars, Inv,
              CreationsCounted, Inside
<1>5. CASE MainStep
  BY <1>5 DEF MainStep, EndOfInput, StopPruner, JoinPruner, workerVars, Inv,
              CreationsCounted, Inside
<1>6. CASE UNCHANGED vars
  BY <1>6 DEF vars, workerVars, Inv, CreationsCounted, Inside
<1> QED
  BY <1>1, <1>2, <1>3, <1>4, <1>5, <1>6 DEF Next, WorkerStep, Terminated

\* Who goes to sleep has tested, under the lock, that there is something to
\* wait for; who takes it away wakes him.
LEMMA NoLostWakeupStep == Inv /\ [Next]_vars => NoLostWakeup'
<1> SUFFICES ASSUME Inv, [Next]_vars PROVE NoLostWakeup'
  OBVIOUS
<1>0. Cardinality(Inside) \in Nat
  BY InsideFinite
<1> USE DEF Inv, Places, NoLostWakeup, Goto
<1>1. ASSUME NEW w \in Workers,
             TakeInvocation(w) \/ WaitForPrune(w) \/ Wake(w) \/ PassGate(w)
               \/ Create(w) \/ Start(w) \/ InitFunction(w)
      PROVE  NoLostWakeup'
  BY <1>1 DEF TakeInvocation, WaitForPrune, Wake, PassGate, Create, Start,
              InitFunction, prunerVars
<1>2. ASSUME NEW w \in Workers, CountIn(w)
      PROVE  NoLostWakeup'
  <2>1. creationInProgress \in Nat
    BY <1>0, <1>2 DEF CountIn, CreationsCounted, AllIdle, Over
  <2> QED
    BY <1>2, <2>1 DEF CountIn, prunerVars
<1>3. ASSUME NEW w \in Workers, StartContainer(w) \/ RestoreCheckpoint(w)
      PROVE  NoLostWakeup'
  BY <1>3 DEF StartContainer, RestoreCheckpoint, CountOut, SignalPruner
<1>4. CASE PrunerStep \/ PrunerWakes
  BY <1>4 DEF PrunerStep, PrunerLooks, Announce, PrunerSleeps, NobodyCreates,
              PruneContainers, PruneOver, PrunerWakes, workerVars
<1>5. CASE MainStep
  BY <1>5 DEF MainStep, EndOfInput, StopPruner, JoinPruner, workerVars,
              prunerVars
<1>6. CASE UNCHANGED vars
  BY <1>6 DEF vars, workerVars, prunerVars
<1> QED
  BY <1>1, <1>2, <1>3, <1>4, <1>5, <1>6 DEF Next, WorkerStep, Terminated

\* The invariant holds in every reachable state.
LEMMA InvAlways == Spec => []Inv
<1>1. Inv /\ [Next]_vars => Inv'
  BY PlacesStep, AllIdleStep, CountedStep, NoLostWakeupStep DEF Inv
<1> QED
  BY InvInit, <1>1, PTL DEF Spec

-----------------------------------------------------------------------------
\* creation_in_progress is the number of creations between their increment and
\* their decrement, for any number of workers, until main.c:47 overwrites it.
THEOREM CountIsExact == Spec => []CreationsCounted
<1>1. Inv => CreationsCounted
  BY DEF Inv
<1> QED
  BY InvAlways, <1>1, PTL

\* No worker and no pruner sleeps on a condition whose signal has been sent
\* already (containers.c:260, disk_cache.c:651).
THEOREM WakeupsReachAll == Spec => []NoLostWakeup
<1>1. Inv => NoLostWakeup
  BY DEF Inv
<1> QED
  BY InvAlways, <1>1, PTL

\* Every variable keeps its range; the counter never leaves 0..Cardinality
\* (Workers) but for the -100 of the shutdown.
THEOREM GateTypes == Spec => []TypeOK
<1>1. Inv => TypeOK
  BY InsideFinite DEF Inv, Places, CreationsCounted, TypeOK
<1> QED
  BY InvAlways, <1>1, PTL
=============================================================================
