------------------------------ MODULE PruneGate ------------------------------
(***************************************************************************)
(* podman's prune removes every container that does not run, and with it   *)
(* the ones created and not started yet.  createContainer and pruneDisk    *)
(* keep out of each other's way with two counters, two locks and two       *)
(* condition variables: a creation waits while prune_in_progress is 1, and *)
(* a prune waits until creation_in_progress is 0.  endPools stops the      *)
(* pruner by writing -100 into creation_in_progress.                       *)
(*                                                                         *)
(* No critical section here blocks, so each is one action.                 *)
(***************************************************************************)
EXTENDS Integers, FiniteSets

CONSTANT Workers   \* the threads of the master pool

ASSUME PruneGateAssumption == IsFiniteSet(Workers)

VARIABLES
  creationInProgress,  \* containers->creation_in_progress
  pruneInProgress,     \* containers->prune_in_progress
  pc,                  \* where each worker is
  woken,               \* whether its wait on prune_cond has been signalled
  box,                 \* what podman has for its container
  pruner,              \* where the pruneDisk thread is
  alerted,             \* whether its wait on creation_cond was signalled
  main                 \* where the main thread is in main_loop and endPools

workerVars == <<pc, woken>>
prunerVars == <<pruner, alerted>>
vars == <<creationInProgress, pruneInProgress, workerVars, box, prunerVars,
          main>>

WorkerPCs == {"idle", "gate", "asleep", "enter", "create", "start", "leave",
              "init"}
PrunerPCs == {"nap", "announce", "wait", "asleep", "prune", "over", "exited"}

Init ==
  /\ creationInProgress = 0
  /\ pruneInProgress = FALSE
  /\ pc = [w \in Workers |-> "idle"]
  /\ woken = [w \in Workers |-> FALSE]
  /\ box = [w \in Workers |-> "none"]
  /\ pruner = "nap"
  /\ alerted = FALSE
  /\ main = "feeding"

Goto(w, label) == pc' = [pc EXCEPT ![w] = label]

\* pthread_cond_signal(&creation_cond): the pruner is the only one to wait.
SignalPruner == alerted' = (pruner = "asleep")

-----------------------------------------------------------------------------
(***************************************************************************)
(* A worker that needs a new container                                     *)
(***************************************************************************)
TakeInvocation(w) ==
  /\ main = "feeding"
  /\ pc[w] = "idle"
  /\ Goto(w, "gate")
  /\ UNCHANGED <<creationInProgress, pruneInProgress, woken, box, prunerVars,
                 main>>

\* createContainer waits for a running prune to end ...
WaitForPrune(w) ==
  /\ pc[w] = "gate"
  /\ pruneInProgress
  /\ woken' = [woken EXCEPT ![w] = FALSE]
  /\ Goto(w, "asleep")
  /\ UNCHANGED <<creationInProgress, pruneInProgress, box, prunerVars, main>>

Wake(w) ==
  /\ pc[w] = "asleep"
  /\ Goto(w, "gate")
  /\ UNCHANGED <<creationInProgress, pruneInProgress, woken, box, prunerVars,
                 main>>

\* ... and releases prune_lock before it counts itself in.
PassGate(w) ==
  /\ pc[w] = "gate"
  /\ ~pruneInProgress
  /\ Goto(w, "enter")
  /\ UNCHANGED <<creationInProgress, pruneInProgress, woken, box, prunerVars,
                 main>>

\* Mutant: the increment is missing.
CountInLost(w) ==
  /\ pc[w] = "enter"
  /\ Goto(w, "create")
  /\ UNCHANGED <<creationInProgress, pruneInProgress, woken, box, prunerVars,
                 main>>

CountIn(w) ==
  /\ pc[w] = "enter"
  /\ creationInProgress' = creationInProgress + 1
  /\ Goto(w, "create")
  /\ UNCHANGED <<pruneInProgress, woken, box, prunerVars, main>>

Create(w) ==
  /\ pc[w] = "create"
  /\ box' = [box EXCEPT ![w] = "created"]
  /\ Goto(w, "start")
  /\ UNCHANGED <<creationInProgress, pruneInProgress, woken, prunerVars, main>>

\* startContainer or restoreCheckpoint: podman's error for a container it does
\* not have is an answer like any other to curl_easy_perform.
Start(w) ==
  /\ pc[w] = "start"
  /\ box' = [box EXCEPT ![w] = IF @ = "created" THEN "running" ELSE @]
  /\ Goto(w, "leave")
  /\ UNCHANGED <<creationInProgress, pruneInProgress, woken, prunerVars, main>>

\* Mutant: pthread_cond_signal is missing.
CountOutSilently ==
  creationInProgress' = creationInProgress - 1 /\ UNCHANGED alerted

CountOut == creationInProgress' = creationInProgress - 1 /\ SignalPruner

\* After a cold start comes initFunction.
StartContainer(w) ==
  /\ pc[w] = "leave"
  /\ CountOut
  /\ Goto(w, "init")
  /\ UNCHANGED <<pruneInProgress, woken, box, pruner, main>>

\* Mutant: a restore does not count itself out.
RestoreUncounted(w) ==
  /\ pc[w] = "leave"
  /\ box' = [box EXCEPT ![w] = "none"]
  /\ Goto(w, "idle")
  /\ UNCHANGED <<creationInProgress, pruneInProgress, woken, prunerVars, main>>

\* A restored container runs its function, whose failure is only printed; what
\* becomes of it next is not of interest here.
RestoreCheckpoint(w) ==
  /\ pc[w] = "leave"
  /\ CountOut
  /\ box' = [box EXCEPT ![w] = "none"]
  /\ Goto(w, "idle")
  /\ UNCHANGED <<pruneInProgress, woken, pruner, main>>

\* initFunction retries until the container answers: never, if it is gone.
InitFunction(w) ==
  /\ pc[w] = "init"
  /\ box[w] = "running"
  /\ box' = [box EXCEPT ![w] = "none"]
  /\ Goto(w, "idle")
  /\ UNCHANGED <<creationInProgress, pruneInProgress, woken, prunerVars, main>>

-----------------------------------------------------------------------------
(***************************************************************************)
(* pruneDisk                                                               *)
(***************************************************************************)

\* The nap of ten seconds is over; the flag is read without a lock.
PrunerLooks ==
  /\ pruner = "nap"
  /\ pruner' = IF creationInProgress = -100 THEN "exited" ELSE "announce"
  /\ UNCHANGED <<creationInProgress, pruneInProgress, workerVars, box, alerted,
                 main>>

Announce ==
  /\ pruner = "announce"
  /\ pruneInProgress' = TRUE
  /\ pruner' = "wait"
  /\ UNCHANGED <<creationInProgress, workerVars, box, alerted, main>>

PrunerSleeps ==
  /\ pruner = "wait"
  /\ creationInProgress # 0
  /\ alerted' = FALSE
  /\ pruner' = "asleep"
  /\ UNCHANGED <<creationInProgress, pruneInProgress, workerVars, box, main>>

PrunerWakes ==
  /\ pruner = "asleep"
  /\ pruner' = "wait"
  /\ UNCHANGED <<creationInProgress, pruneInProgress, workerVars, box, alerted,
                 main>>

NobodyCreates ==
  /\ pruner = "wait"
  /\ creationInProgress = 0
  /\ pruner' = "prune"
  /\ UNCHANGED <<creationInProgress, pruneInProgress, workerVars, box, alerted,
                 main>>

\* podman removes every container that is not running.
PruneContainers ==
  /\ pruner = "prune"
  /\ box' = [w \in Workers |-> IF box[w] = "created" THEN "gone" ELSE box[w]]
  /\ pruner' = "over"
  /\ UNCHANGED <<creationInProgress, pruneInProgress, workerVars, alerted,
                 main>>

\* Mutant: pthread_cond_signal for pthread_cond_broadcast.
PruneOverSignal ==
  /\ pruner = "over"
  /\ pruneInProgress' = FALSE
  /\ IF \E w \in Workers : pc[w] = "asleep"
       THEN \E w \in Workers : /\ pc[w] = "asleep"
                               /\ woken' = [woken EXCEPT ![w] = TRUE]
       ELSE UNCHANGED woken
  /\ pruner' = "nap"
  /\ UNCHANGED <<creationInProgress, pc, box, alerted, main>>

PruneOver ==
  /\ pruner = "over"
  /\ pruneInProgress' = FALSE
  /\ woken' = [w \in Workers |-> woken[w] \/ pc[w] = "asleep"]
  /\ pruner' = "nap"
  /\ UNCHANGED <<creationInProgress, pc, box, alerted, main>>

-----------------------------------------------------------------------------
(***************************************************************************)
(* main_loop and endPools                                                  *)
(***************************************************************************)
EndOfInput ==
  /\ main = "feeding"
  /\ main' = "waiting"
  /\ UNCHANGED <<creationInProgress, pruneInProgress, workerVars, box,
                 prunerVars>>

\* thpool_wait(master) and the other waits have returned; the pruner is told
\* to stop, without its lock and without a signal.
StopPruner ==
  /\ main = "waiting"
  /\ \A w \in Workers : pc[w] = "idle"
  /\ creationInProgress' = -100
  /\ main' = "joining"
  /\ UNCHANGED <<pruneInProgress, workerVars, box, prunerVars>>

JoinPruner ==
  /\ main = "joining"
  /\ pruner = "exited"
  /\ main' = "done"
  /\ UNCHANGED <<creationInProgress, pruneInProgress, workerVars, box,
                 prunerVars>>

Terminated == main = "done" /\ UNCHANGED vars

-----------------------------------------------------------------------------
WorkerStep(w) ==
  \/ WaitForPrune(w)
  \/ PassGate(w)
  \/ CountIn(w)
  \/ Create(w)
  \/ Start(w)
  \/ StartContainer(w)
  \/ RestoreCheckpoint(w)
  \/ InitFunction(w)

PrunerStep ==
  \/ PrunerLooks
  \/ Announce
  \/ PrunerSleeps
  \/ NobodyCreates
  \/ PruneContainers
  \/ PruneOver

MainStep == EndOfInput \/ StopPruner \/ JoinPruner

Next ==
  \/ \E w \in Workers : TakeInvocation(w) \/ WorkerStep(w) \/ Wake(w)
  \/ PrunerStep \/ PrunerWakes
  \/ MainStep
  \/ Terminated

Spec == Init /\ [][Next]_vars

\* Threads are scheduled, a signalled waiter wakes, and podman answers.  The
\* pruner naps for ten seconds between two prunes, so a worker that finds the
\* gate open again and again gets to run while it is.
GateFairness(w) ==
  /\ SF_vars(~pruneInProgress /\ woken[w] /\ Wake(w))
  /\ SF_vars(PassGate(w))

Fairness ==
  /\ \A w \in Workers : /\ WF_vars(WorkerStep(w))
                        /\ WF_vars(woken[w] /\ Wake(w))
                        /\ GateFairness(w)
  /\ WF_vars(PrunerStep)
  /\ WF_vars(alerted /\ PrunerWakes)
  /\ WF_vars(MainStep)

FairSpec == Spec /\ Fairness

-----------------------------------------------------------------------------
(***************************************************************************)
(* Correctness                                                             *)
(***************************************************************************)
\* Every variable keeps its range.
TypeOK ==
  /\ creationInProgress \in {-100} \cup 0..Cardinality(Workers)
  /\ pruneInProgress \in BOOLEAN
  /\ pc \in [Workers -> WorkerPCs]
  /\ woken \in [Workers -> BOOLEAN]
  /\ box \in [Workers -> {"none", "created", "running", "gone"}]
  /\ pruner \in PrunerPCs
  /\ alerted \in BOOLEAN
  /\ main \in {"feeding", "waiting", "joining", "done"}

\* creation_in_progress counts the creations that have not started their
\* container yet, on the cold and on the restore path, until the shutdown
\* overwrites it (containers.c:266, 328, 555, main.c:47).
Inside == {w \in Workers : pc[w] \in {"create", "start", "leave"}}
CreationsCounted ==
  creationInProgress = IF main \in {"feeding", "waiting"}
                         THEN Cardinality(Inside)
                         ELSE -100

\* A creation that sleeps is either signalled or has a prune to wait for, and
\* a pruner that sleeps is signalled or has a creation to wait for.
NoLostWakeup ==
  /\ \A w \in Workers : pc[w] = "asleep" /\ ~woken[w] => pruneInProgress
  /\ pruner = "asleep" /\ ~alerted => creationInProgress # 0

\* Creations and prunes wait for each other and never for ever: a worker at
\* the gate comes out of the guarded section.
EveryCreationPasses ==
  \A w \in Workers : pc[w] = "gate" ~> pc[w] \in {"init", "idle"}

-----------------------------------------------------------------------------
(***************************************************************************)
(* What the comments of the code say, and the code does not keep.          *)
(***************************************************************************)

\* containers.c:362, "Wait for container to properly start": there is a
\* container to wait for, so no prune takes one that is still to be started.
ContainerIsThere ==
  \A w \in Workers : pc[w] = "init" => box[w] # "gone"

\* main.c:15, "Closes and destroys the threadpools": endPools gets the pruner
\* to stop once it has written its flag.
PoolsClosed == main = "joining" ~> main = "done"
=============================================================================
