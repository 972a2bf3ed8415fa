------------------------------- MODULE JobPool -------------------------------
(***************************************************************************)
(* What thpool.h promises of one pool: jobs are started in the order in    *)
(* which they were added, each of them once, and thpool_wait returns when  *)
(* none is queued or running.  ThreadPool implements this specification.   *)
(***************************************************************************)
EXTENDS Sequences

CONSTANT Jobs

VARIABLES
  queued,    \* the jobs added and not started, in order
  running,   \* those some thread is executing
  finished,  \* those that have been executed
  drained    \* whether thpool_wait has returned

jpVars == <<queued, running, finished, drained>>

JPInit ==
  /\ queued = <<>>
  /\ running = {}
  /\ finished = {}
  /\ drained = FALSE

AddJob(j) ==
  /\ j \notin running \cup finished
  /\ \A i \in DOMAIN queued : queued[i] # j
  /\ queued' = Append(queued, j)
  /\ UNCHANGED <<running, finished, drained>>

StartJob ==
  /\ queued # <<>>
  /\ queued' = Tail(queued)
  /\ running' = running \cup {Head(queued)}
  /\ UNCHANGED <<finished, drained>>

FinishJob(j) ==
  /\ j \in running
  /\ running' = running \ {j}
  /\ finished' = finished \cup {j}
  /\ UNCHANGED <<queued, drained>>

WaitReturns ==
  /\ ~drained
  /\ queued = <<>>
  /\ running = {}
  /\ drained' = TRUE
  /\ UNCHANGED <<queued, running, finished>>

JPNext ==
  \/ \E j \in Jobs : AddJob(j) \/ FinishJob(j)
  \/ StartJob
  \/ WaitReturns

JPSpec == JPInit /\ [][JPNext]_jpVars
=============================================================================
