----------------------------- MODULE MCReadQueue -----------------------------
(***************************************************************************)
(* The instance of ReadQueue for TLC: reads take twice as long from the    *)
(* network as from the disk, and a budget that a few of them exhaust.      *)
(***************************************************************************)
EXTENDS ReadQueue

ReadTimes ==
  [q \in Queues |-> [f \in Functions |-> IF q = "disk" THEN 1 ELSE 2]]
=============================================================================
