---------------------------- MODULE MCDiskCache -----------------------------
(***************************************************************************)
(* The instance of DiskCache for TLC: two small functions and one that     *)
(* takes the place of both.                                                *)
(***************************************************************************)
EXTENDS DiskCache

CONSTANT large

Sizes == [f \in Functions |-> IF f = large THEN 2 ELSE 1]
=============================================================================
