----------------------------- MODULE MCRamCache -----------------------------
(***************************************************************************)
(* Instances of RamCache for TLC: a small function and a large one that do *)
(* not always fit together, and one container for every invocation.        *)
(***************************************************************************)
EXTENDS RamCacheRefinement, TLC

CONSTANTS small, large

FunctionSet == {small, large}
Sizes == small :> 1 @@ large :> 2

\* Threads and containers are interchangeable; used by safety runs only.
Symmetry == Permutations(Workers) \cup Permutations(Containers)
=============================================================================
