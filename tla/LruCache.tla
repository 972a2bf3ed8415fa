------------------------------ MODULE LruCache -------------------------------
(***************************************************************************)
(* What the list of the disk cache stands for: the stored functions, each  *)
(* once, from the least to the most recently used one.  A lookup moves     *)
(* what it finds to the end, an insertion appends, and room is made at the *)
(* front only.                                                             *)
(***************************************************************************)
EXTENDS Integers, Sequences

CONSTANT Functions

VARIABLE recency

Init == recency = <<>>

\* The sequence s with its member i moved to the end.
Renewed(s, i) ==
  [j \in 1..Len(s) |-> IF j < i THEN s[j] ELSE IF j < Len(s) THEN s[j + 1] ELSE s[i]]

Lookup(f) ==
  \E i \in DOMAIN recency : recency[i] = f /\ recency' = Renewed(recency, i)

Store(f) ==
  /\ \A i \in DOMAIN recency : recency[i] # f
  /\ recency' = Append(recency, f)

Evict ==
  /\ recency # <<>>
  /\ recency' = Tail(recency)

Next == Evict \/ \E f \in Functions : Lookup(f) \/ Store(f)

Spec == Init /\ [][Next]_recency
=============================================================================
