-------------------------------- MODULE Sums --------------------------------
(***************************************************************************)
(* The sum of a quantity over a finite set, as the cardinality of a set    *)
(* that has one pair per unit of every member.  Written this way it needs  *)
(* no recursion, and SumsProofs derives its laws from those of cardinality.*)
(***************************************************************************)
EXTENDS Integers, Sequences, FiniteSets

Units(S, size) == UNION {{x} \X (1..size[x]) : x \in S}
Total(S, size) == Cardinality(Units(S, size))

\* The members of a list.
Elements(s) == {s[i] : i \in DOMAIN s}

\* Some member is in the list twice.
Repeats(s) == \E i, j \in DOMAIN s : i # j /\ s[i] = s[j]
=============================================================================
