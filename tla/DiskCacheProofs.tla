--------------------------- MODULE DiskCacheProofs ---------------------------
(***************************************************************************)
(* The disk cache and its upload thread, for any number of functions,      *)
(* nodes, stores and reads: the pointers are an LRU list, every node has   *)
(* one owner, the reader keeps its node, the megabytes add up, no function *)
(* that was stored is forgotten and no file is left behind.                *)
(*                                                                         *)
(* The list is read off the pointers by recursion along them.  The first   *)
(* part shows that it is what is expected whenever the pointers are in     *)
(* order (Linked); from there on the recursion plays no part.              *)
(***************************************************************************)
EXTENDS DiskCache, SumsProofs, WellFoundedInduction

-----------------------------------------------------------------------------
(***************************************************************************)
(* Reading the list off the pointers                                       *)
(***************************************************************************)

\* A non-empty set of natural numbers has a least one.
LEMMA LeastNumber ==
  ASSUME NEW T \in SUBSET Nat, T # {}
  PROVE  \E x \in T : \A y \in T : ~(y < x)
<1> DEFINE R == {p \in Nat \X Nat : p[1] < p[2]}
<1>1. OpToRel(<, Nat) = R
  BY DEF OpToRel
<1>2. IsWellFoundedOn(R, Nat)
  BY <1>1, NatLessThanWellFounded
<1>3. \A x, y \in Nat : y < x => <<y, x>> \in R
  OBVIOUS
<1> HIDE DEF R
<1>4. PICK x \in T : \A y \in T : ~ (<<y, x>> \in R)
  BY <1>2, WFMin
<1>5. \A y \in T : ~(y < x)
  <2> TAKE y \in T
  <2>1. x \in Nat /\ y \in Nat
    OBVIOUS
  <2>2. ~(<<y, x>> \in R)
    BY <1>4
  <2> QED
    BY <1>3, <2>1, <2>2
<1> QED
  BY <1>5

\* One step along the links.
Walk(f, n, first, link) ==
  [k \in 0..n |-> IF k = 0 THEN first
                  ELSE IF f[k - 1] = NoNode THEN NoNode ELSE link[f[k - 1]]]

\* There is one way along the links.
LEMMA OneWay ==
  ASSUME NEW n \in Nat, NEW first, NEW link, NEW f, NEW g,
         f = Walk(f, n, first, link), g = Walk(g, n, first, link)
  PROVE  f = g
<1> DEFINE T == {k \in 0..n : f[k] # g[k]}
<1>1. /\ \A k \in 0..n : f[k] = IF k = 0 THEN first
                                ELSE IF f[k - 1] = NoNode THEN NoNode ELSE link[f[k - 1]]
      /\ \A k \in 0..n : g[k] = IF k = 0 THEN first
                                ELSE IF g[k - 1] = NoNode THEN NoNode ELSE link[g[k - 1]]
  BY DEF Walk
<1>2. ASSUME T # {} PROVE FALSE
  <2>1. T \in SUBSET Nat
    OBVIOUS
  <2> HIDE DEF T
  <2>2. PICK x \in T : \A y \in T : ~(y < x)
    BY <1>2, <2>1, LeastNumber
  <2> USE DEF T
  <2>3. x \in 0..n /\ f[x] # g[x] /\ x # 0
    BY <1>1
  <2>4. x - 1 \in 0..n /\ x - 1 < x
    BY <2>3
  <2>5. f[x - 1] = g[x - 1]
    BY <2>2, <2>4
  <2> QED
    BY <1>1, <2>3, <2>5
<1>3. \A k \in 0..n : f[k] = g[k]
  BY <1>2
<1>4. /\ f = [k \in 0..n |-> f[k]]
      /\ g = [k \in 0..n |-> g[k]]
  BY DEF Walk
<1> QED
  BY <1>3, <1>4

\* The pointers are in the order of s, and the nodes elsewhere are not linked.
Linked(first, link, s) ==
  /\ s \in Seq(Nodes)
  /\ ~Repeats(s)
  /\ first = IF Len(s) = 0 THEN NoNode ELSE s[1]
  /\ link \in [Nodes -> Nodes \cup {NoNode}]
  /\ \A i \in 1..Len(s) : link[s[i]] = IF i = Len(s) THEN NoNode ELSE s[i + 1]
  /\ \A n \in Nodes \ Elements(s) : link[n] = NoNode

\* A list without repetitions is no longer than a set that has its members.
LEMMA LengthBound ==
  ASSUME NEW S, NEW s \in Seq(S), ~Repeats(s), NEW T, IsFiniteSet(T),
         Elements(s) \subseteq T
  PROVE  Len(s) <= Cardinality(T)
<1>1. /\ Len(s) \in Nat /\ DOMAIN s = 1..Len(s) /\ s \in [1..Len(s) -> S]
      /\ Elements(s) = {s[i] : i \in 1..Len(s)}
  BY LenProperties, ElementsType
<1> DEFINE D == 1..Len(s)
<1>2. IsFiniteSet(D) /\ Cardinality(D) = Len(s)
  BY <1>1, FS_Interval
<1>3. s \in Injection(D, T)
  BY <1>1 DEF Injection, IsInjective, Repeats
<1> QED
  BY <1>2, <1>3, FS_Injection

\* The list the pointers are in the order of is the one that is read off them.
LEMMA ListIsRead ==
  ASSUME NEW first, NEW link, NEW s, Linked(first, link, s)
  PROVE  ListFrom(first, link) = s
<1> DEFINE
      N == Cardinality(Nodes)
      nth[k \in 0..N] == IF k = 0 THEN first
                         ELSE IF nth[k - 1] = NoNode THEN NoNode ELSE link[nth[k - 1]]
      g == [k \in 0..N |-> IF k < Len(s) THEN s[k + 1] ELSE NoNode]
      places == {k \in DOMAIN nth : nth[k] # NoNode}
<1>1. /\ Len(s) \in Nat /\ DOMAIN s = 1..Len(s) /\ s = [i \in 1..Len(s) |-> s[i]]
      /\ \A i \in 1..Len(s) : s[i] \in Nodes
  BY LenProperties DEF Linked
<1>2. N \in Nat /\ Len(s) <= N
  BY NetCacheAssumption, FS_CardinalityType, ElementsType, LengthBound DEF Linked
<1>3. g = Walk(g, N, first, link)
  BY <1>1, <1>2, NetCacheAssumption DEF Linked, Walk
<1>4. nth = CHOOSE f : f = Walk(f, N, first, link)
  BY DEF Walk
<1>5. nth = Walk(nth, N, first, link)
  BY <1>3, <1>4
<1>6. nth = g
  <2> HIDE DEF nth, g, N
  <2> QED
    BY <1>2, <1>3, <1>5, OneWay
<1>7. ListFrom(first, link) = [i \in 1..Cardinality(places) |-> nth[i - 1]]
  BY DEF ListFrom
<1>8. /\ DOMAIN g = 0..N
      /\ \A k \in 0..N : g[k] = IF k < Len(s) THEN s[k + 1] ELSE NoNode
  OBVIOUS
<1>9. \A k \in 0..N : g[k] # NoNode <=> k \in 0..Len(s) - 1
  <2> HIDE DEF N, g
  <2> QED
    BY <1>1, <1>2, <1>8, NetCacheAssumption
<1>10. Cardinality(places) = Len(s)
  <2>1. places = 0..Len(s) - 1
    <3> HIDE DEF N, g, nth
    <3> QED
      BY <1>1, <1>2, <1>6, <1>8, <1>9
  <2>2. \A b \in Int : Cardinality(0..b) = IF 0 > b THEN 0 ELSE b - 0 + 1
    BY FS_Interval
  <2>3. Cardinality(0..Len(s) - 1) = Len(s)
    BY <1>1, <2>2
  <2> HIDE DEF places
  <2> QED
    BY <2>1, <2>3
<1>11. \A i \in 1..Len(s) : nth[i - 1] = s[i]
  <2> HIDE DEF N, g, nth
  <2> QED
    BY <1>1, <1>2, <1>6, <1>8
<1> QED
  <2> HIDE DEF nth, places
  <2> QED
    BY <1>1, <1>7, <1>10, <1>11

-----------------------------------------------------------------------------
(***************************************************************************)
(* Changing the pointers                                                   *)
(***************************************************************************)

\* What Linked says of the places of s, one by one.
LEMMA LinkedFacts ==
  ASSUME NEW first, NEW link, NEW s, Linked(first, link, s)
  PROVE  /\ Len(s) \in Nat /\ DOMAIN s = 1..Len(s) /\ s \in Seq(Nodes)
         /\ s = [i \in 1..Len(s) |-> s[i]]
         /\ \A i \in 1..Len(s) : s[i] \in Nodes /\ s[i] \in Elements(s)
         /\ \A i, j \in 1..Len(s) : s[i] = s[j] => i = j
         /\ \A n \in Elements(s) : \E i \in 1..Len(s) : s[i] = n
         /\ Elements(s) \subseteq Nodes
BY LenProperties, ElementsType DEF Linked, Repeats

\* An empty list.
LEMMA LinkedEmpty ==
  Linked(NoNode, [n \in Nodes |-> NoNode], <<>>)
BY EmptySeq DEF Linked, Repeats

\* A node at the end.
LEMMA LinkedAppend ==
  ASSUME NEW first, NEW link, NEW s, Linked(first, link, s),
         NEW n \in Nodes, n \notin Elements(s)
  PROVE  Linked(IF first = NoNode THEN n ELSE first,
                IF first = NoNode THEN link ELSE [link EXCEPT ![s[Len(s)]] = n],
                Append(s, n))
<1> DEFINE t == Append(s, n)
           first2 == IF first = NoNode THEN n ELSE first
           link2 == IF first = NoNode THEN link ELSE [link EXCEPT ![s[Len(s)]] = n]
<1>1. /\ Len(s) \in Nat /\ s \in Seq(Nodes) /\ ~Repeats(s)
      /\ \A i \in 1..Len(s) : s[i] \in Nodes /\ s[i] \in Elements(s)
      /\ \A i, j \in 1..Len(s) : s[i] = s[j] => i = j
      /\ first = IF Len(s) = 0 THEN NoNode ELSE s[1]
      /\ link \in [Nodes -> Nodes \cup {NoNode}]
      /\ \A i \in 1..Len(s) : link[s[i]] = IF i = Len(s) THEN NoNode ELSE s[i + 1]
      /\ \A m \in Nodes \ Elements(s) : link[m] = NoNode
  BY LinkedFacts DEF Linked
<1>2. /\ t \in Seq(Nodes) /\ ~Repeats(t) /\ Elements(t) = Elements(s) \cup {n}
      /\ Len(t) = Len(s) + 1 /\ t[Len(s) + 1] = n
      /\ \A i \in 1..Len(s) : t[i] = s[i]
  BY <1>1, ElementsAppend, AppendProperties
<1> HIDE DEF t
<1>3. first = NoNode <=> Len(s) = 0
  BY <1>1, NetCacheAssumption
<1>4. first2 = IF Len(t) = 0 THEN NoNode ELSE t[1]
  BY <1>1, <1>2, <1>3
<1>5. link2 \in [Nodes -> Nodes \cup {NoNode}]
  BY <1>1
<1>6. ASSUME NEW i \in 1..Len(t)
      PROVE  link2[t[i]] = IF i = Len(t) THEN NoNode ELSE t[i + 1]
  <2>1. CASE i = Len(t)
    <3>1. t[i] = n /\ link[n] = NoNode
      BY <1>1, <1>2, <2>1
    <3>2. Len(s) # 0 => s[Len(s)] # n
      BY <1>1
    <3> QED
      BY <1>1, <1>3, <2>1, <3>1, <3>2
  <2>2. CASE i = Len(s)
    BY <1>1, <1>2, <1>3, <2>2
  <2>3. CASE i < Len(s)
    <3>1. t[i] = s[i] /\ t[i + 1] = s[i + 1] /\ s[i] # s[Len(s)] /\ Len(s) # 0
      BY <1>1, <1>2, <2>3
    <3> QED
      BY <1>1, <1>2, <1>3, <2>3, <3>1
  <2> QED
    BY <1>1, <1>2, <2>1, <2>2, <2>3
<1>7. ASSUME NEW m \in Nodes \ Elements(t)
      PROVE  link2[m] = NoNode
  BY <1>1, <1>2, <1>3
<1> QED
  BY <1>2, <1>4, <1>5, <1>6, <1>7 DEF Linked, t

\* The first node away.
LEMMA LinkedTail ==
  ASSUME NEW first, NEW link, NEW s, Linked(first, link, s), first # NoNode
  PROVE  /\ s # <<>> /\ first = s[1] /\ first = Head(s)
         /\ Linked(link[first], [link EXCEPT ![first] = NoNode], Tail(s))
<1> DEFINE t == Tail(s)
           link2 == [link EXCEPT ![first] = NoNode]
<1>1. /\ Len(s) \in Nat /\ s \in Seq(Nodes) /\ ~Repeats(s)
      /\ \A i \in 1..Len(s) : s[i] \in Nodes /\ s[i] \in Elements(s)
      /\ \A i, j \in 1..Len(s) : s[i] = s[j] => i = j
      /\ first = s[1] /\ Len(s) # 0
      /\ link \in [Nodes -> Nodes \cup {NoNode}]
      /\ \A i \in 1..Len(s) : link[s[i]] = IF i = Len(s) THEN NoNode ELSE s[i + 1]
      /\ \A m \in Nodes \ Elements(s) : link[m] = NoNode
  BY LinkedFacts DEF Linked
<1>2. s # <<>> /\ Head(s) = s[1]
  BY <1>1, EmptySeq
<1>3. /\ t \in Seq(Nodes) /\ ~Repeats(t) /\ Elements(t) = Elements(s) \ {first}
      /\ Len(t) = Len(s) - 1
      /\ \A i \in 1..Len(s) - 1 : t[i] = s[i + 1]
  BY <1>1, <1>2, ElementsTail, HeadTailProperties
<1> HIDE DEF t
<1>4. link[first] = IF Len(t) = 0 THEN NoNode ELSE t[1]
  BY <1>1, <1>3
<1>5. link2 \in [Nodes -> Nodes \cup {NoNode}]
  BY <1>1
<1>6. ASSUME NEW i \in 1..Len(t)
      PROVE  link2[t[i]] = IF i = Len(t) THEN NoNode ELSE t[i + 1]
  <2>1. /\ i + 1 \in 1..Len(s) /\ 1 \in 1..Len(s) /\ i + 1 # 1
        /\ t[i] = s[i + 1]
    BY <1>1, <1>3
  <2>2. s[i + 1] # first
    BY <1>1, <2>1
  <2>3. link2[t[i]] = link[s[i + 1]]
    BY <1>1, <2>1, <2>2
  <2>4. i # Len(t) => t[i + 1] = s[i + 1 + 1]
    BY <1>1, <1>3
  <2> QED
    BY <1>1, <1>3, <2>1, <2>3, <2>4
<1>7. ASSUME NEW m \in Nodes \ Elements(t)
      PROVE  link2[m] = NoNode
  BY <1>1, <1>3
<1>8. Linked(link[first], link2, t)
  BY <1>3, <1>4, <1>5, <1>6, <1>7 DEF Linked
<1> QED
  BY <1>1, <1>2, <1>8 DEF t

\* Renewing a member permutes the list.
LEMMA RenewedFacts ==
  ASSUME NEW S, NEW s \in Seq(S), NEW i \in 1..Len(s), ~Repeats(s)
  PROVE  LET t == Lru!Renewed(s, i)
         IN  /\ t \in Seq(S) /\ Len(t) = Len(s) /\ ~Repeats(t)
             /\ Elements(t) = Elements(s)
             /\ \A j \in 1..Len(s) :
                  t[j] = IF j < i THEN s[j] ELSE IF j < Len(s) THEN s[j + 1] ELSE s[i]
<1> DEFINE t == Lru!Renewed(s, i)
           from(j) == IF j < i THEN j ELSE IF j < Len(s) THEN j + 1 ELSE i
           to(k) == IF k < i THEN k ELSE IF k = i THEN Len(s) ELSE k - 1
<1>1. /\ Len(s) \in Nat /\ DOMAIN s = 1..Len(s)
      /\ \A j \in 1..Len(s) : s[j] \in S
      /\ \A j, k \in 1..Len(s) : s[j] = s[k] => j = k
  BY LenProperties DEF Repeats
<1>2. /\ DOMAIN t = 1..Len(s)
      /\ \A j \in 1..Len(s) :
           t[j] = IF j < i THEN s[j] ELSE IF j < Len(s) THEN s[j + 1] ELSE s[i]
  BY DEF Lru!Renewed
<1>3. \A j \in 1..Len(s) : from(j) \in 1..Len(s) /\ t[j] = s[from(j)]
  BY <1>1, <1>2
<1>4. t \in [1..Len(s) -> S]
  <2>1. t = [j \in 1..Len(s) |-> t[j]]
    BY DEF Lru!Renewed
  <2> HIDE DEF t
  <2> QED
    BY <1>1, <1>3, <2>1
<1> HIDE DEF t
<1>5. t \in Seq(S)
  BY <1>1, <1>4, SeqDef
<1>6. Len(t) = Len(s)
  BY <1>1, <1>2, <1>5, LenProperties
<1>7. ~Repeats(t)
  <2> SUFFICES ASSUME NEW j \in 1..Len(s), NEW k \in 1..Len(s), t[j] = t[k]
               PROVE  j = k
    BY <1>2 DEF Repeats
  <2>1. from(j) = from(k)
    BY <1>1, <1>3
  <2> QED
    BY <1>1, <2>1
<1>8. \A k \in 1..Len(s) : to(k) \in 1..Len(s) /\ t[to(k)] = s[k]
  BY <1>1, <1>2
<1>9. Elements(t) = Elements(s)
  <2>1. Elements(t) = {t[j] : j \in 1..Len(s)} /\ Elements(s) = {s[j] : j \in 1..Len(s)}
    BY <1>1, <1>2 DEF Elements
  <2>2. ASSUME NEW j \in 1..Len(s) PROVE t[j] \in Elements(s)
    BY <1>3, <2>1
  <2>3. ASSUME NEW k \in 1..Len(s) PROVE s[k] \in Elements(t)
    BY <1>8, <2>1
  <2> QED
    BY <2>1, <2>2, <2>3
<1> QED
  BY <1>2, <1>5, <1>6, <1>7, <1>9 DEF t

\* Renewing the last member changes nothing.
LEMMA RenewedLast ==
  ASSUME NEW S, NEW s \in Seq(S), Len(s) # 0
  PROVE  Lru!Renewed(s, Len(s)) = s
<1>1. Len(s) \in Nat /\ s = [j \in 1..Len(s) |-> s[j]]
  BY LenProperties
<1>2. Lru!Renewed(s, Len(s)) = [j \in 1..Len(s) |-> s[j]]
  BY <1>1 DEF Lru!Renewed
<1> QED
  BY <1>1, <1>2

\* A node that is not the last one behind the last one.
LEMMA LinkedRenewed ==
  ASSUME NEW first, NEW link, NEW s, Linked(first, link, s),
         NEW i \in 1..Len(s), i # Len(s), NEW link2,
         link2 = [m \in Nodes |-> IF m = s[i] THEN NoNode
                                  ELSE IF m = s[Len(s)] THEN s[i]
                                  ELSE IF link[m] = s[i] THEN link[s[i]] ELSE link[m]]
  PROVE  Linked(IF s[i] = first THEN link[s[i]] ELSE first, link2, Lru!Renewed(s, i))
<1> DEFINE t == Lru!Renewed(s, i)
           first2 == IF s[i] = first THEN link[s[i]] ELSE first
<1>1. /\ Len(s) \in Nat /\ s \in Seq(Nodes) /\ ~Repeats(s)
      /\ \A j \in 1..Len(s) : s[j] \in Nodes /\ s[j] \in Elements(s)
      /\ \A j, k \in 1..Len(s) : s[j] = s[k] => j = k
      /\ first = s[1] /\ Len(s) # 0
      /\ link \in [Nodes -> Nodes \cup {NoNode}]
      /\ \A j \in 1..Len(s) : link[s[j]] = IF j = Len(s) THEN NoNode ELSE s[j + 1]
      /\ \A m \in Nodes \ Elements(s) : link[m] = NoNode
  BY LinkedFacts DEF Linked
<1>2. /\ t \in Seq(Nodes) /\ Len(t) = Len(s) /\ ~Repeats(t)
      /\ Elements(t) = Elements(s)
      /\ \A j \in 1..Len(s) :
           t[j] = IF j < i THEN s[j] ELSE IF j < Len(s) THEN s[j + 1] ELSE s[i]
  BY <1>1, RenewedFacts
<1> HIDE DEF t
<1>3. first2 = IF Len(t) = 0 THEN NoNode ELSE t[1]
  <2>1. 1 \in 1..Len(s) /\ (s[i] = s[1] <=> i = 1)
    BY <1>1
  <2> QED
    BY <1>1, <1>2, <2>1
<1>4. link2 \in [Nodes -> Nodes \cup {NoNode}]
  BY <1>1
<1>5. ASSUME NEW j \in 1..Len(s)
      PROVE  link2[s[j]] = IF j = i THEN NoNode ELSE IF j = Len(s) THEN s[i]
                           ELSE IF j + 1 = i THEN s[i + 1] ELSE s[j + 1]
  <2>1. /\ s[j] = s[i] <=> j = i
        /\ s[j] = s[Len(s)] <=> j = Len(s)
        /\ j # Len(s) => (s[j + 1] = s[i] <=> j + 1 = i)
    BY <1>1
  <2>2. link[s[i]] = s[i + 1]
    BY <1>1
  <2>3. j # Len(s) => link[s[j]] = s[j + 1]
    BY <1>1
  <2> QED
    BY <1>1, <2>1, <2>2, <2>3
<1>6. ASSUME NEW j \in 1..Len(t)
      PROVE  link2[t[j]] = IF j = Len(t) THEN NoNode ELSE t[j + 1]
  <2>1. CASE j = Len(s)
    BY <1>1, <1>2, <1>5, <2>1
  <2>2. CASE j < i
    BY <1>1, <1>2, <1>5, <2>2
  <2>3. CASE i <= j /\ j < Len(s)
    <3>1. t[j] = s[j + 1] /\ j + 1 \in 1..Len(s) /\ j + 1 # i /\ j + 1 + 1 # i
      BY <1>1, <1>2, <2>3
    <3>2. link2[s[j + 1]] = IF j + 1 = Len(s) THEN s[i] ELSE s[j + 1 + 1]
      BY <1>5, <3>1
    <3> QED
      BY <1>1, <1>2, <2>3, <3>1, <3>2
  <2> QED
    BY <1>1, <1>2, <2>1, <2>2, <2>3
<1>7. ASSUME NEW m \in Nodes \ Elements(t)
      PROVE  link2[m] = NoNode
  <2>1. link[m] = NoNode /\ m # s[i] /\ m # s[Len(s)] /\ s[i] # NoNode
    BY <1>1, <1>2, NetCacheAssumption
  <2> QED
    BY <2>1
<1> QED
  BY <1>2, <1>3, <1>4, <1>6, <1>7 DEF Linked, t

-----------------------------------------------------------------------------
(***************************************************************************)
(* The list of the disk cache                                              *)
(***************************************************************************)
Chain == Linked(head, next, List)

\* What there is to know of the list when the pointers are in order.
LEMMA ListFacts ==
  ASSUME Chain
  PROVE  /\ Len(List) \in Nat /\ DOMAIN List = 1..Len(List) /\ List \in Seq(Nodes)
         /\ ~Repeats(List)
         /\ \A i \in 1..Len(List) : List[i] \in Nodes /\ List[i] \in Listed
         /\ \A n \in Listed : \E i \in 1..Len(List) : List[i] = n
         /\ Listed \subseteq Nodes
         /\ head = NoNode <=> Len(List) = 0
         /\ head # NoNode => head \in Listed
         /\ Listed = {} <=> head = NoNode
<1>1. /\ Len(List) \in Nat /\ DOMAIN List = 1..Len(List) /\ List \in Seq(Nodes)
      /\ ~Repeats(List)
      /\ \A i \in 1..Len(List) : List[i] \in Nodes /\ List[i] \in Listed
      /\ \A n \in Listed : \E i \in 1..Len(List) : List[i] = n
      /\ Listed \subseteq Nodes
      /\ head = IF Len(List) = 0 THEN NoNode ELSE List[1]
  BY LinkedFacts DEF Chain, Linked, Listed
<1> QED
  BY <1>1, NetCacheAssumption

\* The list in the next state is the one the pointers are then in the order of.
LEMMA ListNext ==
  ASSUME NEW t, Linked(head', next', t)
  PROVE  List' = t /\ Chain' /\ Listed' = Elements(t)
<1>1. ListFrom(head', next') = t
  BY ListIsRead
<1>2. List' = t
  BY <1>1 DEF List
<1> QED
  BY <1>2 DEF Chain, Listed

\* Nobody touches the pointers.
LEMMA ListSame ==
  ASSUME Chain, UNCHANGED <<head, next>>
  PROVE  List' = List /\ Chain' /\ Listed' = Listed
BY ListNext DEF Chain, Listed

\* findInDisk renews what it finds.
LEMMA FoundIsRenewed ==
  ASSUME Chain, NEW n \in Listed, MoveToEnd(n)
  PROVE  /\ Chain' /\ Listed' = Listed
         /\ \E i \in 1..Len(List) : List[i] = n /\ List' = Lru!Renewed(List, i)
         /\ head' \in Nodes \cup {NoNode}
         /\ next' \in [Nodes -> Nodes \cup {NoNode}]
<1>1. PICK i \in 1..Len(List) : List[i] = n
  BY ListFacts
<1>2. /\ Len(List) \in Nat /\ List \in Seq(Nodes) /\ ~Repeats(List)
      /\ \A j, k \in 1..Len(List) : List[j] = List[k] => j = k
      /\ Elements(List) = Listed
      /\ head \in Nodes \cup {NoNode} /\ next \in [Nodes -> Nodes \cup {NoNode}]
  <2>1. \A j, k \in 1..Len(List) : List[j] = List[k] => j = k
    BY LinkedFacts DEF Chain
  <2>2. head \in Nodes \cup {NoNode}
    BY ListFacts
  <2>3. next \in [Nodes -> Nodes \cup {NoNode}]
    BY DEF Chain, Linked
  <2> QED
    BY <2>1, <2>2, <2>3, ListFacts DEF Listed
<1>3. CASE n = Last
  <2>1. i = Len(List) /\ Len(List) # 0
    BY <1>1, <1>2, <1>3 DEF Last
  <2>2. Lru!Renewed(List, i) = List
    BY <1>2, <2>1, RenewedLast
  <2>3. UNCHANGED <<head, next>>
    BY <1>3 DEF MoveToEnd
  <2> QED
    BY <1>1, <1>2, <2>2, <2>3, ListSame
<1>4. CASE n # Last
  <2>1. head' = HeadWithout(n) /\ next' = Relinked(n)
    BY <1>4 DEF MoveToEnd
  <2>2. i # Len(List) /\ n \in Nodes /\ n # NoNode
    BY <1>1, <1>2, <1>4, ListFacts, NetCacheAssumption DEF Last
  <2>3. next' = [m \in Nodes |-> IF m = List[i] THEN NoNode
                                ELSE IF m = List[Len(List)] THEN List[i]
                                ELSE IF next[m] = List[i] THEN next[List[i]] ELSE next[m]]
    BY <1>1, <2>1, <2>2 DEF Relinked, Others, Last
  <2>4. head' = IF List[i] = head THEN next[List[i]] ELSE head
    BY <1>1, <2>1 DEF HeadWithout
  <2>5. Linked(head', next', Lru!Renewed(List, i))
    BY <1>1, <2>2, <2>3, <2>4, LinkedRenewed DEF Chain
  <2>6. Elements(Lru!Renewed(List, i)) = Listed
    BY <1>1, <1>2, RenewedFacts
  <2>7. /\ head' \in Nodes \cup {NoNode}
        /\ next' \in [Nodes -> Nodes \cup {NoNode}]
    BY <1>1, <1>2, <2>2, <2>3, <2>4
  <2> QED
    BY <1>1, <2>5, <2>6, <2>7, ListNext
<1> QED
  BY <1>3, <1>4

\* freeDisk takes the first node out.
LEMMA HeadIsUnlinked ==
  ASSUME Chain, Unlink
  PROVE  /\ Chain' /\ head \in Listed /\ head \in Nodes
         /\ List # <<>> /\ List' = Tail(List) /\ head = Head(List)
         /\ Listed' = Listed \ {head}
         /\ head' \in Nodes \cup {NoNode}
         /\ next' \in [Nodes -> Nodes \cup {NoNode}]
<1>1. /\ head # NoNode /\ head' = next[head]
      /\ next' = [next EXCEPT ![head] = NoNode]
  BY DEF Unlink, MayUnlink, MustEvict
<1>2. /\ List # <<>> /\ head = Head(List)
      /\ Linked(head', next', Tail(List))
  BY <1>1, LinkedTail DEF Chain
<1>3. List \in Seq(Nodes) /\ ~Repeats(List) /\ head \in Listed /\ head \in Nodes
  BY <1>1, ListFacts
<1>4. Elements(Tail(List)) = Listed \ {head}
  BY <1>2, <1>3, ElementsTail DEF Listed
<1>5. /\ head' \in Nodes \cup {NoNode}
      /\ next' \in [Nodes -> Nodes \cup {NoNode}]
  BY <1>1, <1>3 DEF Chain, Linked
<1> QED
  BY <1>2, <1>3, <1>4, <1>5, ListNext

\* insertDiskItem appends the new node.
LEMMA NodeIsAppended ==
  ASSUME Chain, LinkNode, newNode \in Nodes, newNode \notin Listed
  PROVE  /\ Chain' /\ List' = Append(List, newNode)
         /\ Listed' = Listed \cup {newNode}
         /\ head' \in Nodes \cup {NoNode}
         /\ next' \in [Nodes -> Nodes \cup {NoNode}]
<1>1. /\ head' = IF head = NoNode THEN newNode ELSE head
      /\ next' = IF head = NoNode THEN next ELSE [next EXCEPT ![List[Len(List)]] = newNode]
  BY DEF LinkNode, Last
<1>2. Linked(head', next', Append(List, newNode))
  BY <1>1, LinkedAppend DEF Chain, Listed
<1>3. List \in Seq(Nodes) /\ ~Repeats(List)
  BY ListFacts
<1>4. Elements(Append(List, newNode)) = Listed \cup {newNode}
  BY <1>3, ElementsAppend DEF Listed
<1>5. /\ head' \in Nodes \cup {NoNode}
      /\ next' \in [Nodes -> Nodes \cup {NoNode}]
  BY <1>1 DEF Chain, Linked
<1> QED
  BY <1>2, <1>4, <1>5, ListNext

-----------------------------------------------------------------------------
(***************************************************************************)
(* What the types rest on                                                  *)
(***************************************************************************)
Running == main = "running"
Closed == main \in {"joining", "done"}
Storing == writer \in {"look", "insert", "checkpoint", "link"}

\* Which of the threads' variables are in use when.
Stages ==
  /\ newNode # NoNode <=> writer \in {"checkpoint", "link"}
  /\ temp # NoNode <=> writer \in {"ask", "hand", "discard", "account"}
  /\ temp = NoNode => tempSize = 0
  /\ Storing => Running
  /\ stored # NoFunction <=> Running /\ writer # "idle"
  /\ main = "draining" <=> ~Running /\ Locked
  /\ ~Running => reader = "idle" /\ requests = <<>>
  /\ item # NoNode <=> uploader \in {"remove", "upload", "link"}
  /\ readNode # NoNode <=> reader \in {"open", "close", "crashed"}
  /\ wanted # NoFunction <=> reader # "idle"

\* What is in the nodes.
Contents ==
  /\ \A n \in Nodes : n \in allocated <=> function[n] # NoFunction
  /\ Inserting # {} => function[newNode] = stored
  /\ Evicting # {} => tempSize = Size[function[temp]]

\* NodesHaveOneOwner, spelled out.
Apart ==
  /\ allocated = Listed \cup QueuedNodes \cup Inserting \cup Evicting \cup InHand
  /\ Listed \cap QueuedNodes = {} /\ Listed \cap Inserting = {}
  /\ Listed \cap Evicting = {} /\ Listed \cap InHand = {}
  /\ QueuedNodes \cap Inserting = {} /\ QueuedNodes \cap Evicting = {}
  /\ QueuedNodes \cap InHand = {} /\ Inserting \cap Evicting = {}
  /\ Inserting \cap InHand = {} /\ Evicting \cap InHand = {}
  /\ ~Repeats(uploadQueue)

\* The "quit" is the last entry, and only main's end puts it there.
QuitIsLast ==
  /\ \A i \in DOMAIN uploadQueue :
       uploadQueue[i] = Quit <=> i = Len(uploadQueue) /\ Closed
  /\ Closed => uploadQueue # <<>>
  /\ uploader = "exited" => Closed /\ uploadQueue = <<Quit>>
  /\ main = "done" => uploader = "exited"

\* The writer has taken a container for every node there is, and one more while
\* it has not asked malloc for its node.
Pending == writer \in {"look", "insert"} \/ (Locked /\ Running)
StoresCounted ==
  Cardinality(allocated) + (IF Pending THEN 1 ELSE 0) <= stores

Core ==
  /\ TypeOK
  /\ Chain
  /\ Stages
  /\ Contents
  /\ Apart
  /\ QuitIsLast
  /\ StoresCounted

\* The steps after which every node is where it was.
Still ==
  \/ \E f \in Functions : FindInDisk(f)
  \/ \E f \in Functions, r \in BOOLEAN : TakeContainer(f, r)
  \/ TakeRequest \/ Retrieve \/ ReadBin \/ ReleaseNode
  \/ Look \/ MakeRoom \/ NoRoom \/ Checkpoint \/ AskNetwork \/ Account
  \/ UploaderSleep /\ UNCHANGED diskVars
  \/ UploaderWake /\ UNCHANGED diskVars
  \/ UploaderQuit /\ UNCHANGED diskVars
  \/ RemoveFile /\ UNCHANGED diskVars
  \/ UploadObject /\ UNCHANGED diskVars
  \/ EndPools \/ SendQuit \/ JoinUploader
  \/ UNCHANGED vars

\* All the steps there are.
LEMMA Steps ==
  ASSUME [Next]_vars
  PROVE  \/ Still
         \/ Fits \/ RoomMade \/ LinkNode \/ DropRestored
         \/ Unlink \/ HandOver \/ Discard
         \/ Extract /\ UNCHANGED diskVars
         \/ LinkAndFree /\ UNCHANGED diskVars
BY DEF Next, Still, Reader, RetrieveFromDisk, WriterStep, InsertDiskItem,
       CheckpointContainer, FreeDisk, Spin, Uploader, NetThreadFunc,
       InsertNetCache, MainStep, Terminated

\* malloc finds a node for a container that has none yet.
LEMMA MallocIsFree ==
  ASSUME TypeOK, StoresCounted, Pending
  PROVE  Malloc \in Nodes /\ Malloc \notin allocated
<1>1. IsFiniteSet(Nodes) /\ allocated \subseteq Nodes
  BY NetCacheAssumption DEF TypeOK
<1>2. IsFiniteSet(allocated) /\ Cardinality(allocated) \in Nat /\ Cardinality(Nodes) \in Nat
  BY <1>1, FS_Subset, FS_CardinalityType
<1>3. Cardinality(allocated) < Cardinality(Nodes)
  BY <1>2, DiskCacheAssumption DEF TypeOK, StoresCounted
<1>4. \E n \in Nodes : n \notin allocated
  <2>1. allocated # Nodes
    BY <1>2, <1>3
  <2> QED
    BY <1>1, <2>1
<1> QED
  BY <1>4 DEF Malloc

-----------------------------------------------------------------------------
(***************************************************************************)
(* Where the nodes go                                                      *)
(***************************************************************************)

\* A function of some nodes is found at one of them.
LEMMA NodeIsFound ==
  ASSUME NEW f, f \in FunctionsOf(Listed)
  PROVE  NodeOf(f) \in Listed /\ function[NodeOf(f)] = f
BY DEF FunctionsOf, NodeOf

\* Most steps leave the list alone or renew a node in it.
LEMMA StillList ==
  ASSUME Core, Still
  PROVE  /\ Chain' /\ Listed' = Listed
         /\ head' \in Nodes \cup {NoNode}
         /\ next' \in [Nodes -> Nodes \cup {NoNode}]
<1>1. Chain /\ head \in Nodes \cup {NoNode} /\ next \in [Nodes -> Nodes \cup {NoNode}]
  BY DEF Core, TypeOK
<1>2. CASE \E f \in Functions : FindInDisk(f)
  <2>1. PICK f \in Functions : FindInDisk(f)
    BY <1>2
  <2>2. f \in FunctionsOf(Listed) /\ MoveToEnd(NodeOf(f))
    BY <2>1 DEF FindInDisk
  <2>3. NodeOf(f) \in Listed
    BY <2>2, NodeIsFound
  <2> QED
    BY <1>1, <2>2, <2>3, FoundIsRenewed
<1>3. CASE Look /\ stored \in FunctionsOf(Listed)
  <2>1. MoveToEnd(NodeOf(stored))
    BY <1>3 DEF Look
  <2>2. NodeOf(stored) \in Listed
    BY <1>3, NodeIsFound
  <2> QED
    BY <1>1, <2>1, <2>2, FoundIsRenewed
<1>4. CASE UNCHANGED <<head, next>>
  BY <1>1, <1>4, ListSame
<1>5. (\E f \in Functions : FindInDisk(f)) \/ (Look /\ stored \in FunctionsOf(Listed))
        \/ UNCHANGED <<head, next>>
  <2>1. CASE \E f \in Functions, r \in BOOLEAN : TakeContainer(f, r)
    BY <2>1 DEF TakeContainer, listVars
  <2>2. CASE TakeRequest \/ Retrieve \/ ReadBin \/ ReleaseNode
    BY <2>2 DEF TakeRequest, Retrieve, ReadBin, ReleaseNode, listVars
  <2>3. CASE Look \/ MakeRoom \/ NoRoom \/ Checkpoint
    BY <2>3 DEF Look, MakeRoom, NoRoom, Checkpoint, listVars
  <2>4. CASE AskNetwork \/ Account \/ EndPools \/ SendQuit \/ JoinUploader
    BY <2>4 DEF AskNetwork, Account, EndPools, SendQuit, JoinUploader, listVars
  <2>5. CASE UNCHANGED diskVars \/ UNCHANGED vars
    BY <2>5 DEF diskVars, vars, listVars
  <2> QED
    BY <2>1, <2>2, <2>3, <2>4, <2>5 DEF Still
<1> QED
  BY <1>2, <1>3, <1>4, <1>5

\* The "quit" is not in the queue before it is sent, and is none of the nodes.
LEMMA QuitIsSent ==
  ASSUME Core, SendQuit
  PROVE  /\ uploadQueue' = Append(uploadQueue, Quit)
         /\ uploadQueue' \in Seq(Nodes \cup {Quit})
         /\ QueuedNodes' = QueuedNodes /\ ~Repeats(uploadQueue')
         /\ Quit \notin Elements(uploadQueue)
<1>1. /\ uploadQueue \in Seq(Nodes \cup {Quit}) /\ ~Repeats(uploadQueue)
      /\ uploadQueue' = Append(uploadQueue, Quit)
  BY DEF Core, TypeOK, Apart, SendQuit, Enqueue, WithQuit
<1>2. Quit \notin Elements(uploadQueue)
  BY DEF Core, QuitIsLast, Closed, SendQuit, Elements
<1>3. /\ Append(uploadQueue, Quit) \in Seq(Nodes \cup {Quit})
      /\ Elements(Append(uploadQueue, Quit)) = Elements(uploadQueue) \cup {Quit}
      /\ ~Repeats(Append(uploadQueue, Quit))
  BY <1>1, <1>2, ElementsAppend
<1>4. Elements(uploadQueue') = Elements(uploadQueue) \cup {Quit}
  BY <1>1, <1>3
<1> QED
  BY <1>1, <1>2, <1>3, <1>4 DEF QueuedNodes

\* All nodes stay where they are.
LEMMA StillNodes ==
  ASSUME Core, Still
  PROVE  /\ UNCHANGED <<allocated, function>>
         /\ QueuedNodes' = QueuedNodes /\ ~Repeats(uploadQueue')
         /\ uploadQueue' \in Seq(Nodes \cup {Quit})
         /\ Inserting' = Inserting /\ Evicting' = Evicting /\ InHand' = InHand
<1>1. uploadQueue \in Seq(Nodes \cup {Quit}) /\ ~Repeats(uploadQueue)
  BY DEF Core, TypeOK, Apart
<1>2. ASSUME UNCHANGED uploadQueue
      PROVE  /\ QueuedNodes' = QueuedNodes /\ ~Repeats(uploadQueue')
             /\ uploadQueue' \in Seq(Nodes \cup {Quit})
  BY <1>1, <1>2 DEF QueuedNodes
<1>3. CASE \E f \in Functions : FindInDisk(f)
  BY <1>2, <1>3 DEF FindInDisk, netVars, heap, uploads, writerVars, storeVars, freeVars,
                    Inserting, Evicting, InHand
<1>4. CASE \E f \in Functions, r \in BOOLEAN : TakeContainer(f, r)
  BY <1>2, <1>4 DEF TakeContainer, netVars, heap, uploads, freeVars,
                    Inserting, Evicting, InHand
<1>5. CASE TakeRequest \/ Retrieve \/ ReadBin \/ ReleaseNode
  BY <1>2, <1>5 DEF TakeRequest, Retrieve, ReadBin, ReleaseNode, netVars, heap, uploads,
                    writerVars, storeVars, freeVars, Inserting, Evicting, InHand
<1>6. CASE Look
  BY <1>2, <1>6 DEF Look, StoreEnds, netVars, heap, uploads, freeVars,
                    Inserting, Evicting, InHand
<1>7. CASE MakeRoom \/ NoRoom
  BY <1>2, <1>7 DEF MakeRoom, NoRoom, Finished, StoreEnds, netVars, heap, uploads, storeVars,
                    Inserting, Evicting, InHand
<1>8. CASE Checkpoint
  BY <1>2, <1>8 DEF Checkpoint, heap, uploads, storeVars, freeVars,
                    Inserting, Evicting, InHand
<1>9. CASE AskNetwork \/ Account
  BY <1>2, <1>9 DEF AskNetwork, Account, netVars, heap, uploads, storeVars, freeVars,
                    Inserting, Evicting, InHand
<1>10. CASE UploaderSleep /\ UNCHANGED diskVars
  BY <1>2, <1>10 DEF UploaderSleep, diskVars, heap, writerVars, storeVars, freeVars,
                     Inserting, Evicting, InHand
<1>11. CASE UploaderWake /\ UNCHANGED diskVars
  BY <1>2, <1>11 DEF UploaderWake, diskVars, heap, writerVars, storeVars, freeVars,
                     Inserting, Evicting, InHand
<1>12. CASE UploaderQuit /\ UNCHANGED diskVars
  BY <1>2, <1>12 DEF UploaderQuit, diskVars, heap, writerVars, storeVars, freeVars,
                     Inserting, Evicting, InHand
<1>13. CASE RemoveFile /\ UNCHANGED diskVars
  BY <1>2, <1>13 DEF RemoveFile, diskVars, heap, writerVars, storeVars, freeVars,
                     Inserting, Evicting, InHand
<1>14. CASE UploadObject /\ UNCHANGED diskVars
  BY <1>2, <1>14 DEF UploadObject, diskVars, heap, writerVars, storeVars, freeVars,
                     Inserting, Evicting, InHand
<1>15. CASE EndPools
  BY <1>2, <1>15 DEF EndPools, netVars, heap, uploads, storeVars, Inserting, Evicting, InHand
<1>16. CASE SendQuit
  BY <1>16, QuitIsSent DEF SendQuit, Finished, heap, storeVars, Inserting, Evicting, InHand
<1>17. CASE JoinUploader
  BY <1>2, <1>17 DEF JoinUploader, netVars, heap, uploads, writerVars, storeVars, freeVars,
                     Inserting, Evicting, InHand
<1>18. CASE UNCHANGED vars
  BY <1>2, <1>18 DEF vars, netVars, heap, uploads, writerVars, storeVars, freeVars,
                     Inserting, Evicting, InHand
<1> QED
  BY <1>3, <1>4, <1>5, <1>6, <1>7, <1>8, <1>9, <1>10, <1>11, <1>12, <1>13, <1>14, <1>15,
     <1>16, <1>17, <1>18 DEF Still

\* The queue is as it was.
LEMMA QueueSame ==
  ASSUME Core, UNCHANGED uploadQueue
  PROVE  /\ QueuedNodes' = QueuedNodes /\ ~Repeats(uploadQueue')
         /\ uploadQueue' \in Seq(Nodes \cup {Quit})
BY DEF Core, TypeOK, Apart, QueuedNodes

\* malloc gives a node to the writer.
LEMMA CreateMoves ==
  ASSUME Core, Fits \/ RoomMade
  PROVE  /\ Malloc \in Nodes /\ Malloc \notin allocated
         /\ Inserting = {} /\ Inserting' = {Malloc}
         /\ allocated' = allocated \cup {Malloc}
         /\ function' = [function EXCEPT ![Malloc] = stored]
         /\ newNode' = Malloc /\ writer' = "checkpoint" /\ Pending /\ Running
         /\ Chain' /\ Listed' = Listed /\ UNCHANGED <<head, next>>
         /\ Evicting = {} /\ Evicting' = {} /\ InHand' = InHand
         /\ QueuedNodes' = QueuedNodes /\ ~Repeats(uploadQueue')
         /\ uploadQueue' \in Seq(Nodes \cup {Quit})
<1>1. Pending /\ Running
  BY DEF Core, Stages, Storing, Pending, Running, Locked, Fits, RoomMade, Finished
<1>2. Malloc \in Nodes /\ Malloc \notin allocated
  BY <1>1, MallocIsFree DEF Core
<1>3. /\ allocated' = allocated \cup {Malloc}
      /\ function' = [function EXCEPT ![Malloc] = stored]
      /\ newNode' = Malloc /\ writer' = "checkpoint"
      /\ writer \in {"insert", "evict"}
      /\ UNCHANGED <<head, next, uploadQueue, uploader, item>>
  BY DEF Fits, RoomMade, Finished, CreateNode, uploads, listVars
<1>4. Chain' /\ Listed' = Listed
  BY <1>3, ListSame DEF Core
<1>5. /\ Inserting = {} /\ Inserting' = {Malloc}
      /\ Evicting = {} /\ Evicting' = {} /\ InHand' = InHand
  BY <1>3 DEF Inserting, Evicting, InHand
<1> QED
  BY <1>1, <1>2, <1>3, <1>4, <1>5, QueueSame

\* The writer puts its node into the list.
LEMMA LinkMoves ==
  ASSUME Core, LinkNode
  PROVE  /\ newNode \in Nodes /\ newNode \notin Listed
         /\ Chain' /\ List' = Append(List, newNode)
         /\ Listed' = Listed \cup {newNode}
         /\ head' \in Nodes \cup {NoNode}
         /\ next' \in [Nodes -> Nodes \cup {NoNode}]
         /\ Inserting = {newNode} /\ Inserting' = {}
         /\ UNCHANGED <<allocated, function>>
         /\ Evicting = {} /\ Evicting' = {} /\ InHand' = InHand
         /\ QueuedNodes' = QueuedNodes /\ ~Repeats(uploadQueue')
         /\ uploadQueue' \in Seq(Nodes \cup {Quit})
<1>1. /\ writer = "link" /\ writer' = "idle"
      /\ UNCHANGED <<allocated, function, uploadQueue, uploader, item>>
  BY DEF LinkNode, StoreEnds, netVars, heap, uploads
<1>2. /\ Inserting = {newNode} /\ Inserting' = {}
      /\ Evicting = {} /\ Evicting' = {} /\ InHand' = InHand
  BY <1>1 DEF Inserting, Evicting, InHand
<1>3. newNode \in Nodes /\ newNode \notin Listed
  BY <1>1, <1>2 DEF Core, TypeOK, Stages, Apart
<1>4. Chain
  BY DEF Core
<1> QED
  BY <1>1, <1>2, <1>3, <1>4, NodeIsAppended, QueueSame

\* The node of a restored container that has no object is freed.
LEMMA DropMoves ==
  ASSUME Core, DropRestored
  PROVE  /\ newNode \in Nodes /\ Inserting = {newNode} /\ Inserting' = {}
         /\ allocated' = allocated \ {newNode}
         /\ function' = [function EXCEPT ![newNode] = NoFunction]
         /\ Chain' /\ Listed' = Listed /\ UNCHANGED <<head, next>>
         /\ Evicting = {} /\ Evicting' = {} /\ InHand' = InHand
         /\ QueuedNodes' = QueuedNodes /\ ~Repeats(uploadQueue')
         /\ uploadQueue' \in Seq(Nodes \cup {Quit})
<1>1. /\ writer = "checkpoint" /\ writer' = "idle"
      /\ allocated' = allocated \ {newNode}
      /\ function' = [function EXCEPT ![newNode] = NoFunction]
      /\ UNCHANGED <<head, next, uploadQueue, uploader, item>>
  BY DEF DropRestored, StoreEnds, Free, listVars, uploads
<1>2. /\ Inserting = {newNode} /\ Inserting' = {}
      /\ Evicting = {} /\ Evicting' = {} /\ InHand' = InHand
  BY <1>1 DEF Inserting, Evicting, InHand
<1>3. newNode \in Nodes
  BY <1>1 DEF Core, TypeOK, Stages
<1>4. Chain' /\ Listed' = Listed
  BY <1>1, ListSame DEF Core
<1> QED
  BY <1>1, <1>2, <1>3, <1>4, QueueSame

\* The first node leaves the list.
LEMMA UnlinkMoves ==
  ASSUME Core, Unlink
  PROVE  /\ head \in Listed /\ head \in Nodes /\ head \notin inUse
         /\ Chain' /\ List # <<>> /\ List' = Tail(List) /\ head = Head(List)
         /\ Listed' = Listed \ {head}
         /\ head' \in Nodes \cup {NoNode}
         /\ next' \in [Nodes -> Nodes \cup {NoNode}]
         /\ temp' = head /\ Evicting = {} /\ Evicting' = {head}
         /\ UNCHANGED <<allocated, function>>
         /\ Inserting = {} /\ Inserting' = {} /\ InHand' = InHand
         /\ QueuedNodes' = QueuedNodes /\ ~Repeats(uploadQueue')
         /\ uploadQueue' \in Seq(Nodes \cup {Quit})
<1>1. /\ writer = "evict" /\ writer' = "ask" /\ temp' = head /\ head \notin inUse
      /\ UNCHANGED <<allocated, function, uploadQueue, uploader, item>>
  BY DEF Unlink, MayUnlink, MustEvict, netVars, heap, uploads
<1>2. /\ Evicting = {} /\ Evicting' = {head}
      /\ Inserting = {} /\ Inserting' = {} /\ InHand' = InHand
  BY <1>1 DEF Inserting, Evicting, InHand
<1>3. Chain
  BY DEF Core
<1> QED
  BY <1>1, <1>2, <1>3, HeadIsUnlinked, QueueSame

\* The evicted node goes to the upload thread.
LEMMA HandOverMoves ==
  ASSUME Core, HandOver
  PROVE  /\ temp \in Nodes /\ Evicting = {temp} /\ Evicting' = {}
         /\ uploadQueue' = Append(uploadQueue, temp)
         /\ QueuedNodes' = QueuedNodes \cup {temp} /\ ~Repeats(uploadQueue')
         /\ uploadQueue' \in Seq(Nodes \cup {Quit})
         /\ UNCHANGED <<allocated, function>>
         /\ Chain' /\ Listed' = Listed /\ UNCHANGED <<head, next>>
         /\ Inserting = {} /\ Inserting' = {} /\ InHand' = InHand
<1>1. /\ writer = "hand" /\ writer' = "account"
      /\ uploadQueue' = Append(uploadQueue, temp)
      /\ UNCHANGED <<head, next, allocated, function, uploader, item>>
  BY DEF HandOver, Enqueue, heap, listVars
<1>2. /\ Evicting = {temp} /\ Evicting' = {}
      /\ Inserting = {} /\ Inserting' = {} /\ InHand' = InHand
  BY <1>1 DEF Inserting, Evicting, InHand
<1>3. temp \in Nodes /\ temp # Quit
  BY <1>1, NetCacheAssumption DEF Core, TypeOK, Stages
<1>4. /\ uploadQueue \in Seq(Nodes \cup {Quit}) /\ ~Repeats(uploadQueue)
      /\ temp \notin Elements(uploadQueue)
  BY <1>2, <1>3 DEF Core, TypeOK, Apart, QueuedNodes
<1>5. /\ Append(uploadQueue, temp) \in Seq(Nodes \cup {Quit})
      /\ Elements(Append(uploadQueue, temp)) = Elements(uploadQueue) \cup {temp}
      /\ ~Repeats(Append(uploadQueue, temp))
  BY <1>3, <1>4, ElementsAppend
<1>6. QueuedNodes' = QueuedNodes \cup {temp}
  <2>1. Elements(uploadQueue') = Elements(uploadQueue) \cup {temp}
    BY <1>1, <1>5
  <2> QED
    BY <1>3, <2>1 DEF QueuedNodes
<1>7. Chain' /\ Listed' = Listed
  BY <1>1, ListSame DEF Core
<1> QED
  BY <1>1, <1>2, <1>3, <1>5, <1>6, <1>7

\* The evicted node is freed.
LEMMA DiscardMoves ==
  ASSUME Core, Discard
  PROVE  /\ temp \in Nodes /\ Evicting = {temp} /\ Evicting' = {}
         /\ allocated' = allocated \ {temp}
         /\ function' = [function EXCEPT ![temp] = NoFunction]
         /\ Chain' /\ Listed' = Listed /\ UNCHANGED <<head, next>>
         /\ Inserting = {} /\ Inserting' = {} /\ InHand' = InHand
         /\ QueuedNodes' = QueuedNodes /\ ~Repeats(uploadQueue')
         /\ uploadQueue' \in Seq(Nodes \cup {Quit})
<1>1. /\ writer = "discard" /\ writer' = "account"
      /\ allocated' = allocated \ {temp}
      /\ function' = [function EXCEPT ![temp] = NoFunction]
      /\ UNCHANGED <<head, next, uploadQueue, uploader, item>>
  BY DEF Discard, Free, listVars, uploads
<1>2. /\ Evicting = {temp} /\ Evicting' = {}
      /\ Inserting = {} /\ Inserting' = {} /\ InHand' = InHand
  BY <1>1 DEF Inserting, Evicting, InHand
<1>3. temp \in Nodes
  BY <1>1 DEF Core, TypeOK, Stages
<1>4. Chain' /\ Listed' = Listed
  BY <1>1, ListSame DEF Core
<1> QED
  BY <1>1, <1>2, <1>3, <1>4, QueueSame

\* The upload thread takes a node out of the queue.
LEMMA ExtractMoves ==
  ASSUME Core, Extract, UNCHANGED diskVars
  PROVE  /\ item' \in Nodes /\ item' \in QueuedNodes /\ item' = Head(uploadQueue)
         /\ InHand = {} /\ InHand' = {item'}
         /\ uploadQueue # <<>> /\ uploadQueue' = Tail(uploadQueue)
         /\ QueuedNodes' = QueuedNodes \ {item'} /\ ~Repeats(uploadQueue')
         /\ uploadQueue' \in Seq(Nodes \cup {Quit})
         /\ UNCHANGED <<allocated, function>>
         /\ Chain' /\ Listed' = Listed /\ UNCHANGED <<head, next>>
         /\ Inserting' = Inserting /\ Evicting' = Evicting
<1>1. /\ uploader = "next" /\ uploader' = "remove"
      /\ uploadQueue # <<>> /\ item' = Head(uploadQueue) /\ item' # Quit
      /\ uploadQueue' = Tail(uploadQueue)
      /\ UNCHANGED <<allocated, function>>
  BY DEF Extract, heap
<1>2. UNCHANGED <<head, next, writer, newNode, temp>>
  BY DEF diskVars, listVars, writerVars, storeVars, freeVars
<1>3. /\ InHand = {} /\ InHand' = {item'}
      /\ Inserting' = Inserting /\ Evicting' = Evicting
  BY <1>1, <1>2 DEF Inserting, Evicting, InHand
<1>4. uploadQueue \in Seq(Nodes \cup {Quit}) /\ ~Repeats(uploadQueue)
  BY DEF Core, TypeOK, Apart
<1>5. /\ item' \in Elements(uploadQueue)
      /\ Tail(uploadQueue) \in Seq(Nodes \cup {Quit})
      /\ ~Repeats(Tail(uploadQueue))
      /\ Elements(Tail(uploadQueue)) = Elements(uploadQueue) \ {item'}
  BY <1>1, <1>4, ElementsTail
<1>6. item' \in Nodes /\ item' \in QueuedNodes
  BY <1>1, <1>4, <1>5, ElementsType DEF QueuedNodes
<1>7. QueuedNodes' = QueuedNodes \ {item'}
  <2>1. Elements(uploadQueue') = Elements(uploadQueue) \ {item'}
    BY <1>1, <1>5
  <2> QED
    BY <2>1 DEF QueuedNodes
<1>8. Chain' /\ Listed' = Listed
  BY <1>2, ListSame DEF Core
<1> QED
  BY <1>1, <1>2, <1>3, <1>5, <1>6, <1>7, <1>8

\* The upload thread frees its node.
LEMMA UploadedMoves ==
  ASSUME Core, LinkAndFree, UNCHANGED diskVars
  PROVE  /\ item \in Nodes /\ InHand = {item} /\ InHand' = {}
         /\ allocated' = allocated \ {item}
         /\ function' = [function EXCEPT ![item] = NoFunction]
         /\ Chain' /\ Listed' = Listed /\ UNCHANGED <<head, next>>
         /\ Inserting' = Inserting /\ Evicting' = Evicting
         /\ QueuedNodes' = QueuedNodes /\ ~Repeats(uploadQueue')
         /\ uploadQueue' \in Seq(Nodes \cup {Quit})
<1>1. /\ uploader = "link" /\ uploader' = "next"
      /\ allocated' = allocated \ {item}
      /\ function' = [function EXCEPT ![item] = NoFunction]
      /\ UNCHANGED uploadQueue
  BY DEF LinkAndFree, Free
<1>2. UNCHANGED <<head, next, writer, newNode, temp>>
  BY DEF diskVars, listVars, writerVars, storeVars, freeVars
<1>3. /\ InHand = {item} /\ InHand' = {}
      /\ Inserting' = Inserting /\ Evicting' = Evicting
  BY <1>1, <1>2 DEF Inserting, Evicting, InHand
<1>4. item \in Nodes
  BY <1>1 DEF Core, TypeOK, Stages
<1>5. Chain' /\ Listed' = Listed
  BY <1>2, ListSame DEF Core
<1> QED
  BY <1>1, <1>2, <1>3, <1>4, <1>5, QueueSame

-----------------------------------------------------------------------------
(***************************************************************************)
(* The types and the places of the nodes are kept                          *)
(***************************************************************************)

\* The pointers stay in order, and keep their types.
LEMMA ListStep ==
  ASSUME Core, [Next]_vars
  PROVE  /\ Chain' /\ ~Repeats(List')
         /\ head' \in Nodes \cup {NoNode}
         /\ next' \in [Nodes -> Nodes \cup {NoNode}]
<1>1. head \in Nodes \cup {NoNode} /\ next \in [Nodes -> Nodes \cup {NoNode}]
  BY DEF Core, TypeOK
<1>2. /\ Chain'
      /\ head' \in Nodes \cup {NoNode}
      /\ next' \in [Nodes -> Nodes \cup {NoNode}]
  BY <1>1, Steps, StillList, CreateMoves, LinkMoves, DropMoves, UnlinkMoves,
     HandOverMoves, DiscardMoves, ExtractMoves, UploadedMoves
<1>3. Chain' => ~Repeats(List')
  BY DEF Chain, Linked
<1> QED
  BY <1>2, <1>3

\* Every node keeps one owner.
LEMMA ApartStep ==
  ASSUME Core, [Next]_vars
  PROVE  Apart'
<1>1. Apart
  BY DEF Core
<1>2. CASE Still
  <2>1. /\ UNCHANGED allocated
        /\ Listed' = Listed /\ QueuedNodes' = QueuedNodes /\ Inserting' = Inserting
        /\ Evicting' = Evicting /\ InHand' = InHand /\ ~Repeats(uploadQueue')
    BY <1>2, StillNodes, StillList
  <2> QED
    BY <1>1, <2>1 DEF Apart
<1>3. CASE Fits \/ RoomMade
  BY <1>1, <1>3, CreateMoves DEF Apart
<1>4. CASE LinkNode
  BY <1>1, <1>4, LinkMoves DEF Apart
<1>5. CASE DropRestored
  BY <1>1, <1>5, DropMoves DEF Apart
<1>6. CASE Unlink
  BY <1>1, <1>6, UnlinkMoves DEF Apart
<1>7. CASE HandOver
  BY <1>1, <1>7, HandOverMoves DEF Apart
<1>8. CASE Discard
  BY <1>1, <1>8, DiscardMoves DEF Apart
<1>9. CASE Extract /\ UNCHANGED diskVars
  BY <1>1, <1>9, ExtractMoves DEF Apart
<1>10. CASE LinkAndFree /\ UNCHANGED diskVars
  BY <1>1, <1>10, UploadedMoves DEF Apart
<1> QED
  BY <1>2, <1>3, <1>4, <1>5, <1>6, <1>7, <1>8, <1>9, <1>10, Steps

\* The function of a node in use is a function.
LEMMA FunctionOfNode ==
  ASSUME Core
  PROVE  /\ \A n \in allocated : n \in Nodes /\ function[n] \in Functions
         /\ FunctionsOf(Listed) \subseteq Functions
<1>1. \A n \in allocated : n \in Nodes /\ function[n] \in Functions
  BY DEF Core, TypeOK, Contents
<1> QED
  BY <1>1 DEF Core, Apart, FunctionsOf

\* What the heap, the files and the upload thread's variables are is kept.
LEMMA NetTypes ==
  ASSUME Core, [Next]_vars
  PROVE  /\ allocated' \subseteq Nodes
         /\ function' \in [Nodes -> Functions \cup {NoFunction}]
         /\ files' \subseteq Functions
         /\ uploadQueue' \in Seq(Nodes \cup {Quit})
         /\ uploader' \in UploaderPCs
         /\ item' \in Nodes \cup {NoNode}
         /\ signalled' \in BOOLEAN
         /\ netList' \subseteq Functions
         /\ bucket' \subseteq Functions
<1> USE DEF UploaderPCs
<1>1. /\ allocated \subseteq Nodes
      /\ function \in [Nodes -> Functions \cup {NoFunction}]
      /\ files \subseteq Functions
      /\ uploader \in UploaderPCs
      /\ item \in Nodes \cup {NoNode}
      /\ signalled \in BOOLEAN
      /\ netList \subseteq Functions
      /\ bucket \subseteq Functions
      /\ stored \in Functions \cup {NoFunction}
  BY DEF Core, TypeOK
<1>2. /\ allocated' \subseteq Nodes
      /\ function' \in [Nodes -> Functions \cup {NoFunction}]
      /\ uploadQueue' \in Seq(Nodes \cup {Quit})
  <2>1. CASE Still
    BY <1>1, <2>1, StillNodes
  <2>2. CASE Fits \/ RoomMade
    BY <1>1, <2>2, CreateMoves
  <2>3. CASE LinkNode
    BY <1>1, <2>3, LinkMoves
  <2>4. CASE DropRestored
    BY <1>1, <2>4, DropMoves
  <2>5. CASE Unlink
    BY <1>1, <2>5, UnlinkMoves
  <2>6. CASE HandOver
    BY <1>1, <2>6, HandOverMoves
  <2>7. CASE Discard
    BY <1>1, <2>7, DiscardMoves
  <2>8. CASE Extract /\ UNCHANGED diskVars
    BY <1>1, <2>8, ExtractMoves
  <2>9. CASE LinkAndFree /\ UNCHANGED diskVars
    BY <1>1, <2>9, UploadedMoves
  <2> QED
    BY <2>1, <2>2, <2>3, <2>4, <2>5, <2>6, <2>7, <2>8, <2>9, Steps
<1>3. CASE UNCHANGED <<files, uploader, item, netList, bucket, signalled>>
  BY <1>1, <1>2, <1>3
<1>4. CASE Checkpoint
  <2>1. stored \in Functions
    BY <1>1, <1>4 DEF Core, Stages, Storing, Running, Checkpoint
  <2> QED
    BY <1>1, <1>2, <1>4, <2>1 DEF Checkpoint, uploads
<1>5. CASE Discard
  BY <1>1, <1>2, <1>5 DEF Discard, uploads
<1>6. CASE HandOver \/ SendQuit
  BY <1>1, <1>2, <1>6 DEF HandOver, SendQuit, Enqueue
<1>7. CASE UploaderSleep \/ UploaderWake \/ UploaderQuit
  BY <1>1, <1>2, <1>7 DEF UploaderSleep, UploaderWake, UploaderQuit
<1>8. CASE Extract /\ UNCHANGED diskVars
  BY <1>1, <1>2, <1>8, ExtractMoves DEF Extract
<1>9. CASE RemoveFile
  BY <1>1, <1>2, <1>9 DEF RemoveFile
<1>10. CASE UploadObject
  BY <1>1, <1>2, <1>10 DEF UploadObject
<1>11. CASE LinkAndFree
  <2>1. function[item] \in Functions
    BY <1>11, FunctionOfNode DEF Core, Apart, InHand, LinkAndFree
  <2> QED
    BY <1>1, <1>2, <1>11, <2>1 DEF LinkAndFree
<1>12. \/ UNCHANGED <<files, uploader, item, netList, bucket, signalled>>
       \/ Checkpoint \/ Discard \/ HandOver \/ SendQuit
       \/ UploaderSleep \/ UploaderWake \/ UploaderQuit
       \/ Extract /\ UNCHANGED diskVars
       \/ RemoveFile \/ UploadObject \/ LinkAndFree
  <2>1. ASSUME UNCHANGED netVars
        PROVE  UNCHANGED <<files, uploader, item, netList, bucket, signalled>>
    BY <2>1 DEF netVars, uploads
  <2>2. ASSUME UNCHANGED <<files, uploads>>
        PROVE  UNCHANGED <<files, uploader, item, netList, bucket, signalled>>
    BY <2>2 DEF uploads
  <2>3. CASE Fits \/ RoomMade \/ LinkNode \/ DropRestored \/ Unlink
    BY <2>1, <2>2, <2>3 DEF Fits, RoomMade, LinkNode, DropRestored, Unlink
  <2>4. CASE (\E f \in Functions : FindInDisk(f))
               \/ \E f \in Functions, r \in BOOLEAN : TakeContainer(f, r)
    BY <2>1, <2>4 DEF FindInDisk, TakeContainer
  <2>5. CASE TakeRequest \/ Retrieve \/ ReadBin \/ ReleaseNode
    BY <2>1, <2>5 DEF TakeRequest, Retrieve, ReadBin, ReleaseNode
  <2>6. CASE Look \/ MakeRoom \/ NoRoom \/ AskNetwork \/ Account
    BY <2>1, <2>6 DEF Look, MakeRoom, NoRoom, AskNetwork, Account
  <2>7. CASE EndPools \/ JoinUploader \/ UNCHANGED vars
    BY <2>1, <2>7 DEF EndPools, JoinUploader, vars
  <2> QED
    BY <2>3, <2>4, <2>5, <2>6, <2>7, Steps DEF Still
<1> QED
  BY <1>3, <1>4, <1>5, <1>6, <1>7, <1>8, <1>9, <1>10, <1>11, <1>12

\* What the writer, the reader and the main thread keep is of its type.
DiskTypes ==
  /\ inUse \subseteq Nodes
  /\ memory \in Int
  /\ writer \in WriterPCs
  /\ stored \in Functions \cup {NoFunction}
  /\ restored \in BOOLEAN
  /\ newNode \in Nodes \cup {NoNode}
  /\ temp \in Nodes \cup {NoNode}
  /\ tempSize \in Nat
  /\ freed \in Nat
  /\ reader \in ReaderPCs
  /\ wanted \in Functions \cup {NoFunction}
  /\ readNode \in Nodes \cup {NoNode}
  /\ requests \in Seq(Functions)
  /\ main \in {"running", "draining", "joining", "done"}
  /\ stores \in 0..MaxStores
  /\ reads \in 0..MaxReads
  /\ readOnce \subseteq Functions
  /\ misread \in BOOLEAN

\* The steps of the three keep the types.
LEMMA DiskTypesStep ==
  ASSUME Core, [Next]_vars
  PROVE  DiskTypes'
<1> USE DEF WriterPCs, ReaderPCs
<1>1. DiskTypes
  BY DEF Core, TypeOK, DiskTypes
<1>2. Listed \subseteq Nodes /\ FunctionsOf(Listed) \subseteq Functions
  BY ListFacts, FunctionOfNode DEF Core
<1>3. MaxStores \in Nat /\ MaxReads \in Nat /\ Stale \subseteq Nat
      /\ \A f \in Functions : Size[f] \in Nat
  BY DiskCacheAssumption, NetCacheAssumption, FS_CardinalityType
<1>4. CASE \E f \in Functions : FindInDisk(f)
  <2>1. PICK f \in Functions : FindInDisk(f)
    BY <1>4
  <2>2. /\ reads' = reads \/ (reads < MaxReads /\ reads' = reads + 1)
        /\ requests' = requests \/ requests' = Append(requests, f)
    BY <2>1 DEF FindInDisk
  <2>3. reads' \in 0..MaxReads
    <3>1. reads \in 0..MaxReads
      BY <1>1 DEF DiskTypes
    <3> QED
      BY <1>3, <2>2, <3>1
  <2>4. requests' \in Seq(Functions)
    <3>1. requests \in Seq(Functions)
      BY <1>1 DEF DiskTypes
    <3> QED
      BY <2>2, <3>1, AppendProperties
  <2> QED
    BY <1>1, <2>1, <2>3, <2>4 DEF DiskTypes, FindInDisk, writerVars, storeVars, freeVars
<1>5. CASE \E f \in Functions, r \in BOOLEAN : TakeContainer(f, r)
  BY <1>1, <1>3, <1>5 DEF DiskTypes, TakeContainer, listVars, freeVars, readerVars
<1>6. CASE TakeRequest
  BY <1>1, <1>6 DEF DiskTypes, TakeRequest, listVars, writerVars, storeVars, freeVars
<1>7. CASE Retrieve
  <2>1. wanted \in FunctionsOf(Listed) => NodeOf(wanted) \in Nodes
    BY <1>2, NodeIsFound
  <2> QED
    BY <1>1, <1>7, <2>1 DEF DiskTypes, Retrieve, writerVars, storeVars, freeVars
<1>8. CASE ReadBin
  BY <1>1, <1>8 DEF DiskTypes, ReadBin, listVars, writerVars, storeVars, freeVars
<1>9. CASE ReleaseNode
  <2>1. wanted \in Functions
    BY <1>1, <1>9 DEF ReleaseNode, MayRelease, Core, Stages, DiskTypes
  <2> QED
    BY <1>1, <1>9, <2>1 DEF DiskTypes, ReleaseNode, writerVars, storeVars, freeVars
<1>10. CASE Look
  <2>1. /\ UNCHANGED <<inUse, memory, newNode, stores, freeVars, readerVars, main>>
        /\ writer' \in {"insert", "idle"}
        /\ stored' \in {stored, NoFunction}
        /\ restored' \in {restored, FALSE}
    BY <1>10 DEF Look, StoreEnds
  <2>2. /\ UNCHANGED <<temp, tempSize, freed, misread>>
        /\ UNCHANGED <<reader, wanted, readNode, requests, reads, readOnce>>
    BY <2>1 DEF freeVars, readerVars
  <2>3. writer' \in WriterPCs /\ stored' \in Functions \cup {NoFunction}
        /\ restored' \in BOOLEAN
    BY <1>1, <2>1 DEF DiskTypes
  <2> QED
    BY <1>1, <2>1, <2>2, <2>3 DEF DiskTypes
<1>11. CASE MakeRoom \/ NoRoom
  <2>1. CASE MakeRoom
    BY <1>1, <2>1 DEF DiskTypes, MakeRoom, listVars, storeVars, readerVars
  <2>2. CASE NoRoom
    BY <1>1, <2>2 DEF DiskTypes, NoRoom, StoreEnds, listVars, readerVars
  <2> QED
    BY <1>11, <2>1, <2>2
<1>12. CASE Checkpoint
  BY <1>1, <1>12 DEF DiskTypes, Checkpoint, listVars, storeVars, freeVars, readerVars
<1>13. CASE AskNetwork
  BY <1>1, <1>13 DEF DiskTypes, AskNetwork, listVars, storeVars, freeVars, readerVars
<1>14. CASE Account
  <2>1. Readable \subseteq Nat
    BY <1>1, <1>3 DEF Readable, DiskTypes
  <2> QED
    BY <1>1, <1>14, <2>1 DEF DiskTypes, Account, storeVars, readerVars
<1>15. CASE UNCHANGED diskVars
  BY <1>1, <1>15 DEF DiskTypes, diskVars, listVars, writerVars, storeVars, freeVars, readerVars
<1>16. CASE EndPools \/ SendQuit
  BY <1>1, <1>16 DEF DiskTypes, EndPools, SendQuit, listVars, storeVars, readerVars
<1>17. CASE JoinUploader
  BY <1>1, <1>17 DEF DiskTypes, JoinUploader, listVars, writerVars, storeVars, freeVars,
                     readerVars
<1>18. CASE Fits \/ RoomMade
  <2>1. newNode' \in Nodes
    BY <1>18, CreateMoves
  <2> QED
    BY <1>1, <1>18, <2>1 DEF DiskTypes, Fits, RoomMade, CreateNode, listVars, freeVars,
                             readerVars
<1>19. CASE LinkNode
  <2>1. stored \in Functions
    BY <1>1, <1>19 DEF LinkNode, Core, Stages, Storing, Running, DiskTypes
  <2>2. memory' \in Int
    BY <1>1, <1>3, <1>19, <2>1 DEF LinkNode, Charge, DiskTypes
  <2> QED
    BY <1>1, <1>19, <2>2 DEF DiskTypes, LinkNode, StoreEnds, freeVars, readerVars
<1>20. CASE DropRestored
  BY <1>1, <1>20 DEF DiskTypes, DropRestored, StoreEnds, listVars, freeVars, readerVars
<1>21. CASE Unlink
  <2>1. head \in Nodes /\ function[head] \in Functions
    BY <1>21, UnlinkMoves, FunctionOfNode DEF Core, Apart
  <2> QED
    BY <1>1, <1>3, <1>21, <2>1 DEF DiskTypes, Unlink, storeVars, readerVars
<1>22. CASE HandOver \/ Discard
  BY <1>1, <1>22 DEF DiskTypes, HandOver, Discard, listVars, storeVars, freeVars, readerVars
<1>23. CASE UNCHANGED vars
  BY <1>1, <1>23 DEF DiskTypes, vars, listVars, writerVars, storeVars, freeVars, readerVars
<1> QED
  BY <1>4, <1>5, <1>6, <1>7, <1>8, <1>9, <1>10, <1>11, <1>12, <1>13, <1>14, <1>15, <1>16,
     <1>17, <1>18, <1>19, <1>20, <1>21, <1>22, <1>23, Steps DEF Still

\* All types together.
LEMMA TypesStep ==
  ASSUME Core, [Next]_vars
  PROVE  TypeOK'
BY ListStep, NetTypes, DiskTypesStep DEF TypeOK, DiskTypes

\* The stages of the threads.
LEMMA StagesStep ==
  ASSUME Core, [Next]_vars
  PROVE  Stages'
<1> USE DEF Storing, Running, Locked
<1>1. /\ Stages
      /\ writer \in WriterPCs /\ reader \in ReaderPCs /\ uploader \in UploaderPCs
      /\ main \in {"running", "draining", "joining", "done"}
      /\ requests \in Seq(Functions)
      /\ NoNode \notin Nodes /\ NoFunction \notin Functions
  BY NetCacheAssumption DEF Core, TypeOK
<1> USE DEF WriterPCs, ReaderPCs, UploaderPCs
<1>4. CASE \E f \in Functions : FindInDisk(f)
  BY <1>1, <1>4 DEF Stages, FindInDisk, writerVars, storeVars, freeVars, netVars, uploads
<1>5. CASE \E f \in Functions, r \in BOOLEAN : TakeContainer(f, r)
  BY <1>1, <1>5 DEF Stages, TakeContainer, freeVars, readerVars, netVars, uploads
<1>6. CASE TakeRequest
  <2>1. wanted' \in Functions
    BY <1>1, <1>6, HeadTailProperties DEF TakeRequest
  <2> QED
    BY <1>1, <1>6, <2>1 DEF Stages, TakeRequest, writerVars, storeVars, freeVars, netVars,
                            uploads
<1>7. CASE Retrieve
  <2>1. wanted \in FunctionsOf(Listed) => NodeOf(wanted) \in Nodes
    BY NodeIsFound, ListFacts DEF Core
  <2> QED
    BY <1>1, <1>7, <2>1 DEF Stages, Retrieve, writerVars, storeVars, freeVars, netVars, uploads
<1>8. CASE ReadBin \/ ReleaseNode
  BY <1>1, <1>8 DEF Stages, ReadBin, ReleaseNode, MayRelease, writerVars, storeVars, freeVars,
                    netVars, uploads
<1>10. CASE Look
  BY <1>1, <1>10 DEF Stages, Look, StoreEnds, freeVars, readerVars, netVars, uploads
<1>11. CASE MakeRoom
  BY <1>1, <1>11 DEF Stages, MakeRoom, storeVars, readerVars, netVars, uploads
<1>12. CASE NoRoom
  BY <1>1, <1>12 DEF Stages, NoRoom, Finished, StoreEnds, readerVars, netVars, uploads
<1>13. CASE Checkpoint
  BY <1>1, <1>13 DEF Stages, Checkpoint, storeVars, freeVars, readerVars, uploads
<1>14. CASE AskNetwork
  BY <1>1, <1>14 DEF Stages, AskNetwork, storeVars, freeVars, readerVars, netVars, uploads
<1>15. CASE Account
  BY <1>1, <1>15 DEF Stages, Account, storeVars, readerVars, netVars, uploads
<1>16. CASE (UploaderSleep \/ UploaderWake \/ UploaderQuit \/ RemoveFile \/ UploadObject)
               /\ UNCHANGED diskVars
  BY <1>1, <1>16 DEF Stages, UploaderSleep, UploaderWake, UploaderQuit, RemoveFile,
                     UploadObject, diskVars, writerVars, storeVars, freeVars, readerVars
<1>17. CASE Extract /\ UNCHANGED diskVars
  <2>1. item' \in Nodes /\ uploader' = "remove"
    BY <1>17, ExtractMoves DEF Extract
  <2> QED
    BY <1>1, <1>17, <2>1 DEF Stages, diskVars, writerVars, storeVars, freeVars, readerVars
<1>18. CASE LinkAndFree /\ UNCHANGED diskVars
  BY <1>1, <1>18 DEF Stages, LinkAndFree, diskVars, writerVars, storeVars, freeVars, readerVars
<1>19. CASE EndPools
  BY <1>1, <1>19 DEF Stages, EndPools, storeVars, readerVars, netVars, uploads
<1>20. CASE SendQuit
  BY <1>1, <1>20 DEF Stages, SendQuit, Finished, storeVars, readerVars
<1>21. CASE JoinUploader
  BY <1>1, <1>21 DEF Stages, JoinUploader, writerVars, storeVars, freeVars, readerVars,
                     netVars, uploads
<1>22. CASE Fits \/ RoomMade
  <2>1. newNode' \in Nodes /\ writer' = "checkpoint" /\ Running
    BY <1>22, CreateMoves
  <2>2. UNCHANGED <<stored, temp, tempSize, reader, wanted, readNode, requests, main, item,
                    uploader>>
        /\ writer \in {"insert", "evict"}
    BY <1>22 DEF Fits, RoomMade, Finished, CreateNode, freeVars, readerVars, uploads
  <2> QED
    BY <1>1, <2>1, <2>2 DEF Stages
<1>23. CASE LinkNode \/ DropRestored
  BY <1>1, <1>23 DEF Stages, LinkNode, DropRestored, StoreEnds, freeVars, readerVars, netVars,
                     uploads
<1>24. CASE Unlink
  <2>1. temp' \in Nodes
    BY <1>24, UnlinkMoves
  <2> QED
    BY <1>1, <1>24, <2>1 DEF Stages, Unlink, MayUnlink, MustEvict, storeVars, readerVars,
                             netVars, uploads
<1>25. CASE HandOver \/ Discard
  BY <1>1, <1>25 DEF Stages, HandOver, Discard, Enqueue, storeVars, freeVars, readerVars,
                     uploads
<1>26. CASE UNCHANGED vars
  BY <1>1, <1>26 DEF Stages, vars, writerVars, storeVars, freeVars, readerVars, netVars, uploads
<1> QED
  BY <1>4, <1>5, <1>6, <1>7, <1>8, <1>10, <1>11, <1>12, <1>13, <1>14, <1>15, <1>16,
     <1>17, <1>18, <1>19, <1>20, <1>21, <1>22, <1>23, <1>24, <1>25, <1>26, Steps DEF Still

\* What a node of the writer is for stays, as long as the writer has it.
LEMMA StillFields ==
  ASSUME Core, Still
  PROVE  /\ Inserting' # {} => UNCHANGED <<newNode, stored>>
         /\ Evicting' # {} => UNCHANGED <<temp, tempSize>>
<1>1. CASE \E f \in Functions : FindInDisk(f)
  BY <1>1 DEF FindInDisk, writerVars, storeVars, freeVars, netVars, uploads
<1>2. CASE \E f \in Functions, r \in BOOLEAN : TakeContainer(f, r)
  BY <1>2 DEF TakeContainer, Inserting, freeVars, netVars, uploads
<1>3. CASE TakeRequest \/ Retrieve \/ ReadBin \/ ReleaseNode
  BY <1>3 DEF TakeRequest, Retrieve, ReadBin, ReleaseNode, writerVars, storeVars, freeVars,
              netVars, uploads
<1>4. CASE Look
  BY <1>4 DEF Look, StoreEnds, Inserting, freeVars, netVars, uploads
<1>5. CASE MakeRoom
  BY <1>5 DEF MakeRoom, storeVars, netVars, uploads
<1>6. CASE NoRoom
  BY <1>6 DEF NoRoom, StoreEnds, Inserting, netVars, uploads
<1>7. CASE Checkpoint
  BY <1>7 DEF Checkpoint, storeVars, freeVars, uploads
<1>8. CASE AskNetwork
  BY <1>8 DEF AskNetwork, storeVars, freeVars, netVars, uploads
<1>9. CASE Account
  BY <1>9 DEF Account, Evicting, storeVars, netVars, uploads
<1>10. CASE (UploaderSleep \/ UploaderWake \/ UploaderQuit \/ RemoveFile \/ UploadObject)
               /\ UNCHANGED diskVars
  BY <1>10 DEF UploaderSleep, UploaderWake, UploaderQuit, RemoveFile, UploadObject, diskVars,
               writerVars, storeVars, freeVars
<1>11. CASE EndPools
  BY <1>11 DEF EndPools, storeVars, netVars, uploads
<1>12. CASE SendQuit \/ JoinUploader
  BY <1>12 DEF SendQuit, JoinUploader, writerVars, storeVars, freeVars, netVars, uploads
<1>13. CASE UNCHANGED vars
  BY <1>13 DEF vars, writerVars, storeVars, freeVars, netVars, uploads
<1> QED
  BY <1>1, <1>2, <1>3, <1>4, <1>5, <1>6, <1>7, <1>8, <1>9, <1>10, <1>11, <1>12, <1>13 DEF Still

\* The nodes keep what they are for.
LEMMA ContentsStep ==
  ASSUME Core, [Next]_vars
  PROVE  Contents'
<1>1. /\ Contents /\ allocated \subseteq Nodes
      /\ function \in [Nodes -> Functions \cup {NoFunction}]
      /\ NoFunction \notin Functions
  BY NetCacheAssumption DEF Core, TypeOK
<1>2. /\ Inserting \subseteq allocated /\ Evicting \subseteq allocated
      /\ InHand \subseteq allocated /\ Listed \subseteq allocated
      /\ Inserting \cap InHand = {} /\ Evicting \cap InHand = {}
      /\ Inserting \cap Evicting = {}
  BY DEF Core, Apart
<1>3. CASE Still
  <2>1. /\ UNCHANGED <<allocated, function>>
        /\ Inserting' = Inserting /\ Evicting' = Evicting
    BY <1>3, StillNodes
  <2> QED
    BY <1>1, <1>3, <2>1, StillFields DEF Contents
<1>4. CASE Fits \/ RoomMade
  <2>1. stored # NoFunction
    BY <1>4, CreateMoves DEF Core, Stages, Fits, RoomMade, Finished, MustEvict, Running
  <2>2. stored' = stored
    BY <1>4 DEF Fits, RoomMade
  <2> QED
    BY <1>1, <1>2, <1>4, <2>1, <2>2, CreateMoves DEF Contents
<1>5. CASE LinkNode
  BY <1>1, <1>5, LinkMoves DEF Contents
<1>6. CASE DropRestored
  BY <1>1, <1>2, <1>6, DropMoves DEF Contents
<1>7. CASE Unlink
  <2>1. tempSize' = Size[function[head]]
    BY <1>7 DEF Unlink
  <2> QED
    BY <1>1, <1>7, <2>1, UnlinkMoves DEF Contents
<1>8. CASE HandOver
  BY <1>1, <1>8, HandOverMoves DEF Contents
<1>9. CASE Discard
  BY <1>1, <1>2, <1>9, DiscardMoves DEF Contents
<1>10. CASE Extract /\ UNCHANGED diskVars
  <2>1. UNCHANGED <<newNode, stored, temp, tempSize>>
    BY <1>10 DEF diskVars, writerVars, storeVars, freeVars
  <2> QED
    BY <1>1, <1>10, <2>1, ExtractMoves DEF Contents
<1>11. CASE LinkAndFree /\ UNCHANGED diskVars
  <2>1. UNCHANGED <<newNode, stored, temp, tempSize>>
    BY <1>11 DEF diskVars, writerVars, storeVars, freeVars
  <2>2. /\ Inserting # {} => newNode \in Inserting
        /\ Evicting # {} => temp \in Evicting
    BY DEF Inserting, Evicting
  <2> QED
    BY <1>1, <1>2, <1>11, <2>1, <2>2, UploadedMoves DEF Contents
<1> QED
  BY <1>3, <1>4, <1>5, <1>6, <1>7, <1>8, <1>9, <1>10, <1>11, Steps

\* Which steps touch the queue or end something.
LEMMA QueueSteps ==
  ASSUME Core, [Next]_vars
  PROVE  \/ /\ UNCHANGED uploadQueue /\ Closed' = Closed
            /\ uploader' = "exited" <=> uploader = "exited"
            /\ main' = "done" => main = "done"
         \/ HandOver \/ SendQuit \/ JoinUploader
         \/ Extract /\ UNCHANGED diskVars
         \/ UploaderQuit /\ UNCHANGED diskVars
<1>1. CASE (\E f \in Functions : FindInDisk(f))
             \/ \E f \in Functions, r \in BOOLEAN : TakeContainer(f, r)
  BY <1>1 DEF FindInDisk, TakeContainer, netVars, uploads, Closed
<1>2. CASE TakeRequest \/ Retrieve \/ ReadBin \/ ReleaseNode
  BY <1>2 DEF TakeRequest, Retrieve, ReadBin, ReleaseNode, netVars, uploads, Closed
<1>3. CASE Look \/ MakeRoom \/ NoRoom \/ AskNetwork \/ Account
  BY <1>3 DEF Look, MakeRoom, NoRoom, AskNetwork, Account, netVars, uploads, Closed
<1>4. CASE Checkpoint \/ Fits \/ RoomMade \/ DropRestored \/ Discard
  BY <1>4 DEF Checkpoint, Fits, RoomMade, DropRestored, Discard, uploads, Closed
<1>5. CASE LinkNode \/ Unlink
  BY <1>5 DEF LinkNode, Unlink, netVars, uploads, readerVars, Closed
<1>6. CASE (UploaderSleep \/ UploaderWake \/ RemoveFile \/ UploadObject \/ LinkAndFree)
             /\ UNCHANGED diskVars
  BY <1>6 DEF UploaderSleep, UploaderWake, RemoveFile, UploadObject, LinkAndFree, diskVars,
              Closed
<1>7. CASE EndPools
  BY <1>7 DEF EndPools, netVars, uploads, Closed
<1>8. CASE UNCHANGED vars
  BY <1>8 DEF vars, netVars, uploads, Closed
<1> QED
  BY <1>1, <1>2, <1>3, <1>4, <1>5, <1>6, <1>7, <1>8, Steps DEF Still

\* The "quit" stays where it is.
LEMMA QuitStep ==
  ASSUME Core, [Next]_vars
  PROVE  QuitIsLast'
<1>1. /\ QuitIsLast /\ uploadQueue \in Seq(Nodes \cup {Quit})
      /\ Len(uploadQueue) \in Nat /\ DOMAIN uploadQueue = 1..Len(uploadQueue)
  BY LenProperties DEF Core, TypeOK
<1>2. CASE /\ UNCHANGED uploadQueue /\ Closed' = Closed
           /\ uploader' = "exited" <=> uploader = "exited"
           /\ main' = "done" => main = "done"
  BY <1>1, <1>2 DEF QuitIsLast
<1>3. CASE HandOver
  <2>1. /\ temp # Quit /\ uploadQueue' = Append(uploadQueue, temp)
        /\ UNCHANGED <<uploader, main>> /\ ~Closed
    BY <1>3, HandOverMoves, NetCacheAssumption
       DEF HandOver, readerVars, Core, Stages, Locked, Running, Closed
  <2>2. /\ DOMAIN uploadQueue' = 1..Len(uploadQueue) + 1
        /\ \A i \in 1..Len(uploadQueue) : uploadQueue'[i] = uploadQueue[i]
        /\ uploadQueue'[Len(uploadQueue) + 1] = temp
        /\ Len(uploadQueue') = Len(uploadQueue) + 1
    BY <1>1, <2>1, AppendProperties
  <2>3. ~Closed' /\ uploader # "exited" /\ main' # "done"
    BY <1>1, <2>1 DEF QuitIsLast, Closed
  <2> QED
    BY <1>1, <2>1, <2>2, <2>3 DEF QuitIsLast
<1>4. CASE SendQuit
  <2>1. /\ uploadQueue' = Append(uploadQueue, Quit)
        /\ uploader' = uploader /\ main' = "joining" /\ ~Closed
    BY <1>4, QuitIsSent DEF SendQuit, Closed
  <2>2. /\ DOMAIN uploadQueue' = 1..Len(uploadQueue) + 1
        /\ \A i \in 1..Len(uploadQueue) : uploadQueue'[i] = uploadQueue[i]
        /\ uploadQueue'[Len(uploadQueue) + 1] = Quit
        /\ Len(uploadQueue') = Len(uploadQueue) + 1
    BY <1>1, <2>1, AppendProperties
  <2>3. Closed' /\ uploader # "exited" /\ uploadQueue' # <<>>
    BY <1>1, <2>1, <2>2, EmptySeq DEF QuitIsLast, Closed
  <2> QED
    BY <1>1, <2>1, <2>2, <2>3 DEF QuitIsLast
<1>5. CASE JoinUploader
  BY <1>1, <1>5 DEF JoinUploader, netVars, uploads, QuitIsLast, Closed
<1>6. CASE Extract /\ UNCHANGED diskVars
  <2>1. /\ uploadQueue # <<>> /\ uploadQueue[1] # Quit
        /\ uploadQueue' = Tail(uploadQueue)
        /\ uploader = "next" /\ uploader' = "remove" /\ main' = main
    BY <1>1, <1>6, HeadTailProperties DEF Extract, diskVars
  <2>2. /\ Len(uploadQueue) # 0
        /\ DOMAIN uploadQueue' = 1..Len(uploadQueue) - 1
        /\ \A i \in 1..Len(uploadQueue) - 1 : uploadQueue'[i] = uploadQueue[i + 1]
        /\ Len(uploadQueue') = Len(uploadQueue) - 1
    BY <1>1, <2>1, HeadTailProperties, EmptySeq
  <2>3. Closed' = Closed /\ main # "done"
    BY <1>1, <2>1 DEF QuitIsLast, Closed
  <2>4. Closed => Len(uploadQueue) # 1
    BY <1>1, <2>1, <2>2 DEF QuitIsLast
  <2>5. Closed' => uploadQueue' # <<>>
    BY <1>1, <2>2, <2>3, <2>4
  <2>6. ASSUME NEW i \in 1..Len(uploadQueue) - 1
        PROVE  (uploadQueue'[i] = Quit) <=> (i = Len(uploadQueue') /\ Closed')
    <3>1. i + 1 \in DOMAIN uploadQueue /\ uploadQueue'[i] = uploadQueue[i + 1]
      BY <1>1, <2>2
    <3>2. (uploadQueue[i + 1] = Quit) <=> (i + 1 = Len(uploadQueue) /\ Closed)
      BY <1>1, <3>1 DEF QuitIsLast
    <3>3. (i + 1 = Len(uploadQueue)) <=> (i = Len(uploadQueue'))
      BY <1>1, <2>2
    <3>4. Closed' <=> Closed
      BY <2>3
    <3> QED
      BY <3>1, <3>2, <3>3, <3>4, Zenon
  <2> QED
    BY <2>1, <2>2, <2>3, <2>5, <2>6 DEF QuitIsLast
<1>7. CASE UploaderQuit /\ UNCHANGED diskVars
  <2>1. /\ uploadQueue # <<>> /\ uploadQueue[1] = Quit
        /\ uploadQueue' = uploadQueue /\ uploader' = "exited" /\ main' = main
    BY <1>1, <1>7, HeadTailProperties DEF UploaderQuit, diskVars
  <2>2. 1 \in DOMAIN uploadQueue
    BY <1>1, <2>1, EmptySeq
  <2>3. Len(uploadQueue) = 1 /\ Closed
    BY <1>1, <2>1, <2>2 DEF QuitIsLast
  <2>4. uploadQueue = <<Quit>>
    BY <1>1, <2>1, <2>3
  <2> QED
    BY <1>1, <2>1, <2>3, <2>4 DEF QuitIsLast, Closed
<1> QED
  BY <1>2, <1>3, <1>4, <1>5, <1>6, <1>7, QueueSteps

\* Every node is a store.
LEMMA StoresStep ==
  ASSUME Core, [Next]_vars
  PROVE  StoresCounted'
<1> USE DEF Pending, Running, Locked
<1>1. IsFiniteSet(allocated)
  BY NetCacheAssumption, FS_Subset DEF Core, TypeOK
<1>2. /\ Cardinality(allocated) \in Nat /\ stores \in Nat
      /\ Cardinality(allocated) + (IF Pending THEN 1 ELSE 0) <= stores
  BY <1>1, FS_CardinalityType, DiskCacheAssumption, NetCacheAssumption
     DEF Core, TypeOK, StoresCounted
<1>3. ASSUME NEW n
      PROVE  /\ Cardinality(allocated \ {n}) \in Nat
             /\ Cardinality(allocated \ {n}) <= Cardinality(allocated)
  BY <1>1, FS_Subset, FS_CardinalityType
<1>4. CASE Fits \/ RoomMade
  <2>1. /\ Malloc \notin allocated /\ allocated' = allocated \cup {Malloc}
        /\ writer' = "checkpoint" /\ Pending
    BY <1>4, CreateMoves
  <2>2. Cardinality(allocated') = Cardinality(allocated) + 1
    BY <1>1, <2>1, FS_AddElement
  <2>3. stores' = stores
    BY <1>4 DEF Fits, RoomMade
  <2> QED
    BY <1>2, <2>1, <2>2, <2>3 DEF StoresCounted
<1>5. CASE DropRestored
  BY <1>2, <1>3, <1>5 DEF DropRestored, Free, StoreEnds, StoresCounted
<1>6. CASE Discard
  BY <1>2, <1>3, <1>6 DEF Discard, Free, storeVars, readerVars, StoresCounted
<1>7. CASE LinkAndFree /\ UNCHANGED diskVars
  BY <1>2, <1>3, <1>7 DEF LinkAndFree, Free, diskVars, writerVars, storeVars, StoresCounted
<1>8. CASE LinkNode \/ Unlink \/ HandOver
  BY <1>2, <1>8 DEF LinkNode, Unlink, MayUnlink, MustEvict, HandOver, StoreEnds, netVars, heap,
                    storeVars, readerVars, StoresCounted
<1>9. CASE Extract /\ UNCHANGED diskVars
  BY <1>2, <1>9 DEF Extract, heap, diskVars, writerVars, storeVars, StoresCounted
<1>10. CASE Still
  <2>1. allocated' = allocated
    BY <1>10, StillNodes
  <2>2. CASE \E f \in Functions, r \in BOOLEAN : TakeContainer(f, r)
    BY <1>2, <2>1, <2>2 DEF TakeContainer, StoresCounted
  <2>3. CASE stores' = stores /\ (Pending' => Pending)
    BY <1>2, <2>1, <2>3 DEF StoresCounted
  <2>4. CASE (\E f \in Functions : FindInDisk(f)) \/ TakeRequest \/ Retrieve \/ ReadBin
               \/ ReleaseNode
    BY <2>3, <2>4 DEF FindInDisk, TakeRequest, Retrieve, ReadBin, ReleaseNode, writerVars,
                      storeVars
  <2>5. CASE Look \/ MakeRoom \/ NoRoom \/ Checkpoint
    BY <2>3, <2>5 DEF Look, MakeRoom, NoRoom, Checkpoint, StoreEnds, storeVars
  <2>6. CASE AskNetwork \/ Account
    BY <2>3, <2>6 DEF AskNetwork, Account, storeVars
  <2>7. CASE EndPools \/ SendQuit \/ JoinUploader
    BY <2>3, <2>7 DEF EndPools, SendQuit, JoinUploader, writerVars, storeVars
  <2>8. CASE UNCHANGED diskVars \/ UNCHANGED vars
    BY <2>3, <2>8 DEF vars, diskVars, writerVars, storeVars
  <2> QED
    BY <1>10, <2>2, <2>4, <2>5, <2>6, <2>7, <2>8 DEF Still
<1> QED
  BY <1>4, <1>5, <1>6, <1>7, <1>8, <1>9, <1>10, Steps

\* All of it holds at the start, with an empty list.
LEMMA CoreInit ==
  ASSUME Init
  PROVE  Core
<1>1. head = NoNode /\ next = [n \in Nodes |-> NoNode]
  BY DEF Init
<1>2. Linked(head, next, <<>>)
  BY <1>1, LinkedEmpty
<1>3. List = <<>> /\ Chain
  BY <1>2, ListIsRead DEF List, Chain
<1>4. Listed = {} /\ ~Repeats(List)
  BY <1>3, ElementsEmpty DEF Listed, Repeats
<1>5. uploadQueue = <<>> /\ QueuedNodes = {} /\ ~Repeats(uploadQueue)
  BY ElementsEmpty DEF Init, NetInit, QueuedNodes, Repeats
<1>6. DiskTypes
  <2>1. MaxStores \in Nat /\ MaxReads \in Nat /\ DiskSize \in Int
    BY DiskCacheAssumption, NetCacheAssumption, FS_CardinalityType
  <2>2. /\ memory \in Int /\ tempSize \in Nat /\ freed \in Nat
        /\ stores \in 0..MaxStores /\ reads \in 0..MaxReads
    BY <2>1 DEF Init
  <2>3. requests \in Seq(Functions)
    BY EmptySeq DEF Init
  <2> QED
    BY <2>2, <2>3 DEF Init, DiskTypes, WriterPCs, ReaderPCs
<1>7. TypeOK
  BY <1>1, <1>4, <1>5, <1>6, EmptySeq, NetCacheAssumption
     DEF Init, NetInit, TypeOK, DiskTypes, UploaderPCs
<1>8. Stages
  BY DEF Init, NetInit, Stages, Storing, Running, Locked
<1>9. Inserting = {} /\ Evicting = {} /\ InHand = {} /\ allocated = {}
  BY DEF Init, NetInit, Inserting, Evicting, InHand
<1>10. Contents
  BY <1>9 DEF Init, NetInit, Contents
<1>11. Apart
  BY <1>4, <1>5, <1>9 DEF Apart
<1>12. QuitIsLast
  BY DEF Init, NetInit, QuitIsLast, Closed
<1>13. StoresCounted
  BY <1>9, FS_EmptySet DEF Init, StoresCounted, Pending, Locked
<1> QED
  BY <1>3, <1>7, <1>8, <1>10, <1>11, <1>12, <1>13 DEF Core

\* Types, stages and places hold in every state.
THEOREM CoreHolds == Spec => []Core
<1>1. Init => Core
  BY CoreInit
<1>2. Core /\ [Next]_vars => Core'
  BY ListStep, TypesStep, StagesStep, ContentsStep, ApartStep, QuitStep, StoresStep DEF Core
<1> QED
  BY <1>1, <1>2, PTL DEF Spec

\* The variables of the disk cache keep their types, and the pointers never tie
\* the list into a loop.
THEOREM DiskTypesHold == Spec => []TypeOK
<1>1. Core => TypeOK
  BY DEF Core
<1> QED
  BY <1>1, CoreHolds, PTL

\* The five places make up the heap, and no two of them share a node.
LEMMA ApartIsOneOwner ==
  ASSUME Core
  PROVE  NodesHaveOneOwner
<1>1. Apart
  BY DEF Core
<1>2. /\ DOMAIN Owned = {"listed", "queued", "inserting", "evicting", "uploading"}
      /\ Owned["listed"] = Listed /\ Owned["queued"] = QueuedNodes
      /\ Owned["inserting"] = Inserting /\ Owned["evicting"] = Evicting
      /\ Owned["uploading"] = InHand
  BY DEF Owned
<1>3. UNION {Owned[a] : a \in DOMAIN Owned}
        = Listed \cup QueuedNodes \cup Inserting \cup Evicting \cup InHand
  BY <1>2
<1>4. \A a, b \in DOMAIN Owned : a # b => Owned[a] \cap Owned[b] = {}
  BY <1>1, <1>2 DEF Apart
<1> QED
  BY <1>1, <1>3, <1>4 DEF NodesHaveOneOwner, Apart

\* No node is leaked, freed twice or used by two threads.
THEOREM OneOwner == Spec => []NodesHaveOneOwner
BY CoreHolds, ApartIsOneOwner, PTL

-----------------------------------------------------------------------------
(***************************************************************************)
(* The reader and the functions in the list                                *)
(***************************************************************************)

\* What a step does to the nodes in the list and in the queue.
LEMMA NodesStep ==
  ASSUME Core, [Next]_vars
  PROVE  /\ \A n \in Listed : \/ n \in Listed'
                              \/ Unlink /\ n = head /\ n \in Evicting'
         /\ \A n \in Listed' : \/ n \in Listed
                               \/ LinkNode /\ n = newNode /\ function[n] = stored
         /\ \A n \in QueuedNodes' : n \in QueuedNodes \/ (HandOver /\ n = temp)
         /\ \A n \in Listed \cup Listed' \cup QueuedNodes' \cup Evicting' \cup InHand' :
              function'[n] = function[n]
<1>1. /\ \A n \in Listed \cup QueuedNodes \cup Evicting \cup InHand : n \notin Inserting
      /\ \A n \in Listed \cup QueuedNodes \cup InHand : n \notin Evicting
      /\ \A n \in Listed \cup QueuedNodes \cup Evicting : n \notin InHand
      /\ \A n \in Listed \cup QueuedNodes \cup Evicting \cup InHand :
           n \in allocated /\ n \in Nodes
      /\ Inserting # {} => function[newNode] = stored
      /\ function \in [Nodes -> Functions \cup {NoFunction}]
  BY DEF Core, Apart, Contents, TypeOK
<1>2. CASE Still
  BY <1>2, StillNodes, StillList
<1>3. CASE Fits \/ RoomMade
  <2>1. \A n \in Nodes : n # Malloc => function'[n] = function[n]
    BY <1>1, <1>3, CreateMoves
  <2> QED
    BY <1>1, <1>3, <2>1, CreateMoves
<1>4. CASE LinkNode
  BY <1>1, <1>4, LinkMoves
<1>5. CASE DropRestored
  <2>1. \A n \in Nodes : n # newNode => function'[n] = function[n]
    BY <1>1, <1>5, DropMoves
  <2> QED
    BY <1>1, <1>5, <2>1, DropMoves
<1>6. CASE Unlink
  BY <1>1, <1>6, UnlinkMoves
<1>7. CASE HandOver
  BY <1>1, <1>7, HandOverMoves
<1>8. CASE Discard
  <2>1. \A n \in Nodes : n # temp => function'[n] = function[n]
    BY <1>1, <1>8, DiscardMoves
  <2> QED
    BY <1>1, <1>8, <2>1, DiscardMoves
<1>9. CASE Extract /\ UNCHANGED diskVars
  BY <1>1, <1>9, ExtractMoves
<1>10. CASE LinkAndFree /\ UNCHANGED diskVars
  <2>1. \A n \in Nodes : n # item => function'[n] = function[n]
    BY <1>1, <1>10, UploadedMoves
  <2> QED
    BY <1>1, <1>10, <2>1, UploadedMoves
<1> QED
  BY <1>2, <1>3, <1>4, <1>5, <1>6, <1>7, <1>8, <1>9, <1>10, Steps

\* freeDisk does not touch a node that is in use, so the reader keeps its own.
LEMMA ReaderStep ==
  ASSUME Core, ReaderHoldsItsNode, [Next]_vars
  PROVE  ReaderHoldsItsNode'
<1>1. reader \in ReaderPCs
  BY DEF Core, TypeOK
<1>2. \A n \in Listed : function'[n] = function[n] /\ (n \in Listed' \/ n \notin inUse)
  BY NodesStep, UnlinkMoves
<1>3. CASE UNCHANGED <<reader, inUse, readNode, wanted>>
  BY <1>2, <1>3 DEF ReaderHoldsItsNode
<1>4. CASE TakeRequest
  BY <1>4 DEF TakeRequest, listVars, ReaderHoldsItsNode
<1>5. CASE Retrieve
  <2>1. wanted \in FunctionsOf(Listed) =>
          NodeOf(wanted) \in Listed /\ function[NodeOf(wanted)] = wanted
    BY NodeIsFound
  <2>2. Listed' = Listed /\ function' = function
    BY <1>5, StillList, StillNodes DEF Still
  <2> QED
    BY <1>5, <2>1, <2>2 DEF Retrieve, ReaderHoldsItsNode
<1>6. CASE ReadBin
  BY <1>2, <1>6 DEF ReadBin, listVars, ReaderHoldsItsNode
<1>7. CASE ReleaseNode
  BY <1>7 DEF ReleaseNode, MayRelease, ReaderHoldsItsNode
<1>8. UNCHANGED <<reader, inUse, readNode, wanted>>
        \/ TakeRequest \/ Retrieve \/ ReadBin \/ ReleaseNode
  <2>1. CASE (\E f \in Functions : FindInDisk(f))
               \/ \E f \in Functions, r \in BOOLEAN : TakeContainer(f, r)
    BY <2>1 DEF FindInDisk, TakeContainer, listVars, readerVars
  <2>2. CASE Look \/ LinkNode \/ Unlink \/ Account
    BY <2>2 DEF Look, LinkNode, Unlink, Account, readerVars
  <2>3. CASE MakeRoom \/ NoRoom \/ Checkpoint \/ AskNetwork \/ Fits \/ RoomMade
    BY <2>3 DEF MakeRoom, NoRoom, Checkpoint, AskNetwork, Fits, RoomMade, listVars, readerVars
  <2>4. CASE DropRestored \/ HandOver \/ Discard \/ EndPools \/ SendQuit \/ JoinUploader
    BY <2>4 DEF DropRestored, HandOver, Discard, EndPools, SendQuit, JoinUploader, listVars,
                readerVars
  <2>5. CASE UNCHANGED diskVars \/ UNCHANGED vars
    BY <2>5 DEF diskVars, vars, listVars, readerVars
  <2> QED
    BY <2>1, <2>2, <2>3, <2>4, <2>5, Steps DEF Still
<1> QED
  BY <1>3, <1>4, <1>5, <1>6, <1>7, <1>8

\* The node the reader reads without the lock is never taken from it, and no
\* mark is left behind on another.
THEOREM ReaderKeepsItsNode == Spec => []ReaderHoldsItsNode
<1>1. Init => ReaderHoldsItsNode
  BY DEF Init, ReaderHoldsItsNode
<1>2. Core /\ ReaderHoldsItsNode /\ [Next]_vars => ReaderHoldsItsNode'
  BY ReaderStep
<1> QED
  BY <1>1, <1>2, CoreHolds, PTL DEF Spec

\* A function is in the list once, and what the writer is about to insert is not
\* in it.
OncePerFunction ==
  /\ \A m, n \in Listed : function[m] = function[n] => m = n
  /\ Running /\ writer \notin {"idle", "look"} => stored \notin FunctionsOf(Listed)

\* The writer looks before it inserts, and nobody else inserts.
LEMMA OnceStep ==
  ASSUME Core, OncePerFunction, [Next]_vars
  PROVE  OncePerFunction'
<1>1. CASE LinkNode
  <2>1. /\ Listed' = Listed \cup {newNode} /\ UNCHANGED function
        /\ function[newNode] = stored
    BY <1>1, LinkMoves DEF Core, Contents
  <2>2. writer = "link" /\ writer' = "idle" /\ Running
    BY <1>1 DEF LinkNode, StoreEnds, Core, Stages, Storing
  <2>3. \A n \in Listed : function[n] # stored
    BY <2>2 DEF OncePerFunction, FunctionsOf
  <2> QED
    BY <2>1, <2>2, <2>3 DEF OncePerFunction
<1>2. CASE ~LinkNode
  <2>1. \A n \in Listed' : n \in Listed /\ function'[n] = function[n]
    BY <1>2, NodesStep
  <2>2. \A m, n \in Listed' : function'[m] = function'[n] => m = n
    BY <2>1 DEF OncePerFunction
  <2>3. FunctionsOf(Listed)' \subseteq FunctionsOf(Listed)
    BY <2>1 DEF FunctionsOf
  <2>4. ASSUME Running', writer' \notin {"idle", "look"}
        PROVE  /\ stored' = stored
               /\ \/ Running /\ writer \notin {"idle", "look"}
                  \/ stored \notin FunctionsOf(Listed)
    <3> USE <2>4 DEF Running
    <3>1. CASE (\E f \in Functions : FindInDisk(f))
                 \/ \E f \in Functions, r \in BOOLEAN : TakeContainer(f, r)
      BY <3>1 DEF FindInDisk, TakeContainer, writerVars, storeVars
    <3>2. CASE Look \/ Unlink \/ Account
      BY <3>2 DEF Look, StoreEnds, Unlink, MayUnlink, MustEvict, Account, storeVars
    <3>3. CASE TakeRequest \/ Retrieve \/ ReadBin \/ ReleaseNode
      BY <3>3 DEF TakeRequest, Retrieve, ReadBin, ReleaseNode, writerVars, storeVars
    <3>4. CASE MakeRoom \/ NoRoom \/ Fits \/ RoomMade
      BY <3>4 DEF MakeRoom, NoRoom, StoreEnds, Fits, RoomMade, Finished, storeVars
    <3>5. CASE Checkpoint \/ AskNetwork \/ DropRestored \/ HandOver \/ Discard
      BY <3>5 DEF Checkpoint, AskNetwork, DropRestored, StoreEnds, HandOver, Discard,
                  storeVars, readerVars
    <3>6. CASE EndPools \/ SendQuit \/ JoinUploader
      BY <3>6 DEF EndPools, SendQuit, JoinUploader
    <3>7. CASE UNCHANGED diskVars \/ UNCHANGED vars
      BY <3>7 DEF diskVars, vars, writerVars, storeVars
    <3> QED
      BY <1>2, <3>1, <3>2, <3>3, <3>4, <3>5, <3>6, <3>7, Steps DEF Still
  <2> QED
    BY <2>2, <2>3, <2>4 DEF OncePerFunction
<1> QED
  BY <1>1, <1>2

\* No function is on disk twice.
THEOREM OnceHolds == Spec => []OncePerFunction
<1>1. Init => OncePerFunction
  <2>1. Init => Listed = {}
    BY CoreInit, ListFacts DEF Init, Core
  <2> QED
    BY <2>1 DEF Init, OncePerFunction
<1>2. Core /\ OncePerFunction /\ [Next]_vars => OncePerFunction'
  BY OnceStep
<1> QED
  BY <1>1, <1>2, CoreHolds, PTL DEF Spec

-----------------------------------------------------------------------------
(***************************************************************************)
(* The megabytes                                                           *)
(***************************************************************************)

\* The room the writer has found or made is there until it takes it, and what
\* freeDisk has freed is free.
Room ==
  ~misread => /\ writer \in {"checkpoint", "link"} => memory >= Size[stored]
              /\ Locked => memory >= freed

\* The megabytes of the functions in the list.
Charged == Total(Listed, SizeOfNode)

\* They are a natural number, summed over a finite list.
LEMMA ChargedFacts ==
  ASSUME Core
  PROVE  /\ IsFiniteSet(Listed) /\ Charged \in Nat
         /\ \A n \in Listed : SizeOfNode[n] = Size[function[n]] /\ SizeOfNode[n] \in Nat
<1>1. Listed \subseteq Nodes
  BY ListFacts DEF Core
<1>2. IsFiniteSet(Listed)
  BY <1>1, NetCacheAssumption, FS_Subset
<1>3. \A n \in Listed : SizeOfNode[n] = Size[function[n]] /\ SizeOfNode[n] \in Nat
  BY <1>1, FunctionOfNode, DiskCacheAssumption DEF SizeOfNode, Core, Apart
<1> QED
  BY <1>2, <1>3, TotalIsNat DEF Charged

\* The list and its functions stay, and so do the megabytes.
LEMMA ChargedSame ==
  ASSUME Core, [Next]_vars, Listed' = Listed
  PROVE  Charged' = Charged
<1>1. \A n \in Listed : SizeOfNode'[n] = SizeOfNode[n]
  <2>1. Listed \subseteq Nodes
    BY ListFacts DEF Core
  <2>2. \A n \in Listed : function'[n] = function[n]
    BY NodesStep
  <2> QED
    BY <2>1, <2>2 DEF SizeOfNode
<1>2. Total(Listed, SizeOfNode') = Total(Listed, SizeOfNode)
  BY <1>1, TotalSame
<1> QED
  BY <1>2 DEF Charged

\* The node that leaves takes its megabytes along.
LEMMA ChargedUnlink ==
  ASSUME Core, Unlink
  PROVE  /\ Charged' = Charged - Size[function[head]]
         /\ Size[function[head]] \in Nat
<1>1. head \in Listed /\ Listed' = Listed \ {head} /\ function' = function
  BY UnlinkMoves
<1>2. Listed \subseteq Nodes
  BY ListFacts DEF Core
<1>3. \A n \in Listed \ {head} : SizeOfNode'[n] = SizeOfNode[n]
  BY <1>1, <1>2 DEF SizeOfNode
<1>4. Total(Listed \ {head}, SizeOfNode') = Total(Listed \ {head}, SizeOfNode)
  BY <1>3, TotalSame
<1>5. Total(Listed \ {head}, SizeOfNode) = Charged - SizeOfNode[head]
  BY <1>1, ChargedFacts, TotalRemove DEF Charged
<1>6. Charged' = Total(Listed \ {head}, SizeOfNode')
  BY <1>1 DEF Charged
<1> QED
  BY <1>1, <1>4, <1>5, <1>6, ChargedFacts

\* The node that comes brings its own.
LEMMA ChargedLink ==
  ASSUME Core, LinkNode
  PROVE  /\ Charged' = Charged + Size[stored]
         /\ Size[stored] \in Nat
<1>1. /\ newNode \in Nodes /\ newNode \notin Listed
      /\ Listed' = Listed \cup {newNode} /\ function' = function
      /\ function[newNode] = stored
  BY LinkMoves DEF Core, Contents
<1>2. Listed \subseteq Nodes
  BY ListFacts DEF Core
<1>3. Size[stored] \in Nat
  BY DiskCacheAssumption DEF LinkNode, Core, TypeOK, Stages, Storing, Running
<1>4. /\ \A n \in Listed : SizeOfNode'[n] = SizeOfNode[n]
      /\ SizeOfNode'[newNode] = Size[stored]
  BY <1>1, <1>2 DEF SizeOfNode
<1>5. Total(Listed, SizeOfNode') = Charged
  BY <1>4, TotalSame DEF Charged
<1> DEFINE size == SizeOfNode'
<1>6. /\ \A n \in Listed : size[n] \in Nat
      /\ size[newNode] \in Nat
  BY <1>3, <1>4, ChargedFacts
<1> HIDE DEF size
<1>7. Total(Listed \cup {newNode}, size) = Total(Listed, size) + size[newNode]
  BY <1>1, <1>6, ChargedFacts, TotalAdd
<1>8. Charged' = Total(Listed \cup {newNode}, size)
  BY <1>1 DEF Charged, size
<1> QED
  BY <1>3, <1>4, <1>5, <1>7, <1>8 DEF size

\* Where nothing is unlinked or linked, the list has the same nodes.
LEMMA ListedSame ==
  ASSUME Core, [Next]_vars, ~Unlink, ~LinkNode
  PROVE  Listed' = Listed
BY NodesStep

\* The sum and the room.
Accounts == DiskAccounting /\ Room

\* Every step moves the megabytes from one place to another.
LEMMA AccountsStep ==
  ASSUME Core, Accounts, [Next]_vars
  PROVE  Accounts'
<1> SUFFICES ASSUME ~misread'
             PROVE  /\ memory' + Charged' + tempSize' = DiskSize
                    /\ memory' >= 0
                    /\ writer' \in {"checkpoint", "link"} => memory' >= Size[stored']
                    /\ Locked' => memory' >= freed'
  BY DEF Accounts, DiskAccounting, Room, Charged
<1> USE DEF Locked
<1>1. /\ memory \in Int /\ tempSize \in Nat /\ freed \in Nat /\ Charged \in Nat
      /\ DiskSize \in Nat
  BY ChargedFacts, DiskCacheAssumption DEF Core, TypeOK
<1>2. ~misread =>
        /\ memory + Charged + tempSize = DiskSize
        /\ memory >= 0
        /\ writer \in {"checkpoint", "link"} => memory >= Size[stored]
        /\ Locked => memory >= freed
  BY DEF Accounts, DiskAccounting, Room, Charged
<1>3. temp = NoNode => tempSize = 0
  BY DEF Core, Stages
<1>4. \A f \in Functions : Size[f] \in Nat
  BY DiskCacheAssumption
<1>5. CASE Unlink
  <2>1. /\ writer = "evict" /\ writer' = "ask"
        /\ tempSize' = Size[function[head]]
        /\ UNCHANGED <<memory, freed, misread>>
    BY <1>5 DEF Unlink, MayUnlink, MustEvict
  <2>2. tempSize = 0
    BY <1>3, <2>1 DEF Core, Stages
  <2>3. /\ Charged' = Charged - Size[function[head]]
        /\ Size[function[head]] \in Nat
    BY <1>5, ChargedUnlink
  <2>4. /\ memory + Charged + tempSize = DiskSize /\ memory >= 0 /\ memory >= freed
    BY <1>2, <2>1
  <2>5. memory' + Charged' + tempSize' = DiskSize
    BY <1>1, <2>1, <2>2, <2>3, <2>4
  <2> QED
    BY <2>1, <2>4, <2>5
<1>6. CASE LinkNode
  <2>1. /\ writer = "link" /\ writer' = "idle"
        /\ memory' = memory - Size[stored]
        /\ UNCHANGED <<tempSize, freed, misread>>
    BY <1>6 DEF LinkNode, StoreEnds, Charge, freeVars
  <2>2. /\ Charged' = Charged + Size[stored]
        /\ Size[stored] \in Nat
    BY <1>6, ChargedLink
  <2>3. memory + Charged + tempSize = DiskSize /\ memory >= Size[stored]
    BY <1>2, <2>1
  <2>4. memory' + Charged' + tempSize' = DiskSize /\ memory' >= 0
    BY <1>1, <2>1, <2>2, <2>3
  <2> QED
    BY <2>1, <2>4
<1>7. CASE ~Unlink /\ ~LinkNode
  <2>1. Charged' = Charged
    BY <1>7, ListedSame, ChargedSame
  <2>2. CASE UNCHANGED <<memory, tempSize, freed, misread, stored>>
               /\ (writer' \in {"checkpoint", "link"} => writer \in {"checkpoint", "link"})
               /\ (Locked' => Locked)
    BY <1>1, <1>2, <2>1, <2>2
  <2>3. CASE Account
    <3>1. PICK v, w \in Readable :
            /\ memory' = memory + v
            /\ freed' = freed + w
            /\ misread' = (misread \/ v # tempSize \/ w # tempSize)
      BY <2>3 DEF Account
    <3>2. ~misread /\ v = tempSize /\ w = tempSize
      BY <3>1
    <3>3. writer = "account" /\ writer' = "evict" /\ tempSize' = 0
      BY <2>3 DEF Account
    <3> QED
      BY <1>1, <1>2, <2>1, <3>1, <3>2, <3>3
  <2>4. CASE Fits
    <3>1. /\ writer' = "checkpoint" /\ memory >= Size[stored]
          /\ UNCHANGED <<memory, tempSize, freed, misread, stored>>
      BY <2>4 DEF Fits, CreateNode, listVars, freeVars
    <3> QED
      BY <1>1, <1>2, <2>1, <3>1
  <2>5. CASE RoomMade
    <3>1. /\ writer' = "checkpoint" /\ writer = "evict" /\ freed >= Size[stored]
          /\ UNCHANGED <<memory, tempSize, misread, stored>>
      BY <2>5 DEF RoomMade, Finished, Need, CreateNode, listVars
    <3>2. Size[stored] \in Nat
      BY <1>4, <3>1, <2>5 DEF RoomMade, Core, TypeOK, Stages, Running
    <3> QED
      BY <1>1, <1>2, <2>1, <3>1, <3>2
  <2>6. CASE MakeRoom \/ EndPools
    <3>1. /\ writer' = "evict" /\ freed' = 0
          /\ UNCHANGED <<memory, tempSize, misread>>
      BY <2>6 DEF MakeRoom, EndPools, listVars
    <3> QED
      BY <1>1, <1>2, <2>1, <3>1
  <2>7. CASE NoRoom \/ SendQuit
    <3>1. /\ writer' = "idle" /\ UNCHANGED <<memory, tempSize, misread>>
      BY <2>7 DEF NoRoom, StoreEnds, SendQuit, listVars
    <3> QED
      BY <1>1, <1>2, <2>1, <3>1
  <2>8. CASE Look \/ DropRestored
    <3>1. /\ writer' \in {"idle", "insert"} /\ UNCHANGED <<memory, tempSize, misread>>
      BY <2>8 DEF Look, DropRestored, StoreEnds, freeVars, listVars
    <3> QED
      BY <1>1, <1>2, <2>1, <3>1
  <2>9. CASE \E f \in Functions, r \in BOOLEAN : TakeContainer(f, r)
    <3>1. /\ writer' = "look" /\ UNCHANGED <<memory, tempSize, misread>>
      BY <2>9 DEF TakeContainer, freeVars, listVars
    <3> QED
      BY <1>1, <1>2, <2>1, <3>1
  <2>10. CASE (\E f \in Functions : FindInDisk(f)) \/ TakeRequest \/ Retrieve \/ ReadBin
                \/ ReleaseNode
    BY <2>2, <2>10 DEF FindInDisk, TakeRequest, Retrieve, ReadBin, ReleaseNode, listVars,
                       writerVars, storeVars, freeVars
  <2>11. CASE Checkpoint \/ AskNetwork
    BY <2>2, <2>11 DEF Checkpoint, AskNetwork, listVars, storeVars, freeVars
  <2>12. CASE HandOver \/ Discard
    BY <2>2, <2>12 DEF HandOver, Discard, listVars, storeVars, freeVars
  <2>13. CASE JoinUploader \/ UNCHANGED diskVars \/ UNCHANGED vars
    BY <2>2, <2>13 DEF JoinUploader, vars, diskVars, listVars, writerVars, storeVars, freeVars
  <2> QED
    BY <1>7, <2>3, <2>4, <2>5, <2>6, <2>7, <2>8, <2>9, <2>10, <2>11, <2>12, <2>13, Steps
       DEF Still
<1> QED
  BY <1>5, <1>6, <1>7

\* The megabytes that are free, listed and being evicted are those of the disk,
\* and never too few, as long as no freed node has read as something else.
THEOREM DiskAddsUp == Spec => []DiskAccounting
<1>1. Init => Accounts
  <2> SUFFICES ASSUME Init PROVE Accounts
    OBVIOUS
  <2>1. Listed = {}
    BY CoreInit, ListFacts DEF Init, Core
  <2>2. Total(Listed, SizeOfNode) = 0
    BY <2>1, TotalEmpty
  <2> QED
    BY <2>2, DiskCacheAssumption DEF Init, Accounts, DiskAccounting, Room, Locked
<1>2. Core /\ Accounts /\ [Next]_vars => Accounts'
  BY AccountsStep
<1>3. Accounts => DiskAccounting
  BY DEF Accounts
<1> QED
  BY <1>1, <1>2, <1>3, CoreHolds, PTL DEF Spec

-----------------------------------------------------------------------------
(***************************************************************************)
(* The records of what was stored                                          *)
(***************************************************************************)

\* Files are deleted in two places only, and the network list only grows.
LEMMA FilesStep ==
  ASSUME Core, [Next]_vars
  PROVE  /\ netList \subseteq netList'
         /\ \/ files \subseteq files'
            \/ Discard /\ files' = files \ {function[temp]}
            \/ /\ RemoveFile /\ UNCHANGED diskVars
               /\ files' = files \ {function[item]}
         /\ files' \subseteq files \/ (Checkpoint /\ files' = files \cup {stored})
<1>1. CASE UNCHANGED <<files, netList>>
  BY <1>1
<1>2. CASE Checkpoint
  BY <1>2 DEF Checkpoint, uploads
<1>3. CASE Discard
  BY <1>3 DEF Discard, uploads
<1>4. CASE RemoveFile /\ UNCHANGED diskVars
  BY <1>4 DEF RemoveFile
<1>5. CASE LinkAndFree
  BY <1>5 DEF LinkAndFree
<1>6. UNCHANGED <<files, netList>>
        \/ Checkpoint \/ Discard \/ (RemoveFile /\ UNCHANGED diskVars)
        \/ LinkAndFree
  <2>1. CASE (\E f \in Functions : FindInDisk(f))
               \/ \E f \in Functions, r \in BOOLEAN : TakeContainer(f, r)
    BY <2>1 DEF FindInDisk, TakeContainer, netVars, uploads
  <2>2. CASE TakeRequest \/ Retrieve \/ ReadBin \/ ReleaseNode
    BY <2>2 DEF TakeRequest, Retrieve, ReadBin, ReleaseNode, netVars, uploads
  <2>3. CASE Look \/ MakeRoom \/ NoRoom \/ AskNetwork \/ Account
    BY <2>3 DEF Look, MakeRoom, NoRoom, AskNetwork, Account, netVars, uploads
  <2>4. CASE Fits \/ RoomMade \/ DropRestored \/ LinkNode \/ Unlink \/ HandOver
    BY <2>4 DEF Fits, RoomMade, DropRestored, LinkNode, Unlink, HandOver, netVars, uploads
  <2>5. CASE UploaderSleep \/ UploaderWake \/ UploaderQuit \/ Extract \/ UploadObject
    BY <2>5 DEF UploaderSleep, UploaderWake, UploaderQuit, Extract, UploadObject
  <2>6. CASE EndPools \/ SendQuit \/ JoinUploader \/ UNCHANGED vars
    BY <2>6 DEF EndPools, SendQuit, JoinUploader, vars, netVars, uploads
  <2> QED
    BY <2>1, <2>2, <2>3, <2>4, <2>5, <2>6, Steps DEF Still
<1> QED
  BY <1>1, <1>2, <1>3, <1>4, <1>5, <1>6

\* From the queue to the list of the network cache, a node stays with the upload
\* thread.
LEMMA UploaderStep ==
  ASSUME Core, [Next]_vars
  PROVE  /\ uploader = "remove" =>
              \/ uploader' = "remove" /\ item' = item
              \/ RemoveFile /\ item' = item /\ uploader' = "upload"
         /\ uploader \in {"upload", "link"} =>
              \/ uploader' \in {"upload", "link"} /\ item' = item
              \/ LinkAndFree
<1>1. CASE (\E f \in Functions : FindInDisk(f))
             \/ \E f \in Functions, r \in BOOLEAN : TakeContainer(f, r)
  BY <1>1 DEF FindInDisk, TakeContainer, netVars, uploads
<1>2. CASE TakeRequest \/ Retrieve \/ ReadBin \/ ReleaseNode
  BY <1>2 DEF TakeRequest, Retrieve, ReadBin, ReleaseNode, netVars, uploads
<1>3. CASE Look \/ MakeRoom \/ NoRoom \/ AskNetwork \/ Account
  BY <1>3 DEF Look, MakeRoom, NoRoom, AskNetwork, Account, netVars, uploads
<1>4. CASE Fits \/ RoomMade \/ DropRestored \/ LinkNode \/ Unlink \/ HandOver
  BY <1>4 DEF Fits, RoomMade, DropRestored, LinkNode, Unlink, HandOver, netVars, uploads
<1>5. CASE UploaderSleep \/ UploaderWake \/ UploaderQuit \/ Extract \/ LinkAndFree
  BY <1>5 DEF UploaderSleep, UploaderWake, UploaderQuit, Extract, LinkAndFree
<1>6. CASE EndPools \/ SendQuit \/ JoinUploader \/ UNCHANGED vars
  BY <1>6 DEF EndPools, SendQuit, JoinUploader, vars, netVars, uploads
<1>7. CASE Checkpoint \/ Discard
  BY <1>7 DEF Checkpoint, Discard, uploads
<1>8. CASE RemoveFile \/ UploadObject
  BY <1>8 DEF RemoveFile, UploadObject
<1> QED
  BY <1>1, <1>2, <1>3, <1>4, <1>5, <1>6, <1>7, <1>8, Steps DEF Still

\* Where the writer gets to the points at which it has a checkpoint.
LEMMA WriterStages ==
  ASSUME Core, [Next]_vars
  PROVE  /\ writer' = "link" => stored' = stored /\ (writer = "link" \/ Checkpoint)
         /\ writer' \in {"ask", "hand", "discard"} =>
              \/ writer' = writer /\ temp' = temp
              \/ Unlink /\ writer' = "ask"
              \/ AskNetwork /\ temp' = temp
         /\ writer = "link" => \/ writer' = "link" /\ stored' = stored
                               \/ LinkNode
<1>1. CASE (\E f \in Functions : FindInDisk(f))
             \/ \E f \in Functions, r \in BOOLEAN : TakeContainer(f, r)
  BY <1>1 DEF FindInDisk, TakeContainer, writerVars, storeVars, freeVars
<1>2. CASE TakeRequest \/ Retrieve \/ ReadBin \/ ReleaseNode
  BY <1>2 DEF TakeRequest, Retrieve, ReadBin, ReleaseNode, writerVars, storeVars, freeVars
<1>3. CASE Look \/ MakeRoom \/ NoRoom
  BY <1>3 DEF Look, MakeRoom, NoRoom, Finished, StoreEnds, storeVars, freeVars
<1>4. CASE AskNetwork \/ Account \/ Checkpoint
  BY <1>4 DEF AskNetwork, Account, Checkpoint, storeVars, freeVars
<1>5. CASE Fits \/ RoomMade \/ DropRestored \/ LinkNode
  BY <1>5 DEF Fits, RoomMade, Finished, CreateNode, DropRestored, LinkNode, StoreEnds, freeVars
<1>6. CASE Unlink \/ HandOver \/ Discard
  BY <1>6 DEF Unlink, MayUnlink, MustEvict, HandOver, Discard, storeVars, freeVars
<1>7. CASE EndPools \/ SendQuit \/ JoinUploader
  BY <1>7 DEF EndPools, SendQuit, Finished, JoinUploader, writerVars, storeVars, freeVars
<1>8. CASE UNCHANGED diskVars \/ UNCHANGED vars
  BY <1>8 DEF diskVars, vars, writerVars, storeVars, freeVars
<1> QED
  BY <1>1, <1>2, <1>3, <1>4, <1>5, <1>6, <1>7, <1>8, Steps DEF Still

\* What the writer is about to link or to queue is traced, and what it is about
\* to discard is in the list of the network cache.
TracedOnTheWay ==
  /\ writer = "link" => Traced(stored)
  /\ writer \in {"ask", "hand"} => Traced(function[temp])
  /\ writer = "discard" => function[temp] \in netList

\* A file goes only when the list of the network cache has the function, or with
\* the node of an upload, which stays in the upload thread's hand until it does.
LEMMA TraceStays ==
  ASSUME Core, TracedOnTheWay, [Next]_vars, NEW f, Traced(f)
  PROVE  Traced(f)'
<1>1. CASE f \in netList
  BY <1>1, FilesStep DEF Traced
<1>2. CASE f \in files /\ f \notin netList
  <2>1. CASE files \subseteq files'
    BY <1>2, <2>1 DEF Traced
  <2>2. CASE Discard /\ files' = files \ {function[temp]}
    BY <1>2, <2>2 DEF Traced, TracedOnTheWay, Discard
  <2>3. CASE RemoveFile /\ UNCHANGED diskVars /\ files' = files \ {function[item]}
    BY <1>2, <2>3 DEF Traced, Uploading, RemoveFile, heap
  <2> QED
    BY <2>1, <2>2, <2>3, FilesStep
<1>3. CASE Uploading(f)
  <2>1. uploader \in {"upload", "link"} /\ function[item] = f
    BY <1>3 DEF Uploading
  <2>2. CASE uploader' \in {"upload", "link"} /\ item' = item
    <3>1. InHand' = {item}
      BY <2>2 DEF InHand
    <3>2. function'[item'] = f
      BY <2>1, <2>2, <3>1, NodesStep
    <3> QED
      BY <2>2, <3>2 DEF Traced, Uploading
  <2>3. CASE LinkAndFree
    BY <2>1, <2>3 DEF LinkAndFree, Traced
  <2> QED
    BY <2>1, <2>2, <2>3, UploaderStep
<1> QED
  BY <1>1, <1>2, <1>3 DEF Traced

\* Both parts: what is stored, and what is on its way.
TracedEverywhere == StoredIsTraced /\ TracedOnTheWay

\* A node comes to the list or the queue traced.
LEMMA TracedStep ==
  ASSUME Core, TracedEverywhere, [Next]_vars
  PROVE  TracedEverywhere'
<1>1. /\ \A n \in Listed \cup QueuedNodes : Traced(function[n])
      /\ TracedOnTheWay
  BY DEF TracedEverywhere, StoredIsTraced, FunctionsOf
<1>2. \A f : Traced(f) => Traced(f)'
  BY <1>1, TraceStays
<1>3. ASSUME NEW n \in Listed' \cup QueuedNodes'
      PROVE  Traced(function[n]) /\ function'[n] = function[n]
  <2>1. function'[n] = function[n]
    BY NodesStep
  <2>2. \/ n \in Listed \cup QueuedNodes
        \/ LinkNode /\ function[n] = stored
        \/ HandOver /\ n = temp
    BY NodesStep
  <2> QED
    BY <1>1, <2>1, <2>2 DEF TracedOnTheWay, LinkNode, HandOver
<1>4. StoredIsTraced'
  <2>1. ASSUME NEW f \in FunctionsOf(Listed \cup QueuedNodes)'
        PROVE  Traced(f)'
    <3>1. PICK n \in Listed' \cup QueuedNodes' : f = function'[n]
      BY <2>1 DEF FunctionsOf
    <3> QED
      BY <1>2, <1>3, <3>1
  <2> QED
    BY <2>1 DEF StoredIsTraced
<1>5. ASSUME writer' = "link" PROVE Traced(stored)'
  <2>1. CASE Checkpoint
    BY <2>1 DEF Checkpoint, Traced, storeVars
  <2>2. CASE writer = "link" /\ stored' = stored
    <3>1. PICK f : f = stored
      OBVIOUS
    <3>2. Traced(f)'
      BY <1>1, <1>2, <2>2, <3>1 DEF TracedOnTheWay
    <3> QED
      BY <2>2, <3>1, <3>2 DEF Traced, Uploading
  <2> QED
    BY <1>5, <2>1, <2>2, WriterStages
<1>6. ASSUME writer' \in {"ask", "hand", "discard"}
      PROVE  /\ function'[temp'] = function[temp']
             /\ \/ writer' = writer /\ temp' = temp
                \/ Unlink /\ writer' = "ask" /\ temp' \in Listed
                \/ AskNetwork /\ temp' = temp
  <2>1. temp' \in Evicting'
    BY <1>6 DEF Evicting
  <2> QED
    BY <1>6, <2>1, NodesStep, UnlinkMoves, WriterStages
<1>7. ASSUME writer' \in {"ask", "hand"} PROVE Traced(function[temp])'
  <2>1. PICK f : f = function[temp']
    OBVIOUS
  <2>2. Traced(f)
    BY <1>1, <1>6, <1>7, <2>1 DEF TracedOnTheWay, AskNetwork
  <2>3. Traced(f)' /\ f = function'[temp']
    BY <1>2, <1>6, <1>7, <2>1, <2>2
  <2> QED
    BY <2>3 DEF Traced, Uploading
<1>8. ASSUME writer' = "discard" PROVE function'[temp'] \in netList'
  <2>1. function[temp'] \in netList
    BY <1>1, <1>6, <1>8 DEF TracedOnTheWay, AskNetwork, MustUpload, FindInNetwork
  <2> QED
    BY <1>6, <1>8, <2>1, FilesStep
<1> QED
  BY <1>4, <1>5, <1>7, <1>8 DEF TracedEverywhere, TracedOnTheWay

\* The two invariants together.
LEMMA TracedHolds == Spec => []TracedEverywhere
<1>1. Init => TracedEverywhere
  <2> SUFFICES ASSUME Init PROVE TracedEverywhere
    OBVIOUS
  <2>1. Listed = {} /\ QueuedNodes = {}
    BY CoreInit, ListFacts, ElementsEmpty DEF Init, NetInit, Core, QueuedNodes
  <2> QED
    BY <2>1 DEF Init, TracedEverywhere, StoredIsTraced, FunctionsOf, TracedOnTheWay
<1>2. Core /\ TracedEverywhere /\ [Next]_vars => TracedEverywhere'
  BY TracedStep
<1> QED
  BY <1>1, <1>2, CoreHolds, PTL DEF Spec

\* A function on disk or in the upload queue has its file, unless the network
\* cache lists it or the upload thread is about to enter it there: that is the
\* only reason for which the reader may find no file (disk_cache.c:18-22, 363).
THEOREM StoredStaysTraced == Spec => []StoredIsTraced
<1>1. TracedEverywhere => StoredIsTraced
  BY DEF TracedEverywhere
<1> QED
  BY <1>1, TracedHolds, PTL

\* Once a function has a file, is in the network list or is with the upload
\* thread on its way from the one to the other, it stays one of these: freeDisk
\* and the upload thread delete no file of a function that is recorded nowhere
\* else (disk_cache.c:363, 503-507).  A record is not a copy: FoundIsInBucket
\* does not hold.
THEOREM NothingForgotten == Spec => NeverForgotten
<1>1. Core /\ TracedEverywhere /\ [Next]_vars
        => [\A f \in Functions : Traced(f) => Traced(f)']_vars
  BY TraceStays DEF TracedEverywhere
<1> QED
  BY <1>1, CoreHolds, TracedHolds, PTL DEF Spec, NeverForgotten

\* Every file belongs to a node in the list, in the queue or in somebody's hand.
FilesAreKnown ==
  \A f \in files :
    \/ f \in FunctionsOf(Listed \cup QueuedNodes \cup Evicting)
    \/ writer = "link" /\ f = stored
    \/ uploader = "remove" /\ f = function[item]

\* A file goes with its node.
LEMMA FilesKnownStep ==
  ASSUME Core, FilesAreKnown, [Next]_vars
  PROVE  FilesAreKnown'
<1>1. ASSUME NEW n \in QueuedNodes
      PROVE  \/ n \in QueuedNodes'
             \/ n = item' /\ uploader' = "remove" /\ n \in InHand'
  <2>1. CASE Extract /\ UNCHANGED diskVars
    BY <2>1, ExtractMoves DEF Extract
  <2> QED
    BY <2>1, Steps, StillNodes, CreateMoves, LinkMoves, DropMoves, UnlinkMoves, HandOverMoves,
       DiscardMoves, UploadedMoves
<1>2. ASSUME NEW n \in Evicting
      PROVE  n \in Evicting' \/ n \in QueuedNodes' \/ (Discard /\ n = temp)
  BY <1>2, Steps, StillNodes, CreateMoves, LinkMoves, DropMoves, UnlinkMoves, HandOverMoves,
     DiscardMoves, ExtractMoves, UploadedMoves
<1> SUFFICES ASSUME NEW f \in files'
             PROVE  \/ f \in FunctionsOf(Listed \cup QueuedNodes \cup Evicting)'
                    \/ writer' = "link" /\ f = stored'
                    \/ uploader' = "remove" /\ f = function'[item']
  BY DEF FilesAreKnown
<1>3. ASSUME NEW n \in Listed' \cup QueuedNodes' \cup Evicting', function[n] = f
      PROVE  f \in FunctionsOf(Listed \cup QueuedNodes \cup Evicting)'
  <2>1. function'[n] = f
    BY <1>3, NodesStep
  <2> QED
    BY <2>1 DEF FunctionsOf
<1>4. CASE f \notin files
  <2>1. Checkpoint /\ f = stored
    BY <1>4, FilesStep
  <2> QED
    BY <2>1 DEF Checkpoint, storeVars
<1>5. CASE \E n \in Listed : f = function[n]
  <2>1. PICK n \in Listed : f = function[n]
    BY <1>5
  <2>2. n \in Listed' \cup Evicting'
    BY NodesStep
  <2> QED
    BY <1>3, <2>1, <2>2
<1>6. CASE \E n \in QueuedNodes : f = function[n]
  <2>1. PICK n \in QueuedNodes : f = function[n]
    BY <1>6
  <2>2. CASE n \in QueuedNodes'
    BY <1>3, <2>1, <2>2
  <2>3. CASE n = item' /\ uploader' = "remove" /\ n \in InHand'
    <3>1. function'[n] = f
      BY <2>1, <2>3, NodesStep
    <3> QED
      BY <2>3, <3>1
  <2> QED
    BY <1>1, <2>2, <2>3
<1>7. CASE \E n \in Evicting : f = function[n]
  <2>1. PICK n \in Evicting : f = function[n]
    BY <1>7
  <2>2. ~(Discard /\ n = temp)
    BY <2>1 DEF Discard
  <2>3. n \in Evicting' \cup QueuedNodes'
    BY <1>2, <2>2
  <2> QED
    BY <1>3, <2>1, <2>3
<1>8. CASE writer = "link" /\ f = stored
  <2>1. CASE writer' = "link" /\ stored' = stored
    BY <1>8, <2>1
  <2>2. CASE LinkNode
    <3>1. newNode \in Listed' /\ function[newNode] = f
      BY <1>8, <2>2, LinkMoves DEF Core, Contents
    <3> QED
      BY <1>3, <3>1
  <2> QED
    BY <1>8, <2>1, <2>2, WriterStages
<1>9. CASE uploader = "remove" /\ f = function[item]
  <2>1. ~RemoveFile
    BY <1>9 DEF RemoveFile
  <2>2. uploader' = "remove" /\ item' = item
    BY <1>9, <2>1, UploaderStep
  <2>3. item \in InHand'
    BY <2>2 DEF InHand
  <2>4. function'[item] = f
    BY <1>9, <2>3, NodesStep
  <2> QED
    BY <2>2, <2>4
<1> QED
  BY <1>4, <1>5, <1>6, <1>7, <1>8, <1>9 DEF FilesAreKnown, FunctionsOf

\* There is no file without a reason.
LEMMA FilesKnownHold == Spec => []FilesAreKnown
<1>1. Init => FilesAreKnown
  BY DEF Init, NetInit, FilesAreKnown
<1>2. Core /\ FilesAreKnown /\ [Next]_vars => FilesAreKnown'
  BY FilesKnownStep
<1> QED
  BY <1>1, <1>2, CoreHolds, PTL DEF Spec

-----------------------------------------------------------------------------
(***************************************************************************)
(* The end                                                                 *)
(***************************************************************************)
SizesRead == {0} \cup Stale \cup {Size[f] : f \in Functions}

\* The most that the memory field of a node may read as.
Most == CHOOSE most \in SizesRead : /\ \A v \in SizesRead : v <= most
                                    /\ MaxStores * most < 1000000000

\* It bounds every reading, and all the disk has ever stored stays below what
\* main_loop asks freeDisk for.
LEMMA MostFacts ==
  /\ Most \in Nat /\ MaxStores \in Nat
  /\ \A v \in SizesRead : v <= Most
  /\ MaxStores * Most < 1000000000
<1>1. \E most \in SizesRead : /\ \A v \in SizesRead : v <= most
                              /\ MaxStores * most < 1000000000
  BY DrainAssumption DEF SizesRead
<1>2. /\ Most \in SizesRead
      /\ \A v \in SizesRead : v <= Most
      /\ MaxStores * Most < 1000000000
  BY <1>1 DEF Most
<1>3. SizesRead \subseteq Nat
  <2>1. (\A f \in Functions : Size[f] \in Nat) /\ Stale \subseteq Nat
    BY DiskCacheAssumption
  <2>2. ASSUME NEW v \in SizesRead PROVE v \in Nat
    <3>1. v = 0 \/ v \in Stale \/ \E f \in Functions : v = Size[f]
      BY DEF SizesRead
    <3>2. CASE v = 0
      BY <3>2
    <3>3. CASE v \in Stale
      BY <2>1, <3>3
    <3>4. CASE \E f \in Functions : v = Size[f]
      BY <2>1, <3>4
    <3> QED
      BY <3>1, <3>2, <3>3, <3>4
  <2> QED
    BY <2>2
<1>4. MaxStores \in Nat
  BY DiskCacheAssumption, NetCacheAssumption, FS_CardinalityType
<1> QED
  BY <1>2, <1>3, <1>4

\* The nodes that main has still to delete, those in its hand included.
Undeleted == Len(List) + (IF temp = NoNode THEN 0 ELSE 1)

\* What main has freed and what it has still to free are bounded, so that it
\* stops at an empty list only.
Drained ==
  /\ tempSize \in SizesRead
  /\ main = "draining" => freed + Most * Undeleted <= Most * MaxStores
  /\ Closed => head = NoNode

\* After the pools have ended there is main and the upload thread.
LEMMA AfterRunning ==
  ASSUME Core, [Next]_vars, ~Running
  PROVE  \/ Unlink \/ Account \/ SendQuit
         \/ /\ UNCHANGED <<head, next, freed, temp, tempSize>>
            /\ main' = main \/ (Closed /\ Closed')
<1> USE DEF Running
<1>1. /\ ~Storing /\ reader = "idle" /\ requests = <<>>
      /\ main \in {"draining", "joining", "done"}
  BY DEF Core, Stages, TypeOK
<1>2. CASE (\E f \in Functions : FindInDisk(f))
             \/ \E f \in Functions, r \in BOOLEAN : TakeContainer(f, r)
  BY <1>1, <1>2 DEF FindInDisk, TakeContainer
<1>3. CASE TakeRequest \/ Retrieve \/ ReadBin \/ ReleaseNode
  BY <1>1, <1>3 DEF TakeRequest, Retrieve, ReadBin, ReleaseNode, MayRelease
<1>4. CASE Look \/ MakeRoom \/ NoRoom \/ Checkpoint \/ Fits \/ RoomMade \/ LinkNode
             \/ DropRestored
  BY <1>1, <1>4 DEF Look, MakeRoom, NoRoom, Checkpoint, Fits, RoomMade, LinkNode, DropRestored,
                    Storing
<1>5. CASE AskNetwork \/ HandOver \/ Discard
  BY <1>5 DEF AskNetwork, HandOver, Discard, listVars, freeVars
<1>6. CASE EndPools \/ JoinUploader
  BY <1>1, <1>6 DEF EndPools, JoinUploader, Closed, listVars, writerVars, freeVars
<1>7. CASE UNCHANGED diskVars \/ UNCHANGED vars
  BY <1>7 DEF diskVars, vars, listVars, writerVars, freeVars
<1> QED
  BY <1>2, <1>3, <1>4, <1>5, <1>6, <1>7, Steps DEF Still

\* temp->memory is a size, or nothing.
LEMMA TempSizeStep ==
  ASSUME Core, tempSize \in SizesRead, [Next]_vars
  PROVE  tempSize' \in SizesRead
<1>1. CASE Unlink
  <2>1. function[head] \in Functions
    BY <1>1, UnlinkMoves, FunctionOfNode DEF Core, Apart
  <2> QED
    BY <1>1, <2>1 DEF Unlink, SizesRead
<1>2. CASE Account
  BY <1>2 DEF Account, SizesRead
<1>3. CASE (\E f \in Functions : FindInDisk(f))
             \/ \E f \in Functions, r \in BOOLEAN : TakeContainer(f, r)
  BY <1>3 DEF FindInDisk, TakeContainer, writerVars, freeVars
<1>4. CASE TakeRequest \/ Retrieve \/ ReadBin \/ ReleaseNode
  BY <1>4 DEF TakeRequest, Retrieve, ReadBin, ReleaseNode, writerVars, freeVars
<1>5. CASE Look \/ MakeRoom \/ NoRoom \/ Checkpoint \/ Fits \/ RoomMade \/ LinkNode
             \/ DropRestored
  BY <1>5 DEF Look, MakeRoom, NoRoom, Checkpoint, Fits, RoomMade, LinkNode, DropRestored,
              freeVars
<1>6. CASE AskNetwork \/ HandOver \/ Discard
  BY <1>6 DEF AskNetwork, HandOver, Discard, freeVars
<1>7. CASE EndPools \/ SendQuit \/ JoinUploader
  BY <1>7 DEF EndPools, SendQuit, JoinUploader, writerVars, freeVars
<1>8. CASE UNCHANGED diskVars \/ UNCHANGED vars
  BY <1>8 DEF diskVars, vars, writerVars, freeVars
<1> QED
  BY <1>1, <1>2, <1>3, <1>4, <1>5, <1>6, <1>7, <1>8, Steps DEF Still

\* A list is as long as there have been stores.
LEMMA ListLength ==
  ASSUME Core
  PROVE  Len(List) \in Nat /\ Len(List) <= MaxStores
<1>1. /\ List \in Seq(Nodes) /\ ~Repeats(List) /\ Len(List) \in Nat
      /\ Elements(List) \subseteq allocated
  BY ListFacts DEF Core, Apart, Listed
<1>2. IsFiniteSet(allocated) /\ Cardinality(allocated) \in Nat
  BY NetCacheAssumption, FS_Subset, FS_CardinalityType DEF Core, TypeOK
<1>3. Len(List) <= Cardinality(allocated)
  BY <1>1, <1>2, LengthBound
<1>4. Cardinality(allocated) <= MaxStores
  <2>1. stores \in 0..MaxStores
    BY DEF Core, TypeOK
  <2> QED
    BY <1>2, <2>1, MostFacts DEF Core, StoresCounted
<1> QED
  BY <1>1, <1>2, <1>3, <1>4, MostFacts

\* While the trace runs, only its end changes where main is.
LEMMA WhileRunning ==
  ASSUME Core, [Next]_vars, Running
  PROVE  main' = main \/ EndPools
<1> USE DEF Running
<1>1. CASE (\E f \in Functions : FindInDisk(f))
             \/ \E f \in Functions, r \in BOOLEAN : TakeContainer(f, r)
  BY <1>1 DEF FindInDisk, TakeContainer
<1>2. CASE TakeRequest \/ Retrieve \/ ReadBin \/ ReleaseNode
  BY <1>2 DEF TakeRequest, Retrieve, ReadBin, ReleaseNode
<1>3. CASE Look \/ MakeRoom \/ NoRoom \/ Checkpoint \/ Fits \/ RoomMade \/ LinkNode
             \/ DropRestored
  BY <1>3 DEF Look, MakeRoom, NoRoom, Checkpoint, Fits, RoomMade, LinkNode, DropRestored
<1>4. CASE Unlink \/ AskNetwork \/ HandOver \/ Discard \/ Account
  BY <1>4 DEF Unlink, AskNetwork, HandOver, Discard, Account
<1>5. CASE SendQuit \/ JoinUploader
  BY <1>5 DEF SendQuit, JoinUploader
<1>6. CASE UNCHANGED diskVars \/ UNCHANGED vars
  BY <1>6 DEF diskVars, vars
<1> QED
  BY <1>1, <1>2, <1>3, <1>4, <1>5, <1>6, Steps DEF Still

\* Main deletes one node after the other.
LEMMA DrainedStep ==
  ASSUME Core, Drained, [Next]_vars
  PROVE  Drained'
<1>1. tempSize' \in SizesRead
  BY TempSizeStep DEF Drained
<1>2. /\ Chain /\ freed \in Nat /\ Len(List) \in Nat /\ Len(List) <= MaxStores
      /\ Most \in Nat /\ MaxStores \in Nat
  BY ListLength, MostFacts DEF Core, TypeOK
<1>3. /\ temp # NoNode <=> writer \in {"ask", "hand", "discard", "account"}
      /\ NoNode \notin Nodes
  BY NetCacheAssumption DEF Core, Stages
<1>4. main = "draining" => freed + Most * Undeleted <= Most * MaxStores
  BY DEF Drained
<1>5. CASE EndPools
  <2>1. /\ freed' = 0 /\ List' = List /\ temp' = NoNode /\ ~Closed'
    <3>1. UNCHANGED <<head, next, temp>> /\ writer = "idle" /\ freed' = 0 /\ ~Closed'
      BY <1>5 DEF EndPools, listVars, Closed
    <3> QED
      BY <1>2, <1>3, <3>1, ListSame
  <2>2. Undeleted' = Len(List) + 0
    BY <2>1 DEF Undeleted
  <2>3. freed' + Most * Undeleted' <= Most * MaxStores
    <3>1. \A a, b, c \in Nat : a <= b => c * a <= c * b
      OBVIOUS
    <3>2. Most * Len(List) <= Most * MaxStores
      BY <1>2, <3>1
    <3> QED
      BY <1>2, <2>1, <2>2, <3>2
  <2> QED
    BY <1>1, <2>1, <2>3 DEF Drained
<1>6. CASE Running /\ ~EndPools
  BY <1>1, <1>6, WhileRunning DEF Drained, Running, Closed
<1>7. CASE ~Running /\ Unlink
  <2>1. /\ writer = "evict" /\ main = "draining" /\ main' = main /\ freed' = freed
    BY <1>7 DEF Unlink, MayUnlink, MustEvict, readerVars, Core, Stages, Locked
  <2>2. temp = NoNode /\ temp' # NoNode
    BY <1>3, <1>7, <2>1, UnlinkMoves
  <2>3. Len(List') = Len(List) - 1
    <3>1. List \in Seq(Nodes) /\ List # <<>> /\ List' = Tail(List)
      BY <1>2, <1>7, UnlinkMoves, ListFacts
    <3> QED
      BY <3>1, HeadTailProperties
  <2>4. Undeleted = Len(List) + 0 /\ Undeleted' = Len(List) - 1 + 1
    BY <2>2, <2>3 DEF Undeleted
  <2>5. Undeleted' = Undeleted
    BY <1>2, <2>4
  <2> QED
    BY <1>1, <1>4, <2>1, <2>5 DEF Drained, Closed
<1>8. CASE ~Running /\ Account
  <2>1. PICK w \in Readable : freed' = freed + w
    BY <1>8 DEF Account
  <2>2. w \in Nat /\ w <= Most
    <3>1. w \in SizesRead
      BY DEF Readable, SizesRead, Drained
    <3> QED
      BY <3>1, MostFacts, DiskCacheAssumption DEF SizesRead
  <2>3. /\ writer = "account" /\ main = "draining" /\ main' = main
        /\ temp' = NoNode /\ UNCHANGED <<head, next>>
    BY <1>8 DEF Account, Core, Stages, Locked
  <2>4. List' = List
    BY <1>2, <2>3, ListSame
  <2>5. Undeleted = Len(List) + 1 /\ Undeleted' = Len(List) + 0
    BY <1>3, <2>3, <2>4 DEF Undeleted
  <2>6. freed' + Most * Undeleted' <= Most * MaxStores
    <3>1. Most * (Len(List) + 1) = Most * Len(List) + Most
      BY <1>2
    <3>2. freed + (Most * Len(List) + Most) <= Most * MaxStores
      BY <1>4, <2>3, <2>5, <3>1
    <3>3. Most * Undeleted' = Most * Len(List)
      BY <1>2, <2>5
    <3> QED
      BY <1>2, <2>1, <2>2, <3>2, <3>3
  <2> QED
    BY <1>1, <2>3, <2>6 DEF Drained, Closed
<1>9. CASE ~Running /\ SendQuit
  <2>1. /\ ~MustEvict /\ writer = "evict" /\ main = "draining" /\ main' = "joining"
        /\ head' = head
    BY <1>9 DEF SendQuit, Finished, listVars
  <2>2. freed < 1000000000
    <3>1. temp = NoNode
      BY <1>3, <2>1
    <3>2. Undeleted = Len(List) + 0
      BY <3>1 DEF Undeleted
    <3>3. \A a, b \in Nat : a * b \in Nat /\ a * b = b * a
      OBVIOUS
    <3>4. Most * Len(List) \in Nat /\ Most * MaxStores < 1000000000
          /\ Most * MaxStores \in Nat
      BY <1>2, <3>3, MostFacts
    <3>5. freed + Most * Len(List) <= Most * MaxStores
      BY <1>2, <1>4, <2>1, <3>2
    <3> QED
      BY <1>2, <3>4, <3>5
  <2>3. head = NoNode
    BY <2>1, <2>2 DEF MustEvict, Need
  <2> QED
    BY <1>1, <2>1, <2>3 DEF Drained
<1>10. CASE /\ ~Running
            /\ UNCHANGED <<head, next, freed, temp, tempSize>>
            /\ main' = main \/ (Closed /\ Closed')
  <2>1. List' = List
    BY <1>2, <1>10, ListSame
  <2>2. Undeleted' = Undeleted
    BY <1>10, <2>1 DEF Undeleted
  <2> QED
    BY <1>1, <1>4, <1>10, <2>2 DEF Drained, Closed
<1> QED
  BY <1>5, <1>6, <1>7, <1>8, <1>9, <1>10, AfterRunning

\* Main stops deleting at an empty list.
LEMMA DrainedHolds == Spec => []Drained
<1>1. Init => Drained
  BY DEF Init, Drained, SizesRead, Closed
<1>2. Core /\ Drained /\ [Next]_vars => Drained'
  BY DrainedStep
<1> QED
  BY <1>1, <1>2, CoreHolds, PTL DEF Spec

\* When main has joined the upload thread there is no list, no work and nobody
\* in the middle of it.
LEMMA EndIsClean ==
  ASSUME Core, Drained, FilesAreKnown
  PROVE  NothingLeftBehind
<1> SUFFICES ASSUME main = "done"
             PROVE  uploadQueue = <<Quit>> /\ allocated = {} /\ files = {}
  BY DEF NothingLeftBehind
<1>1. uploader = "exited" /\ uploadQueue = <<Quit>>
  BY DEF Core, QuitIsLast
<1>2. Listed = {}
  BY ListFacts DEF Drained, Closed, Core
<1>3. QueuedNodes = {}
  BY <1>1 DEF QueuedNodes, Elements
<1>4. writer = "idle"
  BY DEF Core, TypeOK, Stages, Storing, Running, Locked, WriterPCs
<1>5. Inserting = {} /\ Evicting = {} /\ InHand = {}
  BY <1>1, <1>4 DEF Inserting, Evicting, InHand
<1>6. allocated = {}
  BY <1>2, <1>3, <1>5 DEF Core, Apart
<1>7. files = {}
  BY <1>1, <1>2, <1>3, <1>4, <1>5 DEF FilesAreKnown, FunctionsOf
<1> QED
  BY <1>1, <1>6, <1>7

\* At the end all nodes are freed and all files deleted, and the queue holds
\* nothing but the "quit".
THEOREM NothingStaysBehind == Spec => []NothingLeftBehind
BY CoreHolds, DrainedHolds, FilesKnownHold, EndIsClean, PTL

-----------------------------------------------------------------------------
(***************************************************************************)
(* The pointers implement the LRU sequence                                 *)
(***************************************************************************)

\* The sequence of functions, place by place.
LEMMA RecencyFacts ==
  ASSUME Core
  PROVE  /\ Recency \in Seq(Functions) /\ Len(Recency) = Len(List)
         /\ Recency = [i \in 1..Len(List) |-> function[List[i]]]
         /\ DOMAIN Recency = 1..Len(List) /\ Len(List) \in Nat
         /\ \A i \in 1..Len(List) : Recency[i] = function[List[i]]
<1>1. /\ Len(List) \in Nat /\ DOMAIN List = 1..Len(List)
      /\ \A i \in 1..Len(List) : List[i] \in Listed
  BY ListFacts DEF Core
<1>2. Recency = [i \in 1..Len(List) |-> function[List[i]]]
  BY <1>1 DEF Recency
<1>3. \A i \in 1..Len(List) : function[List[i]] \in Functions
  BY <1>1, FunctionOfNode DEF Core, Apart
<1>4. Recency \in [1..Len(List) -> Functions]
  BY <1>2, <1>3
<1>5. Recency \in Seq(Functions)
  BY <1>1, <1>4, SeqDef
<1>6. DOMAIN Recency = 1..Len(List)
  BY <1>2
<1>7. Len(Recency) = Len(List)
  BY <1>1, <1>5, <1>6, LenProperties
<1> QED
  BY <1>1, <1>2, <1>5, <1>6, <1>7

\* The sequence in the next state, given the list there.
LEMMA RecencyNext ==
  ASSUME Core, [Next]_vars, Core'
  PROVE  Recency' = [i \in 1..Len(List') |-> function[List'[i]]]
<1>1. /\ DOMAIN List' = 1..Len(List')
      /\ \A i \in 1..Len(List') : List'[i] \in Listed'
  <2>1. Linked(head', next', List')
    BY DEF Core, Chain
  <2> QED
    BY <2>1, LinkedFacts DEF Listed
<1>2. Recency' = [i \in 1..Len(List') |-> function'[List'[i]]]
  BY <1>1 DEF Recency
<1>3. \A i \in 1..Len(List') : function'[List'[i]] = function[List'[i]]
  BY <1>1, NodesStep
<1> QED
  BY <1>2, <1>3

\* A step that renews a node is a lookup of its function.
LEMMA RenewedIsLookup ==
  ASSUME Core, [Next]_vars, Core', NEW f \in Functions,
         f \in FunctionsOf(Listed), MoveToEnd(NodeOf(f))
  PROVE  Lru!Lookup(f)
<1>1. NodeOf(f) \in Listed /\ function[NodeOf(f)] = f
  BY NodeIsFound
<1>2. PICK i \in 1..Len(List) : List[i] = NodeOf(f) /\ List' = Lru!Renewed(List, i)
  BY <1>1, FoundIsRenewed DEF Core
<1>3. /\ List \in Seq(Nodes) /\ ~Repeats(List) /\ Len(List) \in Nat
  BY ListFacts DEF Core
<1>4. /\ Len(List') = Len(List)
      /\ \A j \in 1..Len(List) :
           List'[j] = IF j < i THEN List[j] ELSE IF j < Len(List) THEN List[j + 1] ELSE List[i]
  BY <1>2, <1>3, RenewedFacts
<1>5. Recency' = [j \in 1..Len(List) |-> function[List'[j]]]
  BY <1>4, RecencyNext
<1>6. /\ Len(Recency) = Len(List) /\ DOMAIN Recency = 1..Len(List)
      /\ \A j \in 1..Len(List) : Recency[j] = function[List[j]]
  BY RecencyFacts
<1>7. \A j \in 1..Len(List) :
        function[List'[j]] = IF j < i THEN Recency[j]
                             ELSE IF j < Len(Recency) THEN Recency[j + 1] ELSE Recency[i]
  BY <1>3, <1>4, <1>6
<1>8. Recency' = Lru!Renewed(Recency, i)
  BY <1>5, <1>6, <1>7 DEF Lru!Renewed
<1> QED
  BY <1>1, <1>2, <1>6, <1>8 DEF Lru!Lookup

\* Every step is one of the LRU sequence, or leaves it alone.
LEMMA LruStep ==
  ASSUME Core, OncePerFunction, Core', [Next]_vars
  PROVE  [Lru!Next]_Recency
<1>1. CASE \E f \in Functions : FindInDisk(f)
  <2>1. PICK f \in Functions : FindInDisk(f)
    BY <1>1
  <2>2. f \in FunctionsOf(Listed) /\ MoveToEnd(NodeOf(f))
    BY <2>1 DEF FindInDisk
  <2>3. Lru!Lookup(f)
    BY <2>2, RenewedIsLookup
  <2> QED
    BY <2>3 DEF Lru!Next
<1>2. CASE Look /\ stored \in FunctionsOf(Listed)
  <2>1. stored \in Functions /\ MoveToEnd(NodeOf(stored))
    BY <1>2, FunctionOfNode DEF Look
  <2>2. PICK f \in Functions : f = stored
    BY <2>1
  <2>3. Lru!Lookup(f)
    BY <1>2, <2>1, <2>2, RenewedIsLookup
  <2> QED
    BY <2>3 DEF Lru!Next
<1>3. CASE LinkNode
  <2>1. /\ newNode \in Nodes /\ newNode \notin Listed /\ List' = Append(List, newNode)
        /\ function[newNode] = stored
    BY <1>3, LinkMoves DEF Core, Contents
  <2>2. /\ List \in Seq(Nodes) /\ Len(List) \in Nat
        /\ \A i \in 1..Len(List) : List[i] \in Listed
    BY ListFacts DEF Core
  <2>3. stored \in Functions /\ stored \notin FunctionsOf(Listed)
    BY <1>3 DEF LinkNode, OncePerFunction, Core, TypeOK, Stages, Storing, Running
  <2>4. /\ Len(List') = Len(List) + 1 /\ List'[Len(List) + 1] = newNode
        /\ \A i \in 1..Len(List) : List'[i] = List[i]
    BY <2>1, <2>2, AppendProperties
  <2>5. Recency' = [i \in 1..Len(List) + 1 |-> function[List'[i]]]
    BY <2>4, RecencyNext
  <2>6. /\ Recency \in Seq(Functions) /\ Len(Recency) = Len(List)
        /\ DOMAIN Recency = 1..Len(List)
        /\ \A i \in 1..Len(List) : Recency[i] = function[List[i]]
    BY RecencyFacts
  <2>7. /\ DOMAIN Append(Recency, stored) = 1..Len(List) + 1
        /\ \A i \in 1..Len(List) : Append(Recency, stored)[i] = Recency[i]
        /\ Append(Recency, stored)[Len(List) + 1] = stored
        /\ Append(Recency, stored) \in Seq(Functions)
    BY <2>3, <2>6, AppendProperties
  <2>8. Append(Recency, stored)
          = [i \in 1..Len(List) + 1 |-> Append(Recency, stored)[i]]
    BY <2>7, LenProperties
  <2>9. \A i \in 1..Len(List) + 1 : function[List'[i]] = Append(Recency, stored)[i]
    BY <2>1, <2>2, <2>4, <2>6, <2>7
  <2>10. Recency' = Append(Recency, stored)
    BY <2>5, <2>8, <2>9
  <2>11. \A i \in DOMAIN Recency : Recency[i] # stored
    BY <2>2, <2>3, <2>6 DEF FunctionsOf
  <2> QED
    BY <2>3, <2>10, <2>11 DEF Lru!Next, Lru!Store
<1>4. CASE Unlink
  <2>1. List # <<>> /\ List' = Tail(List)
    BY <1>4, UnlinkMoves
  <2>2. List \in Seq(Nodes) /\ Len(List) \in Nat
    BY ListFacts DEF Core
  <2>3. /\ Len(List) # 0 /\ Len(List') = Len(List) - 1
        /\ \A i \in 1..Len(List) - 1 : List'[i] = List[i + 1]
    BY <2>1, <2>2, HeadTailProperties, EmptySeq
  <2>4. Recency' = [i \in 1..Len(List) - 1 |-> function[List'[i]]]
    BY <2>3, RecencyNext
  <2>5. /\ Recency \in Seq(Functions) /\ Len(Recency) = Len(List)
        /\ \A i \in 1..Len(List) : Recency[i] = function[List[i]]
    BY RecencyFacts
  <2>6. /\ Recency # <<>>
        /\ Tail(Recency) \in Seq(Functions) /\ Len(Tail(Recency)) = Len(List) - 1
        /\ \A i \in 1..Len(List) - 1 : Tail(Recency)[i] = Recency[i + 1]
    BY <2>2, <2>3, <2>5, HeadTailProperties, EmptySeq
  <2>7. Tail(Recency) = [i \in 1..Len(List) - 1 |-> Tail(Recency)[i]]
    BY <2>6, LenProperties
  <2>8. \A i \in 1..Len(List) - 1 : function[List'[i]] = Tail(Recency)[i]
    BY <2>2, <2>3, <2>5, <2>6
  <2>9. Recency' = Tail(Recency)
    BY <2>4, <2>7, <2>8
  <2> QED
    BY <2>6, <2>9 DEF Lru!Next, Lru!Evict
<1>5. CASE UNCHANGED <<head, next>>
  <2>1. List' = List
    BY <1>5, ListSame DEF Core
  <2>2. Recency' = [i \in 1..Len(List) |-> function[List[i]]]
    BY <2>1, RecencyNext
  <2>3. Recency' = Recency
    BY <2>2, RecencyFacts
  <2> QED
    BY <2>3
<1>6. \/ \E f \in Functions : FindInDisk(f)
      \/ Look /\ stored \in FunctionsOf(Listed)
      \/ LinkNode \/ Unlink
      \/ UNCHANGED <<head, next>>
  <2>1. CASE \E f \in Functions, r \in BOOLEAN : TakeContainer(f, r)
    BY <2>1 DEF TakeContainer, listVars
  <2>2. CASE TakeRequest \/ Retrieve \/ ReadBin \/ ReleaseNode
    BY <2>2 DEF TakeRequest, Retrieve, ReadBin, ReleaseNode, listVars
  <2>3. CASE Look \/ MakeRoom \/ NoRoom \/ Checkpoint
    BY <2>3 DEF Look, MakeRoom, NoRoom, Checkpoint, listVars
  <2>4. CASE AskNetwork \/ Account \/ EndPools \/ SendQuit \/ JoinUploader
    BY <2>4 DEF AskNetwork, Account, EndPools, SendQuit, JoinUploader, listVars
  <2>5. CASE Fits \/ RoomMade \/ DropRestored \/ HandOver \/ Discard
    BY <2>5 DEF Fits, RoomMade, DropRestored, HandOver, Discard, listVars
  <2>6. CASE UNCHANGED diskVars \/ UNCHANGED vars
    BY <2>6 DEF diskVars, vars, listVars
  <2> QED
    BY <2>1, <2>2, <2>3, <2>4, <2>5, <2>6, Steps DEF Still
<1> QED
  BY <1>1, <1>2, <1>3, <1>4, <1>5, <1>6

\* The linked list with its pointers implements LruCache.
THEOREM ListKeepsRecency == Spec => KeepsRecency
<1>1. Init => Lru!Init
  <2> SUFFICES ASSUME Init PROVE Recency = <<>>
    BY DEF Lru!Init
  <2>1. Core /\ Len(List) = 0
    BY CoreInit, ListFacts DEF Init, Core
  <2> QED
    BY <2>1, RecencyFacts, EmptySeq
<1>2. Core /\ Core' /\ OncePerFunction /\ [Next]_vars => [Lru!Next]_Recency
  BY LruStep
<1> QED
  BY <1>1, <1>2, CoreHolds, OnceHolds, PTL DEF Spec, KeepsRecency, Lru!Spec
=============================================================================
