----------------------------- MODULE SumsProofs -----------------------------
(***************************************************************************)
(* The laws of Sums: totals over a set that grows, shrinks or changes one  *)
(* of its sizes, and the members of a list that is cut or extended.        *)
(***************************************************************************)
EXTENDS Sums, FiniteSetTheorems, SequenceTheorems, TLAPS

(***************************************************************************)
(* Totals                                                                  *)
(***************************************************************************)

\* The units of one member are as many as its size.
LEMMA UnitsOne ==
  ASSUME NEW x, NEW size, size[x] \in Nat
  PROVE  /\ Units({x}, size) = {x} \X (1..size[x])
         /\ IsFiniteSet(Units({x}, size))
         /\ Cardinality(Units({x}, size)) = size[x]
<1>1. Units({x}, size) = {x} \X (1..size[x])
  BY DEF Units
<1>2. IsFiniteSet({x}) /\ Cardinality({x}) = 1
  BY FS_Singleton
<1>3. IsFiniteSet(1..size[x]) /\ Cardinality(1..size[x]) = size[x]
  <2> DEFINE n == size[x]
  <2>1. n \in Nat
    OBVIOUS
  <2> HIDE DEF n
  <2>2. /\ IsFiniteSet(1..n)
        /\ Cardinality(1..n) = IF 1 > n THEN 0 ELSE n - 1 + 1
    BY <2>1, FS_Interval
  <2>3. Cardinality(1..n) = n
    BY <2>1, <2>2
  <2> QED
    BY <2>2, <2>3 DEF n
<1>4. /\ IsFiniteSet({x} \X (1..size[x]))
      /\ Cardinality({x} \X (1..size[x])) = 1 * size[x]
  <2> DEFINE I == 1..size[x]
  <2> HIDE DEF I
  <2>1. IsFiniteSet(I) /\ Cardinality(I) = size[x]
    BY <1>3 DEF I
  <2>2. /\ IsFiniteSet({x} \X I)
        /\ Cardinality({x} \X I) = Cardinality({x}) * Cardinality(I)
    BY <1>2, <2>1, FS_Product
  <2> QED
    BY <1>2, <2>1, <2>2 DEF I
<1>5. 1 * size[x] = size[x]
  OBVIOUS
<1> QED
  BY <1>1, <1>4, <1>5, Zenon

\* A finite set has finitely many units, so its total is a natural number.
LEMMA TotalIsNat ==
  ASSUME NEW S, NEW size, IsFiniteSet(S), \A x \in S : size[x] \in Nat
  PROVE  /\ IsFiniteSet(Units(S, size))
         /\ Total(S, size) \in Nat
<1> DEFINE Row(x) == {x} \X (1..size[x])
           T == {Row(x) : x \in S}
           f == [x \in S |-> Row(x)]
<1>1. f \in Surjection(S, T)
  BY DEF Surjection
<1>2. IsFiniteSet(T)
  BY <1>1, FS_Surjection
<1>3. \A r \in T : IsFiniteSet(r)
  <2>1. SUFFICES ASSUME NEW x \in S PROVE IsFiniteSet(Row(x))
    OBVIOUS
  <2> QED
    BY UnitsOne
<1>4. IsFiniteSet(UNION T)
  BY <1>2, <1>3, FS_UNION
<1>5. IsFiniteSet(Units(S, size))
  BY <1>4 DEF Units
<1> QED
  BY <1>5, FS_CardinalityType DEF Total

\* The sum over no member is zero: nothing cached, nothing charged.
LEMMA TotalEmpty ==
  ASSUME NEW size
  PROVE  Total({}, size) = 0
<1>1. Units({}, size) = {}
  BY DEF Units
<1> QED
  BY <1>1, FS_EmptySet DEF Total

\* The sum of zeros.
LEMMA TotalZero ==
  ASSUME NEW S, NEW size, \A x \in S : size[x] = 0
  PROVE  Total(S, size) = 0
<1>1. Units(S, size) = {}
  BY DEF Units
<1> QED
  BY <1>1, FS_EmptySet DEF Total

\* The sum over one member is its size.
LEMMA TotalOne ==
  ASSUME NEW x, NEW size, size[x] \in Nat
  PROVE  Total({x}, size) = size[x]
BY UnitsOne DEF Total

\* Disjoint sets have disjoint units.
LEMMA TotalUnion ==
  ASSUME NEW S, NEW T, NEW size, IsFiniteSet(S), IsFiniteSet(T),
         S \cap T = {}, \A x \in S \cup T : size[x] \in Nat
  PROVE  Total(S \cup T, size) = Total(S, size) + Total(T, size)
<1>1. Units(S \cup T, size) = Units(S, size) \cup Units(T, size)
  BY DEF Units
<1>2. Units(S, size) \cap Units(T, size) = {}
  BY DEF Units
<1>3. IsFiniteSet(Units(S, size)) /\ IsFiniteSet(Units(T, size))
  BY TotalIsNat
<1>4. Total(S, size) \in Nat /\ Total(T, size) \in Nat
  BY TotalIsNat
<1> DEFINE A == Units(S, size)
           B == Units(T, size)
<1>5. Cardinality(A \cup B) = Cardinality(A) + Cardinality(B) - Cardinality(A \cap B)
  BY <1>3, FS_Union
<1>6. Cardinality(A \cap B) = 0
  BY <1>2, FS_EmptySet, Zenon
<1>7. /\ Total(S \cup T, size) = Cardinality(A \cup B)
      /\ Total(S, size) = Cardinality(A)
      /\ Total(T, size) = Cardinality(B)
  BY <1>1, Zenon DEF Total
<1> HIDE DEF A, B
<1> QED
  BY <1>4, <1>5, <1>6, <1>7

\* A total depends on the sizes of the members only.
LEMMA TotalSame ==
  ASSUME NEW S, NEW a, NEW b, \A x \in S : a[x] = b[x]
  PROVE  Total(S, a) = Total(S, b)
<1>1. Units(S, a) = Units(S, b)
  BY DEF Units
<1> QED
  BY <1>1 DEF Total

\* A new member adds its size to the sum, as insertRamItem does.
LEMMA TotalAdd ==
  ASSUME NEW S, NEW x, NEW size, IsFiniteSet(S), x \notin S,
         \A y \in S : size[y] \in Nat, size[x] \in Nat
  PROVE  Total(S \cup {x}, size) = Total(S, size) + size[x]
<1> DEFINE R == {x}
<1>1. IsFiniteSet(R)
  BY FS_Singleton
<1>2. \A y \in S \cup R : size[y] \in Nat
  OBVIOUS
<1>3. S \cap R = {}
  OBVIOUS
<1>4. Total(R, size) = size[x]
  BY TotalOne, Zenon
<1> HIDE DEF R
<1>5. Total(S \cup R, size) = Total(S, size) + Total(R, size)
  BY <1>1, <1>2, <1>3, TotalUnion
<1>6. Total(S \cup R, size) = Total(S, size) + size[x]
  BY <1>4, <1>5, Zenon
<1> QED
  BY <1>6, Zenon DEF R

\* A member that leaves takes its size out of the sum, as a warm start does.
LEMMA TotalRemove ==
  ASSUME NEW S, NEW x \in S, NEW size, IsFiniteSet(S),
         \A y \in S : size[y] \in Nat
  PROVE  Total(S \ {x}, size) = Total(S, size) - size[x]
<1>1. IsFiniteSet(S \ {x})
  BY FS_Subset
<1>2. S = (S \ {x}) \cup {x}
  OBVIOUS
<1>3. Total((S \ {x}) \cup {x}, size) = Total(S \ {x}, size) + size[x]
  BY <1>1, TotalAdd
<1>4. Total(S \ {x}, size) \in Nat
  BY <1>1, TotalIsNat
<1>5. Total(S, size) = Total(S \ {x}, size) + size[x]
  BY <1>2, <1>3, Zenon
<1> DEFINE rest == Total(S \ {x}, size)
<1> HIDE DEF rest
<1>6. rest \in Nat /\ Total(S, size) = rest + size[x]
  BY <1>4, <1>5 DEF rest
<1>7. rest = Total(S, size) - size[x]
  BY <1>6
<1> QED
  BY <1>7, Zenon DEF rest

\* One member's size changes.
LEMMA TotalChange ==
  ASSUME NEW S, NEW x \in S, NEW a, NEW b, IsFiniteSet(S),
         \A y \in S : a[y] \in Nat /\ b[y] \in Nat,
         \A y \in S \ {x} : a[y] = b[y]
  PROVE  Total(S, b) = Total(S, a) - a[x] + b[x]
<1>1. Total(S \ {x}, a) = Total(S \ {x}, b)
  BY TotalSame
<1>2. Total(S \ {x}, a) = Total(S, a) - a[x]
  BY TotalRemove
<1>3. Total(S \ {x}, b) = Total(S, b) - b[x]
  BY TotalRemove
<1>4. Total(S, a) \in Nat /\ Total(S, b) \in Nat
  BY TotalIsNat
<1> QED
  BY <1>1, <1>2, <1>3, <1>4

(***************************************************************************)
(* Lists                                                                   *)
(***************************************************************************)

\* The members of a list are those at its positions, and of its type.
LEMMA ElementsType ==
  ASSUME NEW S, NEW s \in Seq(S)
  PROVE  /\ Elements(s) \subseteq S
         /\ Elements(s) = {s[i] : i \in 1..Len(s)}
BY LenProperties DEF Elements

\* The empty list has no member.
LEMMA ElementsEmpty == Elements(<<>>) = {}
BY DEF Elements

\* Appending a new element.
LEMMA ElementsAppend ==
  ASSUME NEW S, NEW s \in Seq(S), NEW x \in S, ~Repeats(s), x \notin Elements(s)
  PROVE  /\ Append(s, x) \in Seq(S)
         /\ Elements(Append(s, x)) = Elements(s) \cup {x}
         /\ ~Repeats(Append(s, x))
<1>1. /\ Append(s, x) \in Seq(S)
      /\ Len(Append(s, x)) = Len(s) + 1
      /\ \A i \in 1..Len(s) : Append(s, x)[i] = s[i]
      /\ Append(s, x)[Len(s) + 1] = x
      /\ Len(s) \in Nat
  OBVIOUS
<1>2. DOMAIN s = 1..Len(s) /\ DOMAIN Append(s, x) = 1..Len(s) + 1
  BY <1>1, LenProperties
<1>3. Elements(Append(s, x)) = Elements(s) \cup {x}
  BY <1>1, <1>2 DEF Elements
<1>4. ~Repeats(Append(s, x))
  BY <1>1, <1>2 DEF Elements, Repeats
<1> QED
  BY <1>1, <1>3, <1>4

\* A list of different elements cut in two.
LEMMA ElementsCut ==
  ASSUME NEW S, NEW s \in Seq(S), NEW k \in 0..Len(s), ~Repeats(s)
  PROVE  LET front == SubSeq(s, 1, k)
             back == SubSeq(s, k + 1, Len(s))
         IN  /\ front \in Seq(S) /\ back \in Seq(S)
             /\ Len(front) = k
             /\ Len(back) = Len(s) - k
             /\ ~Repeats(front) /\ ~Repeats(back)
             /\ Elements(s) = Elements(front) \cup Elements(back)
             /\ Elements(front) \cap Elements(back) = {}
<1> DEFINE front == SubSeq(s, 1, k)
           back == SubSeq(s, k + 1, Len(s))
<1>1. Len(s) \in Nat /\ DOMAIN s = 1..Len(s) /\ \A i \in 1..Len(s) : s[i] \in S
  BY LenProperties
<1>2. /\ front \in Seq(S)
      /\ Len(front) = k
      /\ \A i \in 1..k : front[i] = s[i]
  BY <1>1, SubSeqProperties
<1>3. /\ back \in Seq(S)
      /\ Len(back) = Len(s) - k
      /\ \A i \in 1..Len(s) - k : back[i] = s[k + i]
  <2>1. k + 1 \in Int /\ Len(s) \in Int
    BY <1>1
  <2>2. \A i \in k + 1..Len(s) : s[i] \in S
    BY <1>1
  <2>3. /\ back \in Seq(S)
        /\ Len(back) = IF k + 1 <= Len(s) THEN Len(s) - (k + 1) + 1 ELSE 0
        /\ \A i \in 1..Len(s) - (k + 1) + 1 : back[i] = s[(k + 1) + i - 1]
    BY <2>1, <2>2, SubSeqProperties
  <2> HIDE DEF back
  <2>4. Len(s) - (k + 1) + 1 = Len(s) - k
    BY <1>1
  <2>5. Len(back) = Len(s) - k
    <3>1. CASE k + 1 <= Len(s)
      BY <2>3, <2>4, <3>1
    <3>2. CASE ~(k + 1 <= Len(s))
      <4>1. \A n \in Nat : \A j \in 0..n : ~(j + 1 <= n) => n - j = 0
        OBVIOUS
      <4>2. Len(s) - k = 0
        BY <1>1, <3>2, <4>1, Zenon
      <4> QED
        BY <2>3, <3>2, <4>2
    <3> QED
      BY <3>1, <3>2
  <2>6. \A i \in 1..Len(s) - k : (k + 1) + i - 1 = k + i
    BY <1>1
  <2> QED
    BY <2>3, <2>4, <2>5, <2>6
<1>4. DOMAIN front = 1..k /\ DOMAIN back = 1..Len(s) - k
  BY <1>2, <1>3, LenProperties
<1> HIDE DEF front, back
<1>5. ~Repeats(front)
  BY <1>1, <1>2, <1>4 DEF Repeats
<1>6. ~Repeats(back)
  <2>1. SUFFICES ASSUME NEW i \in 1..Len(s) - k, NEW j \in 1..Len(s) - k,
                        i # j, back[i] = back[j]
                 PROVE  FALSE
    BY <1>4 DEF Repeats
  <2>2. s[k + i] = s[k + j]
    BY <1>3, <2>1
  <2>3. k + i \in DOMAIN s /\ k + j \in DOMAIN s /\ k + i # k + j
    BY <1>1, <2>1
  <2> QED
    BY <2>2, <2>3 DEF Repeats
<1>7. Elements(s) \subseteq Elements(front) \cup Elements(back)
  <2>1. SUFFICES ASSUME NEW i \in 1..Len(s)
                 PROVE  s[i] \in Elements(front) \cup Elements(back)
    BY <1>1 DEF Elements
  <2>2. CASE i <= k
    BY <1>2, <1>4, <2>2 DEF Elements
  <2>3. CASE i > k
    <3>1. i - k \in 1..Len(s) - k /\ back[i - k] = s[k + (i - k)]
      BY <1>1, <1>3, <2>3
    <3> QED
      BY <1>1, <1>4, <3>1 DEF Elements
  <2> QED
    BY <2>2, <2>3
<1>8. Elements(front) \cup Elements(back) \subseteq Elements(s)
  <2>1. ASSUME NEW i \in 1..k PROVE front[i] \in Elements(s)
    BY <1>1, <1>2 DEF Elements
  <2>2. ASSUME NEW i \in 1..Len(s) - k PROVE back[i] \in Elements(s)
    <3>1. k + i \in DOMAIN s /\ back[i] = s[k + i]
      BY <1>1, <1>3
    <3> QED
      BY <3>1 DEF Elements
  <2> QED
    BY <1>4, <2>1, <2>2 DEF Elements
<1>9. Elements(front) \cap Elements(back) = {}
  <2>1. SUFFICES ASSUME NEW i \in 1..k, NEW j \in 1..Len(s) - k
                 PROVE  front[i] # back[j]
    BY <1>4 DEF Elements
  <2>2. front[i] = s[i] /\ back[j] = s[k + j]
    BY <1>2, <1>3
  <2>3. i \in DOMAIN s /\ k + j \in DOMAIN s /\ i # k + j
    BY <1>1
  <2> QED
    BY <2>2, <2>3 DEF Repeats
<1> QED
  BY <1>2, <1>3, <1>5, <1>6, <1>7, <1>8, <1>9 DEF front, back

\* The head and the tail of a list of different elements.
LEMMA ElementsTail ==
  ASSUME NEW S, NEW s \in Seq(S), s # <<>>, ~Repeats(s)
  PROVE  /\ Head(s) \in Elements(s)
         /\ Tail(s) \in Seq(S)
         /\ Len(Tail(s)) = Len(s) - 1
         /\ ~Repeats(Tail(s))
         /\ Elements(Tail(s)) = Elements(s) \ {Head(s)}
<1>1. /\ Tail(s) \in Seq(S)
      /\ Len(Tail(s)) = Len(s) - 1
      /\ \A i \in 1..Len(s) - 1 : Tail(s)[i] = s[i + 1]
      /\ Head(s) = s[1]
      /\ Len(s) \in Nat \ {0}
  BY HeadTailProperties, EmptySeq
<1>2. DOMAIN s = 1..Len(s) /\ DOMAIN Tail(s) = 1..Len(s) - 1
  BY <1>1, LenProperties
<1>3. Head(s) \in Elements(s)
  BY <1>1, <1>2 DEF Elements
<1>4. ~Repeats(Tail(s))
  BY <1>1, <1>2 DEF Repeats
<1>5. Elements(Tail(s)) \subseteq Elements(s) \ {Head(s)}
  BY <1>1, <1>2 DEF Elements, Repeats
<1>6. Elements(s) \ {Head(s)} \subseteq Elements(Tail(s))
  <2>1. SUFFICES ASSUME NEW i \in 2..Len(s)
                 PROVE  s[i] \in Elements(Tail(s))
    BY <1>1, <1>2 DEF Elements
  <2>2. i - 1 \in 1..Len(s) - 1 /\ (i - 1) + 1 = i
    BY <1>1
  <2>3. i - 1 \in DOMAIN Tail(s) /\ Tail(s)[i - 1] = s[i]
    BY <1>1, <1>2, <2>2
  <2> QED
    BY <2>3, Zenon DEF Elements
<1> QED
  BY <1>1, <1>3, <1>4, <1>5, <1>6
=============================================================================
