--------------------------- MODULE RamCacheProofs ---------------------------
(***************************************************************************)
(* With RamCacheAccounts: what RamCache guarantees for any number of       *)
(* workers, containers and functions, any sizes, threshold, batch and      *)
(* memory.  Here are its types, that a container has one owner and is not  *)
(* leaked, and that the lists implement the keep-alive policy; there, that *)
(* no megabyte is lost and that the writer stops last.                     *)
(*                                                                         *)
(* None of these is inductive alone.  The types need Shape, which says     *)
(* what goes with each program counter; ownership needs the types; the     *)
(* policy and the accounts need ownership, since a container in two lists  *)
(* would be used or counted twice; and the end of the writer needs the     *)
(* accounts, since the writer takes the value -1 of cache_occupied for an  *)
(* order to stop.                                                          *)
(***************************************************************************)
EXTENDS RamCacheRefinement, SumsProofs

Holding == {"created", "boot", "run"}

\* What goes with each program counter.
WorkerShape(w) ==
  /\ pc[w] # "idle" => job[w] \in Functions
  /\ pc[w] \in Holding <=> cont[w] # NoContainer
  /\ pc[w] # "evict" => victims[w] = <<>> /\ freed[w] = 0
Shape ==
  /\ \A w \in Workers : WorkerShape(w)
  /\ wr = "store" <=> buffer # <<>>
  /\ main \in {"draining", "done"} => \A w \in Workers : pc[w] = "idle"

TypeInv == TypeOK /\ Shape

(***************************************************************************)
(* Facts about the operators of RamCache                                   *)
(***************************************************************************)

\* Unlinking one node of a list of different elements.
LEMMA WithoutNodeProperties ==
  ASSUME NEW S, NEW s \in Seq(S), NEW i \in 1..Len(s), ~Repeats(s)
  PROVE  /\ WithoutNode(s, i) \in Seq(S)
         /\ ~Repeats(WithoutNode(s, i))
         /\ Elements(WithoutNode(s, i)) = Elements(s) \ {s[i]}
         /\ s[i] \in Elements(s)
<1> DEFINE t == WithoutNode(s, i)
<1>1. /\ Len(s) \in Nat
      /\ DOMAIN s = 1..Len(s)
      /\ \A j \in 1..Len(s) : s[j] \in S
      /\ Len(s) - 1 \in Nat
  BY LenProperties
<1>2. /\ t \in [1..Len(s) - 1 -> S]
      /\ DOMAIN t = 1..Len(s) - 1
      /\ \A j \in 1..Len(s) - 1 : t[j] = IF j < i THEN s[j] ELSE s[j + 1]
  BY <1>1 DEF WithoutNode
<1> HIDE DEF t
<1>3. t \in Seq(S)
  BY <1>1, <1>2, SeqDef
<1>4. ~Repeats(t)
  <2>1. SUFFICES ASSUME NEW j \in 1..Len(s) - 1, NEW k \in 1..Len(s) - 1,
                        j < k, t[j] = t[k]
                 PROVE  FALSE
    BY <1>1, <1>2 DEF Repeats
  <2> DEFINE a == IF j < i THEN j ELSE j + 1
             b == IF k < i THEN k ELSE k + 1
  <2>2. a \in DOMAIN s /\ b \in DOMAIN s /\ a # b
    BY <1>1, <2>1
  <2>3. t[j] = s[a] /\ t[k] = s[b]
    BY <1>2
  <2> QED
    BY <2>1, <2>2, <2>3 DEF Repeats
<1>5. Elements(t) \subseteq Elements(s) \ {s[i]}
  <2>1. SUFFICES ASSUME NEW j \in 1..Len(s) - 1
                 PROVE  t[j] \in Elements(s) /\ t[j] # s[i]
    BY <1>2 DEF Elements
  <2> DEFINE a == IF j < i THEN j ELSE j + 1
  <2>2. a \in DOMAIN s /\ a # i /\ i \in DOMAIN s
    BY <1>1
  <2>3. t[j] = s[a]
    BY <1>2
  <2> QED
    BY <2>2, <2>3 DEF Elements, Repeats
<1>6. Elements(s) \ {s[i]} \subseteq Elements(t)
  <2>1. SUFFICES ASSUME NEW k \in 1..Len(s), k # i
                 PROVE  s[k] \in Elements(t)
    BY <1>1 DEF Elements
  <2> DEFINE j == IF k < i THEN k ELSE k - 1
  <2>2. j \in DOMAIN t /\ t[j] = s[k]
    BY <1>1, <1>2, <2>1
  <2> QED
    BY <2>2 DEF Elements
<1>7. s[i] \in Elements(s)
  BY <1>1 DEF Elements
<1> QED
  BY <1>3, <1>4, <1>5, <1>6, <1>7 DEF t

\* Every container has a size.
LEMMA SizeOfType ==
  ASSUME TypeOK
  PROVE  SizeOf \in [Containers -> Nat]
BY RamCacheAssumption DEF TypeOK, SizeOf

\* A piece of the list is a list, and a prefix of it has a size.
LEMMA PieceType ==
  ASSUME TypeOK, NEW k \in 0..Len(ram)
  PROVE  /\ SubSeq(ram, 1, k) \in Seq(Containers)
         /\ Len(SubSeq(ram, 1, k)) = k
         /\ SubSeq(ram, k + 1, Len(ram)) \in Seq(Containers)
         /\ PrefixSize(k) \in Nat
<1> DEFINE front == SubSeq(ram, 1, k)
           back == SubSeq(ram, k + 1, Len(ram))
<1>1. ram \in Seq(Containers)
  BY DEF TypeOK
<1>2. Len(ram) \in Nat /\ \A i \in 1..Len(ram) : ram[i] \in Containers
  BY <1>1, LenProperties
<1>3. front \in Seq(Containers) /\ Len(front) = k
  BY <1>2, SubSeqProperties
<1>4. back \in Seq(Containers)
  BY <1>2, SubSeqProperties
<1> HIDE DEF front, back
<1>5. Elements(front) \subseteq Containers
  BY <1>3, ElementsType
<1>6. IsFiniteSet(Elements(front))
  BY <1>5, FS_Subset, RamCacheAssumption
<1>7. \A c \in Elements(front) : SizeOf[c] \in Nat
  BY <1>5, SizeOfType
<1>8. Total(Elements(front), SizeOf) \in Nat
  BY <1>6, <1>7, TotalIsNat
<1> QED
  BY <1>3, <1>4, <1>8 DEF PrefixSize, front, back

\* A list of different containers weighs as much as its two pieces.
LEMMA PrefixSizeSplits ==
  ASSUME TypeOK, ~Repeats(ram), NEW k \in 0..Len(ram)
  PROVE  /\ PrefixSize(k) \in Nat
         /\ IsFiniteSet(Elements(SubSeq(ram, 1, k)))
         /\ IsFiniteSet(Elements(SubSeq(ram, k + 1, Len(ram))))
         /\ Total(Elements(ram), SizeOf) =
              PrefixSize(k) + Total(Elements(SubSeq(ram, k + 1, Len(ram))), SizeOf)
<1> DEFINE front == SubSeq(ram, 1, k)
           back == SubSeq(ram, k + 1, Len(ram))
<1>1. ram \in Seq(Containers)
  BY DEF TypeOK
<1>2. /\ front \in Seq(Containers)
      /\ back \in Seq(Containers)
      /\ Elements(ram) = Elements(front) \cup Elements(back)
      /\ Elements(front) \cap Elements(back) = {}
  BY <1>1, ElementsCut
<1> HIDE DEF front, back
<1>3. Elements(front) \subseteq Containers /\ Elements(back) \subseteq Containers
  BY <1>2, ElementsType
<1>4. IsFiniteSet(Elements(front)) /\ IsFiniteSet(Elements(back))
  BY <1>3, FS_Subset, RamCacheAssumption
<1>5. \A c \in Elements(front) \cup Elements(back) : SizeOf[c] \in Nat
  BY <1>3, SizeOfType
<1>6. Total(Elements(front), SizeOf) \in Nat
  BY <1>4, <1>5, TotalIsNat
<1>7. Total(Elements(front) \cup Elements(back), SizeOf) =
        Total(Elements(front), SizeOf) + Total(Elements(back), SizeOf)
  BY <1>2, <1>4, <1>5, TotalUnion
<1> QED
  BY <1>2, <1>4, <1>6, <1>7, Zenon DEF PrefixSize, front, back

(***************************************************************************)
(* Types                                                                   *)
(***************************************************************************)
LEMMA TypeInit == Init => TypeInv
<1> SUFFICES ASSUME Init PROVE TypeInv
  OBVIOUS
<1>1. <<>> \in Seq(Containers) /\ Len(<<>>) = 0
  OBVIOUS
<1>2. TypeOK
  BY <1>1, RamCacheAssumption DEF Init, TypeOK, WorkerPCs, StartKinds
<1>3. Shape
  BY RamCacheAssumption DEF Init, Shape, WorkerShape, Holding
<1> QED
  BY <1>2, <1>3 DEF TypeInv

\* Cutting the list off after k nodes, as freeRam and writeToDisk do.
LEMMA BatchBound ==
  ASSUME TypeOK, NEW k \in 0..Len(ram), PollStop(k)
  PROVE  k <= WriteBatch
<1>1. k \in Nat /\ WriteBatch \in Nat
  BY RamCacheAssumption, LenProperties DEF TypeOK
<1>2. CASE k = 0
  BY <1>1, <1>2
<1>3. CASE k # 0
  <2>1. k - 1 \in 0..k - 1
    BY <1>1, <1>3
  <2>2. k - 1 < WriteBatch
    BY <2>1 DEF PollStop, MoveOn
  <2> QED
    BY <1>1, <2>2
<1> QED
  BY <1>2, <1>3

\* Unlinking one node of any list leaves a list.
LEMMA WithoutNodeType ==
  ASSUME NEW S, NEW s \in Seq(S), NEW i \in 1..Len(s)
  PROVE  WithoutNode(s, i) \in Seq(S)
<1>1. /\ Len(s) \in Nat
      /\ \A j \in 1..Len(s) : s[j] \in S
      /\ Len(s) - 1 \in Nat
  BY LenProperties
<1>2. WithoutNode(s, i) \in [1..Len(s) - 1 -> S]
  BY <1>1 DEF WithoutNode
<1> QED
  BY <1>1, <1>2, SeqDef

\* Every step keeps the types.
LEMMA TypeOKStep == TypeInv /\ [Next]_vars => TypeOK'
<1> SUFFICES ASSUME TypeInv, [Next]_vars PROVE TypeOK'
  OBVIOUS
<1> USE RamCacheAssumption
<1> USE DEF TypeInv, WorkerPCs, StartKinds, Goto, Count
<1>0. \A w \in Workers : job[w] \in Functions => Mem[job[w]] \in Nat
  OBVIOUS
<1>num. memory \in Int /\ cacheOccupied \in Int
  BY DEF TypeOK
<1>fun. /\ starts \in [StartKinds -> Nat]
        /\ pc \in [Workers -> WorkerPCs]
        /\ freed \in [Workers -> Nat]
  BY DEF TypeOK
<1>1. ASSUME NEW w \in Workers, NEW f \in Functions, TakeInvocation(w, f)
      PROVE  TypeOK'
  BY <1>1 DEF TypeOK, TakeInvocation, podmanVars, writerVars
<1>2. ASSUME NEW w \in Workers, WarmStart(w) PROVE TypeOK'
  <2>1. PICK i \in 1..Len(ram) :
          /\ cont' = [cont EXCEPT ![w] = ram[i]]
          /\ ram' = WithoutNode(ram, i)
          /\ cacheOccupied' = cacheOccupied - SizeOf[ram[i]]
    BY <1>2 DEF WarmStart, WarmOccupied
  <2>2. ram[i] \in Containers /\ WithoutNode(ram, i) \in Seq(Containers)
    <3>1. ram \in Seq(Containers)
      BY DEF TypeOK
    <3> QED
      BY <3>1, WithoutNodeType, ElementsType
  <2>3. SizeOf[ram[i]] \in Nat
    BY <2>2, SizeOfType
  <2>4. cacheOccupied' \in Int
    BY <1>num, <2>1, <2>3
  <2>5. starts' \in [StartKinds -> Nat]
    BY <1>2, <1>fun DEF WarmStart
  <2>6. /\ cont' \in [Workers -> Containers \cup {NoContainer}]
        /\ ram' \in Seq(Containers)
        /\ pc' \in [Workers -> WorkerPCs]
    BY <1>2, <2>1, <2>2 DEF TypeOK, WarmStart
  <2> HIDE DEF Count, Goto
  <2> QED
    BY <1>2, <2>4, <2>5, <2>6 DEF TypeOK, WarmStart, podmanVars, writerVars
<1>3. ASSUME NEW w \in Workers, Reserve(w) PROVE TypeOK'
  <2>1. Mem[job[w]] \in Nat
    BY <1>0, <1>3 DEF Shape, WorkerShape, Reserve
  <2>2. memory' \in Int
    BY <1>3, <2>1 DEF TypeOK, Reserve
  <2>3. pc' \in [Workers -> WorkerPCs]
    BY <1>3 DEF TypeOK, Reserve
  <2> HIDE DEF Goto
  <2> QED
    BY <1>3, <2>2, <2>3 DEF TypeOK, Reserve, podmanVars, writerVars
<1>4. ASSUME NEW w \in Workers, BeginFreeRam(w) PROVE TypeOK'
  <2>1. PICK k \in 0..Len(ram) :
          /\ victims' = [victims EXCEPT ![w] = SubSeq(ram, 1, k)]
          /\ freed' = [freed EXCEPT ![w] = PrefixSize(k)]
          /\ ram' = SubSeq(ram, k + 1, Len(ram))
    BY <1>4 DEF BeginFreeRam
  <2>2. /\ SubSeq(ram, 1, k) \in Seq(Containers)
        /\ SubSeq(ram, k + 1, Len(ram)) \in Seq(Containers)
        /\ PrefixSize(k) \in Nat
    BY PieceType
  <2>3. Mem[job[w]] \in Nat
    BY <1>0, <1>4 DEF Shape, WorkerShape, BeginFreeRam
  <2>4. Mem[job[w]] - memory \in Int
    <3>1. memory \in Int
      BY DEF TypeOK
    <3> QED
      BY <2>3, <3>1
  <2>5. needed' \in [Workers -> Int]
    BY <1>4, <2>4 DEF TypeOK, BeginFreeRam
  <2>6. /\ victims' \in [Workers -> Seq(Containers)]
        /\ freed' \in [Workers -> Nat]
        /\ ram' \in Seq(Containers)
    BY <2>1, <2>2 DEF TypeOK
  <2>7. pc' \in [Workers -> WorkerPCs]
    BY <1>4 DEF TypeOK, BeginFreeRam
  <2>8. UNCHANGED <<memory, cacheOccupied, job, cont, podmanVars, starts,
                    served, writerVars, main>>
    BY <1>4 DEF BeginFreeRam
  <2> QED
    BY <2>5, <2>6, <2>7, <2>8 DEF TypeOK, podmanVars, writerVars
<1>5. ASSUME NEW w \in Workers, KillVictim(w) PROVE TypeOK'
  <2>1. /\ Tail(victims[w]) \in Seq(Containers)
        /\ Head(victims[w]) \in Containers
    BY <1>5, HeadTailProperties DEF TypeOK, KillVictim
  <2> QED
    BY <1>5, <2>1 DEF TypeOK, KillVictim, KillContainer, writerVars
<1>6. ASSUME NEW w \in Workers, EndFreeRam(w) PROVE TypeOK'
  <2>1. Mem[job[w]] \in Nat /\ freed[w] \in Nat
    BY <1>0, <1>6 DEF Shape, WorkerShape, EndFreeRam, TypeOK
  <2>2. memory' \in Int /\ cacheOccupied' \in Int
    BY <1>6, <1>num, <2>1 DEF EndFreeRam, Credit
  <2>3. /\ freed' \in [Workers -> Nat]
        /\ pc' \in [Workers -> WorkerPCs]
    BY <1>6, <1>fun DEF EndFreeRam
  <2>4. UNCHANGED <<ram, job, cont, victims, needed, podmanVars, starts,
                    served, writerVars, main>>
    BY <1>6 DEF EndFreeRam
  <2> QED
    BY <2>2, <2>3, <2>4 DEF TypeOK, podmanVars, writerVars
<1>7. ASSUME NEW w \in Workers, FailInvocation(w) PROVE TypeOK'
  <2>1. freed[w] \in Nat
    BY DEF TypeOK
  <2>2. memory' \in Int /\ cacheOccupied' \in Int
    BY <1>7, <1>num, <2>1 DEF FailInvocation, Credit
  <2>3. /\ freed' \in [Workers -> Nat]
        /\ pc' \in [Workers -> WorkerPCs]
        /\ starts' \in [StartKinds -> Nat]
    BY <1>7, <1>fun DEF FailInvocation
  <2>4. UNCHANGED <<ram, job, cont, victims, needed, podmanVars, served,
                    writerVars, main>>
    BY <1>7 DEF FailInvocation
  <2> QED
    BY <2>2, <2>3, <2>4 DEF TypeOK, podmanVars, writerVars
<1>8. ASSUME NEW w \in Workers, CreateContainer(w) PROVE TypeOK'
  BY <1>8 DEF TypeOK, CreateContainer, writerVars
<1>9. ASSUME NEW w \in Workers, NEW kind \in StartKinds, RestoredStart(w, kind)
      PROVE  TypeOK'
  <2>1. starts[kind] + 1 \in Nat
    BY DEF TypeOK
  <2>2. starts' \in [StartKinds -> Nat]
    BY <1>9, <2>1 DEF TypeOK, RestoredStart
  <2>3. /\ life' \in [Containers -> {"absent", "created", "running", "stopped"}]
        /\ pc' \in [Workers -> WorkerPCs]
    BY <1>9 DEF TypeOK, RestoredStart, StartContainer
  <2>4. /\ UNCHANGED <<memory, cacheOccupied, ram, job, cont, victims, freed,
                        needed, served, writerVars, main>>
        /\ UNCHANGED <<fn, late>>
    BY <1>9 DEF RestoredStart, StartContainer
  <2> QED
    BY <2>2, <2>3, <2>4 DEF TypeOK, writerVars
<1>10. ASSUME NEW w \in Workers, ColdStart(w) PROVE TypeOK'
  <2>1. /\ starts' \in [StartKinds -> Nat]
        /\ pc' \in [Workers -> WorkerPCs]
    BY <1>10, <1>fun DEF ColdStart
  <2>2. UNCHANGED <<memory, cacheOccupied, ram, job, cont, victims, freed,
                    needed, podmanVars, served, writerVars, main>>
    BY <1>10 DEF ColdStart
  <2> QED
    BY <2>1, <2>2 DEF TypeOK, podmanVars, writerVars
<1>11. ASSUME NEW w \in Workers, BootContainer(w) PROVE TypeOK'
  BY <1>11 DEF TypeOK, BootContainer, StartContainer, writerVars
<1>12. ASSUME NEW w \in Workers, RunReturns(w) \/ RunTimesOut(w) PROVE TypeOK'
  <2>1. cont[w] \in Containers /\ job[w] \in Functions
    BY <1>12 DEF TypeOK, Shape, WorkerShape, Holding, RunReturns, RunTimesOut, Finish
  <2>2. PICK l \in SUBSET Containers : Finish(w, l)
    BY <1>12, <2>1 DEF TypeOK, RunReturns, RunTimesOut
  <2>3. Append(ram, cont[w]) \in Seq(Containers) /\ Mem[job[w]] \in Nat
    BY <1>0, <2>1, AppendProperties DEF TypeOK
  <2>4. ram' \in Seq(Containers) /\ cacheOccupied' \in Int
    BY <2>2, <2>3 DEF TypeOK, Finish, InsertRamItem
  <2>5. /\ late' \subseteq Containers
        /\ cont' \in [Workers -> Containers \cup {NoContainer}]
        /\ pc' \in [Workers -> WorkerPCs]
    BY <2>2 DEF TypeOK, Finish
  <2>6. UNCHANGED <<memory, job, victims, freed, needed, fn, life, starts,
                    served, writerVars, main>>
    BY <2>2 DEF Finish
  <2> QED
    BY <2>4, <2>5, <2>6 DEF TypeOK, writerVars
<1>13. ASSUME NEW c \in Containers, LateRunEnds(c) PROVE TypeOK'
  BY <1>13 DEF TypeOK, LateRunEnds, workerVars, writerVars
<1>14. ASSUME WriterPoll PROVE TypeOK'
  <2>1. PICK k \in 1..Len(ram) :
          /\ PollStop(k)
          /\ MovedOut(k)
          /\ buffer' = SubSeq(ram, 1, k)
          /\ ram' = SubSeq(ram, k + 1, Len(ram))
    BY <1>14 DEF WriterPoll
  <2>2. k \in 0..Len(ram)
    OBVIOUS
  <2>3. /\ SubSeq(ram, 1, k) \in Seq(Containers)
        /\ Len(SubSeq(ram, 1, k)) = k
        /\ SubSeq(ram, k + 1, Len(ram)) \in Seq(Containers)
        /\ PrefixSize(k) \in Nat
    BY <2>2, PieceType
  <2>4. k <= WriteBatch
    BY <2>1, <2>2, BatchBound
  <2>5. memory' \in Int /\ cacheOccupied' \in Int
    BY <1>num, <2>1, <2>3 DEF MovedOut
  <2>6. /\ buffer' \in Seq(Containers)
        /\ Len(buffer') <= WriteBatch
        /\ ram' \in Seq(Containers)
    BY <2>1, <2>3, <2>4
  <2>7. wr' = "store" /\ UNCHANGED <<workerVars, podmanVars, starts, served, main>>
    BY <1>14 DEF WriterPoll
  <2> QED
    BY <2>5, <2>6, <2>7 DEF TypeOK, workerVars, podmanVars
<1>15. ASSUME WriterStore PROVE TypeOK'
  <2>1. /\ Head(buffer) \in Containers
        /\ Tail(buffer) \in Seq(Containers)
        /\ Len(Tail(buffer)) = Len(buffer) - 1
        /\ Len(buffer) \in Nat
    BY <1>15, HeadTailProperties, LenProperties DEF TypeOK, Shape, WriterStore
  <2> QED
    BY <1>15, <2>1 DEF TypeOK, WriterStore, KillContainer, workerVars
<1>16. ASSUME WriterExit PROVE TypeOK'
  BY <1>16 DEF TypeOK, WriterExit, workerVars, podmanVars
<1>17. ASSUME MainStep PROVE TypeOK'
  <2>1. /\ cacheOccupied' \in Int
        /\ main' \in {"feeding", "waiting", "draining", "done"}
        /\ UNCHANGED <<memory, ram, workerVars, podmanVars, starts, served,
                       writerVars>>
    BY <1>17, <1>num DEF MainStep, EndOfInput, StopWriter, JoinWriter
  <2> QED
    BY <2>1 DEF TypeOK, workerVars, podmanVars, writerVars
<1>18. ASSUME UNCHANGED vars PROVE TypeOK'
  BY <1>18 DEF TypeOK, vars, workerVars, podmanVars, writerVars
<1> QED
  BY <1>1, <1>2, <1>3, <1>4, <1>5, <1>6, <1>7, <1>8, <1>9, <1>10, <1>11,
     <1>12, <1>13, <1>14, <1>15, <1>16, <1>17, <1>18
  DEF Next, WorkerStep, WriterStep, Terminated

\* Every step keeps the shape.
LEMMA ShapeStep == TypeInv /\ [Next]_vars => Shape'
<1> SUFFICES ASSUME TypeInv, [Next]_vars PROVE Shape'
  OBVIOUS
<1> USE RamCacheAssumption
<1> USE DEF TypeInv, Shape, WorkerShape, Holding, Goto, Count
<1>0. /\ pc \in [Workers -> WorkerPCs]
      /\ job \in [Workers -> Functions \cup {NoFunction}]
      /\ cont \in [Workers -> Containers \cup {NoContainer}]
      /\ victims \in [Workers -> Seq(Containers)]
      /\ freed \in [Workers -> Nat]
      /\ fn \in [Containers -> Functions \cup {NoFunction}]
      /\ life \in [Containers -> {"absent", "created", "running", "stopped"}]
      /\ \A i \in 1..Len(ram) : ram[i] \in Containers
  BY LenProperties DEF TypeOK
<1>1. ASSUME NEW w \in Workers, NEW f \in Functions, TakeInvocation(w, f)
      PROVE  Shape'
  BY <1>0, <1>1 DEF TakeInvocation, podmanVars, writerVars
<1>2. ASSUME NEW w \in Workers, WarmStart(w) PROVE Shape'
  BY <1>0, <1>2 DEF WarmStart, podmanVars, writerVars
<1>3. ASSUME NEW w \in Workers, Reserve(w) PROVE Shape'
  BY <1>0, <1>3 DEF Reserve, podmanVars, writerVars
<1>4. ASSUME NEW w \in Workers, BeginFreeRam(w) PROVE Shape'
  BY <1>0, <1>4 DEF BeginFreeRam, podmanVars, writerVars
<1>5. ASSUME NEW w \in Workers, KillVictim(w) PROVE Shape'
  BY <1>0, <1>5 DEF KillVictim, KillContainer, writerVars
<1>6. ASSUME NEW w \in Workers, EndFreeRam(w) PROVE Shape'
  BY <1>0, <1>6 DEF EndFreeRam, podmanVars, writerVars
<1>7. ASSUME NEW w \in Workers, FailInvocation(w) PROVE Shape'
  BY <1>0, <1>7 DEF FailInvocation, podmanVars, writerVars
<1>8. ASSUME NEW w \in Workers, CreateContainer(w) PROVE Shape'
  BY <1>0, <1>8 DEF CreateContainer, writerVars
<1>9. ASSUME NEW w \in Workers, NEW kind \in StartKinds, RestoredStart(w, kind)
      PROVE  Shape'
  BY <1>0, <1>9 DEF RestoredStart, StartContainer, writerVars
<1>10. ASSUME NEW w \in Workers, ColdStart(w) PROVE Shape'
  BY <1>0, <1>10 DEF ColdStart, podmanVars, writerVars
<1>11. ASSUME NEW w \in Workers, BootContainer(w) PROVE Shape'
  BY <1>0, <1>11 DEF BootContainer, StartContainer, writerVars
<1>12. ASSUME NEW w \in Workers, RunReturns(w) \/ RunTimesOut(w) PROVE Shape'
  BY <1>0, <1>12 DEF RunReturns, RunTimesOut, Finish, writerVars
<1>13. ASSUME NEW c \in Containers, LateRunEnds(c) PROVE Shape'
  BY <1>13 DEF LateRunEnds, workerVars, writerVars
<1>14. ASSUME WriterPoll PROVE Shape'
  <2>1. PICK k \in 1..Len(ram) : buffer' = SubSeq(ram, 1, k)
    BY <1>14 DEF WriterPoll
  <2>2. k \in 0..Len(ram) /\ k # 0
    OBVIOUS
  <2>3. Len(buffer') = k
    BY <2>1, <2>2, PieceType
  <2>4. buffer' # <<>>
    BY <2>2, <2>3
  <2> QED
    BY <1>14, <2>4 DEF WriterPoll, workerVars, podmanVars
<1>15. ASSUME WriterStore PROVE Shape'
  <2>1. /\ Tail(buffer) \in Seq(Containers)
        /\ Len(Tail(buffer)) = Len(buffer) - 1
        /\ Len(buffer) \in Nat
        /\ Head(buffer) \in Containers
    BY <1>15, HeadTailProperties, LenProperties DEF TypeOK, WriterStore
  <2>2. Tail(buffer) = <<>> <=> Len(Tail(buffer)) = 0
    BY <2>1, EmptySeq, Zenon
  <2>3. Tail(buffer) = <<>> <=> Len(buffer) = 1
    BY <2>1, <2>2
  <2>4. wr' = "store" <=> buffer' # <<>>
    BY <1>15, <2>3 DEF WriterStore
  <2> QED
    BY <1>15, <2>4 DEF WriterStore, workerVars
<1>16. ASSUME WriterExit PROVE Shape'
  BY <1>16 DEF WriterExit, workerVars, podmanVars
<1>17. ASSUME MainStep PROVE Shape'
  BY <1>17 DEF MainStep, EndOfInput, StopWriter, JoinWriter,
               workerVars, podmanVars, writerVars
<1>18. ASSUME UNCHANGED vars PROVE Shape'
  BY <1>18 DEF vars, workerVars, podmanVars, writerVars
<1> QED
  BY <1>1, <1>2, <1>3, <1>4, <1>5, <1>6, <1>7, <1>8, <1>9, <1>10, <1>11,
     <1>12, <1>13, <1>14, <1>15, <1>16, <1>17, <1>18
  DEF Next, WorkerStep, WriterStep, Terminated

\* Every step of the emulator preserves the types and the shape of a worker.
LEMMA TypeStep == TypeInv /\ [Next]_vars => TypeInv'
BY TypeOKStep, ShapeStep DEF TypeInv

\* The variables keep their types and every program counter goes with what
\* the worker holds.
LEMMA TypeCorrect == Spec => []TypeInv
BY TypeInit, TypeStep, PTL DEF Spec

\* TypeOK: among the types is the length of writeToDisk's local buffer, which
\* never exceeds its 100 entries (disk_cache.c:392, 410).
THEOREM TypesHold == Spec => []TypeOK
<1>1. TypeInv => TypeOK
  BY DEF TypeInv
<1> QED
  BY <1>1, TypeCorrect, PTL

-----------------------------------------------------------------------------
(***************************************************************************)
(* A container has one owner and is not leaked, whatever the workers and   *)
(* the writer do.  OneOwner and NoLeak are inductive together, and only    *)
(* together: a container of the right state in two lists could be killed   *)
(* under a worker, and a dead one in one list could be run.  Each step is  *)
(* first put in terms of the sets of containers each owner holds; from     *)
(* there on the lists play no part.  With one owner per container, the     *)
(* lists implement the keep-alive policy of KeepAlive.                     *)
(***************************************************************************)
\* Who owns what, without the lists.
Sets(R, B, V, hand) ==
  /\ R \cap B = {}
  /\ \A w \in Workers :
       /\ hand[w] \notin R \cup B
       /\ V[w] \cap (R \cup B) = {}
       /\ \A v \in Workers :
            /\ hand[w] \notin V[v]
            /\ w # v => /\ hand[w] = hand[v] => hand[w] = NoContainer
                        /\ V[w] \cap V[v] = {}
Answers(alive, R, B, V, hand) ==
  \A c \in Containers :
    alive[c] \in Live <=> c \in R \cup B \/ \E w \in Workers : hand[w] = c \/ c \in V[w]
Held == [w \in Workers |-> Elements(victims[w])]
Distinct == ~Repeats(ram) /\ ~Repeats(buffer) /\ \A w \in Workers : ~Repeats(victims[w])
MadeFor == \A w \in Workers : cont[w] # NoContainer => fn[cont[w]] = job[w]

OwnInv ==
  /\ Distinct
  /\ Sets(Elements(ram), Elements(buffer), Held, cont)
  /\ Answers(life, Elements(ram), Elements(buffer), Held, cont)
  /\ MadeFor

\* The lists hold containers and never NoContainer.
LEMMA ElementsInContainers ==
  ASSUME TypeOK
  PROVE  /\ Elements(ram) \subseteq Containers
         /\ Elements(buffer) \subseteq Containers
         /\ \A w \in Workers : Elements(victims[w]) \subseteq Containers
         /\ NoContainer \notin Elements(ram) \cup Elements(buffer)
         /\ \A w \in Workers : NoContainer \notin Elements(victims[w])
<1>1. /\ ram \in Seq(Containers) /\ buffer \in Seq(Containers)
      /\ \A w \in Workers : victims[w] \in Seq(Containers)
  BY DEF TypeOK
<1>2. /\ Elements(ram) \subseteq Containers
      /\ Elements(buffer) \subseteq Containers
  BY <1>1, ElementsType
<1>3. \A w \in Workers : Elements(victims[w]) \subseteq Containers
  BY <1>1, ElementsType
<1> QED
  BY <1>2, <1>3, RamCacheAssumption

\* OneOwner, said of the sets.
LEMMA OneOwnerIsSets ==
  TypeOK => (OneOwner <=>
               Distinct /\ Sets(Elements(ram), Elements(buffer), Held, cont))
<1> SUFFICES ASSUME TypeOK
             PROVE  OneOwner <=>
                      Distinct /\ Sets(Elements(ram), Elements(buffer), Held, cont)
  OBVIOUS
<1>1. /\ Elements(ram) \subseteq Containers
      /\ Elements(buffer) \subseteq Containers
      /\ \A w \in Workers : Held[w] \subseteq Containers
      /\ NoContainer \notin Elements(ram) \cup Elements(buffer)
      /\ \A w \in Workers : NoContainer \notin Held[w]
  BY ElementsInContainers DEF Held
<1>2. \A w \in Workers : cont[w] \in Containers \cup {NoContainer}
  BY DEF TypeOK
<1>3. \A w \in Workers, c \in Containers : InVictims(w, c) <=> c \in Held[w]
  BY DEF InVictims, Held
<1>4. ASSUME OneOwner
      PROVE  Distinct /\ Sets(Elements(ram), Elements(buffer), Held, cont)
  <2>1. Distinct
    BY <1>4 DEF OneOwner, Distinct
  <2>2. Elements(ram) \cap Elements(buffer) = {}
    BY <1>1, <1>4 DEF OneOwner, InRam, InBuffer
  <2>3. ASSUME NEW w \in Workers
        PROVE  /\ cont[w] \notin Elements(ram) \cup Elements(buffer)
               /\ Held[w] \cap (Elements(ram) \cup Elements(buffer)) = {}
    BY <1>1, <1>2, <1>3, <1>4 DEF OneOwner, InRam, InBuffer, InHand
  <2>4. ASSUME NEW w \in Workers, NEW v \in Workers
        PROVE  /\ cont[w] \notin Held[v]
               /\ w # v => /\ cont[w] = cont[v] => cont[w] = NoContainer
                           /\ Held[w] \cap Held[v] = {}
    BY <1>1, <1>2, <1>3, <1>4 DEF OneOwner, InHand
  <2> QED
    BY <2>1, <2>2, <2>3, <2>4 DEF Sets
<1>5. ASSUME Distinct, Sets(Elements(ram), Elements(buffer), Held, cont)
      PROVE  OneOwner
  <2>1. ASSUME NEW c \in Containers
        PROVE  ~(InRam(c) /\ InBuffer(c))
    BY <1>5 DEF Sets, InRam, InBuffer
  <2>2. ASSUME NEW c \in Containers, NEW w \in Workers
        PROVE  /\ ~(InHand(w, c) /\ (InRam(c) \/ InBuffer(c)))
               /\ ~(InVictims(w, c) /\ (InRam(c) \/ InBuffer(c)))
    BY <1>3, <1>5 DEF Sets, InRam, InBuffer, InHand
  <2>3. ASSUME NEW c \in Containers, NEW w \in Workers, NEW v \in Workers
        PROVE  /\ InHand(w, c) => ~InVictims(v, c)
               /\ w # v => ~(InHand(w, c) /\ InHand(v, c))
               /\ w # v => ~(InVictims(w, c) /\ InVictims(v, c))
    BY <1>3, <1>5, RamCacheAssumption DEF Sets, InHand
  <2> QED
    BY <1>5, <2>1, <2>2, <2>3 DEF OneOwner, Distinct
<1> QED
  BY <1>4, <1>5

\* Both properties together, said of the sets.
LEMMA OwnInvMeaning == TypeOK => (OneOwner /\ NoLeak <=> OwnInv)
<1>1. NoLeak <=> /\ Answers(life, Elements(ram), Elements(buffer), Held, cont)
                 /\ MadeFor
  BY DEF NoLeak, Owned, InRam, InBuffer, InHand, InVictims, Answers, MadeFor, Held
<1> QED
  BY <1>1, OneOwnerIsSets DEF OwnInv

\* At the start no container exists, so nobody owns one.
LEMMA OwnInit == Init => OwnInv
<1> SUFFICES ASSUME Init PROVE OwnInv
  OBVIOUS
<1>1. Elements(<<>>) = {} /\ ~Repeats(<<>>)
  BY ElementsEmpty DEF Repeats
<1>2. Distinct
  BY <1>1 DEF Init, Distinct
<1>3. /\ Elements(ram) = {} /\ Elements(buffer) = {}
      /\ \A w \in Workers : Held[w] = {} /\ cont[w] = NoContainer
  BY <1>1 DEF Init, Held
<1>4. Sets(Elements(ram), Elements(buffer), Held, cont)
  BY <1>3 DEF Sets
<1>5. Answers(life, Elements(ram), Elements(buffer), Held, cont)
  BY <1>3, RamCacheAssumption DEF Init, Answers, Live
<1>6. MadeFor
  BY <1>3 DEF MadeFor
<1> QED
  BY <1>2, <1>4, <1>5, <1>6 DEF OwnInv

\* A step that moves no container and changes no life keeps the invariant.
LEMMA OwnUnmoved ==
  ASSUME OwnInv, UNCHANGED <<ram, buffer, victims, cont, fn, life>>, MadeFor'
  PROVE  OwnInv'
BY DEF OwnInv, Distinct, Sets, Answers, Held

\* Every step that links, unlinks, creates or kills a container leaves it with
\* one owner if it is alive and with none if it is not.
LEMMA OwnStep == TypeInv /\ TypeOK' /\ OwnInv /\ [Next]_vars => OwnInv'
<1> SUFFICES ASSUME TypeInv, TypeOK', OwnInv, [Next]_vars PROVE OwnInv'
  OBVIOUS
<1> USE RamCacheAssumption
<1> USE DEF Goto, Count
<1> DEFINE R == Elements(ram)
           B == Elements(buffer)
<1>0. /\ cont \in [Workers -> Containers \cup {NoContainer}]
      /\ job \in [Workers -> Functions \cup {NoFunction}]
      /\ victims \in [Workers -> Seq(Containers)]
      /\ fn \in [Containers -> Functions \cup {NoFunction}]
      /\ life \in [Containers -> {"absent", "created", "running", "stopped"}]
      /\ ram \in Seq(Containers)
      /\ buffer \in Seq(Containers)
      /\ \A w \in Workers : /\ pc[w] \in Holding <=> cont[w] # NoContainer
                            /\ pc[w] # "evict" => victims[w] = <<>>
      /\ wr = "store" <=> buffer # <<>>
  BY DEF TypeInv, TypeOK, Shape, WorkerShape
<1>1. ASSUME NEW w \in Workers, NEW f \in Functions, TakeInvocation(w, f)
      PROVE  OwnInv'
  <2>1. cont[w] = NoContainer
    BY <1>0, <1>1 DEF TakeInvocation, Holding
  <2>2. MadeFor'
    BY <1>0, <1>1, <2>1 DEF TakeInvocation, OwnInv, MadeFor, podmanVars
  <2> QED
    BY <1>1, <2>2, OwnUnmoved DEF TakeInvocation, podmanVars, writerVars
<1>2. ASSUME NEW w \in Workers, WarmStart(w) PROVE OwnInv'
  <2>1. PICK i \in 1..Len(ram) :
          /\ fn[ram[i]] = job[w]
          /\ cont' = [cont EXCEPT ![w] = ram[i]]
          /\ ram' = WithoutNode(ram, i)
    BY <1>2, LenProperties, <1>0 DEF WarmStart, FirstMatch
  <2>2. UNCHANGED <<buffer, victims, fn, life, job>>
    BY <1>2 DEF WarmStart, podmanVars, writerVars
  <2>3. /\ ~Repeats(ram')
        /\ Elements(ram') = R \ {ram[i]}
        /\ ram[i] \in R
    BY <1>0, <2>1, WithoutNodeProperties DEF OwnInv, Distinct
  <2>4. cont[w] = NoContainer
    BY <1>0, <1>2 DEF WarmStart, Holding
  <2>5. ram[i] # NoContainer
    BY <2>3, ElementsInContainers DEF TypeInv
  <2> DEFINE c == ram[i]
  <2> HIDE DEF c
  <2>6. /\ cont'[w] = c
        /\ \A v \in Workers \ {w} : cont'[v] = cont[v]
    BY <1>0, <2>1 DEF c
  <2>7. Distinct'
    BY <2>2, <2>3 DEF OwnInv, Distinct
  <2>8. Sets(Elements(ram'), Elements(buffer'), Held', cont')
    <3>1. /\ Elements(ram') = R \ {c}
          /\ c \in R
          /\ c # NoContainer
      BY <2>3, <2>5 DEF c
    <3>2. Elements(buffer') = B /\ Held' = Held
      BY <2>2 DEF Held
    <3>3. Sets(R, B, Held, cont)
      BY DEF OwnInv
    <3> HIDE DEF R, B
    <3> QED
      BY <2>4, <2>6, <3>1, <3>2, <3>3 DEF Sets
  <2>9. Answers(life', Elements(ram'), Elements(buffer'), Held', cont')
    BY <2>2, <2>3, <2>4, <2>5, <2>6 DEF OwnInv, Answers, Held, c
  <2>10. MadeFor'
    BY <2>1, <2>2, <2>6 DEF OwnInv, MadeFor, c
  <2> QED
    BY <2>7, <2>8, <2>9, <2>10 DEF OwnInv
<1>3. ASSUME NEW w \in Workers,
             \/ Reserve(w) \/ EndFreeRam(w) \/ FailInvocation(w) \/ ColdStart(w)
      PROVE  OwnInv'
  <2>1. UNCHANGED <<ram, buffer, victims, cont, fn, life, job>>
    BY <1>3 DEF Reserve, EndFreeRam, FailInvocation, ColdStart, podmanVars, writerVars
  <2>2. MadeFor'
    BY <2>1 DEF OwnInv, MadeFor
  <2> QED
    BY <2>1, <2>2, OwnUnmoved
<1>4. ASSUME NEW w \in Workers, BeginFreeRam(w) PROVE OwnInv'
  <2>1. PICK k \in 0..Len(ram) :
          /\ victims' = [victims EXCEPT ![w] = SubSeq(ram, 1, k)]
          /\ ram' = SubSeq(ram, k + 1, Len(ram))
    BY <1>4 DEF BeginFreeRam
  <2>2. UNCHANGED <<buffer, cont, fn, life, job>>
    BY <1>4 DEF BeginFreeRam, podmanVars, writerVars
  <2> DEFINE front == SubSeq(ram, 1, k)
             back == SubSeq(ram, k + 1, Len(ram))
  <2>3. /\ ~Repeats(front) /\ ~Repeats(back)
        /\ R = Elements(front) \cup Elements(back)
        /\ Elements(front) \cap Elements(back) = {}
    BY <1>0, ElementsCut DEF OwnInv, Distinct
  <2>4. ram' = back /\ victims' = [victims EXCEPT ![w] = front]
    BY <2>1
  <2> HIDE DEF front, back
  <2>5. Held[w] = {}
    BY <1>0, <1>4, ElementsEmpty DEF BeginFreeRam, Held
  <2>6. /\ Held'[w] = Elements(front)
        /\ \A v \in Workers \ {w} : Held'[v] = Held[v]
    BY <1>0, <2>4 DEF Held
  <2>7. Distinct'
    BY <1>0, <2>2, <2>3, <2>4 DEF OwnInv, Distinct
  <2>8. Sets(Elements(ram'), Elements(buffer'), Held', cont')
    BY <2>2, <2>3, <2>4, <2>5, <2>6 DEF OwnInv, Sets
  <2>9. Answers(life', Elements(ram'), Elements(buffer'), Held', cont')
    BY <2>2, <2>3, <2>4, <2>5, <2>6 DEF OwnInv, Answers
  <2>10. MadeFor'
    BY <2>2 DEF OwnInv, MadeFor
  <2> QED
    BY <2>7, <2>8, <2>9, <2>10 DEF OwnInv
<1>5. ASSUME NEW w \in Workers, KillVictim(w) PROVE OwnInv'
  <2> DEFINE c == Head(victims[w])
  <2>1. /\ life' = [life EXCEPT ![c] = "stopped"]
        /\ victims' = [victims EXCEPT ![w] = Tail(@)]
        /\ UNCHANGED <<ram, buffer, cont, fn, job>>
    BY <1>5 DEF KillVictim, KillContainer, writerVars
  <2>2. /\ c \in Elements(victims[w])
        /\ ~Repeats(Tail(victims[w]))
        /\ Elements(Tail(victims[w])) = Elements(victims[w]) \ {c}
    BY <1>0, <1>5, ElementsTail DEF KillVictim, OwnInv, Distinct
  <2> HIDE DEF c
  <2>3. /\ c \in Held[w]
        /\ Held'[w] = Held[w] \ {c}
        /\ \A v \in Workers \ {w} : Held'[v] = Held[v]
    BY <1>0, <2>1, <2>2 DEF Held
  <2>4. c \in Containers
    BY <2>2, ElementsInContainers DEF TypeInv
  <2>5. /\ life'[c] \notin Live
        /\ \A d \in Containers \ {c} : life'[d] = life[d]
    BY <1>0, <2>1, <2>4 DEF Live
  <2>6. Distinct'
    BY <1>0, <2>1, <2>2 DEF OwnInv, Distinct
  <2>7. Sets(Elements(ram'), Elements(buffer'), Held', cont')
    BY <2>1, <2>3 DEF OwnInv, Sets
  <2>8. Answers(life', Elements(ram'), Elements(buffer'), Held', cont')
    BY <2>1, <2>3, <2>5 DEF OwnInv, Answers, Sets
  <2>9. MadeFor'
    BY <2>1 DEF OwnInv, MadeFor
  <2> QED
    BY <2>6, <2>7, <2>8, <2>9 DEF OwnInv
<1>6. ASSUME NEW w \in Workers, CreateContainer(w) PROVE OwnInv'
  <2>1. PICK c \in Containers :
          /\ life[c] = "absent"
          /\ life' = [life EXCEPT ![c] = "created"]
          /\ fn' = [fn EXCEPT ![c] = job[w]]
          /\ cont' = [cont EXCEPT ![w] = c]
    BY <1>6 DEF CreateContainer
  <2>2. UNCHANGED <<ram, buffer, victims, job>>
    BY <1>6 DEF CreateContainer, writerVars
  <2>3. /\ c \notin R \cup B
        /\ \A v \in Workers : cont[v] # c /\ c \notin Held[v]
    BY <2>1 DEF OwnInv, Answers, Live
  <2>4. /\ cont[w] = NoContainer /\ cont'[w] = c
        /\ \A v \in Workers \ {w} : cont'[v] = cont[v]
    BY <1>0, <1>6, <2>1 DEF CreateContainer, Holding
  <2>5. /\ life'[c] \in Live /\ fn'[c] = job[w]
        /\ \A d \in Containers \ {c} : life'[d] = life[d] /\ fn'[d] = fn[d]
    BY <1>0, <2>1 DEF Live
  <2>6. Distinct'
    BY <2>2 DEF OwnInv, Distinct
  <2>7. Sets(Elements(ram'), Elements(buffer'), Held', cont')
    BY <2>2, <2>3, <2>4 DEF OwnInv, Sets, Held
  <2>8. Answers(life', Elements(ram'), Elements(buffer'), Held', cont')
    BY <2>2, <2>3, <2>4, <2>5 DEF OwnInv, Answers, Held
  <2>9. MadeFor'
    <3> SUFFICES ASSUME NEW v \in Workers, cont'[v] # NoContainer
                 PROVE  fn'[cont'[v]] = job[v]
      BY <2>2 DEF MadeFor
    <3>1. CASE v = w
      BY <2>4, <2>5, <3>1
    <3>2. CASE v # w
      <4>1. cont'[v] = cont[v] /\ cont[v] \in Containers \ {c}
        BY <1>0, <2>3, <2>4, <3>2
      <4>2. fn[cont[v]] = job[v]
        BY <4>1 DEF OwnInv, MadeFor
      <4> QED
        BY <2>5, <4>1, <4>2
    <3> QED
      BY <3>1, <3>2
  <2> QED
    BY <2>6, <2>7, <2>8, <2>9 DEF OwnInv
<1>7. ASSUME NEW w \in Workers,
             pc[w] \in Holding, StartContainer(w),
             UNCHANGED <<ram, buffer, victims, cont, job>>
      PROVE  OwnInv'
  <2>1. cont[w] \in Containers
    BY <1>0, <1>7
  <2>2. life[cont[w]] \in Live
    BY <2>1 DEF OwnInv, Answers
  <2>3. /\ life'[cont[w]] \in Live
        /\ \A d \in Containers \ {cont[w]} : life'[d] = life[d]
    BY <1>0, <1>7, <2>1 DEF StartContainer, Live
  <2>4. Answers(life', Elements(ram'), Elements(buffer'), Held', cont')
    BY <1>7, <2>2, <2>3 DEF OwnInv, Answers, Held
  <2> QED
    BY <1>7, <2>4 DEF OwnInv, Distinct, Sets, Held, MadeFor, StartContainer
<1>8. ASSUME NEW w \in Workers, NEW kind \in StartKinds, RestoredStart(w, kind)
      PROVE  OwnInv'
  BY <1>7, <1>8 DEF RestoredStart, Holding, writerVars
<1>9. ASSUME NEW w \in Workers, BootContainer(w) PROVE OwnInv'
  BY <1>7, <1>9 DEF BootContainer, Holding, writerVars
<1>10. ASSUME NEW w \in Workers, RunReturns(w) \/ RunTimesOut(w) PROVE OwnInv'
  <2> DEFINE c == cont[w]
  <2>1. /\ pc[w] = "run"
        /\ ram' = Append(ram, c)
        /\ cont' = [cont EXCEPT ![w] = NoContainer]
        /\ UNCHANGED <<buffer, victims, fn, life, job>>
    BY <1>10 DEF RunReturns, RunTimesOut, Finish, InsertRamItem, writerVars
  <2>2. c \in Containers
    BY <1>0, <2>1 DEF Holding
  <2>3. /\ c \notin R \cup B
        /\ \A v \in Workers : c \notin Held[v]
        /\ \A v \in Workers \ {w} : cont[v] # c
    BY <2>2 DEF OwnInv, Sets
  <2>4. ~Repeats(ram') /\ Elements(ram') = R \cup {c}
    BY <1>0, <2>1, <2>2, <2>3, ElementsAppend DEF OwnInv, Distinct
  <2>5. /\ cont'[w] = NoContainer
        /\ \A v \in Workers \ {w} : cont'[v] = cont[v]
    BY <1>0, <2>1
  <2>6. /\ NoContainer \notin R \cup B \cup {c}
        /\ \A v \in Workers : NoContainer \notin Held[v]
    BY <2>2, ElementsInContainers DEF TypeInv, Held
  <2>7. cont[w] = c
    OBVIOUS
  <2> HIDE DEF c
  <2>8. Distinct'
    BY <2>1, <2>4 DEF OwnInv, Distinct
  <2>9. Sets(Elements(ram'), Elements(buffer'), Held', cont')
    <3>1. Held' = Held /\ Elements(buffer') = B
      BY <2>1 DEF Held
    <3>2. (R \cup {c}) \cap B = {}
      BY <2>3 DEF OwnInv, Sets
    <3>3. ASSUME NEW v \in Workers
          PROVE  /\ cont'[v] \notin (R \cup {c}) \cup B
                 /\ Held[v] \cap ((R \cup {c}) \cup B) = {}
      <4>1. CASE v = w
        BY <2>3, <2>5, <2>6, <4>1 DEF OwnInv, Sets
      <4>2. CASE v # w
        BY <2>3, <2>5, <4>2 DEF OwnInv, Sets
      <4> QED
        BY <4>1, <4>2
    <3>4. ASSUME NEW v \in Workers, NEW u \in Workers
          PROVE  /\ cont'[v] \notin Held[u]
                 /\ v # u => /\ cont'[v] = cont'[u] => cont'[v] = NoContainer
                             /\ Held[v] \cap Held[u] = {}
      BY <2>5, <2>6 DEF OwnInv, Sets
    <3> HIDE DEF R, B
    <3> QED
      BY <2>4, <3>1, <3>2, <3>3, <3>4 DEF Sets
  <2>10. Answers(life', Elements(ram'), Elements(buffer'), Held', cont')
    BY <2>1, <2>2, <2>4, <2>5, <2>7 DEF OwnInv, Answers, Held
  <2>11. MadeFor'
    BY <2>1, <2>5 DEF OwnInv, MadeFor
  <2> QED
    BY <2>8, <2>9, <2>10, <2>11 DEF OwnInv
<1>11. ASSUME WriterPoll PROVE OwnInv'
  <2>1. PICK k \in 1..Len(ram) :
          /\ buffer' = SubSeq(ram, 1, k)
          /\ ram' = SubSeq(ram, k + 1, Len(ram))
    BY <1>11 DEF WriterPoll
  <2>2. UNCHANGED <<victims, cont, fn, life, job>> /\ B = {}
    BY <1>0, <1>11, ElementsEmpty DEF WriterPoll, workerVars, podmanVars
  <2> DEFINE front == SubSeq(ram, 1, k)
             back == SubSeq(ram, k + 1, Len(ram))
  <2>3. k \in 0..Len(ram)
    OBVIOUS
  <2>4. /\ ~Repeats(front) /\ ~Repeats(back)
        /\ R = Elements(front) \cup Elements(back)
        /\ Elements(front) \cap Elements(back) = {}
    BY <1>0, <2>3, ElementsCut DEF OwnInv, Distinct
  <2>5. ram' = back /\ buffer' = front
    BY <2>1
  <2> HIDE DEF front, back
  <2>6. Distinct'
    BY <2>2, <2>4, <2>5 DEF OwnInv, Distinct
  <2>7. Sets(Elements(ram'), Elements(buffer'), Held', cont')
    BY <2>2, <2>4, <2>5 DEF OwnInv, Sets, Held
  <2>8. Answers(life', Elements(ram'), Elements(buffer'), Held', cont')
    BY <2>2, <2>4, <2>5 DEF OwnInv, Answers, Held
  <2>9. MadeFor'
    BY <2>2 DEF OwnInv, MadeFor
  <2> QED
    BY <2>6, <2>7, <2>8, <2>9 DEF OwnInv
<1>12. ASSUME WriterStore PROVE OwnInv'
  <2> DEFINE c == Head(buffer)
  <2>1. /\ life' = [life EXCEPT ![c] = "stopped"]
        /\ buffer' = Tail(buffer)
        /\ UNCHANGED <<ram, victims, cont, fn, job>>
    BY <1>12 DEF WriterStore, KillContainer, workerVars
  <2>2. /\ c \in B
        /\ ~Repeats(buffer')
        /\ Elements(buffer') = B \ {c}
    BY <1>0, <1>12, <2>1, ElementsTail DEF WriterStore, OwnInv, Distinct
  <2> HIDE DEF c
  <2>3. c \in Containers
    BY <2>2, ElementsInContainers DEF TypeInv
  <2>4. /\ life'[c] \notin Live
        /\ \A d \in Containers \ {c} : life'[d] = life[d]
    BY <1>0, <2>1, <2>3 DEF Live
  <2>5. Distinct'
    BY <2>1, <2>2 DEF OwnInv, Distinct
  <2>6. Sets(Elements(ram'), Elements(buffer'), Held', cont')
    BY <2>1, <2>2 DEF OwnInv, Sets, Held
  <2>7. Answers(life', Elements(ram'), Elements(buffer'), Held', cont')
    BY <2>1, <2>2, <2>4 DEF OwnInv, Answers, Sets, Held
  <2>8. MadeFor'
    BY <2>1 DEF OwnInv, MadeFor
  <2> QED
    BY <2>5, <2>6, <2>7, <2>8 DEF OwnInv
<1>13. ASSUME \/ \E c \in Containers : LateRunEnds(c)
              \/ WriterExit \/ MainStep \/ UNCHANGED vars
       PROVE  OwnInv'
  <2>1. UNCHANGED <<ram, buffer, victims, cont, fn, life, job>>
    BY <1>13 DEF LateRunEnds, WriterExit, MainStep, EndOfInput, StopWriter,
                 JoinWriter, vars, workerVars, podmanVars, writerVars
  <2>2. MadeFor'
    BY <2>1 DEF OwnInv, MadeFor
  <2> QED
    BY <2>1, <2>2, OwnUnmoved
<1> QED
  BY <1>1, <1>2, <1>3, <1>4, <1>5, <1>6, <1>8, <1>9, <1>10, <1>11, <1>12,
     <1>13
  DEF Next, WorkerStep, WriterStep, Terminated

\* Both properties in every reachable state.
LEMMA OwnershipHolds == Spec => [](OneOwner /\ NoLeak)
<1>1. TypeInv => TypeOK
  BY DEF TypeInv
<1>2. TypeInv /\ TypeInv' /\ OwnInv /\ [Next]_vars => OwnInv'
  BY OwnStep DEF TypeInv
<1>3. TypeInv /\ OwnInv => OneOwner /\ NoLeak
  BY <1>1, OwnInvMeaning
<1> QED
  BY <1>2, <1>3, OwnInit, TypeCorrect, PTL DEF Spec

\* OneOwner (ram_cache.c:21-148, disk_cache.c:407-421): through every
\* interleaving of warm starts, evictions, creations, insertions and
\* write-outs a container is in one list or in one worker's hands.
THEOREM ContainersHaveOneOwner == Spec => []OneOwner
BY OwnershipHolds, PTL

\* NoLeak (ram_cache.c:99-106, disk_cache.c:425-457): a container is alive
\* exactly while somebody will reuse, kill or checkpoint it.
THEOREM ContainersAreNotLeaked == Spec => []NoLeak
BY OwnershipHolds, PTL

-----------------------------------------------------------------------------
(***************************************************************************)
(* The keep-alive policy                                                   *)
(***************************************************************************)

\* A cached container is running, and so is the one a worker runs its function
\* in; before that it is only created.
Ready ==
  /\ \A c \in Elements(ram) : life[c] = "running"
  /\ \A w \in Workers :
       /\ pc[w] \in {"created", "boot"} => life[cont[w]] = "created"
       /\ pc[w] = "run" => life[cont[w]] = "running"

Policy == TypeInv /\ OwnInv /\ Ready

\* What a worker holds nobody else holds, and no list does.
LEMMA HandIsAlone ==
  ASSUME TypeInv, OwnInv, NEW w \in Workers, pc[w] \in Holding
  PROVE  /\ cont[w] \in Containers /\ life[cont[w]] \in Live
         /\ cont[w] \notin Elements(ram) \cup Elements(buffer)
         /\ \A v \in Workers : cont[w] \notin Elements(victims[v])
         /\ \A v \in Workers \ {w} : cont[v] # cont[w]
<1>1. cont[w] \in Containers
  BY RamCacheAssumption DEF TypeInv, TypeOK, Shape, WorkerShape
<1> QED
  BY <1>1, RamCacheAssumption DEF OwnInv, Sets, Answers, Held

\* At the start nothing is ready because nothing is there.
LEMMA ReadyInit == Init => Ready
BY ElementsEmpty DEF Init, Ready

\* A container becomes running before its worker runs it, and stays so until it
\* is killed, when it is in no cache and in no hands.
LEMMA ReadyStep == Policy /\ OwnInv' /\ [Next]_vars => Ready'
<1> SUFFICES ASSUME Policy, OwnInv', [Next]_vars PROVE Ready'
  OBVIOUS
<1> USE RamCacheAssumption
<1> USE DEF Goto, Count
<1>0. /\ pc \in [Workers -> WorkerPCs]
      /\ cont \in [Workers -> Containers \cup {NoContainer}]
      /\ victims \in [Workers -> Seq(Containers)]
      /\ life \in [Containers -> {"absent", "created", "running", "stopped"}]
      /\ ram \in Seq(Containers) /\ buffer \in Seq(Containers)
      /\ Elements(ram) \subseteq Containers
      /\ \A w \in Workers : pc[w] \in Holding => cont[w] \in Containers
      /\ ~Repeats(ram) /\ ~Repeats(buffer) /\ \A w \in Workers : ~Repeats(victims[w])
  BY ElementsInContainers
  DEF Policy, TypeInv, TypeOK, Shape, WorkerShape, OwnInv, Distinct
<1>1. ASSUME NEW w \in Workers, NEW label, Goto(w, label),
             label \notin Holding,
             UNCHANGED <<life, cont>>, Elements(ram') \subseteq Elements(ram)
      PROVE  Ready'
  BY <1>0, <1>1 DEF Policy, Ready, Holding
<1>2. ASSUME NEW w \in Workers, NEW f \in Functions, TakeInvocation(w, f)
      PROVE  Ready'
  BY <1>1, <1>2 DEF TakeInvocation, podmanVars, Holding
<1>3. ASSUME NEW w \in Workers, Reserve(w) \/ EndFreeRam(w) \/ FailInvocation(w)
      PROVE  Ready'
  BY <1>1, <1>3 DEF Reserve, EndFreeRam, FailInvocation, podmanVars, Holding
<1>4. ASSUME NEW w \in Workers, BeginFreeRam(w)
      PROVE  Ready'
  <2>1. PICK k \in 0..Len(ram) : ram' = SubSeq(ram, k + 1, Len(ram))
    BY <1>4 DEF BeginFreeRam
  <2>2. Elements(ram') \subseteq Elements(ram)
    BY <1>0, <2>1, ElementsCut
  <2> QED
    BY <1>1, <1>4, <2>2 DEF BeginFreeRam, podmanVars, Holding
<1>5. ASSUME NEW w \in Workers, WarmStart(w)
      PROVE  Ready'
  <2>1. PICK i \in 1..Len(ram) :
          /\ cont' = [cont EXCEPT ![w] = ram[i]]
          /\ ram' = WithoutNode(ram, i)
    BY <1>5 DEF WarmStart
  <2>2. Elements(ram') \subseteq Elements(ram) /\ ram[i] \in Elements(ram)
    BY <1>0, <2>1, WithoutNodeProperties
  <2> QED
    BY <1>0, <1>5, <2>1, <2>2 DEF WarmStart, podmanVars, Policy, Ready
<1>6. ASSUME NEW c \in Containers, life' = [life EXCEPT ![c] = "stopped"],
             UNCHANGED <<pc, cont, ram>>, c \notin Elements(ram),
             \A w \in Workers : cont[w] # c
      PROVE  Ready'
  BY <1>0, <1>6 DEF Policy, Ready, Holding
<1>7. ASSUME NEW w \in Workers, KillVictim(w)
      PROVE  Ready'
  <2>1. Head(victims[w]) \in Elements(victims[w]) /\ Head(victims[w]) \in Containers
    BY <1>0, <1>7, ElementsTail, ElementsInContainers
    DEF KillVictim, Policy, TypeInv
  <2>2. /\ Head(victims[w]) \notin Elements(ram)
        /\ \A v \in Workers : cont[v] # Head(victims[w])
    BY <2>1 DEF Policy, OwnInv, Sets, Held
  <2> QED
    BY <1>6, <1>7, <2>1, <2>2 DEF KillVictim, KillContainer
<1>8. ASSUME NEW w \in Workers, CreateContainer(w)
      PROVE  Ready'
  <2>1. PICK c \in Containers :
          /\ life[c] = "absent"
          /\ life' = [life EXCEPT ![c] = "created"]
          /\ cont' = [cont EXCEPT ![w] = c]
    BY <1>8 DEF CreateContainer
  <2>2. c \notin Elements(ram) /\ \A v \in Workers : cont[v] # c
    BY <2>1 DEF Policy, OwnInv, Answers, Live
  <2>3. pc' = [pc EXCEPT ![w] = "created"] /\ ram' = ram
    BY <1>8 DEF CreateContainer
  <2> QED
    BY <1>0, <2>1, <2>2, <2>3 DEF Policy, Ready, Holding
<1>9. ASSUME NEW w \in Workers, pc[w] \in Holding, StartContainer(w),
             pc' = [pc EXCEPT ![w] = "run"], UNCHANGED <<cont, ram>>
      PROVE  Ready'
  <2>1. /\ cont[w] \in Containers
        /\ \A v \in Workers \ {w} : cont[v] # cont[w]
        /\ life' = [life EXCEPT ![cont[w]] = "running"]
    BY <1>9, HandIsAlone DEF Policy, StartContainer
  <2> QED
    BY <1>0, <1>9, <2>1 DEF Policy, Ready, Holding
<1>10. ASSUME NEW w \in Workers, NEW kind \in StartKinds,
              RestoredStart(w, kind) \/ BootContainer(w)
       PROVE  Ready'
  BY <1>9, <1>10 DEF RestoredStart, BootContainer, Holding
<1>11. ASSUME NEW w \in Workers, ColdStart(w)
       PROVE  Ready'
  BY <1>0, <1>11 DEF ColdStart, podmanVars, Policy, Ready
<1>12. ASSUME NEW w \in Workers, RunReturns(w) \/ RunTimesOut(w)
       PROVE  Ready'
  <2>1. /\ pc[w] = "run" /\ pc' = [pc EXCEPT ![w] = "idle"]
        /\ ram' = Append(ram, cont[w])
        /\ cont' = [cont EXCEPT ![w] = NoContainer]
        /\ UNCHANGED life
    BY <1>12 DEF RunReturns, RunTimesOut, Finish, InsertRamItem
  <2>2. cont[w] \in Containers /\ cont[w] \notin Elements(ram)
    BY <2>1, HandIsAlone DEF Policy, Holding
  <2>3. Elements(ram') = Elements(ram) \cup {cont[w]}
    BY <1>0, <2>1, <2>2, ElementsAppend
  <2> QED
    BY <1>0, <2>1, <2>3 DEF Policy, Ready
<1>13. CASE WriterPoll
  <2>1. PICK k \in 1..Len(ram) : ram' = SubSeq(ram, k + 1, Len(ram))
    BY <1>13 DEF WriterPoll
  <2>2. Elements(ram') \subseteq Elements(ram)
    <3>1. k \in 0..Len(ram)
      OBVIOUS
    <3> QED
      BY <1>0, <2>1, <3>1, ElementsCut
  <2> QED
    BY <1>13, <2>2 DEF WriterPoll, workerVars, podmanVars, Policy, Ready
<1>14. CASE WriterStore
  <2>1. Head(buffer) \in Elements(buffer) /\ Head(buffer) \in Containers
    BY <1>0, <1>14, ElementsTail, ElementsInContainers
    DEF WriterStore, Policy, TypeInv, Shape
  <2>2. /\ Head(buffer) \notin Elements(ram)
        /\ \A v \in Workers : cont[v] # Head(buffer)
    BY <2>1 DEF Policy, OwnInv, Sets
  <2> QED
    BY <1>6, <1>14, <2>1, <2>2 DEF WriterStore, KillContainer, workerVars
<1>15. ASSUME \/ \E c \in Containers : LateRunEnds(c)
              \/ WriterExit \/ MainStep \/ UNCHANGED vars
       PROVE  Ready'
  <2>1. UNCHANGED <<ram, cont, life, pc>>
    BY <1>15 DEF LateRunEnds, WriterExit, MainStep, EndOfInput, StopWriter,
                 JoinWriter, vars, workerVars, podmanVars
  <2> QED
    BY <2>1 DEF Policy, Ready
<1> QED
  BY <1>2, <1>3, <1>4, <1>5, <1>7, <1>8, <1>10, <1>11, <1>12, <1>13, <1>14, <1>15
  DEF Next, WorkerStep, WriterStep, Terminated, StartKinds

\* The stage of a container, from its life and its place in the next state.
LEMMA StageNext ==
  ASSUME NEW c
  PROVE  /\ life'[c] \in {"absent", "stopped"} => Stage(c)' = life'[c]
         /\ life'[c] \in Live /\ c \in Elements(ram') => Stage(c)' = "idle"
         /\ /\ life'[c] \in Live /\ c \notin Elements(ram')
            /\ \E w \in Workers : cont'[w] = c
            => Stage(c)' = IF life'[c] = "created" THEN "starting" ELSE "busy"
         /\ /\ life'[c] \in Live /\ c \notin Elements(ram')
            /\ \A w \in Workers : cont'[w] # c
            => Stage(c)' = "retired"
BY DEF Stage, Live, InRam, InHand

\* ... and in this one.
LEMMA StageNow ==
  ASSUME NEW c
  PROVE  /\ life[c] \in {"absent", "stopped"} => Stage(c) = life[c]
         /\ life[c] \in Live /\ c \in Elements(ram) => Stage(c) = "idle"
         /\ /\ life[c] \in Live /\ c \notin Elements(ram)
            /\ \E w \in Workers : cont[w] = c
            => Stage(c) = IF life[c] = "created" THEN "starting" ELSE "busy"
         /\ /\ life[c] \in Live /\ c \notin Elements(ram)
            /\ \A w \in Workers : cont[w] # c
            => Stage(c) = "retired"
BY DEF Stage, Live, InRam, InHand

\* A container nobody touches keeps its stage and its server.
LEMMA Untouched ==
  ASSUME NEW c, life'[c] = life[c],
         c \in Elements(ram') <=> c \in Elements(ram),
         \A w \in Workers : cont'[w] = c <=> cont[w] = c
  PROVE  Stage(c)' = Stage(c) /\ Server(c)' = Server(c)
<1>1. (\E w \in Workers : InHand(w, c))' <=> \E w \in Workers : InHand(w, c)
  BY DEF InHand
<1>2. (CHOOSE w \in Workers : cont'[w] = c) = CHOOSE w \in Workers : cont[w] = c
  OBVIOUS
<1>3. Server(c)' = Server(c)
  BY <1>1, <1>2 DEF Server, NoWorker, InHand
<1>4. Stage(c)' = Stage(c)
  BY <1>1 DEF Stage, InRam
<1> QED
  BY <1>3, <1>4

\* When one container moves, one entry of each table changes at most.
LEMMA OneMoves ==
  ASSUME NEW c \in Containers,
         \A d \in Containers \ {c} :
           /\ life'[d] = life[d]
           /\ d \in Elements(ram') <=> d \in Elements(ram)
           /\ \A w \in Workers : cont'[w] = d <=> cont[w] = d
  PROVE  /\ Status' = [Status EXCEPT ![c] = Stage(c)']
         /\ Servers' = [Servers EXCEPT ![c] = Server(c)']
BY Untouched DEF Status, Servers

\* When none moves, none.
LEMMA NoneMoves ==
  ASSUME UNCHANGED life, Elements(ram') = Elements(ram), UNCHANGED cont
  PROVE  UNCHANGED <<Status, Servers>>
BY Untouched DEF Status, Servers

\* The server of a container is the worker that has it in hand.
LEMMA ServerNow ==
  ASSUME NEW c
  PROVE  /\ (\A w \in Workers : cont[w] # c) => Server(c) = NoWorker
         /\ \A w \in Workers :
              cont[w] = c /\ (\A v \in Workers \ {w} : cont[v] # c) => Server(c) = w
BY DEF Server, InHand

\* The same of the next state.
LEMMA ServerNext ==
  ASSUME NEW c
  PROVE  /\ (\A w \in Workers : cont'[w] # c) => Server(c)' = NoWorker
         /\ \A w \in Workers :
              cont'[w] = c /\ (\A v \in Workers \ {w} : cont'[v] # c) => Server(c)' = w
BY DEF Server, InHand, NoWorker

\* A worker with nothing in hand is without container.
LEMMA EmptyHanded ==
  ASSUME NEW w \in Workers, cont[w] = NoContainer
  PROVE  Kept!WithoutContainer(w)
<1> SUFFICES ASSUME NEW c \in Containers PROVE Server(c) # w
  BY DEF Kept!WithoutContainer, Servers
<1>1. CASE \A v \in Workers : cont[v] # c
  BY <1>1, ServerNow, RamCacheAssumption DEF NoWorker
<1>2. CASE \E v \in Workers : cont[v] = c
  <2>1. Server(c) \in Workers /\ cont[Server(c)] = c
    BY <1>2 DEF Server, InHand
  <2> QED
    BY <2>1, RamCacheAssumption
<1> QED
  BY <1>1, <1>2

\* What a worker has to run: as long as it is not idle, its job.
LEMMA WantsNext ==
  ASSUME TypeOK, NEW w \in Workers, NEW label, Goto(w, label), UNCHANGED job
  PROVE  /\ pc[w] # "idle" => Wants[w] = job[w]
         /\ pc[w] # "idle" /\ label # "idle" => UNCHANGED Wants
         /\ label = "idle" => Wants' = [Wants EXCEPT ![w] = NoFunction]
<1>1. pc'[w] = label /\ \A v \in Workers \ {w} : pc'[v] = pc[v]
  BY DEF TypeOK, Goto
<1> QED
  BY <1>1 DEF Wants

\* Unlinking a node is cutting it out.
LEMMA CutOut ==
  ASSUME NEW s \in Seq(Containers), NEW i \in 1..Len(s)
  PROVE  WithoutNode(s, i) = SubSeq(s, 1, i - 1) \o SubSeq(s, i + 1, Len(s))
<1> DEFINE front == SubSeq(s, 1, i - 1)
           back == SubSeq(s, i + 1, Len(s))
           t == WithoutNode(s, i)
<1>1. Len(s) \in Nat /\ \A j \in 1..Len(s) : s[j] \in Containers
  BY LenProperties
<1>2. /\ front \in Seq(Containers) /\ Len(front) = i - 1
      /\ \A j \in 1..i - 1 : front[j] = s[j]
  BY <1>1, SubSeqProperties
<1>3. /\ back \in Seq(Containers) /\ Len(back) = Len(s) - i
      /\ \A j \in 1..Len(s) - i : back[j] = s[i + j]
  BY <1>1, SubSeqProperties
<1>4. /\ t = [j \in 1..Len(s) - 1 |-> IF j < i THEN s[j] ELSE s[j + 1]]
      /\ t \in Seq(Containers) /\ Len(t) = Len(s) - 1
  <2>1. t = [j \in 1..Len(s) - 1 |-> IF j < i THEN s[j] ELSE s[j + 1]]
    BY DEF WithoutNode
  <2>2. t \in [1..Len(s) - 1 -> Containers] /\ Len(s) - 1 \in Nat
    BY <1>1, <2>1
  <2>3. t \in Seq(Containers)
    BY <2>2, SeqDef
  <2>4. DOMAIN t = 1..Len(s) - 1
    BY <2>1
  <2> QED
    BY <2>1, <2>2, <2>3, <2>4, LenProperties
<1> HIDE DEF front, back, t
<1>5. /\ front \o back \in Seq(Containers)
      /\ Len(front \o back) = Len(s) - 1
      /\ \A j \in 1..Len(s) - 1 :
           (front \o back)[j] = IF j <= i - 1 THEN front[j] ELSE back[j - (i - 1)]
  <2>1. /\ front \o back \in Seq(Containers)
        /\ Len(front \o back) = Len(front) + Len(back)
        /\ \A j \in 1..Len(front) + Len(back) :
             (front \o back)[j] = IF j <= Len(front) THEN front[j]
                                                   ELSE back[j - Len(front)]
    BY <1>2, <1>3, ConcatProperties
  <2>2. Len(front) + Len(back) = Len(s) - 1
    BY <1>1, <1>2, <1>3
  <2> QED
    BY <1>2, <2>1, <2>2
<1>6. ASSUME NEW j \in 1..Len(s) - 1
      PROVE  t[j] = (front \o back)[j]
  <2>1. CASE j < i
    BY <1>1, <1>2, <1>4, <1>5, <2>1
  <2>2. CASE ~(j < i)
    <3>1. j - (i - 1) \in 1..Len(s) - i /\ i + (j - (i - 1)) = j + 1
      BY <1>1, <2>2
    <3>2. back[j - (i - 1)] = s[j + 1]
      BY <1>3, <3>1
    <3> QED
      BY <1>1, <1>4, <1>5, <2>2, <3>2
  <2> QED
    BY <2>1, <2>2
<1>7. t = front \o back
  BY <1>1, <1>4, <1>5, <1>6, SeqEqual
<1> QED
  BY <1>7 DEF t, front, back

\* Nobody changes hands.
LEMMA ServersSame ==
  ASSUME UNCHANGED cont PROVE UNCHANGED Servers
BY DEF Servers, Server, NoWorker, InHand

\* A step inside allocate_invocation that moves no container.
LEMMA InsideStep ==
  ASSUME Policy, NEW w \in Workers, NEW label, Goto(w, label),
         pc[w] # "idle", label # "idle", UNCHANGED <<ram, cont, job, life, fn>>
  PROVE  UNCHANGED Kept!kaVars
<1>1. UNCHANGED Wants
  BY WantsNext DEF Policy, TypeInv
<1>2. UNCHANGED <<Status, Servers>>
  BY NoneMoves
<1> QED
  BY <1>1, <1>2 DEF Kept!kaVars

\* A step in which no worker goes anywhere and no container moves.
LEMMA OutsideStep ==
  ASSUME UNCHANGED <<pc, ram, cont, job, life, fn>>
  PROVE  UNCHANGED Kept!kaVars
<1>1. UNCHANGED Wants
  BY DEF Wants
<1>2. UNCHANGED <<Status, Servers>>
  BY NoneMoves
<1> QED
  BY <1>1, <1>2 DEF Kept!kaVars

\* Unlinking the head of the list retires it.
LEMMA Retires ==
  ASSUME Policy, NEW k \in 1..Len(ram), ram' = SubSeq(ram, k + 1, Len(ram)),
         UNCHANGED <<life, cont, fn, Wants>>
  PROVE  Kept!Retire(k)
<1> DEFINE front == SubSeq(ram, 1, k)
<1>1. /\ ram \in Seq(Containers) /\ ~Repeats(ram) /\ k \in 0..Len(ram)
      /\ Len(ram) \in Nat
  BY LenProperties DEF Policy, TypeInv, TypeOK, OwnInv, Distinct
<1>2. /\ front \in Seq(Containers) /\ Len(front) = k
      /\ Elements(ram) = Elements(front) \cup Elements(ram')
      /\ Elements(front) \cap Elements(ram') = {}
  BY <1>1, ElementsCut
<1>3. \A i \in 1..k : front[i] = ram[i]
  <2>1. \A i \in 1..k : ram[i] \in Containers
    BY <1>1, LenProperties
  <2> QED
    BY <1>1, <2>1, SubSeqProperties
<1>4. Elements(front) = {ram[i] : i \in 1..k}
  <2>1. Elements(front) = {front[i] : i \in 1..Len(front)}
    <3> HIDE DEF front
    <3> QED
      BY <1>2, ElementsType
  <2> HIDE DEF front
  <2> QED
    BY <1>2, <1>3, <2>1
<1> HIDE DEF front
<1>5. ASSUME NEW c \in Containers, c \in Elements(front)
      PROVE  Stage(c)' = "retired"
  <2>1. /\ c \in Elements(ram) /\ c \notin Elements(ram')
        /\ life'[c] = "running" /\ life'[c] \in Live
    BY <1>2, <1>5 DEF Policy, Ready, Live
  <2>2. \A w \in Workers : cont'[w] # c
    BY <2>1 DEF Policy, OwnInv, Sets
  <2> QED
    BY <2>1, <2>2, StageNext
<1>6. ASSUME NEW c \in Containers, c \notin Elements(front)
      PROVE  Stage(c)' = Stage(c)
  <2>1. c \in Elements(ram') <=> c \in Elements(ram)
    BY <1>2, <1>6
  <2> QED
    BY <2>1, Untouched
<1>7. \A c \in Containers : (\E i \in 1..k : ram[i] = c) <=> c \in Elements(front)
  BY <1>4
<1>8. Status' = [c \in Containers |->
                   IF \E i \in 1..k : ram[i] = c THEN "retired" ELSE Status[c]]
  BY <1>5, <1>6, <1>7 DEF Status
<1> QED
  BY <1>8, ServersSame DEF Kept!Retire

\* Killing what is in no cache and in no hands stops it.
LEMMA Stops ==
  ASSUME NEW c \in Containers, life[c] \in Live,
         life \in [Containers -> {"absent", "created", "running", "stopped"}],
         c \notin Elements(ram), \A w \in Workers : cont[w] # c,
         life' = [life EXCEPT ![c] = "stopped"],
         UNCHANGED <<ram, cont, fn, Wants>>
  PROVE  Kept!Stop(c)
<1>1. Status[c] = "retired"
  BY StageNow DEF Status
<1>2. Stage(c)' = "stopped"
  BY StageNext
<1>3. \A d \in Containers \ {c} : life'[d] = life[d]
  OBVIOUS
<1>4. Status' = [Status EXCEPT ![c] = "stopped"]
  BY <1>2, <1>3, OneMoves
<1> QED
  BY <1>1, <1>4, ServersSame DEF Kept!Stop, Kept!Become

\* Starting the container a worker has in hand.
LEMMA Boots ==
  ASSUME Policy, NEW w \in Workers, pc[w] \in {"created", "boot"},
         StartContainer(w), Goto(w, "run"), UNCHANGED <<ram, cont, job>>
  PROVE  Kept!Boot(cont[w])
<1>1. PICK c \in Containers : c = cont[w]
  BY HandIsAlone DEF Policy, Holding
<1>2. /\ c \notin Elements(ram) /\ life[c] = "created" /\ life[c] \in Live
      /\ life' = [life EXCEPT ![c] = "running"] /\ life'[c] = "running"
      /\ life'[c] \in Live /\ c \notin Elements(ram')
      /\ \A d \in Containers \ {c} : life'[d] = life[d]
      /\ fn' = fn
  BY <1>1, HandIsAlone
  DEF Policy, Holding, Ready, StartContainer, TypeInv, TypeOK, Live
<1>3. Status[c] = "starting"
  BY <1>1, <1>2, StageNow DEF Status
<1>4. Stage(c)' = "busy"
  BY <1>1, <1>2, StageNext
<1>5. Status' = [Status EXCEPT ![c] = "busy"]
  BY <1>2, <1>4, OneMoves
<1>6. UNCHANGED Wants
  BY WantsNext DEF Policy, TypeInv
<1> QED
  BY <1>1, <1>2, <1>3, <1>5, <1>6, ServersSame DEF Kept!Boot, Kept!Become

\* An invocation is taken.
LEMMA Requests ==
  ASSUME Policy, NEW w \in Workers, NEW f \in Functions, TakeInvocation(w, f)
  PROVE  Kept!Request(w, f)
<1>1. /\ pc[w] = "idle"
      /\ pc' = [pc EXCEPT ![w] = "lookup"] /\ job' = [job EXCEPT ![w] = f]
      /\ UNCHANGED <<ram, cont, life, fn>>
      /\ pc \in [Workers -> WorkerPCs]
      /\ job \in [Workers -> Functions \cup {NoFunction}]
  BY DEF TakeInvocation, Goto, podmanVars, Policy, TypeInv, TypeOK
<1>2. Wants[w] = NoFunction /\ Wants' = [Wants EXCEPT ![w] = f]
  BY <1>1 DEF Wants
<1>3. UNCHANGED <<Status, Servers>>
  BY <1>1, NoneMoves
<1> QED
  BY <1>1, <1>2, <1>3 DEF Kept!Request

\* What a worker that has something to do and nothing in hand wants.
LEMMA Needy ==
  ASSUME Policy, NEW w \in Workers, pc[w] # "idle"
  PROVE  /\ Wants[w] = job[w] /\ Wants[w] # NoFunction
         /\ pc[w] \notin Holding => cont[w] = NoContainer /\ Kept!WithoutContainer(w)
<1>1. Wants[w] = job[w]
  BY DEF Wants
<1>2. job[w] # NoFunction
  BY RamCacheAssumption DEF Policy, TypeInv, Shape, WorkerShape
<1>3. ASSUME pc[w] \notin Holding
      PROVE  cont[w] = NoContainer /\ Kept!WithoutContainer(w)
  <2>1. cont[w] = NoContainer
    BY <1>3 DEF Policy, TypeInv, Shape, WorkerShape
  <2> QED
    BY <2>1, EmptyHanded
<1> QED
  BY <1>1, <1>2, <1>3

\* An invocation for which freeRam found no room.
LEMMA Refuses ==
  ASSUME Policy, NEW w \in Workers, FailInvocation(w)
  PROVE  Kept!Refuse(w)
<1>1. /\ pc[w] = "evict" /\ Goto(w, "idle")
      /\ UNCHANGED <<ram, cont, job, life, fn>>
  BY DEF FailInvocation, podmanVars
<1>2. Wants[w] # NoFunction /\ Kept!WithoutContainer(w)
  BY <1>1, Needy DEF Holding
<1>3. Wants' = [Wants EXCEPT ![w] = NoFunction]
  BY <1>1, WantsNext DEF Policy, TypeInv
<1>4. UNCHANGED <<Status, Servers>>
  BY <1>1, NoneMoves
<1> QED
  BY <1>1, <1>2, <1>3, <1>4 DEF Kept!Refuse

\* A new container.
LEMMA Launches ==
  ASSUME Policy, NEW w \in Workers, CreateContainer(w)
  PROVE  \E c \in Containers : Kept!Launch(w, c)
<1>1. PICK c \in Containers :
        /\ life[c] = "absent"
        /\ life' = [life EXCEPT ![c] = "created"]
        /\ fn' = [fn EXCEPT ![c] = job[w]]
        /\ cont' = [cont EXCEPT ![w] = c]
  BY DEF CreateContainer
<1>2. pc[w] = "create" /\ Goto(w, "created") /\ UNCHANGED <<ram, job>>
  BY DEF CreateContainer
<1>3. /\ Wants[w] = job[w] /\ Wants[w] # NoFunction
      /\ cont[w] = NoContainer /\ Kept!WithoutContainer(w)
  BY <1>2, Needy DEF Holding
<1>4. UNCHANGED Wants
  BY <1>2, WantsNext DEF Policy, TypeInv
<1>5. c \notin Elements(ram) /\ \A v \in Workers : cont[v] # c
  BY <1>1 DEF Policy, OwnInv, Answers, Live
<1>6. cont \in [Workers -> Containers \cup {NoContainer}]
      /\ life \in [Containers -> {"absent", "created", "running", "stopped"}]
  BY DEF Policy, TypeInv, TypeOK
<1>7. /\ life'[c] = "created" /\ life'[c] \in Live /\ c \notin Elements(ram')
      /\ cont'[w] = c /\ \A v \in Workers \ {w} : cont'[v] # c
  BY <1>1, <1>2, <1>5, <1>6 DEF Live
<1>8. Stage(c)' = "starting" /\ Server(c)' = w
  BY <1>7, StageNext, ServerNext
<1>9. Status[c] = "absent"
  BY <1>1, StageNow DEF Status
<1>10. \A d \in Containers \ {c} :
         /\ life'[d] = life[d]
         /\ d \in Elements(ram') <=> d \in Elements(ram)
         /\ \A v \in Workers : cont'[v] = d <=> cont[v] = d
  BY <1>1, <1>2, <1>3, <1>6, RamCacheAssumption
<1>11. /\ Status' = [Status EXCEPT ![c] = "starting"]
       /\ Servers' = [Servers EXCEPT ![c] = w]
  BY <1>8, <1>10, OneMoves
<1> QED
  BY <1>1, <1>2, <1>3, <1>4, <1>9, <1>11 DEF Kept!Launch, Kept!Become

\* The end of a run, awaited or not.
LEMMA Releases ==
  ASSUME Policy, NEW w \in Workers, RunReturns(w) \/ RunTimesOut(w)
  PROVE  \E c \in Containers : Kept!Release(w, c)
<1>1. /\ pc[w] = "run" /\ Goto(w, "idle")
      /\ ram' = Append(ram, cont[w])
      /\ cont' = [cont EXCEPT ![w] = NoContainer]
      /\ UNCHANGED <<life, fn, job>>
  BY DEF RunReturns, RunTimesOut, Finish, InsertRamItem
<1>2. PICK c \in Containers : c = cont[w]
  BY <1>1, HandIsAlone DEF Policy, Holding
<1>3. /\ c \notin Elements(ram) /\ life[c] = "running" /\ life[c] \in Live
      /\ \A v \in Workers \ {w} : cont[v] # c
  BY <1>1, <1>2, HandIsAlone DEF Policy, Holding, Ready, Live
<1>4. /\ ram \in Seq(Containers) /\ ~Repeats(ram)
      /\ cont \in [Workers -> Containers \cup {NoContainer}]
  BY DEF Policy, TypeInv, TypeOK, OwnInv, Distinct
<1>5. Elements(ram') = Elements(ram) \cup {c}
  BY <1>1, <1>2, <1>3, <1>4, ElementsAppend
<1>6. \A v \in Workers : cont'[v] # c
  BY <1>1, <1>2, <1>3, <1>4, RamCacheAssumption
<1>7. Status[c] = "busy" /\ Servers[c] = w
  BY <1>2, <1>3, StageNow, ServerNow DEF Status, Servers
<1>8. Stage(c)' = "idle" /\ Server(c)' = NoWorker
  BY <1>1, <1>3, <1>5, <1>6, StageNext, ServerNext
<1>9. \A d \in Containers \ {c} :
        /\ life'[d] = life[d]
        /\ d \in Elements(ram') <=> d \in Elements(ram)
        /\ \A v \in Workers : cont'[v] = d <=> cont[v] = d
  BY <1>1, <1>2, <1>4, <1>5, RamCacheAssumption
<1>10. /\ Status' = [Status EXCEPT ![c] = "idle"]
       /\ Servers' = [Servers EXCEPT ![c] = NoWorker]
  BY <1>8, <1>9, OneMoves
<1>11. Wants' = [Wants EXCEPT ![w] = NoFunction]
  BY <1>1, WantsNext DEF Policy, TypeInv
<1> QED
  BY <1>1, <1>2, <1>7, <1>10, <1>11 DEF Kept!Release, Kept!Become

\* A warm start.
LEMMA Reuses ==
  ASSUME Policy, NEW w \in Workers, WarmStart(w)
  PROVE  Kept!Reuse(w)
<1>1. PICK i \in 1..Len(ram) :
        /\ FirstMatch(job[w], i)
        /\ cont' = [cont EXCEPT ![w] = ram[i]]
        /\ ram' = WithoutNode(ram, i)
  BY DEF WarmStart
<1>2. /\ pc[w] = "lookup" /\ Goto(w, "run")
      /\ UNCHANGED <<job, fn, life>>
  BY DEF WarmStart, podmanVars
<1>3. /\ ram \in Seq(Containers) /\ ~Repeats(ram)
      /\ cont \in [Workers -> Containers \cup {NoContainer}]
      /\ Elements(ram) \subseteq Containers
  BY ElementsInContainers DEF Policy, TypeInv, TypeOK, OwnInv, Distinct
<1>4. ram[i] \in Elements(ram) /\ Elements(ram') = Elements(ram) \ {ram[i]}
  BY <1>1, <1>3, WithoutNodeProperties
<1>5. PICK c \in Containers : c = ram[i]
  BY <1>3, <1>4
<1>6. /\ life[c] = "running" /\ life[c] \in Live
      /\ c \in Elements(ram) /\ c \notin Elements(ram')
  BY <1>4, <1>5 DEF Policy, Ready, Live
<1>7. \A v \in Workers : cont[v] # c
  BY <1>6 DEF Policy, OwnInv, Sets
<1>8. /\ Wants[w] = job[w] /\ Wants[w] # NoFunction
      /\ cont[w] = NoContainer /\ Kept!WithoutContainer(w)
  BY <1>2, Needy DEF Holding
<1>9. cont'[w] = c /\ \A v \in Workers \ {w} : cont'[v] # c
  BY <1>1, <1>3, <1>5, <1>7
<1>10. Status[c] = "idle"
  BY <1>6, StageNow DEF Status
<1>11. Stage(c)' = "busy" /\ Server(c)' = w
  BY <1>2, <1>6, <1>9, StageNext, ServerNext
<1>12. \A d \in Containers \ {c} :
         /\ life'[d] = life[d]
         /\ d \in Elements(ram') <=> d \in Elements(ram)
         /\ \A v \in Workers : cont'[v] = d <=> cont[v] = d
  BY <1>1, <1>2, <1>3, <1>4, <1>5, <1>8, RamCacheAssumption
<1>13. /\ Status' = [Status EXCEPT ![c] = "busy"]
       /\ Servers' = [Servers EXCEPT ![c] = w]
  BY <1>11, <1>12, OneMoves
<1>14. UNCHANGED Wants
  BY <1>2, WantsNext DEF Policy, TypeInv
<1>15. ram' = SubSeq(ram, 1, i - 1) \o SubSeq(ram, i + 1, Len(ram))
  BY <1>1, <1>3, CutOut
<1>16. /\ i \in DOMAIN ram /\ fn[ram[i]] = job[w]
       /\ \A j \in 1..i - 1 : fn[ram[j]] # job[w]
  BY <1>1 DEF FirstMatch
<1> QED
  BY <1>2, <1>5, <1>8, <1>10, <1>13, <1>14, <1>15, <1>16 DEF Kept!Reuse, Kept!Become

\* freeRam retires what it unlinks, if it unlinks anything.
LEMMA Evicts ==
  ASSUME Policy, NEW w \in Workers, BeginFreeRam(w)
  PROVE  (\E k \in 1..Len(ram) : Kept!Retire(k)) \/ UNCHANGED Kept!kaVars
<1>1. PICK k \in 0..Len(ram) : ram' = SubSeq(ram, k + 1, Len(ram))
  BY DEF BeginFreeRam
<1>2. /\ pc[w] = "lookup" /\ Goto(w, "evict")
      /\ UNCHANGED <<cont, job, life, fn>>
  BY DEF BeginFreeRam, podmanVars
<1>3. ram \in Seq(Containers) /\ Len(ram) \in Nat
  BY LenProperties DEF Policy, TypeInv, TypeOK
<1>4. CASE k = 0
  <2>1. ram' = ram
    BY <1>1, <1>3, <1>4, SubSeqFull
  <2> QED
    BY <1>2, <2>1, InsideStep
<1>5. CASE k # 0
  <2>1. k \in 1..Len(ram)
    BY <1>3, <1>5
  <2>2. UNCHANGED Wants
    BY <1>2, WantsNext DEF Policy, TypeInv
  <2> QED
    BY <1>1, <1>2, <2>1, <2>2, Retires
<1> QED
  BY <1>4, <1>5

\* Every step is one the policy allows, or changes nothing it knows of.
LEMMA PolicyStep ==
  Policy /\ [Next]_vars => [Kept!KANext]_(Kept!kaVars)
<1> SUFFICES ASSUME Policy, [Next]_vars
             PROVE  Kept!KANext \/ UNCHANGED Kept!kaVars
  OBVIOUS
<1>1. ASSUME NEW w \in Workers, NEW f \in Functions, TakeInvocation(w, f)
      PROVE  Kept!KANext
  BY <1>1, Requests DEF Kept!KANext
<1>2. ASSUME NEW w \in Workers, WarmStart(w)
      PROVE  Kept!KANext
  BY <1>2, Reuses DEF Kept!KANext
<1>3. ASSUME NEW w \in Workers, Reserve(w) \/ EndFreeRam(w) \/ ColdStart(w)
      PROVE  UNCHANGED Kept!kaVars
  <2>1. CASE Reserve(w)
    BY <2>1, InsideStep DEF Reserve, podmanVars
  <2>2. CASE EndFreeRam(w)
    BY <2>2, InsideStep DEF EndFreeRam, podmanVars
  <2>3. CASE ColdStart(w)
    BY <2>3, InsideStep DEF ColdStart, podmanVars
  <2> QED
    BY <1>3, <2>1, <2>2, <2>3
<1>4. ASSUME NEW w \in Workers, BeginFreeRam(w)
      PROVE  Kept!KANext \/ UNCHANGED Kept!kaVars
  BY <1>4, Evicts DEF Kept!KANext
<1>5. ASSUME NEW w \in Workers, KillVictim(w)
      PROVE  Kept!KANext
  <2>1. PICK c \in Containers : c = Head(victims[w]) /\ c \in Held[w]
    BY <1>5, ElementsTail, ElementsInContainers
    DEF KillVictim, Policy, TypeInv, TypeOK, OwnInv, Distinct, Held
  <2>2. /\ life' = [life EXCEPT ![c] = "stopped"]
        /\ UNCHANGED <<ram, pc, job, cont, fn>>
    BY <1>5, <2>1 DEF KillVictim, KillContainer
  <2>3. /\ life[c] \in Live /\ c \notin Elements(ram)
        /\ \A v \in Workers : cont[v] # c
        /\ life \in [Containers -> {"absent", "created", "running", "stopped"}]
    BY <2>1 DEF Policy, OwnInv, Sets, Answers, TypeInv, TypeOK
  <2>4. UNCHANGED Wants
    BY <2>2 DEF Wants
  <2> QED
    BY <2>2, <2>3, <2>4, Stops DEF Kept!KANext
<1>6. ASSUME NEW w \in Workers, FailInvocation(w)
      PROVE  Kept!KANext
  BY <1>6, Refuses DEF Kept!KANext
<1>7. ASSUME NEW w \in Workers, CreateContainer(w)
      PROVE  Kept!KANext
  BY <1>7, Launches DEF Kept!KANext
<1>8. ASSUME NEW w \in Workers, NEW kind, RestoredStart(w, kind) \/ BootContainer(w)
      PROVE  Kept!KANext
  <2>1. /\ pc[w] \in {"created", "boot"} /\ StartContainer(w) /\ Goto(w, "run")
        /\ UNCHANGED <<ram, cont, job>>
    BY <1>8 DEF RestoredStart, BootContainer
  <2>2. Kept!Boot(cont[w]) /\ cont[w] \in Containers
    BY <2>1, Boots, HandIsAlone DEF Policy, Holding
  <2> QED
    BY <2>2 DEF Kept!KANext
<1>9. ASSUME NEW w \in Workers, RunReturns(w) \/ RunTimesOut(w)
      PROVE  Kept!KANext
  BY <1>9, Releases DEF Kept!KANext
<1>10. CASE WriterPoll
  <2>1. PICK k \in 1..Len(ram) : ram' = SubSeq(ram, k + 1, Len(ram))
    BY <1>10 DEF WriterPoll
  <2>2. UNCHANGED <<pc, job, cont, life, fn>>
    BY <1>10 DEF WriterPoll, workerVars, podmanVars
  <2>3. UNCHANGED Wants
    BY <2>2 DEF Wants
  <2> QED
    BY <2>1, <2>2, <2>3, Retires DEF Kept!KANext
<1>11. CASE WriterStore
  <2>1. PICK c \in Containers : c = Head(buffer) /\ c \in Elements(buffer)
    BY <1>11, ElementsTail, ElementsInContainers
    DEF WriterStore, Policy, TypeInv, TypeOK, Shape, OwnInv, Distinct
  <2>2. /\ life' = [life EXCEPT ![c] = "stopped"]
        /\ UNCHANGED <<ram, pc, job, cont, fn>>
    BY <1>11, <2>1 DEF WriterStore, KillContainer, workerVars
  <2>3. /\ life[c] \in Live /\ c \notin Elements(ram)
        /\ \A v \in Workers : cont[v] # c
        /\ life \in [Containers -> {"absent", "created", "running", "stopped"}]
    BY <2>1 DEF Policy, OwnInv, Sets, Answers, TypeInv, TypeOK
  <2>4. UNCHANGED Wants
    BY <2>2 DEF Wants
  <2> QED
    BY <2>2, <2>3, <2>4, Stops DEF Kept!KANext
<1>12. ASSUME \/ \E c \in Containers : LateRunEnds(c)
              \/ WriterExit \/ MainStep \/ UNCHANGED vars
       PROVE  UNCHANGED Kept!kaVars
  <2>1. UNCHANGED <<pc, ram, cont, job, life, fn>>
    BY <1>12 DEF LateRunEnds, WriterExit, MainStep, EndOfInput, StopWriter,
                 JoinWriter, vars, workerVars, podmanVars
  <2> QED
    BY <2>1, OutsideStep
<1> QED
  BY <1>1, <1>2, <1>3, <1>4, <1>5, <1>6, <1>7, <1>8, <1>9, <1>10, <1>11, <1>12
  DEF Next, WorkerStep, WriterStep, Terminated

\* Nothing has happened yet.
LEMMA PolicyInit == Init => Kept!KAInit
<1> SUFFICES ASSUME Init PROVE Kept!KAInit
  OBVIOUS
<1>1. Wants = [w \in Workers |-> NoFunction]
  BY DEF Init, Wants
<1>2. \A c \in Containers : Stage(c) = "absent"
  BY StageNow DEF Init
<1>3. \A c \in Containers : Server(c) = NoWorker
  BY ServerNow, RamCacheAssumption DEF Init
<1> QED
  BY <1>1, <1>2, <1>3 DEF Init, Kept!KAInit, Status, Servers

\* KeepsThePolicy (ram_cache.c, invocation.c:90-139, disk_cache.c:389): with any
\* number of workers, containers and functions the lists, locks and counters
\* of the emulator do to a container what the keep-alive policy allows, in its
\* order.
THEOREM ListsKeepThePolicy == Spec => KeepsThePolicy
<1>1. Init => Policy
  BY TypeInit, OwnInit, ReadyInit DEF Policy
<1>2. Policy /\ [Next]_vars => Policy'
  BY TypeStep, OwnStep, ReadyStep DEF Policy, TypeInv
<1>3. Policy /\ [Next]_vars => [Kept!KANext]_(Kept!kaVars)
  BY PolicyStep
<1> QED
  BY <1>1, <1>2, <1>3, PolicyInit, PTL DEF Spec, KeepsThePolicy, Kept!KASafety
=============================================================================
