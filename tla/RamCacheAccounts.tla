-------------------------- MODULE RamCacheAccounts --------------------------
(***************************************************************************)
(* No megabyte is lost, and the writer stops last.  Both accounts need the *)
(* ownership of RamCacheProofs: a container in two lists would be          *)
(* counted twice.  The end of the writer needs the accounts: it takes the  *)
(* value -1 of cache_occupied for the order to stop, which is safe because *)
(* the account of cache_occupied is a sum of sizes until that order comes. *)
(***************************************************************************)
EXTENDS RamCacheProofs

Stored == Total(Elements(ram), SizeOf)
Charged == Total(Workers, Charge)
Pending == Total(Workers, Unsettled)

WriterEnds == wr = "exited" => main \in {"draining", "done"}
AccountInv == MemoryAccounting /\ OccupiedAccounting /\ WriterEnds

\* The three sums are natural numbers.
LEMMA SumTypes ==
  TypeInv => /\ Charge \in [Workers -> Nat]
             /\ Unsettled \in [Workers -> Nat]
             /\ Stored \in Nat
             /\ Charged \in Nat
             /\ Pending \in Nat
             /\ IsFiniteSet(Elements(ram))
             /\ \A c \in Elements(ram) : SizeOf[c] \in Nat
<1> SUFFICES ASSUME TypeInv
             PROVE  /\ Charge \in [Workers -> Nat]
                    /\ Unsettled \in [Workers -> Nat]
                    /\ Stored \in Nat
                    /\ Charged \in Nat
                    /\ Pending \in Nat
                    /\ IsFiniteSet(Elements(ram))
                    /\ \A c \in Elements(ram) : SizeOf[c] \in Nat
  OBVIOUS
<1>1. \A w \in Workers : freed[w] \in Nat
  BY DEF TypeInv, TypeOK
<1>2. \A w \in Workers : pc[w] # "idle" => Mem[job[w]] \in Nat
  BY RamCacheAssumption DEF TypeInv, Shape, WorkerShape
<1>3. Charge \in [Workers -> Nat]
  <2>1. ASSUME NEW w \in Workers PROVE Charge[w] \in Nat
    BY <1>1, <1>2 DEF Charge
  <2> QED
    BY <2>1 DEF Charge
<1>4. Unsettled \in [Workers -> Nat]
  BY <1>1 DEF Unsettled
<1>5. /\ \A c \in Elements(ram) : c \in Containers
      /\ IsFiniteSet(Elements(ram))
  BY ElementsInContainers, FS_Subset, RamCacheAssumption DEF TypeInv
<1>6. \A c \in Elements(ram) : SizeOf[c] \in Nat
  BY <1>5, SizeOfType DEF TypeInv
<1>7. Stored \in Nat
  BY <1>5, <1>6, TotalIsNat DEF Stored
<1>8. Charged \in Nat
  BY <1>3, TotalIsNat, RamCacheAssumption DEF Charged
<1>9. Pending \in Nat
  BY <1>4, TotalIsNat, RamCacheAssumption DEF Pending
<1> QED
  BY <1>3, <1>4, <1>5, <1>6, <1>7, <1>8, <1>9

\* A step of one worker changes the sums by what changes at that worker.
LEMMA OneWorkerSums ==
  ASSUME TypeInv, TypeInv', NEW w \in Workers,
         \A v \in Workers \ {w} : pc'[v] = pc[v] /\ job'[v] = job[v] /\ freed'[v] = freed[v]
  PROVE  /\ Charged' = Charged - Charge[w] + Charge'[w]
         /\ Pending' = Pending - Unsettled[w] + Unsettled'[w]
<1>1. \A v \in Workers : Charge[v] \in Nat /\ Unsettled[v] \in Nat
  BY SumTypes
<1>2. (TypeInv => /\ Charge \in [Workers -> Nat]
                  /\ Unsettled \in [Workers -> Nat])'
  BY SumTypes, PTL
<1>3. \A v \in Workers : Charge'[v] \in Nat /\ Unsettled'[v] \in Nat
  BY <1>2
<1>4. \A v \in Workers \ {w} : Charge[v] = Charge'[v]
  BY DEF Charge
<1>5. \A v \in Workers \ {w} : Unsettled[v] = Unsettled'[v]
  BY DEF Unsettled
<1>6. Total(Workers, Charge') = Total(Workers, Charge) - Charge[w] + Charge'[w]
  BY <1>1, <1>3, <1>4, TotalChange, RamCacheAssumption
<1>7. Total(Workers, Unsettled') =
        Total(Workers, Unsettled) - Unsettled[w] + Unsettled'[w]
  BY <1>1, <1>3, <1>5, TotalChange, RamCacheAssumption
<1> QED
  BY <1>6, <1>7 DEF Charged, Pending

\* The two accounts after a step of one worker: what enters the list, what
\* ram->memory gives and what the worker takes have to balance.
LEMMA BooksBalance ==
  ASSUME TypeInv, TypeInv', MemoryAccounting, OccupiedAccounting,
         NEW w \in Workers, NEW d \in Int,
         \A v \in Workers \ {w} : pc'[v] = pc[v] /\ job'[v] = job[v] /\ freed'[v] = freed[v],
         pc[w] # "idle" \/ main = "feeding",
         main' = main,
         Stored' = Stored + d,
         memory' = memory - d - (Charge'[w] - Charge[w]),
         cacheOccupied' = cacheOccupied + d + (Unsettled'[w] - Unsettled[w])
  PROVE  MemoryAccounting' /\ OccupiedAccounting'
<1>1. /\ Charged' = Charged - Charge[w] + Charge'[w]
      /\ Pending' = Pending - Unsettled[w] + Unsettled'[w]
  BY OneWorkerSums
<1>2. /\ Stored \in Nat /\ Charged \in Nat /\ Pending \in Nat
      /\ Charge[w] \in Nat /\ Unsettled[w] \in Nat
  BY SumTypes
<1>3. (TypeInv => /\ Charge \in [Workers -> Nat]
                  /\ Unsettled \in [Workers -> Nat])'
  BY SumTypes, PTL
<1>4. Charge'[w] \in Nat /\ Unsettled'[w] \in Nat
  BY <1>3
<1>5. memory \in Int /\ cacheOccupied \in Int /\ MaxMemory \in Nat
  BY RamCacheAssumption DEF TypeInv, TypeOK
<1>6. main \in {"feeding", "waiting"}
  BY DEF TypeInv, TypeOK, Shape
<1>7. /\ memory + Stored + Charged = MaxMemory
      /\ cacheOccupied = Stored + Pending
  BY <1>6 DEF MemoryAccounting, OccupiedAccounting, Stored, Charged, Pending
<1> DEFINE c0 == Charge[w]
           c1 == Charge'[w]
           u0 == Unsettled[w]
           u1 == Unsettled'[w]
<1>8. /\ memory' + Stored' + Charged' = MaxMemory
      /\ cacheOccupied' = Stored' + Pending'
  <2>1. /\ memory' = memory - d - (c1 - c0)
        /\ cacheOccupied' = cacheOccupied + d + (u1 - u0)
        /\ Charged' = Charged - c0 + c1
        /\ Pending' = Pending - u0 + u1
        /\ c0 \in Nat /\ c1 \in Nat /\ u0 \in Nat /\ u1 \in Nat
    BY <1>1, <1>2, <1>4
  <2> HIDE DEF c0, c1, u0, u1
  <2> QED
    BY <1>2, <1>5, <1>7, <2>1
<1> QED
  BY <1>6, <1>8 DEF MemoryAccounting, OccupiedAccounting, Stored, Charged, Pending

\* What the sum over the list becomes when the list and the sizes stay.
LEMMA StoredUnchanged ==
  ASSUME UNCHANGED <<ram, fn>>
  PROVE  Stored' = Stored
BY DEF Stored, SizeOf

\* The size of a container that was made for the function of a worker.
LEMMA SizeOfJob ==
  ASSUME TypeInv, NEW w \in Workers, NEW c \in Containers,
         pc[w] # "idle", fn[c] = job[w]
  PROVE  SizeOf[c] = Mem[job[w]] /\ Mem[job[w]] \in Nat
<1>1. job[w] \in Functions
  BY DEF TypeInv, Shape, WorkerShape
<1> QED
  BY <1>1, RamCacheAssumption DEF SizeOf

\* At the start all of options->memory is free and cache_occupied is zero.
LEMMA AccountInit == Init => AccountInv
<1> SUFFICES ASSUME Init PROVE AccountInv
  OBVIOUS
<1>1. Elements(ram) = {}
  BY ElementsEmpty DEF Init
<1>2. Stored = 0
  BY <1>1, TotalEmpty DEF Stored
<1>3. \A w \in Workers : Charge[w] = 0 /\ Unsettled[w] = 0
  BY DEF Init, Charge, Unsettled
<1>4. Charged = 0 /\ Pending = 0
  BY <1>3, TotalZero DEF Charged, Pending
<1> QED
  BY <1>2, <1>4, RamCacheAssumption
  DEF Init, AccountInv, MemoryAccounting, OccupiedAccounting, WriterEnds,
      Stored, Charged, Pending

\* The accounts stay balanced in every step of a worker.
LEMMA WorkerBooks ==
  ASSUME TypeInv, TypeInv', OwnInv, MemoryAccounting, OccupiedAccounting,
         NEW w \in Workers,
         (\E f \in Functions : TakeInvocation(w, f)) \/ WorkerStep(w)
  PROVE  MemoryAccounting' /\ OccupiedAccounting'
<1> DEFINE Goal == MemoryAccounting' /\ OccupiedAccounting'
<1> SUFFICES Goal
  OBVIOUS
<1> HIDE DEF Goal
<1>0. /\ pc \in [Workers -> WorkerPCs]
      /\ job \in [Workers -> Functions \cup {NoFunction}]
      /\ cont \in [Workers -> Containers \cup {NoContainer}]
      /\ freed \in [Workers -> Nat]
      /\ fn \in [Containers -> Functions \cup {NoFunction}]
      /\ ram \in Seq(Containers) /\ ~Repeats(ram)
      /\ memory \in Int /\ cacheOccupied \in Int
      /\ pc[w] # "evict" => freed[w] = 0
      /\ freed[w] \in Nat
      /\ pc[w] # "idle" => Mem[job[w]] \in Nat
      /\ pc[w] \in Holding <=> cont[w] # NoContainer
      /\ Stored \in Nat /\ 0 \in Int
      /\ TypeOK
  <2>1. /\ pc \in [Workers -> WorkerPCs]
        /\ job \in [Workers -> Functions \cup {NoFunction}]
        /\ cont \in [Workers -> Containers \cup {NoContainer}]
        /\ freed \in [Workers -> Nat]
        /\ fn \in [Containers -> Functions \cup {NoFunction}]
        /\ ram \in Seq(Containers)
        /\ memory \in Int /\ cacheOccupied \in Int
        /\ TypeOK
    BY DEF TypeInv, TypeOK
  <2>2. /\ pc[w] # "evict" => freed[w] = 0
        /\ pc[w] # "idle" => job[w] \in Functions
        /\ pc[w] \in Holding <=> cont[w] # NoContainer
    BY DEF TypeInv, Shape, WorkerShape
  <2>3. pc[w] # "idle" => Mem[job[w]] \in Nat
    BY <2>2, RamCacheAssumption
  <2>4. Stored \in Nat /\ ~Repeats(ram)
    BY SumTypes DEF OwnInv, Distinct
  <2> QED
    BY <2>1, <2>2, <2>3, <2>4
<1>1. ASSUME NEW f \in Functions, TakeInvocation(w, f) PROVE Goal
  <2>1. /\ pc[w] = "idle" /\ pc' = [pc EXCEPT ![w] = "lookup"]
        /\ job' = [job EXCEPT ![w] = f]
        /\ main = "feeding"
        /\ UNCHANGED <<memory, cacheOccupied, ram, freed, fn, main>>
    BY <1>1 DEF TakeInvocation, Goto, podmanVars
  <2>2. /\ Charge[w] = 0 /\ Charge'[w] = 0
        /\ Unsettled[w] = 0 /\ Unsettled'[w] = 0
    BY <1>0, <2>1 DEF Charge, Unsettled
  <2>3. Stored' = Stored
    BY <2>1, StoredUnchanged
  <2>4. \A v \in Workers \ {w} : pc'[v] = pc[v] /\ job'[v] = job[v] /\ freed'[v] = freed[v]
    BY <1>0, <2>1
  <2>5. /\ Stored' = Stored + 0
        /\ memory' = memory - 0 - (Charge'[w] - Charge[w])
        /\ cacheOccupied' = cacheOccupied + 0 + (Unsettled'[w] - Unsettled[w])
    BY <1>0, <2>1, <2>2, <2>3
  <2> QED
    BY <1>0, <2>1, <2>4, <2>5, BooksBalance DEF Goal
<1>2. ASSUME WarmStart(w) PROVE Goal
  <2>1. PICK i \in 1..Len(ram) :
          /\ fn[ram[i]] = job[w]
          /\ ram' = WithoutNode(ram, i)
          /\ cacheOccupied' = cacheOccupied - SizeOf[ram[i]]
    BY <1>2, <1>0, LenProperties DEF WarmStart, FirstMatch, WarmOccupied
  <2>2. /\ pc[w] = "lookup" /\ pc' = [pc EXCEPT ![w] = "run"]
        /\ UNCHANGED <<memory, job, freed, fn, main>>
    BY <1>2 DEF WarmStart, Goto, podmanVars
  <2>3. /\ Elements(ram') = Elements(ram) \ {ram[i]}
        /\ ram[i] \in Elements(ram)
    BY <1>0, <2>1, WithoutNodeProperties
  <2>4. ram[i] \in Containers
    BY <2>3, ElementsInContainers, <1>0
  <2> DEFINE c == ram[i]
             R == Elements(ram)
  <2>5. /\ c \in Containers /\ c \in R /\ Elements(ram') = R \ {c}
        /\ fn[c] = job[w]
        /\ cacheOccupied' = cacheOccupied - SizeOf[c]
    BY <2>1, <2>3, <2>4
  <2>6. SizeOf' = SizeOf
    BY <2>2 DEF SizeOf
  <2> HIDE DEF c
  <2>7. SizeOf[c] = Mem[job[w]] /\ Mem[job[w]] \in Nat
    BY <2>2, <2>5, SizeOfJob
  <2>8. IsFiniteSet(R) /\ \A d \in R : SizeOf[d] \in Nat
    BY SumTypes
  <2>9. Total(R \ {c}, SizeOf) = Total(R, SizeOf) - SizeOf[c]
    BY <2>5, <2>8, TotalRemove
  <2>10. Stored' = Stored - Mem[job[w]]
    BY <2>5, <2>6, <2>7, <2>9, Zenon DEF Stored
  <2>11. /\ Charge[w] = 0 /\ Charge'[w] = Mem[job[w]]
         /\ Unsettled[w] = 0 /\ Unsettled'[w] = 0
    BY <1>0, <2>2 DEF Charge, Unsettled
  <2>12. \A v \in Workers \ {w} : pc'[v] = pc[v] /\ job'[v] = job[v] /\ freed'[v] = freed[v]
    BY <1>0, <2>2
  <2> DEFINE m == Mem[job[w]]
             d == 0 - m
  <2>13. /\ d \in Int
         /\ Stored' = Stored + d
         /\ memory' = memory - d - (Charge'[w] - Charge[w])
         /\ cacheOccupied' = cacheOccupied + d + (Unsettled'[w] - Unsettled[w])
    <3>1. /\ m \in Nat /\ Stored' = Stored - m
          /\ cacheOccupied' = cacheOccupied - m
          /\ Charge'[w] = m
      BY <2>5, <2>7, <2>10, <2>11
    <3> HIDE DEF m
    <3> QED
      BY <1>0, <2>2, <2>11, <3>1
  <2> HIDE DEF d
  <2> QED
    BY <2>2, <2>12, <2>13, BooksBalance DEF Goal
<1>3. ASSUME pc[w] # "idle", main' = main, job' = job, Stored' = Stored,
             \A v \in Workers \ {w} : pc'[v] = pc[v] /\ freed'[v] = freed[v],
             memory' = memory - (Charge'[w] - Charge[w]),
             cacheOccupied' = cacheOccupied + (Unsettled'[w] - Unsettled[w])
      PROVE  Goal
  <2>1. /\ Charge[w] \in Int /\ Unsettled[w] \in Int
        /\ (Charge[w] \in Int /\ Unsettled[w] \in Int)'
    <3>1. TypeInv => Charge \in [Workers -> Nat] /\ Unsettled \in [Workers -> Nat]
      BY SumTypes
    <3>2. (TypeInv => /\ Charge \in [Workers -> Nat]
                      /\ Unsettled \in [Workers -> Nat])'
      BY SumTypes, PTL
    <3> QED
      BY <3>1, <3>2
  <2> DEFINE a == Charge'[w] - Charge[w]
             b == Unsettled'[w] - Unsettled[w]
  <2>2. a \in Int /\ b \in Int /\ memory' = memory - a /\ cacheOccupied' = cacheOccupied + b
    BY <1>3, <2>1
  <2>3. /\ Stored' = Stored + 0
        /\ memory' = memory - 0 - a
        /\ cacheOccupied' = cacheOccupied + 0 + b
    <3> HIDE DEF a, b
    <3> QED
      BY <1>0, <1>3, <2>2
  <2> QED
    BY <1>0, <1>3, <2>3, BooksBalance DEF Goal
<1>4. ASSUME Reserve(w) PROVE Goal
  <2>1. /\ pc[w] = "lookup" /\ pc' = [pc EXCEPT ![w] = "create"]
        /\ memory' = memory - Mem[job[w]]
        /\ UNCHANGED <<cacheOccupied, ram, job, freed, fn, main>>
    BY <1>4 DEF Reserve, Goto, podmanVars
  <2>2. /\ Charge[w] = 0 /\ Charge'[w] = Mem[job[w]]
        /\ Unsettled[w] = 0 /\ Unsettled'[w] = 0
    BY <1>0, <2>1 DEF Charge, Unsettled
  <2>3. Stored' = Stored
    BY <2>1, StoredUnchanged
  <2>4. /\ memory' = memory - (Charge'[w] - Charge[w])
        /\ cacheOccupied' = cacheOccupied + (Unsettled'[w] - Unsettled[w])
    BY <1>0, <2>1, <2>2
  <2> QED
    BY <1>0, <1>3, <2>1, <2>3, <2>4
<1>5. ASSUME BeginFreeRam(w) PROVE Goal
  <2>1. PICK k \in 0..Len(ram) :
          /\ freed' = [freed EXCEPT ![w] = PrefixSize(k)]
          /\ ram' = SubSeq(ram, k + 1, Len(ram))
    BY <1>5 DEF BeginFreeRam
  <2>2. /\ pc[w] = "lookup" /\ pc' = [pc EXCEPT ![w] = "evict"]
        /\ UNCHANGED <<memory, cacheOccupied, job, fn, main>>
    BY <1>5 DEF BeginFreeRam, Goto, podmanVars
  <2> DEFINE p == PrefixSize(k)
  <2>3. /\ p \in Nat
        /\ Total(Elements(ram), SizeOf) = p + Total(Elements(ram'), SizeOf)
    BY <1>0, <2>1, PrefixSizeSplits
  <2>4. SizeOf' = SizeOf
    BY <2>2 DEF SizeOf
  <2>5. Stored = p + Stored'
    BY <2>3, <2>4, Zenon DEF Stored
  <2>6. (TypeInv => Stored \in Nat)'
    BY SumTypes, PTL
  <2>7. freed' = [freed EXCEPT ![w] = p]
    BY <2>1
  <2> HIDE DEF p
  <2>8. /\ Charge[w] = 0 /\ Charge'[w] = p
        /\ Unsettled[w] = 0 /\ Unsettled'[w] = p
    BY <1>0, <2>2, <2>7 DEF Charge, Unsettled
  <2>9. \A v \in Workers \ {w} : pc'[v] = pc[v] /\ job'[v] = job[v] /\ freed'[v] = freed[v]
    BY <1>0, <2>2, <2>7
  <2> DEFINE d == 0 - p
  <2>10. /\ d \in Int
         /\ Stored' = Stored + d
         /\ memory' = memory - d - (Charge'[w] - Charge[w])
         /\ cacheOccupied' = cacheOccupied + d + (Unsettled'[w] - Unsettled[w])
    BY <1>0, <2>2, <2>3, <2>5, <2>6, <2>8
  <2> HIDE DEF d
  <2> QED
    BY <2>2, <2>9, <2>10, BooksBalance DEF Goal
<1>6. ASSUME EndFreeRam(w) \/ FailInvocation(w) PROVE Goal
  <2> DEFINE take == IF EndFreeRam(w) THEN Mem[job[w]] ELSE 0
             f == freed[w]
  <2>1. /\ pc[w] = "evict"
        /\ pc' = [pc EXCEPT ![w] = IF EndFreeRam(w) THEN "create" ELSE "idle"]
        /\ memory' = memory + f - take
        /\ cacheOccupied' = cacheOccupied - f
        /\ freed' = [freed EXCEPT ![w] = 0]
        /\ UNCHANGED <<ram, job, fn, main>>
    BY <1>0, <1>6 DEF EndFreeRam, FailInvocation, Credit, Goto, podmanVars
  <2>2. /\ Charge[w] = f /\ Charge'[w] = take
        /\ Unsettled[w] = f /\ Unsettled'[w] = 0
    BY <1>0, <2>1 DEF Charge, Unsettled
  <2>3. Stored' = Stored
    BY <2>1, StoredUnchanged
  <2>4. take \in Nat /\ f \in Nat
    BY <1>0, <2>1
  <2>5. \A v \in Workers \ {w} : pc'[v] = pc[v] /\ freed'[v] = freed[v]
    BY <1>0, <2>1
  <2> HIDE DEF take, f
  <2>6. /\ memory' = memory - (Charge'[w] - Charge[w])
        /\ cacheOccupied' = cacheOccupied + (Unsettled'[w] - Unsettled[w])
    BY <1>0, <2>1, <2>2, <2>4
  <2> QED
    BY <1>3, <2>1, <2>3, <2>5, <2>6
<1>7. ASSUME pc[w] # "idle", main' = main, job' = job, Stored' = Stored,
             UNCHANGED <<memory, cacheOccupied, freed>>,
             \A v \in Workers \ {w} : pc'[v] = pc[v],
             pc'[w] = pc[w] \/ (pc[w] \in {"create", "created", "boot"}
                                  /\ pc'[w] \in {"created", "boot", "run"})
      PROVE  Goal
  <2>1. Charge'[w] = Charge[w] /\ Unsettled'[w] = Unsettled[w]
    BY <1>0, <1>7 DEF Charge, Unsettled
  <2>2. Charge[w] \in Nat /\ Unsettled[w] \in Nat
    BY SumTypes
  <2>3. /\ memory' = memory - (Charge'[w] - Charge[w])
        /\ cacheOccupied' = cacheOccupied + (Unsettled'[w] - Unsettled[w])
    BY <1>0, <1>7, <2>1, <2>2
  <2> QED
    BY <1>3, <1>7, <2>3
<1>8. ASSUME KillVictim(w) PROVE Goal
  <2>1. Stored' = Stored
    BY <1>8, StoredUnchanged DEF KillVictim, KillContainer
  <2> QED
    BY <1>7, <1>8, <2>1 DEF KillVictim
<1>9. ASSUME CreateContainer(w) PROVE Goal
  <2>1. PICK c \in Containers :
          life[c] = "absent" /\ fn' = [fn EXCEPT ![c] = job[w]]
    BY <1>9 DEF CreateContainer
  <2>2. c \notin Elements(ram)
    BY <2>1 DEF OwnInv, Answers, Live
  <2>3. Elements(ram) \subseteq Containers
    BY <1>0, ElementsInContainers
  <2>4. \A d \in Elements(ram) : SizeOf[d] = SizeOf'[d]
    BY <1>0, <2>1, <2>2, <2>3 DEF SizeOf
  <2>5. Total(Elements(ram), SizeOf) = Total(Elements(ram), SizeOf')
    BY <2>4, TotalSame
  <2>6. Stored' = Stored
    BY <1>9, <2>5 DEF CreateContainer, Stored
  <2> QED
    BY <1>0, <1>7, <1>9, <2>6 DEF CreateContainer, Goto
<1>10. ASSUME NEW kind \in StartKinds,
              RestoredStart(w, kind) \/ ColdStart(w) \/ BootContainer(w)
       PROVE  Goal
  <2>1. Stored' = Stored
    BY <1>10, StoredUnchanged
    DEF RestoredStart, ColdStart, BootContainer, StartContainer, podmanVars
  <2> QED
    BY <1>0, <1>7, <1>10, <2>1 DEF RestoredStart, ColdStart, BootContainer, Goto
<1>11. ASSUME RunReturns(w) \/ RunTimesOut(w) PROVE Goal
  <2> DEFINE c == cont[w]
             m == Mem[job[w]]
             R == Elements(ram)
  <2>1. /\ pc[w] = "run" /\ pc' = [pc EXCEPT ![w] = "idle"]
        /\ ram' = Append(ram, c)
        /\ cacheOccupied' = cacheOccupied + m
        /\ UNCHANGED <<memory, job, freed, fn, main>>
    BY <1>11 DEF RunReturns, RunTimesOut, Finish, InsertRamItem, Goto
  <2>2. c \in Containers /\ c # NoContainer
    BY <1>0, <2>1, RamCacheAssumption DEF Holding
  <2>3. c \notin R /\ fn[c] = job[w]
    BY <2>2 DEF OwnInv, Sets, MadeFor
  <2>4. SizeOf[c] = m /\ m \in Nat
    BY <2>1, <2>2, <2>3, SizeOfJob
  <2>5. Elements(ram') = R \cup {c}
    BY <1>0, <2>1, <2>2, <2>3, ElementsAppend
  <2>6. IsFiniteSet(R) /\ \A e \in R : SizeOf[e] \in Nat
    BY SumTypes
  <2>7. Total(R \cup {c}, SizeOf) = Total(R, SizeOf) + SizeOf[c]
    BY <2>3, <2>4, <2>6, TotalAdd
  <2>8. SizeOf' = SizeOf
    BY <2>1 DEF SizeOf
  <2>9. Stored' = Stored + m
    BY <2>4, <2>5, <2>7, <2>8, Zenon DEF Stored
  <2>10. /\ Charge[w] = m /\ Charge'[w] = 0
         /\ Unsettled[w] = 0 /\ Unsettled'[w] = 0
    BY <1>0, <2>1 DEF Charge, Unsettled
  <2>11. \A v \in Workers \ {w} : pc'[v] = pc[v] /\ job'[v] = job[v] /\ freed'[v] = freed[v]
    BY <1>0, <2>1
  <2> HIDE DEF m
  <2>12. /\ m \in Int
         /\ memory' = memory - m - (Charge'[w] - Charge[w])
         /\ cacheOccupied' = cacheOccupied + m + (Unsettled'[w] - Unsettled[w])
    BY <1>0, <2>1, <2>4, <2>10
  <2> QED
    BY <2>1, <2>9, <2>11, <2>12, BooksBalance DEF Goal
<1> QED
  BY <1>1, <1>2, <1>4, <1>5, <1>6, <1>8, <1>9, <1>10, <1>11
  DEF WorkerStep, StartKinds

\* The accounts stay balanced in every step of the writer and of main, and
\* the writer leaves only when main has told it to.
LEMMA AccountStep ==
  TypeInv /\ TypeInv' /\ OwnInv /\ AccountInv /\ [Next]_vars => AccountInv'
<1> SUFFICES ASSUME TypeInv, TypeInv', OwnInv, AccountInv, [Next]_vars
             PROVE  AccountInv'
  OBVIOUS
<1>0. /\ Stored \in Nat /\ Charged \in Nat /\ Pending \in Nat
      /\ memory \in Int /\ cacheOccupied \in Int
      /\ main \in {"feeding", "waiting", "draining", "done"}
      /\ memory + Stored + Charged = MaxMemory
      /\ IF main \in {"feeding", "waiting"}
           THEN cacheOccupied = Stored + Pending
           ELSE cacheOccupied = -1
  BY SumTypes
  DEF TypeInv, TypeOK, AccountInv, MemoryAccounting, OccupiedAccounting,
      Stored, Charged, Pending
<1>1. ASSUME NEW w \in Workers,
             (\E f \in Functions : TakeInvocation(w, f)) \/ WorkerStep(w)
      PROVE  AccountInv'
  <2>1. MemoryAccounting' /\ OccupiedAccounting'
    BY <1>1, WorkerBooks DEF AccountInv
  <2>2. UNCHANGED <<wr, main>>
    BY <1>1 DEF WorkerStep, TakeInvocation, WarmStart, Reserve, BeginFreeRam,
                KillVictim, EndFreeRam, FailInvocation, CreateContainer,
                RestoredStart, ColdStart, BootContainer, RunReturns,
                RunTimesOut, Finish, writerVars
  <2> QED
    BY <2>1, <2>2 DEF AccountInv, WriterEnds
<1>2. ASSUME UNCHANGED <<ram, fn, pc, job, freed>>
      PROVE  Stored' = Stored /\ Charged' = Charged /\ Pending' = Pending
  <2>1. Charge' = Charge /\ Unsettled' = Unsettled
    BY <1>2 DEF Charge, Unsettled
  <2> QED
    BY <1>2, <2>1, StoredUnchanged DEF Charged, Pending
<1>3. ASSUME UNCHANGED <<ram, fn, pc, job, freed, memory, cacheOccupied, main>>,
             WriterEnds'
      PROVE  AccountInv'
  BY <1>0, <1>2, <1>3
  DEF AccountInv, MemoryAccounting, OccupiedAccounting, Stored, Charged, Pending
<1>4. ASSUME NEW c \in Containers, LateRunEnds(c) PROVE AccountInv'
  BY <1>3, <1>4 DEF LateRunEnds, workerVars, writerVars, AccountInv, WriterEnds
<1>5. ASSUME WriterPoll PROVE AccountInv'
  <2>1. PICK k \in 1..Len(ram) :
          /\ MovedOut(k)
          /\ ram' = SubSeq(ram, k + 1, Len(ram))
    BY <1>5 DEF WriterPoll
  <2>2. UNCHANGED <<pc, job, freed, fn, main>> /\ cacheOccupied # -1 /\ wr' = "store"
    BY <1>5 DEF WriterPoll, Ended, workerVars, podmanVars
  <2>3. k \in 0..Len(ram)
    OBVIOUS
  <2> DEFINE p == PrefixSize(k)
  <2>4. /\ p \in Nat
        /\ Total(Elements(ram), SizeOf) = p + Total(Elements(ram'), SizeOf)
    BY <2>1, <2>3, PrefixSizeSplits DEF TypeInv, OwnInv, Distinct
  <2>5. SizeOf' = SizeOf
    BY <2>2 DEF SizeOf
  <2>6. Stored = p + Stored'
    BY <2>4, <2>5, Zenon DEF Stored
  <2>7. Charged' = Charged /\ Pending' = Pending
    <3>1. Charge' = Charge /\ Unsettled' = Unsettled
      BY <2>2 DEF Charge, Unsettled
    <3> QED
      BY <3>1 DEF Charged, Pending
  <2>8. memory' = memory + p /\ cacheOccupied' = cacheOccupied - p
    BY <2>1 DEF MovedOut
  <2>9. (TypeInv => Stored \in Nat)'
    BY SumTypes, PTL
  <2>10. main \in {"feeding", "waiting"} /\ cacheOccupied = Stored + Pending
    BY <1>0, <2>2
  <2>11. Stored' \in Nat /\ p \in Nat
    BY <2>4, <2>9
  <2> HIDE DEF p
  <2>12. /\ memory' + Stored' + Charged' = MaxMemory
         /\ cacheOccupied' = Stored' + Pending'
    <3>1. memory + Stored + Charged = MaxMemory
      BY <1>0
    <3>2. memory \in Int /\ Charged \in Int /\ Pending \in Int
      BY SumTypes DEF TypeInv, TypeOK
    <3> QED
      BY <2>6, <2>7, <2>8, <2>10, <2>11, <3>1, <3>2
  <2> QED
    BY <2>2, <2>10, <2>12
    DEF AccountInv, MemoryAccounting, OccupiedAccounting, WriterEnds,
        Stored, Charged, Pending
<1>6. ASSUME WriterStore PROVE AccountInv'
  <2>1. /\ UNCHANGED <<ram, fn, pc, job, freed, memory, cacheOccupied, main>>
        /\ wr' \in {"poll", "store"}
    BY <1>6 DEF WriterStore, KillContainer, workerVars
  <2> QED
    BY <1>3, <2>1 DEF WriterEnds
<1>7. ASSUME WriterExit PROVE AccountInv'
  <2>1. /\ UNCHANGED <<ram, fn, pc, job, freed, memory, cacheOccupied, main>>
        /\ cacheOccupied = -1
    BY <1>7 DEF WriterExit, Ended, workerVars, podmanVars
  <2>2. main \notin {"feeding", "waiting"}
    BY <1>0, <2>1
  <2> QED
    BY <1>0, <1>3, <2>1, <2>2 DEF WriterEnds
<1>8. ASSUME EndOfInput \/ JoinWriter PROVE AccountInv'
  <2>1. /\ UNCHANGED <<ram, fn, pc, job, freed, memory, cacheOccupied, wr>>
        /\ \/ main = "feeding" /\ main' = "waiting"
           \/ main = "draining" /\ main' = "done"
    BY <1>8 DEF EndOfInput, JoinWriter, workerVars, podmanVars, writerVars
  <2> QED
    BY <1>0, <1>2, <2>1
    DEF AccountInv, MemoryAccounting, OccupiedAccounting, WriterEnds,
        Stored, Charged, Pending
<1>9. ASSUME StopWriter PROVE AccountInv'
  <2>1. /\ UNCHANGED <<ram, fn, pc, job, freed, memory, wr>>
        /\ cacheOccupied' = -1 /\ main' = "draining"
    BY <1>9 DEF StopWriter, workerVars, podmanVars, writerVars
  <2> QED
    BY <1>0, <1>2, <2>1
    DEF AccountInv, MemoryAccounting, OccupiedAccounting, WriterEnds,
        Stored, Charged, Pending
<1>10. ASSUME UNCHANGED vars PROVE AccountInv'
  BY <1>3, <1>10
  DEF vars, workerVars, podmanVars, writerVars, AccountInv, WriterEnds
<1> QED
  BY <1>1, <1>4, <1>5, <1>6, <1>7, <1>8, <1>9, <1>10
  DEF Next, WriterStep, MainStep, Terminated

\* The invariant of the accounts holds in every reachable state.
LEMMA AccountsAlways == Spec => [](TypeInv /\ AccountInv)
<1>1. TypeInv /\ TypeInv' /\ OwnInv /\ [Next]_vars => OwnInv'
  BY OwnStep DEF TypeInv
<1> QED
  BY <1>1, OwnInit, TypeCorrect, AccountInit, AccountStep, PTL DEF Spec

\* MemoryAccounting (ram_cache.c:107-117, invocation.c:139, disk_cache.c:414):
\* for any number of workers and any sizes, the free memory, the cached
\* containers and what the workers hold add up to options->memory.
THEOREM MemoryBalances == Spec => []MemoryAccounting
<1>1. TypeInv /\ AccountInv => MemoryAccounting
  BY DEF AccountInv
<1> QED
  BY <1>1, AccountsAlways, PTL

\* OccupiedAccounting: until main writes the sentinel, cache_occupied is the
\* size of the list and of what freeRam has not subtracted yet.
THEOREM OccupiedBalances == Spec => []OccupiedAccounting
<1>1. TypeInv /\ AccountInv => OccupiedAccounting
  BY DEF AccountInv
<1> QED
  BY <1>1, AccountsAlways, PTL

\* WriterStopsLast (disk_cache.c:401, main.c:35): the sentinel -1 is never a
\* result of the accounting, so that the writer outlives every invocation.
THEOREM WriterOutlivesWorkers == Spec => []WriterStopsLast
<1>1. TypeInv /\ AccountInv => WriterStopsLast
  BY DEF AccountInv, WriterEnds, WriterStopsLast, TypeInv, Shape
<1> QED
  BY <1>1, AccountsAlways, PTL

-----------------------------------------------------------------------------
(***************************************************************************)
(* The start statistics                                                    *)
(***************************************************************************)
UndecidedPCs == {"lookup", "evict", "create", "created"}
Started == starts["warm"] + starts["luke"] + starts["remote"]
             + starts["cold"] + starts["failed"]

\* The undecided workers are some of finitely many.
LEMMA UndecidedFinite ==
  IsFiniteSet(Undecided) /\ Cardinality(Undecided) \in Nat
<1>1. IsFiniteSet(Undecided)
  BY FS_Subset, RamCacheAssumption DEF Undecided
<1> QED
  BY <1>1, FS_CardinalityType

\* A worker that is decided before and after, or neither, changes nothing; one
\* that takes an invocation is one more, and one that is decided one less.
LEMMA UndecidedMoves ==
  ASSUME TypeOK, NEW w \in Workers, NEW label, pc' = [pc EXCEPT ![w] = label]
  PROVE  /\ (pc[w] \in UndecidedPCs <=> label \in UndecidedPCs) =>
              Undecided' = Undecided
         /\ pc[w] \notin UndecidedPCs /\ label \in UndecidedPCs =>
              Cardinality(Undecided') = Cardinality(Undecided) + 1
         /\ pc[w] \in UndecidedPCs /\ label \notin UndecidedPCs =>
              Cardinality(Undecided') = Cardinality(Undecided) - 1
<1>1. pc'[w] = label /\ \A v \in Workers \ {w} : pc'[v] = pc[v]
  BY DEF TypeOK
<1>2. ASSUME pc[w] \in UndecidedPCs <=> label \in UndecidedPCs
      PROVE  Undecided' = Undecided
  BY <1>1, <1>2 DEF Undecided, UndecidedPCs
<1>3. ASSUME pc[w] \notin UndecidedPCs, label \in UndecidedPCs
      PROVE  Cardinality(Undecided') = Cardinality(Undecided) + 1
  <2>1. Undecided' = Undecided \cup {w} /\ w \notin Undecided
    BY <1>1, <1>3 DEF Undecided, UndecidedPCs
  <2> QED
    BY <2>1, UndecidedFinite, FS_AddElement
<1>4. ASSUME pc[w] \in UndecidedPCs, label \notin UndecidedPCs
      PROVE  Cardinality(Undecided') = Cardinality(Undecided) - 1
  <2>1. Undecided' = Undecided \ {w} /\ w \in Undecided
    BY <1>1, <1>4 DEF Undecided, UndecidedPCs
  <2> QED
    BY <2>1, UndecidedFinite, FS_RemoveElement
<1> QED
  BY <1>2, <1>3, <1>4

\* One more start of one kind is one more start.
LEMMA OneMoreStart ==
  ASSUME TypeOK, NEW kind \in StartKinds, Count(kind)
  PROVE  Started' = Started + 1
<1>1. /\ \A k \in StartKinds : starts[k] \in Int
      /\ starts'[kind] = starts[kind] + 1
      /\ \A k \in StartKinds \ {kind} : starts'[k] = starts[k]
  BY DEF TypeOK, Count
<1>2. /\ starts["warm"] \in Int /\ starts["luke"] \in Int
      /\ starts["remote"] \in Int /\ starts["cold"] \in Int
      /\ starts["failed"] \in Int
  BY <1>1 DEF StartKinds
<1>3. CASE kind = "warm"
  <2>1. /\ starts'["warm"] = starts["warm"] + 1
        /\ starts'["luke"] = starts["luke"] /\ starts'["remote"] = starts["remote"]
        /\ starts'["cold"] = starts["cold"] /\ starts'["failed"] = starts["failed"]
    BY <1>1, <1>3 DEF StartKinds
  <2> QED
    BY <1>2, <2>1 DEF Started
<1>4. CASE kind = "luke"
  <2>1. /\ starts'["luke"] = starts["luke"] + 1
        /\ starts'["warm"] = starts["warm"] /\ starts'["remote"] = starts["remote"]
        /\ starts'["cold"] = starts["cold"] /\ starts'["failed"] = starts["failed"]
    BY <1>1, <1>4 DEF StartKinds
  <2> QED
    BY <1>2, <2>1 DEF Started
<1>5. CASE kind = "remote"
  <2>1. /\ starts'["remote"] = starts["remote"] + 1
        /\ starts'["warm"] = starts["warm"] /\ starts'["luke"] = starts["luke"]
        /\ starts'["cold"] = starts["cold"] /\ starts'["failed"] = starts["failed"]
    BY <1>1, <1>5 DEF StartKinds
  <2> QED
    BY <1>2, <2>1 DEF Started
<1>6. CASE kind = "cold"
  <2>1. /\ starts'["cold"] = starts["cold"] + 1
        /\ starts'["warm"] = starts["warm"] /\ starts'["luke"] = starts["luke"]
        /\ starts'["remote"] = starts["remote"] /\ starts'["failed"] = starts["failed"]
    BY <1>1, <1>6 DEF StartKinds
  <2> QED
    BY <1>2, <2>1 DEF Started
<1>7. CASE kind = "failed"
  <2>1. /\ starts'["failed"] = starts["failed"] + 1
        /\ starts'["warm"] = starts["warm"] /\ starts'["luke"] = starts["luke"]
        /\ starts'["remote"] = starts["remote"] /\ starts'["cold"] = starts["cold"]
    BY <1>1, <1>7 DEF StartKinds
  <2> QED
    BY <1>2, <2>1 DEF Started
<1> QED
  BY <1>3, <1>4, <1>5, <1>6, <1>7 DEF StartKinds

\* Every step that decides an invocation counts it once.
LEMMA CountedOnceStep == TypeOK /\ CountedOnce /\ [Next]_vars => CountedOnce'
<1> SUFFICES ASSUME TypeOK, CountedOnce, [Next]_vars PROVE CountedOnce'
  OBVIOUS
<1>1. /\ served = Started + Cardinality(Undecided)
      /\ Started \in Int /\ served \in Int /\ Cardinality(Undecided) \in Int
  BY UndecidedFinite DEF CountedOnce, Started, TypeOK, StartKinds
<1>2. ASSUME served' = Started' + Cardinality(Undecided')
      PROVE  CountedOnce'
  BY <1>2 DEF CountedOnce, Started
<1>3. ASSUME NEW w \in Workers, NEW f \in Functions, TakeInvocation(w, f)
      PROVE  CountedOnce'
  <2>1. /\ pc' = [pc EXCEPT ![w] = "lookup"]
        /\ pc[w] \notin UndecidedPCs /\ "lookup" \in UndecidedPCs
        /\ served' = served + 1
        /\ Started' = Started
    BY <1>3 DEF TakeInvocation, Goto, UndecidedPCs, Started
  <2>2. Cardinality(Undecided') = Cardinality(Undecided) + 1
    BY <2>1, UndecidedMoves
  <2> QED
    BY <1>1, <1>2, <2>1, <2>2
<1>4. ASSUME NEW w \in Workers, NEW kind \in StartKinds, NEW label,
             pc[w] \in UndecidedPCs, label \notin UndecidedPCs,
             Goto(w, label), Count(kind), UNCHANGED served
      PROVE  CountedOnce'
  <2>1. Cardinality(Undecided') = Cardinality(Undecided) - 1
    BY <1>4, UndecidedMoves DEF Goto
  <2>2. Started' = Started + 1
    BY <1>4, OneMoreStart
  <2> QED
    BY <1>1, <1>2, <1>4, <2>1, <2>2
<1>5. ASSUME NEW w \in Workers, WarmStart(w) \/ FailInvocation(w) \/ ColdStart(w)
      PROVE  CountedOnce'
  <2>1. /\ pc[w] \in UndecidedPCs /\ UNCHANGED served
        /\ \E label \in {"run", "idle", "boot"} : Goto(w, label)
        /\ \E kind \in StartKinds : Count(kind)
    BY <1>5 DEF WarmStart, FailInvocation, ColdStart, UndecidedPCs, StartKinds
  <2>2. \A label \in {"run", "idle", "boot"} : label \notin UndecidedPCs
    BY DEF UndecidedPCs
  <2> QED
    BY <1>4, <2>1, <2>2
<1>6. ASSUME NEW w \in Workers, NEW kind \in StartKinds, RestoredStart(w, kind)
      PROVE  CountedOnce'
  <2>1. /\ pc[w] \in UndecidedPCs /\ "run" \notin UndecidedPCs
        /\ Goto(w, "run") /\ Count(kind) /\ UNCHANGED served
    BY <1>6 DEF RestoredStart, UndecidedPCs
  <2> QED
    BY <1>4, <2>1
<1>7. ASSUME NEW w \in Workers, NEW label,
             pc[w] \in UndecidedPCs <=> label \in UndecidedPCs,
             Goto(w, label), UNCHANGED <<starts, served>>
      PROVE  CountedOnce'
  <2>1. Undecided' = Undecided
    BY <1>7, UndecidedMoves DEF Goto
  <2>2. Started' = Started
    BY <1>7 DEF Started
  <2> QED
    BY <1>1, <1>2, <1>7, <2>1, <2>2
<1>8. ASSUME NEW w \in Workers,
             Reserve(w) \/ BeginFreeRam(w) \/ EndFreeRam(w) \/ CreateContainer(w)
      PROVE  CountedOnce'
  <2>1. /\ pc[w] \in UndecidedPCs /\ UNCHANGED <<starts, served>>
        /\ \E label \in UndecidedPCs : Goto(w, label)
    BY <1>8 DEF Reserve, BeginFreeRam, EndFreeRam, CreateContainer, UndecidedPCs
  <2> QED
    BY <1>7, <2>1
<1>9. ASSUME NEW w \in Workers, BootContainer(w) \/ RunReturns(w) \/ RunTimesOut(w)
      PROVE  CountedOnce'
  <2>1. /\ pc[w] \notin UndecidedPCs /\ UNCHANGED <<starts, served>>
        /\ \E label \in {"run", "idle"} : Goto(w, label)
    BY <1>9
    DEF BootContainer, RunReturns, RunTimesOut, Finish, UndecidedPCs
  <2>2. \A label \in {"run", "idle"} : label \notin UndecidedPCs
    BY DEF UndecidedPCs
  <2> QED
    BY <1>7, <2>1, <2>2
<1>10. CASE UNCHANGED <<pc, starts, served>>
  BY <1>10 DEF CountedOnce, Undecided
<1>11. ASSUME NEW w \in Workers, KillVictim(w)
       PROVE  CountedOnce'
  BY <1>10, <1>11 DEF KillVictim
<1>12. ASSUME NEW c \in Containers, LateRunEnds(c)
       PROVE  CountedOnce'
  BY <1>10, <1>12 DEF LateRunEnds, workerVars
<1>13. CASE WriterStep
  BY <1>10, <1>13 DEF WriterStep, WriterPoll, WriterStore, WriterExit, workerVars
<1>14. CASE MainStep
  BY <1>10, <1>14 DEF MainStep, EndOfInput, StopWriter, JoinWriter, workerVars
<1>15. CASE UNCHANGED vars
  BY <1>10, <1>15 DEF vars, workerVars
<1> QED
  BY <1>3, <1>5, <1>6, <1>8, <1>9, <1>11, <1>12, <1>13, <1>14, <1>15
  DEF Next, WorkerStep, Terminated

\* CountedOnce (invocation.c:94, 131, 236, 246, 263): every invocation is in
\* exactly one of the start statistics, or not decided yet.
THEOREM StartsAreExact == Spec => []CountedOnce
<1>1. Init => CountedOnce
  <2> SUFFICES ASSUME Init PROVE CountedOnce
    OBVIOUS
  <2>1. Undecided = {}
    BY DEF Init, Undecided
  <2> QED
    BY <2>1, FS_EmptySet DEF Init, CountedOnce, StartKinds
<1>2. TypeInv /\ CountedOnce /\ [Next]_vars => CountedOnce'
  BY CountedOnceStep DEF TypeInv
<1> QED
  BY <1>1, <1>2, TypeCorrect, PTL DEF Spec
=============================================================================
