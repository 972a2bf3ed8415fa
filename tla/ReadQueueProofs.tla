--------------------------- MODULE ReadQueueProofs ---------------------------
(***************************************************************************)
(* The queues of checkpoint reads, for any number of workers, functions    *)
(* and requests, any times and any limit: every waiter is owed one answer, *)
(* the reader never touches a stack frame that is gone, the inverted lock  *)
(* order closes no cycle, no wake-up is lost, the accounts of the time     *)
(* balance and the quit destroys no request.                               *)
(***************************************************************************)
EXTENDS ReadQueue, SumsProofs, TLAPS

\* The two halves of TypeOK: the control, and the lists and numbers.
Control ==
  /\ pc \in [Workers -> WorkerPCs]
  /\ target \in [Workers -> Queues]
  /\ wanted \in [Workers -> Functions \cup {NoFunction}]
  /\ flag \in [Workers -> -1..1]
  /\ frame \in [Workers -> BOOLEAN]
  /\ woken \in [Workers -> BOOLEAN]
  /\ reader \in [Queues -> ReaderPCs]
  /\ current \in [Queues -> Workers \cup {NoWorker}]
  /\ alerted \in [Queues -> BOOLEAN]
  /\ quit \in [Queues -> BOOLEAN]
  /\ main \in {"running", "joining disk", "joining net", "done"}

Lists ==
  /\ queue \in [Queues -> Seq(Workers)]
  /\ \A q \in Queues : Len(queue[q]) <= QueueLimit
  /\ timeToRead \in [Queues -> Int]
  /\ requests \in 0..MaxRequests

\* What goes with the program counters: a frame, a function and an answer.
Shape ==
  /\ \A w \in Workers :
       /\ frame[w] <=> pc[w] # "idle"
       /\ pc[w] # "idle" => wanted[w] \in Functions
       /\ flag[w] # 0 => pc[w] \in {"check", "asleep"}
  /\ \A q \in Queues :
       reader[q] \in {"read", "settle", "signal"} => current[q] \in Workers

\* The worker whose cond_lock a reader holds has its answer and has not left.
Held ==
  \A q \in Queues :
    reader[q] \in {"settle", "signal"} =>
      /\ target[current[q]] = q
      /\ pc[current[q]] \in {"check", "asleep"}
      /\ flag[current[q]] # 0

\* The quits are sent one after the other, when no worker is left.
Closing ==
  /\ main # "running" => \A w \in Workers : pc[w] = "idle"
  /\ quit["disk"] <=> main # "running"
  /\ quit["net"] <=> main \in {"joining net", "done"}

Inv == Control /\ Lists /\ Shape /\ Held /\ NoDanglingFrame /\ OneAnswerOwed /\ Closing

-----------------------------------------------------------------------------
\* A worker that does not wait for an answer is in no queue and with no reader.
LEMMA NotWaiting ==
  ASSUME Inv, NEW w \in Workers, ~Waiting(w)
  PROVE  \A q \in Queues : ~Queued(q, w) /\ ~Reading(q, w)
BY DEF Inv, OneAnswerOwed, NoDanglingFrame, Busy, Reading

\* One with no frame is not in the hands of a reader either.
LEMMA NotBusy ==
  ASSUME Inv, NEW w \in Workers, pc[w] \notin {"check", "asleep"}
  PROVE  /\ \A q \in Queues : ~Queued(q, w)
         /\ \A q \in Queues : ~Busy(q, w)
BY NotWaiting DEF Inv, Held, Busy, Waiting, Reading

\* Once the workers are idle the queues are empty.
LEMMA NobodyQueued ==
  ASSUME Inv, \A w \in Workers : pc[w] = "idle", NEW q \in Queues
  PROVE  queue[q] = <<>>
<1>1. queue[q] \in Seq(Workers)
  BY DEF Inv, Lists
<1>2. \A w \in Workers : w \notin Elements(queue[q])
  BY NotBusy DEF Queued
<1>3. CASE queue[q] # <<>>
  <2>1. Head(queue[q]) \in Elements(queue[q])
    BY <1>1, <1>3, ElementsTail DEF Inv, OneAnswerOwed
  <2> QED
    BY <1>1, <1>2, <2>1, ElementsType
<1> QED
  BY <1>3

\* A rejected read meets no reader: RejectNeverBlocks.
LEMMA RejectIsFree == Inv => RejectNeverBlocks
BY DEF Inv, Held, RejectNeverBlocks, CondLocked, Control, Shape

\* What a read takes, by the speed of its queue.
LEMMA CostIsNat ==
  ASSUME Control, NEW w \in Workers
  PROVE  CostOf(w) \in Nat
<1>1. target[w] \in Queues /\ wanted[w] \in Functions \cup {NoFunction}
  BY DEF Control
<1>2. Cost[target[w]] \in [Functions -> Nat]
  BY <1>1, ReadQueueAssumption
<1> QED
  BY <1>1, <1>2 DEF CostOf

-----------------------------------------------------------------------------
\* The empty queues of initDisk and initNetCache.
LEMMA InvInit == Init => Inv
<1> SUFFICES ASSUME Init PROVE Inv
  OBVIOUS
<1>1. Elements(<<>>) = {} /\ ~Repeats(<<>>)
  BY ElementsEmpty DEF Repeats
<1>2. \A q \in Queues : queue[q] = <<>> /\ queue[q] \in Seq(Workers)
                          /\ Len(queue[q]) = 0
  BY DEF Init
<1>3. Control /\ Lists
  BY <1>2, ReadQueueAssumption
  DEF Init, Control, Lists, WorkerPCs, ReaderPCs, Queues
<1>4. Shape /\ Held /\ Closing
  BY DEF Init, Shape, Held, Closing, Queues
<1>5. NoDanglingFrame /\ OneAnswerOwed
  BY <1>1, <1>2 DEF Init, NoDanglingFrame, OneAnswerOwed, Queued, Busy, Reading,
                    Waiting, Queues
<1> QED
  BY <1>3, <1>4, <1>5 DEF Inv

\* A worker that is not waited upon by a reader may change its own variables.
LEMMA AskStep ==
  ASSUME Inv, NEW w \in Workers, NEW q \in Queues, NEW f \in Functions,
         Ask(w, q, f)
  PROVE  Inv'
<1>1. /\ \A p \in Queues : ~Queued(p, w)
      /\ \A p \in Queues : ~Busy(p, w)
  BY NotBusy DEF Ask
<1> USE DEF Ask, Goto, readerVars, Inv, Control
<1>2. Control'
  BY DEF WorkerPCs
<1>3. Lists'
  BY ReadQueueAssumption DEF Lists
<1>4. Shape' /\ Held' /\ Closing'
  BY <1>1 DEF Shape, Held, Closing, Busy
<1>5. NoDanglingFrame'
  BY <1>1 DEF NoDanglingFrame, Busy, Queued
<1>6. OneAnswerOwed'
  BY <1>1 DEF Shape, OneAnswerOwed, Busy, Queued, Waiting, Reading
<1> QED
  BY <1>2, <1>3, <1>4, <1>5, <1>6

\* An accepted read is in its queue, once, and its worker waits.
LEMMA AcceptStep ==
  ASSUME Inv, NEW w \in Workers, NEW q \in Queues, Accept(w, q)
  PROVE  Inv'
<1>1. /\ \A p \in Queues : ~Queued(p, w)
      /\ \A p \in Queues : ~Busy(p, w)
  BY NotBusy DEF Accept
<1>2. queue \in [Queues -> Seq(Workers)] /\ ~Repeats(queue[q])
  BY DEF Inv, Lists, OneAnswerOwed
<1>3. /\ queue'[q] = Append(queue[q], w)
      /\ \A p \in Queues \ {q} : queue'[p] = queue[p]
  BY <1>2 DEF Accept
<1>4. /\ queue'[q] \in Seq(Workers)
      /\ Elements(queue'[q]) = Elements(queue[q]) \cup {w}
      /\ ~Repeats(queue'[q])
  BY <1>1, <1>2, <1>3, ElementsAppend DEF Queued
<1>5. \A p \in Queues, x \in Workers :
        Queued(p, x)' <=> Queued(p, x) \/ (p = target[w] /\ x = w)
  BY <1>3, <1>4 DEF Accept, Queued
<1>6. /\ pc' = [pc EXCEPT ![w] = "check"]
      /\ UNCHANGED <<target, wanted, flag, frame, woken, requests, reader,
                     current, quit, main>>
  BY DEF Accept, Goto
<1>7. frame[w] /\ wanted[w] \in Functions /\ flag[w] = 0 /\ main = "running"
  BY DEF Accept, Inv, Control, Shape, Closing
<1>8. Control'
  <2>1. alerted' \in [Queues -> BOOLEAN]
    BY DEF Accept, Inv, Control
  <2> QED
    BY <1>6, <2>1 DEF Inv, Control, WorkerPCs
<1>9. Lists'
  <2>1. CostOf(w) \in Nat /\ timeToRead \in [Queues -> Int]
    BY CostIsNat DEF Inv, Lists
  <2>2. timeToRead' \in [Queues -> Int]
    BY <2>1 DEF Accept
  <2>3. Len(queue'[q]) <= QueueLimit
    BY <1>2, <1>3, ReadQueueAssumption DEF Accept, Full
  <2>4. queue' \in [Queues -> Seq(Workers)]
    BY <1>2, <1>4 DEF Accept
  <2> QED
    BY <1>3, <1>6, <2>2, <2>3, <2>4 DEF Inv, Lists
<1> USE DEF Inv, Control
<1>10. Shape' /\ Held' /\ Closing'
  BY <1>1, <1>6, <1>7 DEF Shape, Held, Closing, Busy
<1>11. NoDanglingFrame'
  BY <1>1, <1>5, <1>6, <1>7 DEF NoDanglingFrame, Busy
<1>12. OneAnswerOwed'
  <2>1. \A p \in Queues : ~Repeats(queue'[p])
    BY <1>3, <1>4 DEF OneAnswerOwed
  <2>2. ASSUME NEW x \in Workers
        PROVE  LET p == target[x] IN
               /\ Waiting(x)' <=> Queued(p, x)' \/ Reading(p, x)'
               /\ ~(Queued(p, x)' /\ Busy(p, x)')
    BY <1>1, <1>5, <1>6, <1>7 DEF OneAnswerOwed, Waiting, Reading, Busy
  <2> QED
    BY <1>6, <2>1, <2>2 DEF OneAnswerOwed
<1> QED
  BY <1>8, <1>9, <1>10, <1>11, <1>12

\* A refused read is not queued; its worker holds read_lock.
LEMMA RefuseStep ==
  ASSUME Inv, NEW w \in Workers, NEW q \in Queues, Refuse(w, q)
  PROVE  Inv'
<1>1. /\ \A p \in Queues : ~Queued(p, w)
      /\ \A p \in Queues : ~Busy(p, w)
  BY NotBusy DEF Refuse
<1>2. /\ pc' = [pc EXCEPT ![w] = "reject"]
      /\ UNCHANGED <<target, wanted, flag, frame, woken, requests, queue,
                     timeToRead, reader, current, alerted, quit, main>>
  BY DEF Refuse, Goto, readerVars
<1>3. frame[w] /\ wanted[w] \in Functions /\ flag[w] = 0 /\ main = "running"
  BY DEF Refuse, Inv, Control, Shape, Closing
<1> USE DEF Inv, Control
<1>4. Control' /\ Lists'
  BY <1>2 DEF WorkerPCs, Lists
<1>5. Shape' /\ Held' /\ Closing'
  BY <1>1, <1>2, <1>3 DEF Shape, Held, Closing, Busy
<1>6. NoDanglingFrame'
  BY <1>2 DEF NoDanglingFrame, Busy, Queued
<1>7. OneAnswerOwed'
  BY <1>1, <1>2, <1>3 DEF OneAnswerOwed, Busy, Queued, Waiting, Reading
<1> QED
  BY <1>4, <1>5, <1>6, <1>7

\* ... and the answer -1 takes it out of those that wait.
LEMMA RejectReadStep ==
  ASSUME Inv, NEW w \in Workers, RejectRead(w)
  PROVE  Inv'
<1>1. /\ \A p \in Queues : ~Queued(p, w)
      /\ \A p \in Queues : ~Busy(p, w)
  BY NotBusy DEF RejectRead
<1>2. /\ pc' = [pc EXCEPT ![w] = "check"]
      /\ UNCHANGED <<target, wanted, frame, woken, requests, queue,
                     timeToRead, reader, current, alerted, quit, main>>
  BY DEF RejectRead, Goto, readerVars
<1>3. /\ flag' \in [Workers -> -1..1]
      /\ flag'[w] # 0
      /\ \A x \in Workers \ {w} : flag'[x] = flag[x]
  <2>1. flag \in [Workers -> -1..1] /\ flag' = [flag EXCEPT ![w] = -1]
    BY DEF RejectRead, Inv, Control
  <2> QED
    BY <2>1
<1>4. frame[w] /\ wanted[w] \in Functions /\ main = "running"
  BY DEF RejectRead, Inv, Control, Shape, Closing
<1> USE DEF Inv, Control
<1>5. Control' /\ Lists'
  BY <1>2, <1>3 DEF WorkerPCs, Lists
<1>6. Shape' /\ Held' /\ Closing'
  BY <1>1, <1>2, <1>3, <1>4 DEF Shape, Held, Closing, Busy
<1>7. NoDanglingFrame'
  BY <1>2 DEF NoDanglingFrame, Busy, Queued
<1>8. OneAnswerOwed'
  <2>1. \A p \in Queues, x \in Workers :
        /\ Queued(p, x)' <=> Queued(p, x)
        /\ Busy(p, x)' <=> Busy(p, x)
        /\ Reading(p, x)' <=> Reading(p, x)
    BY <1>2 DEF Queued, Busy, Reading
  <2>2. \A p \in Queues : ~Reading(p, w)
    BY <1>1 DEF Busy, Reading
  <2> QED
    BY <1>1, <1>2, <1>3, <2>1, <2>2 DEF OneAnswerOwed, Waiting
<1> QED
  BY <1>5, <1>6, <1>7, <1>8

\* Going to sleep and waking change nothing a reader looks at.
LEMMA SleepStep ==
  ASSUME Inv, NEW w \in Workers, Sleep(w) \/ Wake(w)
  PROVE  Inv'
<1>1. /\ pc' \in [Workers -> WorkerPCs]
      /\ \A x \in Workers : \/ pc'[x] = pc[x]
                            \/ {pc[x], pc'[x]} \subseteq {"check", "asleep"}
      /\ woken' \in [Workers -> BOOLEAN]
      /\ UNCHANGED <<target, wanted, flag, frame, requests, queue,
                     timeToRead, reader, current, alerted, quit, main>>
  BY DEF Sleep, Wake, Goto, readerVars, Inv, Control, WorkerPCs
<1> USE DEF Inv, Control
<1>2. Control' /\ Lists'
  BY <1>1 DEF Lists
<1>3. Shape' /\ Held' /\ Closing'
  BY <1>1 DEF Shape, Held, Closing
<1>4. NoDanglingFrame'
  BY <1>1 DEF NoDanglingFrame, Busy, Queued
<1>5. OneAnswerOwed'
  BY <1>1 DEF OneAnswerOwed, Busy, Queued, Waiting, Reading
<1> QED
  BY <1>2, <1>3, <1>4, <1>5

\* Who leaves has his answer, and no reader holds his lock.
LEMMA LeaveStep ==
  ASSUME Inv, NEW w \in Workers, Leave(w)
  PROVE  Inv'
<1>1. /\ \A p \in Queues : ~Queued(p, w)
      /\ \A p \in Queues : ~Busy(p, w)
  BY NotWaiting DEF Leave, Waiting, CondLocked, Busy, Reading
<1>2. /\ pc' \in [Workers -> WorkerPCs] /\ pc'[w] = "idle"
      /\ flag' \in [Workers -> -1..1] /\ flag'[w] = 0
      /\ frame' \in [Workers -> BOOLEAN] /\ ~frame'[w]
      /\ woken' \in [Workers -> BOOLEAN]
      /\ wanted' \in [Workers -> Functions \cup {NoFunction}]
  <2>1. /\ pc' = [pc EXCEPT ![w] = "idle"]
        /\ flag' = [flag EXCEPT ![w] = 0]
        /\ frame' = [frame EXCEPT ![w] = FALSE]
        /\ woken' = [woken EXCEPT ![w] = FALSE]
        /\ wanted' = [wanted EXCEPT ![w] = NoFunction]
    BY DEF Leave, Goto
  <2>2. Control /\ "idle" \in WorkerPCs /\ 0 \in -1..1
    BY DEF Inv, WorkerPCs
  <2>3. frame' \in [Workers -> BOOLEAN] /\ ~frame'[w]
    BY <2>1, <2>2 DEF Control
  <2>4. woken' \in [Workers -> BOOLEAN]
    BY <2>1, <2>2 DEF Control
  <2> QED
    BY <2>1, <2>2, <2>3, <2>4 DEF Control
<1>3. /\ \A x \in Workers \ {w} : /\ pc'[x] = pc[x] /\ flag'[x] = flag[x]
                                 /\ frame'[x] = frame[x]
                                 /\ wanted'[x] = wanted[x]
      /\ UNCHANGED <<target, requests, queue, timeToRead, reader, current,
                     alerted, quit, main>>
  BY DEF Leave, Goto, readerVars, Inv, Control
<1> USE DEF Inv, Control
<1>4. Control' /\ Lists'
  BY <1>2, <1>3 DEF Lists
<1>5. Shape' /\ Held' /\ Closing'
  <2>1. Shape'
    BY <1>2, <1>3 DEF Shape
  <2>2. Held'
    <3>1. \A p \in Queues : reader[p] \in {"settle", "signal"} =>
                               current[p] \in Workers \ {w}
      BY <1>1 DEF Shape, Busy
    <3>2. /\ UNCHANGED <<reader, current, target>>
          /\ \A x \in Workers \ {w} : pc'[x] = pc[x] /\ flag'[x] = flag[x]
      BY <1>3
    <3>3. Held
      OBVIOUS
    <3> HIDE DEF Inv, Control
    <3> QED
      BY <3>1, <3>2, <3>3 DEF Held
  <2>3. Closing'
    BY <1>2, <1>3 DEF Closing
  <2> QED
    BY <2>1, <2>2, <2>3
<1>6. \A p \in Queues, x \in Workers :
        /\ Queued(p, x)' <=> Queued(p, x)
        /\ Busy(p, x)' <=> Busy(p, x)
        /\ Reading(p, x)' <=> Reading(p, x)
  BY <1>3 DEF Queued, Busy, Reading
<1>7. NoDanglingFrame'
  <2>1. ASSUME NEW p \in Queues, NEW x \in Workers, Queued(p, x)' \/ Busy(p, x)'
        PROVE  frame'[x] /\ target'[x] = p
    <3>1. x # w
      BY <1>1, <1>6, <2>1
    <3> QED
      BY <1>3, <1>6, <2>1, <3>1 DEF NoDanglingFrame
  <2> QED
    BY <2>1 DEF NoDanglingFrame
<1>8. OneAnswerOwed'
  <2>1. \A p \in Queues : ~Reading(p, w)
    BY <1>1 DEF Busy, Reading
  <2>2. UNCHANGED <<queue, target>> /\ target \in [Workers -> Queues] /\ OneAnswerOwed
    BY <1>3
  <2>3. ~Waiting(w)' /\ \A x \in Workers \ {w} : Waiting(x)' <=> Waiting(x)
    BY <1>2, <1>3 DEF Waiting
  <2> HIDE DEF Inv, Control
  <2> QED
    BY <1>1, <1>6, <2>1, <2>2, <2>3 DEF OneAnswerOwed
<1> QED
  BY <1>4, <1>5, <1>7, <1>8

-----------------------------------------------------------------------------
\* A reader between two reads has nobody in hand.
LEMMA ReaderRestsStep ==
  ASSUME Inv, NEW q \in Queues, ReaderSleep(q) \/ ReaderWake(q) \/ ReaderQuit(q)
  PROVE  Inv'
<1>1. /\ reader' \in [Queues -> ReaderPCs]
      /\ \A p \in Queues :
           \/ reader'[p] = reader[p]
           \/ /\ reader[p] \notin {"read", "settle", "signal"}
              /\ reader'[p] \notin {"read", "settle", "signal"}
      /\ alerted' \in [Queues -> BOOLEAN]
      /\ UNCHANGED <<pc, target, wanted, flag, frame, woken, requests, queue,
                     timeToRead, current, quit, main>>
  BY DEF ReaderSleep, ReaderWake, ReaderQuit, ReaderGoto, workerVars, Inv,
         Control, ReaderPCs
<1> USE DEF Inv, Control
<1>2. Control' /\ Lists'
  BY <1>1 DEF Lists
<1>3. Shape' /\ Held' /\ Closing'
  BY <1>1 DEF Shape, Held, Closing
<1>4. NoDanglingFrame'
  BY <1>1 DEF NoDanglingFrame, Busy, Queued
<1>5. OneAnswerOwed'
  <2>1. \A p \in Queues, x \in Workers :
        /\ Queued(p, x)' <=> Queued(p, x)
        /\ Busy(p, x)' <=> Busy(p, x)
        /\ Reading(p, x)' <=> Reading(p, x)
    BY <1>1 DEF Queued, Busy, Reading
  <2> QED
    BY <1>1, <2>1 DEF OneAnswerOwed, Waiting
<1> QED
  BY <1>2, <1>3, <1>4, <1>5

\* The invocation at the head of the queue goes to the reader.
LEMMA ExtractStep ==
  ASSUME Inv, NEW q \in Queues, Extract(q)
  PROVE  Inv'
<1> DEFINE h == Head(queue[q])
<1>1. queue \in [Queues -> Seq(Workers)] /\ ~Repeats(queue[q]) /\ queue[q] # <<>>
  BY DEF Extract, Inv, Lists, OneAnswerOwed
<1>2. /\ h \in Elements(queue[q]) /\ h \in Workers
      /\ Tail(queue[q]) \in Seq(Workers)
      /\ Len(Tail(queue[q])) = Len(queue[q]) - 1
      /\ ~Repeats(Tail(queue[q]))
      /\ Elements(Tail(queue[q])) = Elements(queue[q]) \ {h}
  BY <1>1, ElementsTail, ElementsType
<1>3. /\ queue' = [queue EXCEPT ![q] = Tail(queue[q])]
      /\ current' = [current EXCEPT ![q] = h]
      /\ reader' = [reader EXCEPT ![q] = "read"]
      /\ UNCHANGED <<pc, target, wanted, flag, frame, woken, requests,
                     timeToRead, alerted, quit, main>>
  BY DEF Extract, ReaderGoto, workerVars
<1>4. \A p \in Queues, x \in Workers :
        Queued(p, x)' <=> Queued(p, x) /\ ~(p = q /\ x = h)
  BY <1>1, <1>2, <1>3 DEF Queued
<1>5. \A x \in Workers : ~Busy(q, x)
  BY DEF Extract, Busy
<1>6. Queued(q, h)
  BY <1>2 DEF Queued
<1>7. \A p \in Queues, x \in Workers :
        /\ Busy(p, x)' <=> Busy(p, x) \/ (p = q /\ x = h)
        /\ Reading(p, x)' <=> Reading(p, x) \/ (p = q /\ x = h)
  BY <1>3, <1>5 DEF Busy, Reading, Inv, Control
<1> HIDE DEF h
<1>8. Control'
  BY <1>2, <1>3 DEF Inv, Control, ReaderPCs
<1>9. Lists'
  <2>1. \A p \in Queues : Len(queue'[p]) <= QueueLimit
    BY <1>1, <1>2, <1>3, ReadQueueAssumption DEF Inv, Lists
  <2> QED
    BY <1>1, <1>2, <1>3, <2>1 DEF Inv, Lists
<1> USE DEF Inv, Control
<1>10. Shape' /\ Held' /\ Closing'
  <2>1. Shape'
    BY <1>2, <1>3 DEF Shape
  <2>2. Held'
    BY <1>3 DEF Held
  <2>3. Closing'
    BY <1>3 DEF Closing
  <2> QED
    BY <2>1, <2>2, <2>3
<1>11. NoDanglingFrame'
  <2>1. UNCHANGED <<frame, target>> /\ NoDanglingFrame
    BY <1>3
  <2> HIDE DEF Inv, Control
  <2> QED
    BY <1>4, <1>6, <1>7, <2>1 DEF NoDanglingFrame
<1>12. OneAnswerOwed'
  <2>1. \A p \in Queues : ~Repeats(queue'[p])
    BY <1>1, <1>2, <1>3 DEF OneAnswerOwed
  <2>2. ASSUME NEW x \in Workers
        PROVE  LET p == target[x] IN
               /\ Waiting(x)' <=> Queued(p, x)' \/ Reading(p, x)'
               /\ ~(Queued(p, x)' /\ Busy(p, x)')
    <3>1. Waiting(x)' <=> Waiting(x)
      BY <1>3 DEF Waiting
    <3>2. OneAnswerOwed /\ NoDanglingFrame /\ target[x] \in Queues
      OBVIOUS
    <3> HIDE DEF Inv, Control
    <3>3. /\ Waiting(x) <=> Queued(target[x], x) \/ Reading(target[x], x)
          /\ ~(Queued(target[x], x) /\ Busy(target[x], x))
          /\ x = h => target[x] = q
      BY <1>2, <1>6, <3>2 DEF OneAnswerOwed, NoDanglingFrame
    <3>4. /\ Queued(target[x], x)' <=> Queued(target[x], x) /\ ~(target[x] = q /\ x = h)
          /\ Busy(target[x], x)' <=> Busy(target[x], x) \/ (target[x] = q /\ x = h)
          /\ Reading(target[x], x)' <=> Reading(target[x], x) \/ (target[x] = q /\ x = h)
      BY <1>3, <1>4, <1>7, <3>2
    <3> QED
      BY <1>3, <1>6, <3>1, <3>3, <3>4
  <2> QED
    BY <1>3, <2>1, <2>2 DEF OneAnswerOwed
<1> QED
  BY <1>8, <1>9, <1>10, <1>11, <1>12

\* The answer ends the wait, and the reader keeps the lock of the worker.
LEMMA AnswerStep ==
  ASSUME Inv, NEW q \in Queues, NEW found \in BOOLEAN, Answer(q, found)
  PROVE  Inv'
<1>1. PICK w \in Workers : current[q] = w /\ Reading(q, w) /\ Busy(q, w)
  BY DEF Answer, Inv, Shape, Reading, Busy
<1>2. target[w] = q /\ Waiting(w)
  BY <1>1 DEF Inv, NoDanglingFrame, OneAnswerOwed
<1>3. /\ flag' \in [Workers -> -1..1]
      /\ flag'[w] # 0
      /\ \A x \in Workers \ {w} : flag'[x] = flag[x]
  <2>1. /\ flag \in [Workers -> -1..1]
        /\ flag' = [flag EXCEPT ![w] = IF found THEN 1 ELSE -1]
    BY <1>1 DEF Answer, Inv, Control
  <2> QED
    BY <1>1, <2>1
<1>4. /\ reader' \in [Queues -> ReaderPCs]
      /\ reader[q] = "read" /\ reader'[q] = "settle"
      /\ \A p \in Queues \ {q} : reader'[p] = reader[p]
      /\ UNCHANGED <<pc, target, wanted, frame, woken, requests, queue,
                     timeToRead, current, alerted, quit, main>>
  BY DEF Answer, ReaderGoto, Inv, Control, ReaderPCs
<1>5. \A p \in Queues : current[p] = w /\ reader[p] \in {"read", "settle", "signal"}
                         => p = q
  BY <1>1, <1>2 DEF Busy, Inv, NoDanglingFrame
<1>6. \A p \in Queues, x \in Workers :
        /\ Queued(p, x)' <=> Queued(p, x)
        /\ Busy(p, x)' <=> Busy(p, x)
        /\ Reading(p, x)' <=> Reading(p, x) /\ x # w
  BY <1>1, <1>4, <1>5 DEF Queued, Busy, Reading
<1>7. Control' /\ Lists'
  BY <1>3, <1>4 DEF Inv, Control, Lists
<1>8. Shape' /\ Closing'
  <2>1. pc[w] \in {"check", "asleep"}
    BY <1>2 DEF Waiting
  <2>2. \A x \in Workers : flag'[x] # 0 => pc'[x] \in {"check", "asleep"}
    BY <1>3, <1>4, <2>1 DEF Inv, Shape
  <2>3. \A p \in Queues : reader'[p] \in {"read", "settle", "signal"} =>
                             current'[p] \in Workers
    BY <1>1, <1>4 DEF Inv, Shape
  <2> QED
    BY <1>4, <2>2, <2>3 DEF Inv, Shape, Closing
<1>9. Held'
  <2>1. ASSUME NEW p \in Queues, reader'[p] \in {"settle", "signal"}, p # q
        PROVE  /\ current[p] \in Workers \ {w}
               /\ reader[p] \in {"settle", "signal"}
    BY <1>4, <1>5, <2>1 DEF Inv, Shape
  <2>2. ASSUME NEW p \in Queues, reader'[p] \in {"settle", "signal"}
        PROVE  /\ target[current[p]] = p
               /\ pc[current[p]] \in {"check", "asleep"}
               /\ flag'[current[p]] # 0
    <3>1. CASE p = q
      BY <1>1, <1>2, <1>3, <3>1 DEF Waiting
    <3>2. CASE p # q
      BY <1>3, <2>1, <2>2, <3>2 DEF Inv, Held
    <3> QED
      BY <3>1, <3>2
  <2> QED
    BY <1>4, <2>2 DEF Held
<1>10. NoDanglingFrame'
  BY <1>4, <1>6 DEF Inv, NoDanglingFrame
<1>11. OneAnswerOwed'
  <2>1. \A p \in Queues : ~Repeats(queue'[p])
    BY <1>4 DEF Inv, OneAnswerOwed
  <2>2. ~Queued(q, w)
    BY <1>1, <1>2 DEF Inv, OneAnswerOwed
  <2>3. ASSUME NEW x \in Workers
        PROVE  LET p == target[x] IN
               /\ Waiting(x)' <=> Queued(p, x)' \/ Reading(p, x)'
               /\ ~(Queued(p, x)' /\ Busy(p, x)')
    <3>1. target[x] \in Queues
      BY DEF Inv, Control
    <3>2. CASE x = w
      <4>1. ~Waiting(x)'
        BY <1>3, <3>2 DEF Waiting
      <4>2. \A p \in Queues : ~Reading(p, x)' /\ (p = q => ~Queued(p, x)')
        BY <1>6, <2>2, <3>2
      <4>3. target'[x] = q
        BY <1>2, <1>4, <3>2
      <4> QED
        BY <4>1, <4>2, <4>3
    <3>3. CASE x # w
      BY <1>3, <1>4, <1>6, <3>1, <3>3 DEF Inv, OneAnswerOwed, Waiting
    <3> QED
      BY <3>2, <3>3
  <2> QED
    BY <1>4, <2>1, <2>3 DEF OneAnswerOwed
<1> QED
  BY <1>7, <1>8, <1>9, <1>10, <1>11 DEF Inv

\* The time is given back while the reader has the worker in hand.
LEMMA SettleStep ==
  ASSUME Inv, NEW q \in Queues, Settle(q)
  PROVE  Inv'
<1>1. /\ reader' \in [Queues -> ReaderPCs]
      /\ reader[q] = "settle" /\ reader'[q] = "signal"
      /\ \A p \in Queues \ {q} : reader'[p] = reader[p]
      /\ UNCHANGED <<pc, target, wanted, flag, frame, woken, requests, queue,
                     current, alerted, quit, main>>
  BY DEF Settle, ReaderGoto, workerVars, Inv, Control, ReaderPCs
<1>2. timeToRead' \in [Queues -> Int]
  <2>1. current[q] \in Workers
    BY <1>1 DEF Inv, Shape
  <2>2. CostOf(current[q]) \in Nat /\ timeToRead \in [Queues -> Int]
    BY <2>1, CostIsNat DEF Inv, Lists
  <2> QED
    BY <2>2 DEF Settle
<1>3. \A p \in Queues, x \in Workers :
        /\ Queued(p, x)' <=> Queued(p, x)
        /\ Busy(p, x)' <=> Busy(p, x)
        /\ Reading(p, x)' <=> Reading(p, x)
  BY <1>1 DEF Queued, Busy, Reading
<1>4. Control' /\ Lists'
  BY <1>1, <1>2 DEF Inv, Control, Lists
<1>5. Shape' /\ Closing'
  BY <1>1 DEF Inv, Shape, Closing
<1>6. Held'
  <2>1. \A p \in Queues : reader'[p] \in {"settle", "signal"}
                           => reader[p] \in {"settle", "signal"}
    BY <1>1
  <2> QED
    BY <1>1, <2>1 DEF Inv, Held
<1>7. NoDanglingFrame'
  BY <1>1, <1>3 DEF Inv, NoDanglingFrame
<1>8. OneAnswerOwed'
  BY <1>1, <1>3 DEF Inv, Control, OneAnswerOwed, Waiting
<1> QED
  BY <1>4, <1>5, <1>6, <1>7, <1>8 DEF Inv

\* After the signal the reader forgets the worker.
LEMMA SignalStep ==
  ASSUME Inv, NEW q \in Queues, Signal(q)
  PROVE  Inv'
<1>1. /\ reader' \in [Queues -> ReaderPCs]
      /\ reader[q] = "signal" /\ reader'[q] = "next"
      /\ current' \in [Queues -> Workers \cup {NoWorker}]
      /\ \A p \in Queues \ {q} : /\ reader'[p] = reader[p]
                                /\ current'[p] = current[p]
      /\ UNCHANGED <<pc, target, wanted, flag, frame, requests, queue,
                     timeToRead, alerted, quit, main>>
  BY DEF Signal, ReaderGoto, Inv, Control, ReaderPCs
<1>2. woken' \in [Workers -> BOOLEAN]
  BY DEF Signal, Inv, Control
<1>3. \A p \in Queues, x \in Workers :
        /\ Queued(p, x)' <=> Queued(p, x)
        /\ Busy(p, x)' => Busy(p, x)
        /\ Reading(p, x)' <=> Reading(p, x)
  BY <1>1 DEF Queued, Busy, Reading
<1>4. Control' /\ Lists'
  BY <1>1, <1>2 DEF Inv, Control, Lists
<1>5. Shape' /\ Closing'
  BY <1>1 DEF Inv, Shape, Closing
<1>6. Held'
  <2>1. ASSUME NEW p \in Queues, reader'[p] \in {"settle", "signal"}
        PROVE  reader[p] \in {"settle", "signal"} /\ current'[p] = current[p]
    BY <1>1, <2>1
  <2> QED
    BY <1>1, <2>1 DEF Inv, Held
<1>7. NoDanglingFrame'
  BY <1>1, <1>3 DEF Inv, NoDanglingFrame
<1>8. OneAnswerOwed'
  BY <1>1, <1>3 DEF Inv, Control, OneAnswerOwed, Waiting
<1> QED
  BY <1>4, <1>5, <1>6, <1>7, <1>8 DEF Inv

-----------------------------------------------------------------------------
\* The quit finds the queue empty, so overwriting buffer[0] loses nothing.
LEMMA SendQuitStep ==
  ASSUME Inv, NEW q \in Queues, \A w \in Workers : pc[w] = "idle", SendQuit(q)
  PROVE  /\ quit' = [quit EXCEPT ![q] = TRUE]
         /\ alerted' \in [Queues -> BOOLEAN]
         /\ UNCHANGED <<pc, target, wanted, flag, frame, woken, requests, queue,
                        timeToRead, reader, current>>
<1>1. queue[q] = <<>> /\ queue \in [Queues -> Seq(Workers)]
  BY NobodyQueued DEF Inv, Lists
<1>2. queue' = [queue EXCEPT ![q] = queue[q]]
  BY <1>1 DEF SendQuit
<1> QED
  BY <1>1, <1>2 DEF SendQuit, workerVars, Inv, Control

\* The main thread comes after all workers.
LEMMA MainStep ==
  ASSUME Inv, QuitDisk \/ QuitNet \/ JoinNet
  PROVE  Inv'
<1>1. \A w \in Workers : pc[w] = "idle"
  BY DEF QuitDisk, QuitNet, JoinNet, Inv, Closing
<1>2. /\ alerted' \in [Queues -> BOOLEAN]
      /\ UNCHANGED <<pc, target, wanted, flag, frame, woken, requests, queue,
                     timeToRead, reader, current>>
  BY <1>1, SendQuitStep
  DEF QuitDisk, QuitNet, JoinNet, Queues, workerVars, readerVars, Inv, Control
<1>3. /\ quit' \in [Queues -> BOOLEAN]
      /\ main' \in {"joining disk", "joining net", "done"}
      /\ quit'["disk"]
      /\ quit'["net"] <=> main' \in {"joining net", "done"}
  <2>1. quit \in [Queues -> BOOLEAN] /\ {"disk", "net"} \subseteq Queues
    BY DEF Inv, Control, Queues
  <2>2. CASE QuitDisk
    BY <1>1, <2>1, <2>2, SendQuitStep DEF QuitDisk, Inv, Closing
  <2>3. CASE QuitNet
    BY <1>1, <2>1, <2>3, SendQuitStep DEF QuitNet, Inv, Closing
  <2>4. CASE JoinNet
    BY <2>1, <2>4 DEF JoinNet, Inv, Closing
  <2> QED
    BY <2>2, <2>3, <2>4
<1>4. Control' /\ Lists'
  BY <1>2, <1>3 DEF Inv, Control, Lists
<1>5. Shape' /\ Held' /\ Closing'
  BY <1>1, <1>2, <1>3 DEF Inv, Shape, Held, Closing
<1>6. NoDanglingFrame' /\ OneAnswerOwed'
  BY <1>2 DEF Inv, NoDanglingFrame, OneAnswerOwed, Queued, Busy, Reading, Waiting
<1> QED
  BY <1>4, <1>5, <1>6 DEF Inv

\* A step that changes nothing.
LEMMA Stutter == Inv /\ UNCHANGED vars => Inv'
<1> SUFFICES ASSUME Inv, UNCHANGED vars PROVE Inv'
  OBVIOUS
<1> USE DEF Inv, vars, workerVars, readerVars
<1>1. Control' /\ Lists'
  BY DEF Control, Lists
<1>2. Shape' /\ Held' /\ Closing'
  BY DEF Shape, Held, Closing
<1>3. NoDanglingFrame'
  BY DEF NoDanglingFrame, Queued, Busy
<1>4. OneAnswerOwed'
  BY DEF OneAnswerOwed, Queued, Busy, Reading, Waiting
<1> QED
  BY <1>1, <1>2, <1>3, <1>4

\* The invariant holds in every reachable state.
LEMMA InvStep == Inv /\ [Next]_vars => Inv'
<1> SUFFICES ASSUME Inv, [Next]_vars PROVE Inv'
  OBVIOUS
<1>1. ASSUME NEW w \in Workers, NEW q \in Queues, NEW f \in Functions, Ask(w, q, f)
      PROVE  Inv'
  BY <1>1, AskStep
<1>2. ASSUME NEW w \in Workers, AddToReadBuffer(w) \/ AddToNetworkReadBuffer(w)
      PROVE  Inv'
  BY <1>2, AcceptStep, RefuseStep
  DEF AddToReadBuffer, AddToNetworkReadBuffer, Queues
<1>3. ASSUME NEW w \in Workers,
             RejectRead(w) \/ Sleep(w) \/ Wake(w) \/ Leave(w)
      PROVE  Inv'
  BY <1>3, RejectReadStep, SleepStep, LeaveStep
<1>4. ASSUME NEW q \in Queues, ReaderStep(q) \/ ReaderWake(q)
      PROVE  Inv'
  BY <1>4, ReaderRestsStep, ExtractStep, AnswerStep, SettleStep, SignalStep
  DEF ReaderStep
<1>5. CASE QuitDisk \/ QuitNet \/ JoinNet
  BY <1>5, MainStep
<1>6. CASE UNCHANGED vars
  BY <1>6, Stutter
<1> QED
  BY <1>1, <1>2, <1>3, <1>4, <1>5, <1>6
  DEF Next, WorkerStep, ReadFromDisk, ReadFromNetwork, Terminated, Queues

\* ... by induction on the steps.
LEMMA InvAlways == Spec => []Inv
<1> QED
  BY InvInit, InvStep, PTL DEF Spec

-----------------------------------------------------------------------------
\* No queue and no reader refers to the condition, lock or flag of a worker
\* that has gone on: what allocate_invocation destroys nobody will use
\* (invocation.c:205-207, disk_cache.c:214-227).
THEOREM FramesOutliveReads == Spec => []NoDanglingFrame
<1>1. Inv => NoDanglingFrame
  BY DEF Inv
<1> QED
  BY InvAlways, <1>1, PTL

\* A worker waits if and only if its one answer is still to come.
THEOREM AnswersAreOwed == Spec => []OneAnswerOwed
<1>1. Inv => OneAnswerOwed
  BY DEF Inv
<1> QED
  BY InvAlways, <1>1, PTL

\* The two orders in which read_lock and cond_lock are taken cannot meet
\* (disk_cache.c:238-284 against 214-227).
THEOREM InversionIsHarmless == Spec => []RejectNeverBlocks
BY InvAlways, RejectIsFree, PTL

\* Every variable keeps its range; the queues never outgrow QueueLimit.
THEOREM QueuesAreBounded == Spec => []TypeOK
<1>1. Inv => TypeOK
  BY DEF Inv, Control, Lists, TypeOK
<1> QED
  BY InvAlways, <1>1, PTL

\* The quit destroys no request: the queue is empty for good when it is sent
\* (main.c:26).
THEOREM QuitIsLast == Spec => []QuitLosesNothing
<1>1. Inv => QuitLosesNothing
  <2> SUFFICES ASSUME Inv, NEW q \in Queues, quit[q]
               PROVE  queue[q] = <<>> /\ \A w \in Workers : pc[w] = "idle"
    BY DEF QuitLosesNothing
  <2>1. \A w \in Workers : pc[w] = "idle"
    BY DEF Inv, Closing, Queues
  <2> QED
    BY <2>1, NobodyQueued
<1> QED
  BY InvAlways, <1>1, PTL

-----------------------------------------------------------------------------
(***************************************************************************)
(* Wake-ups                                                                *)
(***************************************************************************)
WorkersWoken ==
  \A w \in Workers : pc[w] = "asleep" /\ ~woken[w] => flag[w] = 0 \/ CondLocked(w)
ReadersWoken ==
  \A q \in Queues :
    reader[q] = "asleep" /\ ~alerted[q] => queue[q] = <<>> /\ ~quit[q]

\* A worker that does not go to sleep disturbs no other worker.
LEMMA AwakeWorker ==
  ASSUME WorkersWoken, NEW w \in Workers, pc'[w] # "asleep",
         \A x \in Workers \ {w} : /\ pc'[x] = pc[x] /\ woken'[x] = woken[x]
                                /\ flag'[x] = flag[x],
         UNCHANGED <<reader, current>>
  PROVE  WorkersWoken'
BY DEF WorkersWoken, CondLocked

\* A worker sleeps while the answer is out; whoever gives it signals him before
\* he lets go of the lock.
LEMMA WorkersWokenStep == Inv /\ WorkersWoken /\ [Next]_vars => WorkersWoken'
<1> SUFFICES ASSUME Inv, WorkersWoken, [Next]_vars PROVE WorkersWoken'
  OBVIOUS
<1> USE DEF Inv, Control, Goto, ReaderGoto, workerVars, readerVars
<1>1. ASSUME NEW w \in Workers, NEW q \in Queues, NEW f \in Functions, Ask(w, q, f)
      PROVE  WorkersWoken'
  BY <1>1, AwakeWorker DEF Ask
<1>2. ASSUME NEW w \in Workers, NEW q \in Queues, Accept(w, q)
      PROVE  WorkersWoken'
  BY <1>2, AwakeWorker DEF Accept
<1>3. ASSUME NEW w \in Workers, NEW q \in Queues, Refuse(w, q)
      PROVE  WorkersWoken'
  BY <1>3, AwakeWorker DEF Refuse
<1>4. ASSUME NEW w \in Workers, RejectRead(w) PROVE WorkersWoken'
  BY <1>4, AwakeWorker DEF RejectRead
<1>5. ASSUME NEW w \in Workers, Wake(w) PROVE WorkersWoken'
  BY <1>5, AwakeWorker DEF Wake
<1>6. ASSUME NEW w \in Workers, Leave(w) PROVE WorkersWoken'
  BY <1>6, AwakeWorker DEF Leave
<1>7. ASSUME NEW w \in Workers, Sleep(w) PROVE WorkersWoken'
  BY <1>7 DEF Sleep, WorkersWoken, CondLocked
<1>8. ASSUME NEW q \in Queues, ReaderSleep(q) \/ ReaderWake(q) \/ ReaderQuit(q)
      PROVE  WorkersWoken'
  <2>1. /\ UNCHANGED <<pc, flag, woken, current>>
        /\ reader[q] \notin {"settle", "signal"}
        /\ \A p \in Queues \ {q} : reader'[p] = reader[p]
    BY <1>8 DEF ReaderSleep, ReaderWake, ReaderQuit
  <2> QED
    BY <2>1 DEF WorkersWoken, CondLocked
<1>9. ASSUME NEW q \in Queues, Extract(q) PROVE WorkersWoken'
  <2>1. /\ UNCHANGED <<pc, flag, woken>>
        /\ reader[q] \notin {"settle", "signal"}
        /\ \A p \in Queues \ {q} : reader'[p] = reader[p] /\ current'[p] = current[p]
    BY <1>9 DEF Extract
  <2>2. \A x \in Workers : CondLocked(x) => CondLocked(x)'
    BY <2>1 DEF CondLocked
  <2> QED
    BY <2>1, <2>2 DEF WorkersWoken
<1>10. ASSUME NEW q \in Queues, NEW found \in BOOLEAN, Answer(q, found)
       PROVE  WorkersWoken'
  <2>1. /\ UNCHANGED <<pc, woken, current>>
        /\ \A x \in Workers : x # current[q] => flag'[x] = flag[x]
        /\ reader'[q] = "settle"
        /\ \A p \in Queues \ {q} : reader'[p] = reader[p]
        /\ reader[q] = "read"
    BY <1>10 DEF Answer
  <2>2. \A x \in Workers : CondLocked(x) \/ x = current[q] => CondLocked(x)'
    BY <2>1 DEF CondLocked
  <2> QED
    BY <2>1, <2>2 DEF WorkersWoken
<1>11. ASSUME NEW q \in Queues, Settle(q) PROVE WorkersWoken'
  <2>1. /\ UNCHANGED <<pc, flag, woken, current>>
        /\ reader'[q] = "signal"
        /\ \A p \in Queues \ {q} : reader'[p] = reader[p]
    BY <1>11 DEF Settle
  <2>2. \A x \in Workers : CondLocked(x) => CondLocked(x)'
    BY <2>1 DEF CondLocked
  <2> QED
    BY <2>1, <2>2 DEF WorkersWoken
<1>12. ASSUME NEW q \in Queues, Signal(q) PROVE WorkersWoken'
  <2>1. PICK w \in Workers : w = current[q]
    BY <1>12 DEF Signal, Shape
  <2>2. /\ UNCHANGED <<pc, flag>>
        /\ woken'[w] <=> pc[w] = "asleep"
        /\ \A x \in Workers \ {w} : woken'[x] = woken[x]
        /\ \A p \in Queues \ {q} : reader'[p] = reader[p] /\ current'[p] = current[p]
    BY <1>12, <2>1 DEF Signal
  <2>3. \A x \in Workers \ {w} : CondLocked(x) => CondLocked(x)'
    BY <2>1, <2>2 DEF CondLocked
  <2> QED
    BY <2>2, <2>3 DEF WorkersWoken
<1>13. CASE QuitDisk \/ QuitNet \/ JoinNet \/ UNCHANGED vars
  <2>1. UNCHANGED <<pc, flag, woken, reader, current>>
    BY <1>13 DEF QuitDisk, QuitNet, JoinNet, SendQuit, vars
  <2> QED
    BY <2>1 DEF WorkersWoken, CondLocked
<1> QED
  BY <1>1, <1>2, <1>3, <1>4, <1>5, <1>6, <1>7, <1>8, <1>9, <1>10, <1>11, <1>12,
     <1>13
  DEF Next, WorkerStep, AddToReadBuffer, AddToNetworkReadBuffer, ReadFromDisk,
      ReadFromNetwork, ReaderStep, Terminated, Queues

\* A reader sleeps while there is nothing in its queue; whoever puts something
\* there signals it.
LEMMA ReadersWokenStep == Inv /\ ReadersWoken /\ [Next]_vars => ReadersWoken'
<1> SUFFICES ASSUME Inv, ReadersWoken, [Next]_vars PROVE ReadersWoken'
  OBVIOUS
<1> USE DEF Inv, Control, Lists, Goto, ReaderGoto, workerVars, readerVars
<1>1. ASSUME UNCHANGED <<reader, alerted, queue, quit>> PROVE ReadersWoken'
  BY <1>1 DEF ReadersWoken
<1>2. ASSUME NEW w \in Workers, NEW q \in Queues, NEW f \in Functions, Ask(w, q, f)
      PROVE  ReadersWoken'
  BY <1>1, <1>2 DEF Ask
<1>3. ASSUME NEW w \in Workers, NEW q \in Queues, Refuse(w, q)
      PROVE  ReadersWoken'
  BY <1>1, <1>3 DEF Refuse
<1>4. ASSUME NEW w \in Workers, RejectRead(w) \/ Sleep(w) \/ Wake(w) \/ Leave(w)
      PROVE  ReadersWoken'
  BY <1>1, <1>4 DEF RejectRead, Sleep, Wake, Leave
<1>5. ASSUME NEW w \in Workers, NEW q \in Queues, Accept(w, q)
      PROVE  ReadersWoken'
  BY <1>5 DEF Accept, ReadersWoken
<1>6. ASSUME NEW q \in Queues, ReaderSleep(q) PROVE ReadersWoken'
  BY <1>6 DEF ReaderSleep, ReadersWoken
<1>7. ASSUME NEW q \in Queues, reader'[q] # "asleep",
             \A p \in Queues \ {q} : reader'[p] = reader[p] /\ queue'[p] = queue[p],
             UNCHANGED <<alerted, quit>>
      PROVE  ReadersWoken'
  BY <1>7 DEF ReadersWoken
<1>8. ASSUME NEW q \in Queues,
             ReaderWake(q) \/ ReaderQuit(q) \/ Extract(q) \/ Settle(q) \/ Signal(q)
      PROVE  ReadersWoken'
  BY <1>7, <1>8 DEF ReaderWake, ReaderQuit, Extract, Settle, Signal
<1>9. ASSUME NEW q \in Queues, NEW found \in BOOLEAN, Answer(q, found)
      PROVE  ReadersWoken'
  BY <1>7, <1>9 DEF Answer
<1>10. ASSUME NEW q \in Queues, SendQuit(q) PROVE ReadersWoken'
  BY <1>10 DEF SendQuit, ReadersWoken
<1>11. CASE JoinNet \/ UNCHANGED vars
  BY <1>1, <1>11 DEF JoinNet, vars
<1> QED
  BY <1>2, <1>3, <1>4, <1>5, <1>6, <1>8, <1>9, <1>10, <1>11
  DEF Next, WorkerStep, AddToReadBuffer, AddToNetworkReadBuffer, ReadFromDisk,
      ReadFromNetwork, ReaderStep, QuitDisk, QuitNet, Terminated, Queues

\* Nobody sleeps on a condition whose signal has been sent: the worker on the
\* condition of its frame, the reader on that of its queue (invocation.c:202,
\* disk_cache.c:196).
THEOREM NobodyIsForgotten == Spec => []NoLostWakeup
<1>1. Init => WorkersWoken /\ ReadersWoken
  BY DEF Init, WorkersWoken, ReadersWoken
<1>2. Inv /\ WorkersWoken /\ ReadersWoken /\ [Next]_vars
        => WorkersWoken' /\ ReadersWoken'
  BY WorkersWokenStep, ReadersWokenStep
<1>3. WorkersWoken /\ ReadersWoken => NoLostWakeup
  BY DEF WorkersWoken, ReadersWoken, NoLostWakeup
<1> QED
  BY InvAlways, <1>1, <1>2, <1>3, PTL DEF Spec

-----------------------------------------------------------------------------
(***************************************************************************)
(* The time to read                                                        *)
(***************************************************************************)
Accounts == TimeAccounting /\ WorthTheWait

\* The reads that are in the account of a queue are finitely many.
LEMMA OutstandingTypes ==
  ASSUME Inv, NEW q \in Queues
  PROVE  /\ IsFiniteSet(Outstanding(q))
         /\ \A x \in Workers : Costs[x] = CostOf(x) /\ Costs[x] \in Nat
<1>1. Outstanding(q) \subseteq Workers
  BY DEF Outstanding
<1>2. IsFiniteSet(Outstanding(q))
  BY <1>1, FS_Subset, ReadQueueAssumption
<1>3. \A x \in Workers : Costs[x] = CostOf(x) /\ CostOf(x) \in Nat
  BY CostIsNat DEF Inv, Costs
<1> QED
  BY <1>2, <1>3

\* Where nothing is accepted and nothing settled the accounts stand.
LEMMA AccountsStand ==
  ASSUME Inv, Accounts, UNCHANGED timeToRead,
         \A q \in Queues : Outstanding(q)' = Outstanding(q),
         \A q \in Queues : \A x \in Outstanding(q) : Costs'[x] = Costs[x]
  PROVE  Accounts'
<1>1. ASSUME NEW q \in Queues
      PROVE  timeToRead'[q] = Total(Outstanding(q)', Costs')
  <2>1. Total(Outstanding(q), Costs) = Total(Outstanding(q), Costs')
    BY TotalSame
  <2>2. timeToRead[q] = Total(Outstanding(q), Costs)
    BY DEF Accounts, TimeAccounting
  <2> QED
    BY <2>1, <2>2
<1>2. TimeAccounting'
  BY <1>1 DEF TimeAccounting
<1>3. WorthTheWait'
  BY DEF Accounts, WorthTheWait
<1> QED
  BY <1>2, <1>3 DEF Accounts

\* In particular when the queues and the readers are left alone.
LEMMA AccountsOfOthers ==
  ASSUME Inv, Accounts, UNCHANGED <<timeToRead, queue, reader, current>>,
         NEW w \in Workers, \A q \in Queues : ~Queued(q, w) /\ ~Busy(q, w),
         \A x \in Workers \ {w} : target'[x] = target[x] /\ wanted'[x] = wanted[x]
  PROVE  Accounts'
<1>1. \A q \in Queues : Outstanding(q)' = Outstanding(q)
  BY DEF Outstanding, Queued
<1>2. \A q \in Queues : w \notin Outstanding(q)
  BY DEF Outstanding, Queued, Busy
<1>3. \A q \in Queues : \A x \in Outstanding(q) : x \in Workers \ {w}
  BY <1>2 DEF Outstanding
<1>4. \A x \in Workers \ {w} : Costs'[x] = Costs[x]
  BY DEF Costs, CostOf
<1> QED
  BY <1>1, <1>3, <1>4, AccountsStand

\* ... or no worker changes what it reads, and a reader none of its hands.
LEMMA AccountsOfReaders ==
  ASSUME Inv, Accounts, UNCHANGED <<timeToRead, target, wanted>>,
         \A q \in Queues : Outstanding(q)' = Outstanding(q)
  PROVE  Accounts'
<1>1. Costs' = Costs
  BY DEF Costs, CostOf
<1> QED
  BY <1>1, AccountsStand

\* An accepted read adds its time, and was worth it with that time.
LEMMA AcceptAccounts ==
  ASSUME Inv, Accounts, NEW w \in Workers, NEW q \in Queues, Accept(w, q)
  PROVE  Accounts'
<1>1. /\ \A p \in Queues : ~Queued(p, w)
      /\ \A p \in Queues : ~Busy(p, w)
  BY NotBusy DEF Accept
<1>2. queue \in [Queues -> Seq(Workers)] /\ ~Repeats(queue[q])
  BY DEF Inv, Lists, OneAnswerOwed
<1>3. /\ queue'[q] = Append(queue[q], w)
      /\ \A p \in Queues \ {q} : queue'[p] = queue[p]
      /\ UNCHANGED <<reader, current, target, wanted>>
  BY <1>2 DEF Accept
<1>4. Elements(queue'[q]) = Elements(queue[q]) \cup {w}
  BY <1>1, <1>2, <1>3, ElementsAppend DEF Queued
<1>5. /\ Outstanding(q)' = Outstanding(q) \cup {w}
      /\ \A p \in Queues \ {q} : Outstanding(p)' = Outstanding(p)
  BY <1>3, <1>4 DEF Outstanding, Queued
<1>6. w \notin Outstanding(q)
  BY <1>1 DEF Outstanding, Busy
<1>7. Costs' = Costs
  BY <1>3 DEF Costs, CostOf
<1>8. Total(Outstanding(q) \cup {w}, Costs) = Total(Outstanding(q), Costs) + CostOf(w)
  <2>1. /\ IsFiniteSet(Outstanding(q))
        /\ \A x \in Outstanding(q) : Costs[x] \in Nat
        /\ Costs[w] \in Nat /\ Costs[w] = CostOf(w)
    BY OutstandingTypes DEF Outstanding
  <2> QED
    BY <1>6, <2>1, TotalAdd
<1>9. /\ timeToRead'[q] = timeToRead[q] + CostOf(w)
      /\ \A p \in Queues \ {q} : timeToRead'[p] = timeToRead[p]
      /\ timeToRead'[q] < Budget
  <2>1. timeToRead \in [Queues -> Int] /\ CostOf(w) \in Nat /\ Budget \in Int
    BY CostIsNat, ReadQueueAssumption DEF Inv, Lists
  <2>2. /\ timeToRead' = [timeToRead EXCEPT ![q] = @ + CostOf(w)]
        /\ ~(timeToRead[q] + CostOf(w) >= Budget)
    BY DEF Accept, TooSlow
  <2> QED
    BY <2>1, <2>2
<1>10. TimeAccounting'
  <2>1. \A p \in Queues : timeToRead'[p] = Total(Outstanding(p)', Costs')
    BY <1>5, <1>7, <1>8, <1>9 DEF Accounts, TimeAccounting
  <2> QED
    BY <2>1 DEF TimeAccounting
<1>11. WorthTheWait'
  BY <1>5, <1>9 DEF Accounts, WorthTheWait
<1> QED
  BY <1>10, <1>11 DEF Accounts

\* A read that is settled takes its time out again.
LEMMA SettleAccounts ==
  ASSUME Inv, Accounts, NEW q \in Queues, Settle(q)
  PROVE  Accounts'
<1>1. PICK w \in Workers : w = current[q]
  BY DEF Settle, Inv, Shape
<1>2. /\ reader[q] = "settle" /\ reader'[q] = "signal"
      /\ \A p \in Queues \ {q} : reader'[p] = reader[p]
      /\ UNCHANGED <<queue, current, target, wanted>>
  BY DEF Settle, ReaderGoto, workerVars, Inv, Control
<1>3. Busy(q, w) /\ target[w] = q
  BY <1>1, <1>2 DEF Busy, Inv, Held
<1>4. ~Queued(q, w)
  BY <1>3 DEF Inv, OneAnswerOwed
<1>5. w \in Outstanding(q)
  BY <1>1, <1>2 DEF Outstanding
<1>6. /\ Outstanding(q)' = Outstanding(q) \ {w}
      /\ \A p \in Queues \ {q} : Outstanding(p)' = Outstanding(p)
  BY <1>1, <1>2, <1>4 DEF Outstanding, Queued
<1>7. Costs' = Costs
  BY <1>2 DEF Costs, CostOf
<1>8. Total(Outstanding(q) \ {w}, Costs) = Total(Outstanding(q), Costs) - CostOf(w)
  <2>1. /\ IsFiniteSet(Outstanding(q))
        /\ \A x \in Outstanding(q) : Costs[x] \in Nat
        /\ Costs[w] = CostOf(w)
    BY OutstandingTypes DEF Outstanding
  <2> QED
    BY <1>5, <2>1, TotalRemove
<1>9. /\ timeToRead'[q] = timeToRead[q] - CostOf(w)
      /\ \A p \in Queues \ {q} : timeToRead'[p] = timeToRead[p]
      /\ timeToRead[q] \in Int /\ CostOf(w) \in Nat /\ Budget \in Int
  <2>1. timeToRead \in [Queues -> Int] /\ CostOf(w) \in Nat /\ Budget \in Int
    BY CostIsNat, ReadQueueAssumption DEF Inv, Lists
  <2>2. timeToRead' = [timeToRead EXCEPT ![q] = @ - CostOf(w)]
    BY <1>1 DEF Settle
  <2> QED
    BY <2>1, <2>2
<1>10. TimeAccounting'
  <2>1. \A p \in Queues : timeToRead'[p] = Total(Outstanding(p)', Costs')
    BY <1>6, <1>7, <1>8, <1>9 DEF Accounts, TimeAccounting
  <2> QED
    BY <2>1 DEF TimeAccounting
<1>11. WorthTheWait'
  BY <1>5, <1>6, <1>9 DEF Accounts, WorthTheWait
<1> QED
  BY <1>10, <1>11 DEF Accounts

\* The steps of a reader besides Settle keep what is queued or being read.
LEMMA ReaderAccounts ==
  ASSUME Inv, Accounts, NEW q \in Queues, NEW found \in BOOLEAN,
         \/ ReaderSleep(q) \/ ReaderWake(q) \/ ReaderQuit(q) \/ Extract(q)
         \/ Answer(q, found) \/ Signal(q)
  PROVE  Accounts'
<1> USE DEF ReaderGoto, workerVars, Inv, Control
<1>1. CASE Extract(q)
  <2>1. PICK h \in Workers :
          /\ h = Head(queue[q])
          /\ queue \in [Queues -> Seq(Workers)]
          /\ h \in Elements(queue[q])
          /\ Elements(Tail(queue[q])) = Elements(queue[q]) \ {h}
    BY <1>1, ElementsTail, ElementsType DEF Extract, Lists, OneAnswerOwed
  <2>2. /\ queue' = [queue EXCEPT ![q] = Tail(queue[q])]
        /\ current' = [current EXCEPT ![q] = h]
        /\ reader' = [reader EXCEPT ![q] = "read"]
        /\ reader[q] = "next"
        /\ UNCHANGED <<timeToRead, target, wanted>>
    BY <1>1, <2>1 DEF Extract
  <2>3. \A p \in Queues : Outstanding(p)' = Outstanding(p)
    <3>1. Outstanding(q)' = Outstanding(q)
      BY <2>1, <2>2 DEF Outstanding, Queued
    <3>2. \A p \in Queues \ {q} : Outstanding(p)' = Outstanding(p)
      BY <2>1, <2>2 DEF Outstanding, Queued
    <3> QED
      BY <3>1, <3>2
  <2> QED
    BY <2>2, <2>3, AccountsOfReaders
<1>2. CASE ~Extract(q)
  <2>1. /\ UNCHANGED <<queue, timeToRead, target, wanted>>
        /\ \A p \in Queues \ {q} : reader'[p] = reader[p] /\ current'[p] = current[p]
        /\ \/ /\ reader[q] \notin {"read", "settle"}
              /\ reader'[q] \notin {"read", "settle"}
           \/ /\ reader[q] = "read" /\ reader'[q] = "settle"
              /\ current'[q] = current[q]
    BY <1>2 DEF ReaderSleep, ReaderWake, ReaderQuit, Answer, Signal
  <2>2. \A p \in Queues : Outstanding(p)' = Outstanding(p)
    BY <2>1 DEF Outstanding, Queued
  <2> QED
    BY <2>1, <2>2, AccountsOfReaders
<1> QED
  BY <1>1, <1>2

\* Every step keeps both accounts.
LEMMA AccountsStep == Inv /\ Accounts /\ [Next]_vars => Accounts'
<1> SUFFICES ASSUME Inv, Accounts, [Next]_vars PROVE Accounts'
  OBVIOUS
<1> USE DEF workerVars, readerVars
<1>1. ASSUME NEW w \in Workers, NEW q \in Queues, NEW f \in Functions, Ask(w, q, f)
      PROVE  Accounts'
  <2>1. \A p \in Queues : ~Queued(p, w) /\ ~Busy(p, w)
    BY <1>1, NotBusy DEF Ask
  <2> QED
    BY <1>1, <2>1, AccountsOfOthers DEF Ask, Inv, Control
<1>2. ASSUME NEW w \in Workers, NEW q \in Queues, Accept(w, q)
      PROVE  Accounts'
  BY <1>2, AcceptAccounts
<1>3. ASSUME NEW w \in Workers, Leave(w)
      PROVE  Accounts'
  <2>1. \A p \in Queues : ~Queued(p, w) /\ ~Busy(p, w)
    BY <1>3, NotWaiting DEF Leave, Waiting, CondLocked, Busy, Reading
  <2> QED
    BY <1>3, <2>1, AccountsOfOthers DEF Leave, Inv, Control
<1>4. ASSUME UNCHANGED <<timeToRead, queue, reader, current, target, wanted>>
      PROVE  Accounts'
  <2>1. \A p \in Queues : Outstanding(p)' = Outstanding(p)
    BY <1>4 DEF Outstanding, Queued
  <2> QED
    BY <1>4, <2>1, AccountsOfReaders
<1>5. ASSUME NEW w \in Workers, NEW q \in Queues, Refuse(w, q)
      PROVE  Accounts'
  BY <1>4, <1>5 DEF Refuse
<1>6. ASSUME NEW w \in Workers, RejectRead(w) \/ Sleep(w) \/ Wake(w)
      PROVE  Accounts'
  BY <1>4, <1>6 DEF RejectRead, Sleep, Wake
<1>7. ASSUME NEW q \in Queues, ReaderStep(q) \/ ReaderWake(q)
      PROVE  Accounts'
  BY <1>7, ReaderAccounts, SettleAccounts DEF ReaderStep
<1>8. CASE QuitDisk \/ QuitNet \/ JoinNet \/ UNCHANGED vars
  <2>1. CASE QuitDisk \/ QuitNet
    BY <1>4, <2>1, SendQuitStep DEF QuitDisk, QuitNet, Queues, Inv, Closing
  <2>2. CASE JoinNet \/ UNCHANGED vars
    BY <1>4, <2>2 DEF JoinNet, vars
  <2> QED
    BY <1>8, <2>1, <2>2
<1> QED
  BY <1>1, <1>2, <1>3, <1>5, <1>6, <1>7, <1>8
  DEF Next, WorkerStep, AddToReadBuffer, AddToNetworkReadBuffer, ReadFromDisk,
      ReadFromNetwork, Terminated, Queues

\* So they hold in every reachable state.
LEMMA AccountsAlways == Spec => []Accounts
<1>1. Init => Accounts
  <2> SUFFICES ASSUME Init PROVE Accounts
    OBVIOUS
  <2>1. \A q \in Queues : Outstanding(q) = {} /\ timeToRead[q] = 0
    BY ElementsEmpty DEF Init, Outstanding, Queued
  <2>2. Total({}, Costs) = 0
    BY TotalEmpty
  <2> QED
    BY <2>1, <2>2 DEF Accounts, TimeAccounting, WorthTheWait
<1> QED
  BY InvAlways, AccountsStep, <1>1, PTL DEF Spec

\* time_to_read is exactly the time of the reads that are queued or being read,
\* although one thread adds to it and another subtracts (disk_cache.c:224, 256).
THEOREM TimeBalances == Spec => []TimeAccounting
<1>1. Accounts => TimeAccounting
  BY DEF Accounts
<1> QED
  BY AccountsAlways, <1>1, PTL

\* A worker only waits for reads that, by the account, beat a cold start.
THEOREM WaitsAreShort == Spec => []WorthTheWait
<1>1. Accounts => WorthTheWait
  BY DEF Accounts
<1> QED
  BY AccountsAlways, <1>1, PTL
=============================================================================
