------------------------------ MODULE DiskCache ------------------------------
(***************************************************************************)
(* The disk cache, with pointers as pointers: a linked list of disk_nodes, *)
(* least recently used first, whose files are the checkpoints containers/f.*)
(* Workers look functions up, the reader brings checkpoints to memory, the *)
(* writer inserts and evicts, and the upload thread of NetCache gets what  *)
(* leaves the disk.                                                        *)
(*                                                                         *)
(* disk_lock protects the list.  A critical section in which nothing       *)
(* blocks is one action; freeDisk, which waits for the reader and takes    *)
(* other locks while it has disk_lock, is split, and Locked says when it   *)
(* runs.                                                                   *)
(***************************************************************************)
EXTENDS NetCache

CONSTANTS
  Size,       \* invocation->memory, the same for every start of a function
  DiskSize,   \* options->disk
  Stale,      \* what the memory field of a freed node may read as, besides
              \* what was in it
  MaxStores,  \* BOUND: containers the writer stores
  MaxReads    \* BOUND: reads the workers ask for

ASSUME DiskCacheAssumption ==
  /\ Size \in [Functions -> Nat \ {0}]
  /\ DiskSize \in Nat
  /\ Stale \subseteq Nat
  /\ MaxStores \in 0..Cardinality(Nodes)
  /\ MaxReads \in Nat

\* The 1000000000 with which main_loop calls freeDisk is more than everything,
\* whatever the fields of the nodes read as.
ASSUME DrainAssumption ==
  LET sizes == {0} \cup Stale \cup {Size[f] : f \in Functions}
  IN  \E most \in sizes : /\ \A v \in sizes : v <= most
                          /\ MaxStores * most < 1000000000

VARIABLES
  head,       \* disk->head
  next,       \* node->next
  inUse,      \* the nodes with in_use = 1
  memory,     \* disk->memory
  writer,     \* where the writer is in insertDiskItem and freeDisk
  stored,     \* invocation->hash_function of what it stores
  restored,   \* invocation->restored
  newNode,    \* new_node
  temp,       \* temp of freeDisk
  tempSize,   \* temp->memory when temp was unlinked
  freed,      \* freed of freeDisk
  reader,     \* where retrieveFromDisk is
  wanted,     \* the function it looks for
  readNode,   \* its temp
  requests,   \* the functions in the read buffer
  main,       \* where the main thread is in main_loop and destroyNetCache
  stores,     \* how many containers the writer has taken
  reads,      \* how many reads have been asked for
  readOnce,   \* the functions whose checkpoint the reader has brought
  misread     \* whether a field of a freed node has read as something else

listVars == <<head, next, inUse, memory>>
storeVars == <<stored, restored, newNode, stores>>
freeVars == <<temp, tempSize, freed, misread>>
writerVars == <<writer, storeVars, freeVars>>
readerVars == <<reader, wanted, readNode, requests, reads, readOnce>>
vars == <<netVars, listVars, writerVars, readerVars, main>>

Init ==
  /\ NetInit
  /\ head = NoNode
  /\ next = [n \in Nodes |-> NoNode]
  /\ inUse = {}
  /\ memory = DiskSize
  /\ writer = "idle"
  /\ stored = NoFunction
  /\ restored = FALSE
  /\ newNode = NoNode
  /\ temp = NoNode
  /\ tempSize = 0
  /\ freed = 0
  /\ reader = "idle"
  /\ wanted = NoFunction
  /\ readNode = NoNode
  /\ requests = <<>>
  /\ main = "running"
  /\ stores = 0
  /\ reads = 0
  /\ readOnce = {}
  /\ misread = FALSE

-----------------------------------------------------------------------------
(***************************************************************************)
(* The list                                                                *)
(***************************************************************************)
\* The nodes from the first one on in the order of their links, the node after
\* k links being nth[k]; longer than there are nodes if it is a cycle.
ListFrom(first, link) ==
  LET nth[k \in 0..Cardinality(Nodes)] ==
        IF k = 0 THEN first
        ELSE IF nth[k - 1] = NoNode THEN NoNode ELSE link[nth[k - 1]]
      places == {k \in DOMAIN nth : nth[k] # NoNode}
  IN  [i \in 1..Cardinality(places) |-> nth[i - 1]]

List == ListFrom(head, next)
Listed == Elements(List)
FunctionsOf(nodes) == {function[n] : n \in nodes}
Last == List[Len(List)]
NodeOf(f) == CHOOSE n \in Listed : function[n] = f

\* freeDisk has disk_lock.
Locked == writer \in {"evict", "ask", "hand", "discard", "account"}

Others(n) == [m \in Nodes |-> IF m = Last THEN n
                              ELSE IF next[m] = n THEN next[n] ELSE next[m]]

\* Mutant: node->next is not set to NULL.
RelinkedTied(n) == Others(n)

\* The links after n has been moved behind the last node.
Relinked(n) == [Others(n) EXCEPT ![n] = NoNode]

\* Mutant: disk->head stays where it is.
HeadWithoutKept(n) == head

HeadWithout(n) == IF n = head THEN next[n] ELSE head

\* findInDisk makes the node it finds the last one, unless it is.
MoveToEnd(n) ==
  IF n = Last THEN UNCHANGED <<head, next>>
  ELSE head' = HeadWithout(n) /\ next' = Relinked(n)

-----------------------------------------------------------------------------
(***************************************************************************)
(* The workers: findInDisk and addToReadBuffer in allocate_invocation      *)
(***************************************************************************)
\* Where nothing is found nothing changes.  A read that is found is asked for,
\* or rejected by addToReadBuffer (see ReadQueue).
FindInDisk(f) ==
  /\ main = "running"
  /\ ~Locked
  /\ f \in FunctionsOf(Listed)
  /\ MoveToEnd(NodeOf(f))
  /\ \/ /\ reads < MaxReads
        /\ reads' = reads + 1
        /\ requests' = Append(requests, f)
     \/ UNCHANGED <<reads, requests>>
  /\ UNCHANGED <<netVars, inUse, memory, writerVars, reader, wanted, readNode,
                 readOnce, main>>

-----------------------------------------------------------------------------
(***************************************************************************)
(* The reader: readFromDisk and retrieveFromDisk                           *)
(***************************************************************************)
TakeRequest ==
  /\ reader = "idle"
  /\ requests # <<>>
  /\ wanted' = Head(requests)
  /\ requests' = Tail(requests)
  /\ reader' = "retrieve"
  /\ UNCHANGED <<netVars, listVars, writerVars, readNode, reads, readOnce,
                 main>>

\* The node is marked, or the key is not present and the answer is -1.
Retrieve ==
  /\ reader = "retrieve"
  /\ ~Locked
  /\ IF wanted \in FunctionsOf(Listed)
     THEN /\ readNode' = NodeOf(wanted)
          /\ inUse' = inUse \cup {NodeOf(wanted)}
          /\ reader' = "open"
          /\ UNCHANGED wanted
     ELSE /\ reader' = "idle"
          /\ wanted' = NoFunction
          /\ UNCHANGED <<inUse, readNode>>
  /\ UNCHANGED <<netVars, head, next, memory, writerVars, requests, reads,
                 readOnce, main>>

\* readBin does not look at what fopen returns: without the file, fseek gets
\* NULL and the process ends.
ReadBin ==
  /\ reader = "open"
  /\ reader' = IF wanted \in files THEN "close" ELSE "crashed"
  /\ UNCHANGED <<netVars, listVars, writerVars, wanted, readNode, requests,
                 reads, readOnce, main>>

\* Mutant: in_use is cleared under disk_lock, like everything else.
MayReleaseLocked == reader = "close" /\ ~Locked

MayRelease == reader = "close"

\* in_use is cleared without disk_lock, and the read is answered.
ReleaseNode ==
  /\ MayRelease
  /\ inUse' = inUse \ {readNode}
  /\ readOnce' = readOnce \cup {wanted}
  /\ wanted' = NoFunction
  /\ readNode' = NoNode
  /\ reader' = "idle"
  /\ UNCHANGED <<netVars, head, next, memory, writerVars, requests, reads,
                 main>>

RetrieveFromDisk == Retrieve \/ ReadBin \/ ReleaseNode

-----------------------------------------------------------------------------
(***************************************************************************)
(* freeDisk, called by the writer and, with 1000000000, by main_loop       *)
(***************************************************************************)
Need == IF main = "draining" THEN 1000000000 ELSE Size[stored]

MustEvict == writer = "evict" /\ head # NoNode /\ freed < Need
Finished == writer = "evict" /\ ~MustEvict

\* The head is being read: sleep 100 ms, with disk_lock, and look again.
Spin ==
  /\ MustEvict
  /\ head \in inUse
  /\ UNCHANGED vars

\* Mutant: in_use is not looked at.
MayUnlinkRegardless == MustEvict

MayUnlink == MustEvict /\ head \notin inUse

\* temp->next keeps its value and is not read again; here it is forgotten.
Unlink ==
  /\ MayUnlink
  /\ temp' = head
  /\ tempSize' = Size[function[head]]
  /\ head' = next[head]
  /\ next' = [next EXCEPT ![head] = NoNode]
  /\ writer' = "ask"
  /\ UNCHANGED <<netVars, inUse, memory, storeVars, freed, misread, readerVars,
                 main>>

\* Mutant: findInNetwork answers 0 for found, like strcmp.
MustUploadInverted(f) == FindInNetwork(f)

MustUpload(f) == ~FindInNetwork(f)

AskNetwork ==
  /\ writer = "ask"
  /\ writer' = IF MustUpload(function[temp]) THEN "hand" ELSE "discard"
  /\ UNCHANGED <<netVars, listVars, storeVars, freeVars, readerVars, main>>

HandOver ==
  /\ writer = "hand"
  /\ Enqueue(Append(uploadQueue, temp))
  /\ writer' = "account"
  /\ UNCHANGED <<heap, files, uploader, item, netList, bucket, listVars,
                 storeVars, freeVars, readerVars, main>>

Discard ==
  /\ writer = "discard"
  /\ files' = files \ {function[temp]}
  /\ Free(temp)
  /\ writer' = "account"
  /\ UNCHANGED <<uploads, listVars, storeVars, freeVars, readerVars, main>>

\* temp->memory is read twice after temp is freed, or given to a thread that
\* frees it.
Readable == IF temp \in allocated THEN {tempSize} ELSE {tempSize} \cup Stale

Account ==
  /\ writer = "account"
  /\ \E v, w \in Readable :
       /\ memory' = memory + v
       /\ freed' = freed + w
       /\ misread' = (misread \/ v # tempSize \/ w # tempSize)
  /\ temp' = NoNode
  /\ tempSize' = 0
  /\ writer' = "evict"
  /\ UNCHANGED <<netVars, head, next, inUse, storeVars, readerVars, main>>

FreeDisk == Unlink \/ AskNetwork \/ HandOver \/ Discard \/ Account

-----------------------------------------------------------------------------
(***************************************************************************)
(* The writer: the second half of writeToDisk, and insertDiskItem          *)
(***************************************************************************)
Malloc == CHOOSE n \in Nodes : n \notin allocated

\* new_node, filled in, before the lock is dropped for the checkpoint.
CreateNode ==
  /\ newNode' = Malloc
  /\ allocated' = allocated \cup {Malloc}
  /\ function' = [function EXCEPT ![Malloc] = stored]
  /\ writer' = "checkpoint"

\* The container is done with; its invocation is freed.
StoreEnds ==
  /\ writer' = "idle"
  /\ stored' = NoFunction
  /\ restored' = FALSE

\* A container of f from the write buffer.  One restored from a checkpoint
\* came from this disk or from the bucket.
TakeContainer(f, r) ==
  /\ main = "running"
  /\ writer = "idle"
  /\ stores < MaxStores
  /\ r => f \in readOnce \cup bucket
  /\ stores' = stores + 1
  /\ stored' = f
  /\ restored' = r
  /\ writer' = "look"
  /\ UNCHANGED <<netVars, listVars, newNode, freeVars, readerVars, main>>

\* Mutant: the writer does not search the disk before it inserts.
LookForNothing ==
  /\ writer = "look"
  /\ writer' = "insert"
  /\ UNCHANGED <<netVars, listVars, storeVars, freeVars, readerVars, main>>

\* findInDisk: what is on disk already is discarded, and counts as used.
Look ==
  /\ writer = "look"
  /\ IF stored \in FunctionsOf(Listed)
     THEN MoveToEnd(NodeOf(stored)) /\ StoreEnds
     ELSE /\ writer' = "insert"
          /\ UNCHANGED <<head, next, stored, restored>>
  /\ UNCHANGED <<netVars, inUse, memory, newNode, stores, freeVars, readerVars,
                 main>>

Fits ==
  /\ writer = "insert"
  /\ memory >= Size[stored]
  /\ CreateNode
  /\ UNCHANGED <<files, uploads, listVars, stored, restored, stores, freeVars,
                 readerVars, main>>

\* freeDisk is asked for the whole size, not for what is missing.
MakeRoom ==
  /\ writer = "insert"
  /\ memory < Size[stored]
  /\ freed' = 0
  /\ writer' = "evict"
  /\ UNCHANGED <<netVars, listVars, storeVars, temp, tempSize, misread,
                 readerVars, main>>

RoomMade ==
  /\ Finished
  /\ main = "running"
  /\ freed >= Need
  /\ freed' = 0
  /\ CreateNode
  /\ UNCHANGED <<files, uploads, listVars, stored, restored, stores, temp,
                 tempSize, misread, readerVars, main>>

\* "Non able to add to disk cache": the container is killed.
NoRoom ==
  /\ Finished
  /\ main = "running"
  /\ freed < Need
  /\ freed' = 0
  /\ StoreEnds
  /\ UNCHANGED <<netVars, listVars, newNode, stores, temp, tempSize, misread,
                 readerVars, main>>

\* checkpointContainer without disk_lock: an object of the bucket is fetched,
\* a restored container is dropped, any other is exported to the file.
Checkpoint ==
  /\ writer = "checkpoint"
  /\ stored \in bucket \/ ~restored
  /\ files' = files \cup {stored}
  /\ writer' = "link"
  /\ UNCHANGED <<heap, uploads, listVars, storeVars, freeVars, readerVars,
                 main>>

DropRestored ==
  /\ writer = "checkpoint"
  /\ stored \notin bucket
  /\ restored
  /\ Free(newNode)
  /\ newNode' = NoNode
  /\ StoreEnds
  /\ UNCHANGED <<files, uploads, listVars, stores, freeVars, readerVars, main>>

\* Mutant: the first node of an empty list is not charged for.
ChargeUnlessFirst == IF head = NoNode THEN 0 ELSE Size[stored]

Charge == Size[stored]

\* The lock is taken again and the node appended.
LinkNode ==
  /\ writer = "link"
  /\ head' = IF head = NoNode THEN newNode ELSE head
  /\ next' = IF head = NoNode THEN next ELSE [next EXCEPT ![Last] = newNode]
  /\ memory' = memory - Charge
  /\ newNode' = NoNode
  /\ StoreEnds
  /\ UNCHANGED <<netVars, inUse, stores, freeVars, readerVars, main>>

CheckpointContainer == Checkpoint \/ DropRestored
InsertDiskItem ==
  Fits \/ MakeRoom \/ RoomMade \/ NoRoom \/ CheckpointContainer \/ LinkNode
WriterStep == Look \/ InsertDiskItem \/ FreeDisk

-----------------------------------------------------------------------------
(***************************************************************************)
(* The main thread: the end of main_loop, and destroyNetCache              *)
(***************************************************************************)
\* endPools has returned: no worker, reader or writer is left.  The rest of
\* the disk cache is deleted, with no lock.
EndPools ==
  /\ main = "running"
  /\ writer = "idle"
  /\ reader = "idle"
  /\ requests = <<>>
  /\ freed' = 0
  /\ writer' = "evict"
  /\ main' = "draining"
  /\ UNCHANGED <<netVars, listVars, storeVars, temp, tempSize, misread,
                 readerVars>>

\* Mutant: "quit" goes to the front of the queue, as in the read buffers.
WithQuitFirst == <<Quit>> \o uploadQueue

WithQuit == Append(uploadQueue, Quit)

SendQuit ==
  /\ Finished
  /\ main = "draining"
  /\ Enqueue(WithQuit)
  /\ freed' = 0
  /\ writer' = "idle"
  /\ main' = "joining"
  /\ UNCHANGED <<heap, files, uploader, item, netList, bucket, listVars,
                 storeVars, temp, tempSize, misread, readerVars>>

JoinUploader ==
  /\ main = "joining"
  /\ uploader = "exited"
  /\ main' = "done"
  /\ UNCHANGED <<netVars, listVars, writerVars, readerVars>>

MainStep == EndPools \/ SendQuit \/ JoinUploader

-----------------------------------------------------------------------------
diskVars == <<listVars, writerVars, readerVars, main>>

\* A crash of the reader ends the process with all its threads.
Crashed == reader = "crashed"

Uploader == NetThreadFunc /\ UNCHANGED diskVars
Reader == TakeRequest \/ RetrieveFromDisk

Terminated == (Crashed \/ main = "done") /\ UNCHANGED vars

Next ==
  \/ /\ ~Crashed
     /\ \/ \E f \in Functions : FindInDisk(f)
        \/ \E f \in Functions, r \in BOOLEAN : TakeContainer(f, r)
        \/ Reader
        \/ WriterStep \/ Spin
        \/ Uploader
        \/ UploaderWake /\ UNCHANGED diskVars
        \/ MainStep
  \/ Terminated

Spec == Init /\ [][Next]_vars

\* Threads are scheduled, the disk and the bucket answer, the trace ends, and
\* a signalled thread wakes.
Fairness ==
  /\ WF_vars(~Crashed /\ Reader)
  /\ WF_vars(~Crashed /\ WriterStep)
  /\ WF_vars(~Crashed /\ Uploader)
  /\ WF_vars(~Crashed /\ signalled /\ UploaderWake /\ UNCHANGED diskVars)
  /\ WF_vars(~Crashed /\ MainStep)

FairSpec == Spec /\ Fairness

-----------------------------------------------------------------------------
(***************************************************************************)
(* Correctness                                                             *)
(***************************************************************************)
WriterPCs == {"idle", "look", "insert", "checkpoint", "link",
              "evict", "ask", "hand", "discard", "account"}
ReaderPCs == {"idle", "retrieve", "open", "close", "crashed"}

\* Every variable keeps its range, and the list ends and has no node twice:
\* findInDisk, freeDisk and insertDiskItem never tie it into a loop.
TypeOK ==
  /\ allocated \subseteq Nodes
  /\ function \in [Nodes -> Functions \cup {NoFunction}]
  /\ files \subseteq Functions
  /\ uploadQueue \in Seq(Nodes \cup {Quit})
  /\ uploader \in UploaderPCs
  /\ item \in Nodes \cup {NoNode}
  /\ signalled \in BOOLEAN
  /\ netList \subseteq Functions
  /\ bucket \subseteq Functions
  /\ head \in Nodes \cup {NoNode}
  /\ next \in [Nodes -> Nodes \cup {NoNode}]
  /\ inUse \subseteq Nodes
  /\ memory \in Int
  /\ writer \in WriterPCs
  /\ stored \in Functions \cup {NoFunction}
  /\ restored \in BOOLEAN
  /\ newNode \in Nodes \cup {NoNode}
  /\ temp \in Nodes \cup {NoNode}
  /\ tempSize \in Nat
  /\ freed \in Nat
  /\ reader \in ReaderPCs
  /\ wanted \in Functions \cup {NoFunction}
  /\ readNode \in Nodes \cup {NoNode}
  /\ requests \in Seq(Functions)
  /\ main \in {"running", "draining", "joining", "done"}
  /\ stores \in 0..MaxStores
  /\ reads \in 0..MaxReads
  /\ readOnce \subseteq Functions
  /\ misread \in BOOLEAN
  /\ ~Repeats(List)

\* Every node malloc has given out is in one place: in the list, being
\* inserted, being evicted, in the upload queue or with the upload thread.
\* None is leaked, and none is in two places, from where it would be freed
\* twice or used after it is freed (disk_cache.c:312-351, 486-518, 539-555).
Inserting == IF writer \in {"checkpoint", "link"} THEN {newNode} ELSE {}
Evicting == IF writer \in {"ask", "hand", "discard"} THEN {temp} ELSE {}
InHand == IF uploader \in {"remove", "upload", "link"} THEN {item} ELSE {}
Owned == [listed |-> Listed, queued |-> QueuedNodes, inserting |-> Inserting,
          evicting |-> Evicting, uploading |-> InHand]
NodesHaveOneOwner ==
  /\ allocated = UNION {Owned[a] : a \in DOMAIN Owned}
  /\ \A a, b \in DOMAIN Owned : a # b => Owned[a] \cap Owned[b] = {}
  /\ ~Repeats(uploadQueue)

\* The node the reader has let go of the lock with stays in the list and marked
\* until the reader clears the mark, and no other node is marked, so that
\* freeDisk never waits for nobody (disk_cache.c:126-133, 166-173, 481).
ReaderHoldsItsNode ==
  IF reader \in {"open", "close", "crashed"}
  THEN inUse = {readNode} /\ readNode \in Listed /\ function[readNode] = wanted
  ELSE inUse = {}

\* disk->memory, the functions in the list and what is being evicted add up to
\* the disk, although the writer checks for room, lets the lock go and
\* subtracts later; and the disk is never overcommitted.  That is so as long as
\* the memory of a freed node reads as it was (disk_cache.c:301, 325, 354, 517).
SizeOfNode == [n \in Nodes |-> IF n \in Listed THEN Size[function[n]] ELSE 0]
DiskAccounting ==
  ~misread => /\ memory + Total(Listed, SizeOfNode) + tempSize = DiskSize
              /\ memory >= 0

\* A function on disk or in the upload queue has its file, unless the network
\* cache lists it or the upload thread is about to.  In particular the file of
\* a function on disk is missing only if an upload that was queued before it
\* was inserted again has removed it (disk_cache.c:363), and for no other
\* reason does the reader find no file to open (disk_cache.c:18-22).
Traced(f) == f \in files \/ f \in netList \/ Uploading(f)
StoredIsTraced == \A f \in FunctionsOf(Listed \cup QueuedNodes) : Traced(f)

\* A function whose checkpoint was made is never forgotten: no file is deleted
\* but of a function that is or will be in the list of the network cache
\* (disk_cache.c:493-507, 363-386), from where it is never removed.  This is
\* about the records; FoundIsInBucket says what they are worth.
NeverForgotten == [][\A f \in Functions : Traced(f) => Traced(f)']_vars

\* What findInNetwork finds can be fetched: allocate_invocation chooses a remote
\* start for it, "Function is present" (invocation.c:211), and freeDisk deletes
\* the file because of it (disk_cache.c:503).  It is not so.
FoundIsInBucket ==
  main = "running" => \A f \in Functions : FindInNetwork(f) => f \in bucket

\* At the end main has emptied the disk: the "quit" has destroyed no upload, all
\* nodes are freed, and no file is left under containers/ (main.c:185-188).
NothingLeftBehind ==
  main = "done" => /\ uploadQueue = <<Quit>>
                   /\ allocated = {}
                   /\ files = {}

\* The pointers implement the sequence of LruCache: lookups of the workers and
\* of the writer renew a function, and only the least recently used one that is
\* left is evicted (disk_cache.c:82-112, 343-352, 486-487).
Recency == [i \in DOMAIN List |-> function[List[i]]]
Lru == INSTANCE LruCache WITH recency <- Recency
KeepsRecency == Lru!Spec

\* Nobody is stuck: every read is answered and every container stored or
\* dropped, the loop that waits for in_use with disk_lock held ends, the
\* upload thread wakes for its work, and main joins it; unless the reader
\* crashes.
DrainCompletes == <>(main = "done" \/ Crashed)
=============================================================================
