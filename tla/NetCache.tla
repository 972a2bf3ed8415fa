------------------------------ MODULE NetCache -------------------------------
(***************************************************************************)
(* The upload thread.  freeDisk queues the nodes of the checkpoints that   *)
(* have to leave the disk; netThreadFunc takes them in turn, deletes the   *)
(* file, uploads the object, enters the function into the list of the      *)
(* network cache and frees the node.                                       *)
(*                                                                         *)
(* The module has the thread and its queue; DiskCache extends it with the  *)
(* threads that fill the queue.  The bucket is external: uploadObject gets *)
(* the name of a function and makes an object of the file containers/f,    *)
(* as in test_bandwidth (option_reader.c:127-136), findObject says whether *)
(* there is one, and importCache enters those that are there at the start  *)
(* into the list.                                                          *)
(***************************************************************************)
EXTENDS Sums

CONSTANTS
  Functions,   \* the function hashes of the trace
  Nodes,       \* addresses at which malloc puts a disk_node
  NoNode,      \* NULL
  NoFunction,
  Imported,    \* the functions importCache finds in the bucket
  Quit         \* the node of destroyNetCache, whose function is "quit"

ASSUME NetCacheAssumption ==
  /\ IsFiniteSet(Nodes)
  /\ NoNode \notin Nodes
  /\ NoFunction \notin Functions
  /\ Imported \subseteq Functions
  /\ Quit \notin Nodes \cup {NoNode}

VARIABLES
  allocated,    \* the nodes malloc has given out and free has not taken back
  function,     \* node->function
  files,        \* the functions f of which containers/f exists
  uploadQueue,  \* net_cache->queue and queue_size
  uploader,     \* where netThreadFunc is
  item,         \* the node it works on
  signalled,    \* whether its pthread_cond_wait has been signalled
  netList,      \* the functions in the list at net_cache->head, of which
                \* nothing but membership is ever asked
  bucket        \* the functions that have an object in the bucket

heap == <<allocated, function>>
uploads == <<uploadQueue, signalled, uploader, item, netList, bucket>>
netVars == <<heap, files, uploads>>

NetInit ==
  /\ allocated = {}
  /\ function = [n \in Nodes |-> NoFunction]
  /\ files = {}
  /\ uploadQueue = <<>>
  /\ uploader = "next"
  /\ item = NoNode
  /\ signalled = FALSE
  /\ netList = Imported
  /\ bucket = Imported

\* findInNetwork, under net_lock.
FindInNetwork(f) == f \in netList

Free(n) ==
  /\ allocated' = allocated \ {n}
  /\ function' = [function EXCEPT ![n] = NoFunction]

-----------------------------------------------------------------------------
\* Another entry in the queue, written with no look at the limit of 500, and
\* the signal to the upload thread.
Enqueue(q) == uploadQueue' = q /\ signalled' = (uploader = "asleep")

UploaderSleep ==
  /\ uploader = "next"
  /\ uploadQueue = <<>>
  /\ uploader' = "asleep"
  /\ signalled' = FALSE
  /\ UNCHANGED <<heap, files, uploadQueue, item, netList, bucket>>

\* pthread_cond_wait may also return with no signal.
UploaderWake ==
  /\ uploader = "asleep"
  /\ uploader' = "next"
  /\ UNCHANGED <<heap, files, uploadQueue, item, signalled, netList, bucket>>

\* The queue is shifted one place.
Extract ==
  /\ uploader = "next"
  /\ uploadQueue # <<>>
  /\ Head(uploadQueue) # Quit
  /\ item' = Head(uploadQueue)
  /\ uploadQueue' = Tail(uploadQueue)
  /\ uploader' = "remove"
  /\ UNCHANGED <<heap, files, signalled, netList, bucket>>

UploaderQuit ==
  /\ uploader = "next"
  /\ uploadQueue # <<>>
  /\ Head(uploadQueue) = Quit
  /\ uploader' = "exited"
  /\ UNCHANGED <<heap, files, uploadQueue, item, signalled, netList, bucket>>

\* Mutant: queue[0] is read again after the shift.
RemoveFileOfNext ==
  /\ uploader = "remove"
  /\ files' = files \ (IF uploadQueue = <<>> THEN {}
                        ELSE {function[n] : n \in {Head(uploadQueue)} \ {Quit}})
  /\ uploader' = "upload"
  /\ UNCHANGED <<heap, uploadQueue, item, signalled, netList, bucket>>

\* The file goes before the object is made of it, and under whatever node the
\* function is on disk by now.
RemoveFile ==
  /\ uploader = "remove"
  /\ files' = files \ {function[item]}
  /\ uploader' = "upload"
  /\ UNCHANGED <<heap, uploadQueue, item, signalled, netList, bucket>>

\* There is something to upload only if the writer has exported the function
\* again since the file was removed; without a file no object comes to be.
UploadObject ==
  /\ uploader = "upload"
  /\ bucket' = bucket \cup ({function[item]} \cap files)
  /\ uploader' = "link"
  /\ UNCHANGED <<heap, files, uploadQueue, item, signalled, netList>>

\* The list gets its node, whatever has become of the upload, and the disk_node
\* is freed.
LinkAndFree ==
  /\ uploader = "link"
  /\ netList' = netList \cup {function[item]}
  /\ Free(item)
  /\ item' = NoNode
  /\ uploader' = "next"
  /\ UNCHANGED <<files, uploadQueue, signalled, bucket>>

InsertNetCache == RemoveFile \/ UploadObject \/ LinkAndFree

NetThreadFunc == UploaderSleep \/ Extract \/ UploaderQuit \/ InsertNetCache

-----------------------------------------------------------------------------
UploaderPCs == {"next", "asleep", "remove", "upload", "link", "exited"}

\* The node of queue entries other than the "quit" of destroyNetCache.
QueuedNodes == Elements(uploadQueue) \ {Quit}

\* The thread has deleted the file and not yet entered the function in the list.
Uploading(f) == uploader \in {"upload", "link"} /\ function[item] = f
=============================================================================
