------------------------------ MODULE KeepAlive ------------------------------
(***************************************************************************)
(* What the emulator promises about the life of a container, without the   *)
(* lists, locks and counters it uses: the keep-alive policy of a FaaS      *)
(* platform.  A container is made for one function, serves one worker at a *)
(* time and that function only, waits in a cache between two invocations,  *)
(* and once retired from the cache it is stopped and never serves again.   *)
(* RamCache implements this specification.                                 *)
(***************************************************************************)
EXTENDS Naturals, Sequences

CONSTANTS Workers, Containers, Functions, NoFunction, NoWorker

VARIABLES
  wants,    \* the function each worker has to run, NoFunction if none
  status,   \* the stage of its life each container is in
  made,     \* the function it was made for
  server,   \* the worker it serves, NoWorker if none
  cache     \* the idle containers, longest idle first

kaVars == <<wants, status, made, server, cache>>

KAInit ==
  /\ wants = [w \in Workers |-> NoFunction]
  /\ status = [c \in Containers |-> "absent"]
  /\ made = [c \in Containers |-> NoFunction]
  /\ server = [c \in Containers |-> NoWorker]
  /\ cache = <<>>

Become(c, stage) == status' = [status EXCEPT ![c] = stage]
WithoutContainer(w) == \A c \in Containers : server[c] # w

Request(w, f) ==
  /\ wants[w] = NoFunction
  /\ wants' = [wants EXCEPT ![w] = f]
  /\ UNCHANGED <<status, made, server, cache>>

\* There is no room for a container.
Refuse(w) ==
  /\ wants[w] # NoFunction
  /\ WithoutContainer(w)
  /\ wants' = [wants EXCEPT ![w] = NoFunction]
  /\ UNCHANGED <<status, made, server, cache>>

\* A worker is given a new container for what it has to run.
Launch(w, c) ==
  /\ wants[w] # NoFunction
  /\ WithoutContainer(w)
  /\ status[c] = "absent"
  /\ Become(c, "starting")
  /\ made' = [made EXCEPT ![c] = wants[w]]
  /\ server' = [server EXCEPT ![c] = w]
  /\ UNCHANGED <<wants, cache>>

Boot(c) ==
  /\ status[c] = "starting"
  /\ Become(c, "busy")
  /\ UNCHANGED <<wants, made, server, cache>>

\* The invocation is over and the container is kept.
Release(w, c) ==
  /\ status[c] = "busy"
  /\ server[c] = w
  /\ Become(c, "idle")
  /\ wants' = [wants EXCEPT ![w] = NoFunction]
  /\ server' = [server EXCEPT ![c] = NoWorker]
  /\ cache' = Append(cache, c)
  /\ UNCHANGED made

\* A warm start takes the longest idle container of the function.
Reuse(w) ==
  \E i \in DOMAIN cache :
    /\ wants[w] # NoFunction
    /\ WithoutContainer(w)
    /\ made[cache[i]] = wants[w]
    /\ \A j \in 1..i - 1 : made[cache[j]] # wants[w]
    /\ status[cache[i]] = "idle"
    /\ Become(cache[i], "busy")
    /\ server' = [server EXCEPT ![cache[i]] = w]
    /\ cache' = SubSeq(cache, 1, i - 1) \o SubSeq(cache, i + 1, Len(cache))
    /\ UNCHANGED <<wants, made>>

\* The k containers that have been idle longest leave the cache for good.
Retire(k) ==
  /\ k \in 1..Len(cache)
  /\ status' = [c \in Containers |->
                  IF \E i \in 1..k : cache[i] = c THEN "retired" ELSE status[c]]
  /\ cache' = SubSeq(cache, k + 1, Len(cache))
  /\ UNCHANGED <<wants, made, server>>

Stop(c) ==
  /\ status[c] = "retired"
  /\ Become(c, "stopped")
  /\ UNCHANGED <<wants, made, server, cache>>

KANext ==
  \/ \E w \in Workers, f \in Functions : Request(w, f)
  \/ \E w \in Workers : Refuse(w) \/ Reuse(w)
  \/ \E w \in Workers, c \in Containers : Launch(w, c) \/ Release(w, c)
  \/ \E c \in Containers : Boot(c) \/ Stop(c)
  \/ \E k \in 1..Len(cache) : Retire(k)

KASafety == KAInit /\ [][KANext]_kaVars

\* A container podman was asked for is put to use, and one that is retired is
\* stopped: neither waits for ever.
KALiveness ==
  \A c \in Containers : /\ status[c] = "starting" ~> status[c] = "busy"
                        /\ status[c] = "retired" ~> status[c] = "stopped"

KASpec == KASafety /\ KALiveness
=============================================================================
