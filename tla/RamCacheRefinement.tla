------------------------- MODULE RamCacheRefinement -------------------------
(***************************************************************************)
(* RamCache implements KeepAlive: the life of a container is read off the  *)
(* lists of the emulator.                                                  *)
(***************************************************************************)
EXTENDS RamCache

NoWorker == NoContainer

Stage(c) ==
  CASE life[c] \in {"absent", "stopped"} -> life[c]
    [] life[c] \in Live /\ InRam(c) -> "idle"
    [] life[c] \in Live /\ ~InRam(c) /\ (\E w \in Workers : InHand(w, c)) ->
         IF life[c] = "created" THEN "starting" ELSE "busy"
    [] OTHER -> "retired"

Server(c) ==
  IF \E w \in Workers : InHand(w, c)
    THEN CHOOSE w \in Workers : InHand(w, c)
    ELSE NoWorker

Wants == [w \in Workers |-> IF pc[w] = "idle" THEN NoFunction ELSE job[w]]
Status == [c \in Containers |-> Stage(c)]
Servers == [c \in Containers |-> Server(c)]

Kept == INSTANCE KeepAlive WITH
  wants <- Wants,
  status <- Status,
  made <- fn,
  server <- Servers,
  cache <- ram

\* The workers, the writer and the shutdown together only do to a container
\* what the keep-alive policy allows, in its order: no reuse for another
\* function or by two workers, no stop of a busy or cached container, eviction
\* in the order of the list (ram_cache.c, invocation.c:90-139, disk_cache.c:389).
KeepsThePolicy == Kept!KASafety

\* Under fair scheduling no container stays half made or half killed.
NothingHalfDone == Kept!KALiveness
=============================================================================
