---------------------------- MODULE UplinkService ----------------------------
(***************************************************************************)
(* What the uplink promises to one UE, whatever requests, reports, grants  *)
(* and timers it takes: what the UE reports as queued is either withdrawn  *)
(* or eventually served, and only a grant in use counts as service.        *)
(***************************************************************************)
EXTENDS Naturals

CONSTANT MaxBuf   \* bound on the queue

VARIABLES
    queue,    \* what RLC reported and no grant has taken yet
    served    \* the last step served the queue

vars == <<queue, served>>

Init == queue = 0 /\ served = FALSE

Arrive == queue' \in 0 .. MaxBuf /\ served' = FALSE
Serve  == queue > 0 /\ queue' \in 0 .. queue - 1 /\ served' = TRUE

Next == Arrive \/ Serve
Spec == Init /\ [][Next]_vars /\ WF_vars(Serve)
=============================================================================
