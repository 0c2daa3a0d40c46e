------------------------------ MODULE AmService ------------------------------
(***************************************************************************)
(* What RLC AM promises PDCP: the SDUs it accepts reach the peer once, in  *)
(* the order of their acceptance, and every one of them does.              *)
(***************************************************************************)
EXTENDS Naturals, Sequences

CONSTANT MaxSdus    \* bound on the SDUs accepted

VARIABLES
    accepted,  \* how many SDUs the transmitter has taken
    delivered  \* the SDUs the receiver has given to its PDCP

vars == <<accepted, delivered>>

Init == accepted = 0 /\ delivered = <<>>

Accept ==
    /\ accepted < MaxSdus
    /\ accepted' = accepted + 1
    /\ UNCHANGED delivered

(* One PDU that fills a gap releases those behind it too. *)
Deliver ==
    /\ \E k \in 1..accepted :
          k > Len(delivered) /\ delivered' = [i \in 1..k |-> i]
    /\ UNCHANGED accepted

Next == Accept \/ Deliver
Spec == Init /\ [][Next]_vars /\ WF_vars(Deliver)
=============================================================================
