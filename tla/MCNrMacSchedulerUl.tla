-------------------------- MODULE MCNrMacSchedulerUl --------------------------
(***************************************************************************)
(* TLC instance of NrMacSchedulerUl: SRB1 alone in LCG 0, every DRB in the *)
(* same other group.                                                       *)
(***************************************************************************)
EXTENDS NrMacSchedulerUl

MCLcgOf == [l \in LCs |-> IF l = 1 THEN 0 ELSE 2]
=============================================================================
