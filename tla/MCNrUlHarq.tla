------------------------------ MODULE MCNrUlHarq ------------------------------
(***************************************************************************)
(* TLC instance of NrUlHarq: slots of one and of two data symbols in turn, *)
(* as a flexible slot and an uplink slot of a TDD pattern.                 *)
(***************************************************************************)
EXTENDS NrUlHarq

MCPattern == <<2, 1>>
=============================================================================
