---------------------------- MODULE MCNrHandover ----------------------------
\* NrHandover with the gNBs interchangeable: nothing tells one from another.
EXTENDS NrHandover, TLC

GnbSymmetry == Permutations(Gnb)
=============================================================================
