------------------------------ MODULE MCRfcomm ------------------------------
(* Model checking of Rfcomm: the two devices run the same code.            *)
EXTENDS Rfcomm, TLC

MCSymmetry == Permutations(Peers)
=============================================================================
