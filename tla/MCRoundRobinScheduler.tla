---------------------- MODULE MCRoundRobinScheduler -----------------------
(* RoundRobinScheduler for TLC.                                              *)
EXTENDS RoundRobinScheduler

MCMaxCredits == [type \in ConnectionType |-> IF type = "CLASSIC" THEN 2 ELSE 1]

=============================================================================
