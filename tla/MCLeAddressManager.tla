-------------------------- MODULE MCLeAddressManager --------------------------
(* LeAddressManager for TLC.                                                 *)
EXTENDS LeAddressManager

=============================================================================
