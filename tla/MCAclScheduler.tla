--------------------------- MODULE MCAclScheduler ---------------------------
(* AclScheduler for TLC: one or two devices of ours and one that calls.      *)
EXTENDS AclScheduler
=============================================================================
