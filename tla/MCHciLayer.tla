----------------------------- MODULE MCHciLayer -----------------------------
(* HciLayer for TLC: the reset and two commands.                             *)
EXTENDS HciLayerRefinement

\* A command of each kind the controller answers differently.
MCRequests ==
  { <<"READ_RSSI", "STATUS_OR_COMPLETE">>, <<"CREATE_CONNECTION", "STATUS">>,
    <<"GET_CAPABILITIES", "COMPLETE">> }
=============================================================================
