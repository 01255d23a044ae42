------------------------- MODULE MCBridgeConnection -------------------------
(***************************************************************************)
(* Instances of BridgeConnection for TLC.                                   *)
(***************************************************************************)
EXTENDS BridgeConnection

=============================================================================
