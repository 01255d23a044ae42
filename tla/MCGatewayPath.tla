---------------------------- MODULE MCGatewayPath ----------------------------
(***************************************************************************)
(* Instances of GatewayPath for TLC.                                        *)
(***************************************************************************)
EXTENDS GatewayPath

=============================================================================
