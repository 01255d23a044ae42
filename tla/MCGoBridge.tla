----------------------------- MODULE MCGoBridge -----------------------------
(***************************************************************************)
(* Instances of GoBridge for TLC.                                           *)
(***************************************************************************)
EXTENDS GoBridge

=============================================================================
