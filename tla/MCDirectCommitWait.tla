------------------------- MODULE MCDirectCommitWait -------------------------
(***************************************************************************)
(* Instances of DirectCommitWait for TLC.                                   *)
(***************************************************************************)
EXTENDS DirectCommitWait

ASSUME OneNameEach == WaitsAreConnections

=============================================================================
