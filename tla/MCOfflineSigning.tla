------------------------- MODULE MCOfflineSigning -------------------------
(***************************************************************************)
(* Instances of OfflineSigning for TLC.                                     *)
(***************************************************************************)
EXTENDS OfflineSigning

CONSTANTS p1, p2

Listing(peers, orderer) == [peers |-> peers, orderer |-> orderer]

\* Both peers and an orderer; one peer has left and the orderer is gone.
ShrinkingResults == {Listing(<<p1, p2>>, TRUE), Listing(<<p2>>, FALSE)}

=============================================================================
