------------------------ MODULE MCDiscoverySession ------------------------
(***************************************************************************)
(* Instances of DiscoverySession for TLC.                                   *)
(***************************************************************************)
EXTENDS DiscoverySession

CONSTANTS p1, p2

Listing(peers, orderer) == [peers |-> peers, orderer |-> orderer]

\* Both peers; one of them has left.
TwoMemberships == {Listing(<<p1, p2>>, TRUE), Listing(<<p2>>, TRUE)}

=============================================================================
