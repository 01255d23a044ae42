----------------------- MODULE MCGoSinglePeerSubmit -----------------------
(***************************************************************************)
(* Instances of GoSinglePeerSubmit for TLC.                                 *)
(***************************************************************************)
EXTENDS GoSinglePeerSubmit

CONSTANTS p1, p2

ByURL == <<p1, p2>>

Sorted == [S \in SUBSET Peers |-> SelectSeq(ByURL, LAMBDA p : p \in S)]

Listing(peers, orderer) == [peers |-> peers, orderer |-> orderer]

\* A membership that changes and a configuration that may lack an orderer.
ChangingResults == {Listing({p1, p2}, TRUE), Listing({p2}, FALSE)}

TwoPeers == {Listing({p1, p2}, TRUE), Listing({p1, p2}, FALSE)}

=============================================================================
