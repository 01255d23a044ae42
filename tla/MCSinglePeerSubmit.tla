------------------------ MODULE MCSinglePeerSubmit ------------------------
(***************************************************************************)
(* Instances of SinglePeerSubmit for TLC.                                   *)
(***************************************************************************)
EXTENDS SinglePeerSubmit, Functions

CONSTANTS p1, p2, p3

Listing(peers, orderer) == [peers |-> peers, orderer |-> orderer]

\* Three peers and an orderer; a membership that shrank to the last of them
\* and whose configuration names no orderer.
ShrinkingResults ==
  {Listing(<<p1, p2, p3>>, TRUE), Listing(<<p3>>, FALSE)}

\* p2 and p3 share a host: peers are sorted by host name, so discovery may
\* list those two either way round.
SameHostResults ==
  {Listing(<<p1, p2, p3>>, TRUE), Listing(<<p1, p3, p2>>, TRUE)}

-----------------------------------------------------------------------------
TurnsOfSet(ch, S, p) ==
  FoldFunctionOnSet(LAMBDA x, y : x + y, 0, [k \in DOMAIN turns |-> turns[k][p]],
    {k \in DOMAIN turns : k[1] = ch /\ PeersOf(k[2]) = S})

(* What ADR-0001 says of round-robin: it is scoped to the SDK instance and  *)
(* the effective peer set, so the turns of a set are shared by all orders   *)
(* in which a discovery may list it.                                        *)
RoundRobinIsScopedToPeerSet ==
  \A ch \in Channels, s \in PeerLists :
    LET S == PeersOf(s)
    IN \A p, q \in S : TurnsOfSet(ch, S, p) <= TurnsOfSet(ch, S, q) + 1

=============================================================================
