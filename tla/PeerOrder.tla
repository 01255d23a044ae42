------------------------------ MODULE PeerOrder ------------------------------
(***************************************************************************)
(* Lists of peer endpoints, and the rotation that lets a call begin with    *)
(* the peer whose turn it is.  The Node bridge and the Go bridge rotate in  *)
(* the same way.                                                            *)
(***************************************************************************)
EXTENDS Integers, Sequences

NoRepeats(s) == \A i, j \in DOMAIN s : s[i] = s[j] => i = j

PeersOf(s) == {s[i] : i \in DOMAIN s}

\* mutant: slice(start) is padded, not wrapped
RotateFromPadded(peers, start) ==
  [i \in 1..Len(peers) |->
     peers[IF i + start <= Len(peers) THEN i + start ELSE Len(peers)]]

(* peers.slice(start).concat(peers.slice(0, start)), start from zero.       *)
RotateFrom(peers, start) ==
  [i \in 1..Len(peers) |->
     peers[IF i + start <= Len(peers) THEN i + start ELSE i + start - Len(peers)]]

=============================================================================
