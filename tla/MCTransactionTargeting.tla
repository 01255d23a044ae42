----------------------- MODULE MCTransactionTargeting -----------------------
(***************************************************************************)
(* Instances of TransactionTargeting for TLC.                               *)
(***************************************************************************)
EXTENDS TransactionTargeting

CONSTANTS h1, h2

Endpoint(scheme, host, upper, port) ==
  [scheme |-> scheme, host |-> host, upper |-> upper, port |-> port, path |-> FALSE]

A == Endpoint("", h1, TRUE, "7051")
AURL == Endpoint("grpcs", h1, FALSE, "7051")
APlain == Endpoint("grpc", h1, FALSE, "7051")
AZero == Endpoint("", h1, FALSE, "07051")
B == Endpoint("", h2, FALSE, "7051")
Bad == Endpoint("", h2, FALSE, "letters")
BadURL == Endpoint("grpcs", h2, FALSE, "letters")
BigPort == Endpoint("", h2, FALSE, "99999")

\* Spellings of two peers, nothing at all, a name without a port, and a port
\* above 65535.
Names == {<<>>, <<A, AURL>>, <<B, AZero, A>>, <<APlain, A>>, <<B, Bad>>, <<BigPort>>}

\* A scheme and no port.
NamesWithURL == {<<A>>, <<A, BadURL>>}

\* A port above 65535.
NamesWithBigPort == {<<A>>, <<BigPort>>}

=============================================================================
