SPECIFICATION FairSpec
CONSTANTS
  p1 = p1
  p2 = p2
  p3 = p3
  Peers = {p1, p2, p3}
  Channels = {ch}
  NoResult = NoResult
  DiscoveryResults <- ShrinkingResults
  SubmitCalls = {s1}
  EvaluateCalls = {e1}
  OrdererConfigured = FALSE
CHECK_DEADLOCK FALSE
INVARIANT TypeOK
INVARIANT EnvelopesAreEndorsed
INVARIANT AttemptsVisitDistinctPeers
INVARIANT ExhaustionIsComplete
INVARIANT NoFailoverAfterRefusal
INVARIANT RoundRobinIsFair
PROPERTY ImplementsSubmitOnce
PROPERTY EveryCallReturns
