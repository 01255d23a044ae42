SPECIFICATION FairSpec
CONSTANTS
  p1 = p1
  p2 = p2
  Peers = {p1, p2}
  Channels = {ch1}
  NoResult = NoResult
  DiscoveryResults <- ShrinkingResults
  Payloads = {x, y}
  SubmitCalls = {s1}
  EvaluateCalls = {e1}
  OrdererConfigured = FALSE
CHECK_DEADLOCK FALSE
INVARIANT EnvelopesAreUnanimous
INVARIANT ResultsAreUnanimous
INVARIANT OnlyDiscoveredPeersAreAsked
PROPERTY ImplementsSubmitOnce
PROPERTY EveryCallReturns
