SPECIFICATION FairSpec
CONSTANTS
  p1 = p1
  p2 = p2
  Peers = {p1, p2}
  Channels = {ch}
  SortedByURL <- Sorted
  DiscoveryResults <- TwoPeers
  SubmitCalls = {s1}
  EvaluateCalls = {}
  BoundedCalls = {}
  OrdererConfigured = TRUE
CHECK_DEADLOCK FALSE
PROPERTY EveryCallReturns
