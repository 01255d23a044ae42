SPECIFICATION FairSpec
CONSTANTS
  p1 = p1
  p2 = p2
  Peers = {p1, p2}
  Channels = {ch}
  SortedByURL <- Sorted
  DiscoveryResults <- ChangingResults
  SubmitCalls = {s1}
  EvaluateCalls = {e1, e2}
  BoundedCalls = {s1}
  OrdererConfigured = FALSE
CHECK_DEADLOCK FALSE
INVARIANT SubmitRefusalsAreFinal
INVARIANT ExhaustionIsComplete
INVARIANT RoundRobinIsFair
PROPERTY ImplementsSubmitOnce
PROPERTY BoundedCallsReturn
