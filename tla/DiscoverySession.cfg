SPECIFICATION SessionFairSpec
CONSTANTS
  p1 = p1
  p2 = p2
  Peers = {p1, p2}
  Channels = {ch1}
  NoResult = NoResult
  DiscoveryResults <- TwoMemberships
  Queries = {q1, q2, q3}
  TTL = 1
  Deadline = 1
  Horizon = 3
  MayFail = TRUE
CHECK_DEADLOCK FALSE
INVARIANT ListingsAreRecent
PROPERTY RetriesEnd
