SPECIFICATION FairSpec
CONSTANTS
  p1 = p1
  p2 = p2
  Peers = {p1, p2}
  Channels = {ch1}
  NoResult = NoResult
  DiscoveryResults <- ShrinkingResults
  Requests = {k1}
  EndorseOps = {e1}
  EvaluateOps = {v1}
  SubmitOps = {s1}
  Queries = {k1, e1, v1, s1}
  Payloads = {x, y}
  Damages = {"other digest", "no peers", "second peer"}
  OrdererConfigured = FALSE
  TTL = 0
  Deadline = 0
  Horizon = 0
  MayFail = TRUE
CHECK_DEADLOCK FALSE
INVARIANT SnapshotIsExact
INVARIANT EnvelopesAreUnanimous
PROPERTY ImplementsSubmitOnce
PROPERTY EveryOperationReturns
