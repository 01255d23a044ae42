SPECIFICATION Spec
CONSTANTS
  p1 = p1
  p2 = p2
  Peers = {p1, p2}
  Channels = {ch1}
  NoResult = NoResult
  DiscoveryResults <- ShrinkingResults
  Requests = {k1}
  EndorseOps = {e1}
  EvaluateOps = {}
  SubmitOps = {}
  Queries = {k1, e1}
  Payloads = {x}
  Damages = {}
  OrdererConfigured = FALSE
  TTL = 1
  Deadline = 1
  Horizon = 4
  MayFail = TRUE
CHECK_DEADLOCK FALSE
PROPERTY ProposalsGoToListedPeers
