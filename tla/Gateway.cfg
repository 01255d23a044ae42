SPECIFICATION FairSpec
CONSTANTS
  Submits = {t1}
  Evaluates = {v1}
  Requests = {k1}
  EndorseOps = {e1}
  EvaluateOps = {x1}
  SubmitOps = {s1}
  Waits = {w1, w2}
  Damages = {"encoding", "no routing", "other routing", "bytes", "digest"}
  None = None
CHECK_DEADLOCK FALSE
INVARIANT StatusesAreTrue
INVARIANT DamagedAreRefused
PROPERTY ImplementsSubmitOnce
PROPERTY EveryWaitReturns
