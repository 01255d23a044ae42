SPECIFICATION WaitFairSpec
CONSTANTS
  Conns = {w1, w2}
  StatusCalls = {w1, w2}
  Online = {t1}
  Offline = {t2}
  TxIds = {t1, t2}
  Callers = {c1, c2}
  NoConn = NoConn
  SignerFails = TRUE
CHECK_DEADLOCK FALSE
INVARIANT AllWaitersAgree
INVARIANT ConnectionsAreClosed
PROPERTY EveryWaitReturns
