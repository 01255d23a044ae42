SPECIFICATION FairSpec
CONSTANTS
  Conns = {k1, k2}
  Disconnects = {d1, d2}
  StatusCalls = {w1}
  Uses = {u1}
  TxIds = {t1}
  NoConn = NoConn
  SignerFails = FALSE
CHECK_DEADLOCK FALSE
INVARIANT ConnectedIsUsable
PROPERTY CallsUseOpenConnection
PROPERTY EveryCallReturns
