SPECIFICATION FairSpec
CONSTANTS
  Lookups = {l1}
  Waits = {w1}
  Transactions = {t1}
  DeadlineCalls = {w1}
  Streams = {s1}
  Disconnects = {d1, d2}
  MaxEvents = 2
  Nobody = Nobody
CHECK_DEADLOCK FALSE
INVARIANT CheckedConnectionIsOpen
INVARIANT EventsArriveInOrder
PROPERTY OnlyEndlessCallsBlock
