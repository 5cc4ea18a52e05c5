SPECIFICATION FairSpec
CONSTANTS
  t1 = t1
  t2 = t2
  t3 = t3
  Callers = {t1, t2, t3}
  Subject <- Subjects
  Grant <- OneGrant
  CacheTtl = 1
  MaxLatency = 1
  Lives = {2, 3}
  MaxTime = 3
  None = None
INVARIANTS OwnToken SingleFlight ReturnedAlive
PROPERTIES NoNeedlessExchange EveryCallReturns
CHECK_DEADLOCK FALSE
