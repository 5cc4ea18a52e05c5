SPECIFICATION FairLifespan
CONSTANTS
  c1 = c1
  c2 = c2
  Calls = {c1, c2}
  Sse = {c2}
  QueueSize = 2
  MaxEvents = 4
  Retries = 1
  MaxFaults = 2
INVARIANTS CountedOncePerSending NothingVanishes StopDeliversAll EveryCallIsCounted
PROPERTIES ShutdownEnds
CHECK_DEADLOCK FALSE
