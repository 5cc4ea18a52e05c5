SPECIFICATION FairSpec
CONSTANTS
  QueueSize = 1
  MaxEvents = 1
  Retries = 1
  MaxFaults = 1
PROPERTIES ConnectionIsRetried
CHECK_DEADLOCK FALSE
