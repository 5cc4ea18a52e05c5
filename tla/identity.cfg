SPECIFICATION FairSpec
CONSTANTS
  Tasks = {t1, t2}
  SigningKeys = {k1, k2}
  CacheTtl = 1
  MaxLatency = 1
  MaxTime = 3
  None = None
INVARIANTS RevokedKeyExpires RotationIsTolerated
PROPERTIES EveryValidationEnds
CHECK_DEADLOCK FALSE
