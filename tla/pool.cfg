SPECIFICATION FairSpec
CONSTANTS
  t1 = t1
  t2 = t2
  t3 = t3
  Tasks = {t1, t2, t3}
  Main = Main
  Setups <- AllSetups
  MaxRetries = 1
  MaxFailures = 1
INVARIANTS SessionIsolation OneConnectionPerKey UndisturbedShutdownClosesAll
PROPERTIES CallsStartOnOpenSession EveryoneFinishes
CHECK_DEADLOCK FALSE
