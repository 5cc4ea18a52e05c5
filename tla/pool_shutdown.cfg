SPECIFICATION Spec
CONSTANTS
  t1 = t1
  t2 = t2
  t3 = t3
  Tasks = {t1, t2, t3}
  Main = Main
  Setups <- RefusingOnly
  MaxRetries = 1
  MaxFailures = 1
INVARIANTS ShutdownClosesAll
CHECK_DEADLOCK FALSE
