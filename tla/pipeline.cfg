SPECIFICATION PluginSpec
CONSTANTS
  governance = governance
  audit = audit
  p1 = p1
  p2 = p2
  Hooks = {governance, audit, p1, p2}
  PluginNames = {p1, p2}
  OwnFirst <- GovernanceFirst
  OwnLast <- AuditLast
  Priorities = {50, 100, 150}
  MaxRuns = 2
SYMMETRY PluginSymmetry
INVARIANTS ExecutionOrder FailedPointLeavesNoTrace ErrorHooksAllFire TornDownInReverse
CHECK_DEADLOCK FALSE
