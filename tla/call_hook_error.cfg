SPECIFICATION Spec
CONSTANTS
  Requests = {r1}
  Deployments <- FullDeployment
  MaxRetries = 0
INVARIANTS HookErrorsFailClosed
CHECK_DEADLOCK FALSE
