SPECIFICATION Spec
CONSTANTS
  Requests = {r1}
  Deployments <- FullDeployment
  MaxRetries = 0
INVARIANTS UpstreamSeesMaskedInput
CHECK_DEADLOCK FALSE
