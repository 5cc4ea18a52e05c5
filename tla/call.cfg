SPECIFICATION FairContent
CONSTANTS
  Requests = {r1}
  Deployments <- AllDeployments
  MaxRetries = 2
  a = a
  b = b
  p = p
  Repos = {a, b, p}
  Listed = {a, p}
  Personal = {p}
  ApiName = ApiName
  NoRepo = NoRepo
  Masked = Masked
  Setups <- SomeSetups
  Responses <- SomeResponses
INVARIANTS NothingSensitiveReleased FilteredExactly DeniedNeverForwarded ContentIsProcessed NothingUnaudited ExecutionsBounded
PROPERTIES ImplementsContract EveryRequestAnswered
CHECK_DEADLOCK FALSE
