CONSTANTS
  p1 = p1
  p2 = p2
  dc1 = dc1
  dc2 = dc2
  Pings <- MCPings
  Dcs <- MCDcs
  MaxCancels <- MCMaxCancels
SPECIFICATION Spec
CHECK_DEADLOCK FALSE
INVARIANTS
  SuccessIsOwn
  EveryDcReported
  FailureHasCause
  ThreadOnlyLeftTold
  CancellationKept
PROPERTIES
  PingsEnd
