CONSTANTS
  Kinds = {"xray", "hysteria"}
  MaxCancels <- MCMaxCancels
SPECIFICATION StartSpec
CHECK_DEADLOCK FALSE
INVARIANTS
  AbortLeavesNothing
  CancellationSurvives
  TimeoutIsOwn
PROPERTIES
  AbortPromiseKept
  StartEnds
