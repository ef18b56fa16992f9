CONSTANTS
  Kinds = {"xray", "hysteria"}
  MaxCancels <- MCMaxCancels
  Timeout <- MCTimeout
  StopTimeout <- MCStopTimeout
SPECIFICATION Spec
CHECK_DEADLOCK FALSE
INVARIANTS
  TornDown
  CancelledExactly
  AnswerAwaited
PROPERTIES
  EndsUnlessHeld
  StopPromiseKept
