CONSTANTS
  Kinds = {"xray", "hysteria"}
  MaxCancels <- MCMaxCancels
SPECIFICATION Spec
CHECK_DEADLOCK FALSE
INVARIANTS
  FoundIsReported
