CONSTANTS
  Kinds = {"xray", "hysteria"}
  MaxCancels <- MCMaxCancels
SPECIFICATION StartSpec
CHECK_DEADLOCK FALSE
INVARIANTS
  NoConfigLeft
