CONSTANTS
  Kinds = {"xray", "hysteria"}
  MaxCancels <- MCMaxCancels
SPECIFICATION Spec
CHECK_DEADLOCK FALSE
INVARIANTS
  TypeOK
  TornDown
  NoLateSuccess
  RaisesExactly
  TimeoutHasCause
PROPERTIES
  VerifyEnds
  StopPromiseKept
