CONSTANTS
  Leader = leader
  Descendants = {child, grandchild, stranger}
  Protected = {stranger}
  MaxCancels <- MCMaxCancels
SPECIFICATION Spec
CHECK_DEADLOCK FALSE
INVARIANTS
  StopComplete
  FailsForProtectedOnly
PROPERTIES
  NothingEscapes
  CallEnds
  GroupEnds
  PromiseKept
