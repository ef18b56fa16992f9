CONSTANTS
  MaxKeys <- MCMaxKeys
  MaxRedirects <- MCMaxRedirects
  MaxAttempts <- MCMaxAttempts
  Target <- MCTarget
  MaxCancels <- MCMaxCancels
SPECIFICATION Spec
CHECK_DEADLOCK FALSE
INVARIANTS
  VerdictMissesLittle
  ReportsFollow
  CancellationPassedOn
  OnlyPublicContacted
PROPERTIES
  TimeoutEndsAttempts
  SubscriptionEnds
