CONSTANTS
  MaxKeys <- MCMaxKeys
  MaxRedirects <- MCMaxRedirects
  MaxAttempts <- MCMaxAttempts
  Target <- MCTarget
  MaxCancels <- MCMaxCancels
SPECIFICATION Spec
CHECK_DEADLOCK FALSE
PROPERTIES
  Bounded
