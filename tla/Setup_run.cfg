CONSTANTS
  r1 = r1
  r2 = r2
  Runs <- MCRuns
  Tools <- MCTools
  Before <- MCBefore
SYMMETRY RunsAreAlike
SPECIFICATION Spec
CHECK_DEADLOCK FALSE
INVARIANTS
  ReportStays
  VersionStays
  TempsRemoved
PROPERTIES
  TargetsWhole
  OnlyMissingReplaced
