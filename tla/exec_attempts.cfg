SPECIFICATION FairSpec
CONSTANTS
  MaxAttempts = 3
  CancelMayCome = TRUE
  CrashMayCome = TRUE
  RewriteMayFail = FALSE
  Faults = {"docker", "slowStart"}
INVARIANTS
  NoContainerLeft
  OnlyRealFailuresReported
PROPERTIES
  HardTimeoutEndsRun
