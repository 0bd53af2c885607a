SPECIFICATION Spec
CONSTANTS
  a = a  b = b  c = c
  None = None
  NoHead = NoHead
  Items = {a, b, c}
  BlockedBy <- Fork
  Completed = {}
  Configured = TRUE
  Policies = {"continuous_frontier", "wave_barrier"}
  MaxWaves = 3
  MaxAttempts = 1
  MaxTip = 2
  MaxCrashes = 0
  MaxFailures = 1
INVARIANT DependentsStartAfterDurableRelease
INVARIANT RefreshNeverRefused
INVARIANT UninterruptedStartsOnMergedWork
INVARIANT NoReadyItemLeftBehind
\* Nothing is left to do once every item is delivered.
CHECK_DEADLOCK FALSE
