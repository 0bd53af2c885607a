SPECIFICATION Spec
CONSTANTS
  a = a  b = b  c = c
  None = None
  NoHead = NoHead
  Items = {a, b}
  BlockedBy <- Chain
  Completed = {}
  Configured = FALSE
  Policies = {"continuous_frontier", "wave_barrier"}
  MaxWaves = 2
  MaxAttempts = 2
  MaxTip = 1
  MaxCrashes = 1
  MaxFailures = 1
INVARIANT TypeOK
INVARIANT OneAttemptAtATime
INVARIANT RestartFindsActiveWork
PROPERTY DoneOnlyMerged
\* Nothing is left to do once every item is delivered.
CHECK_DEADLOCK FALSE
