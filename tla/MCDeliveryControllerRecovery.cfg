SPECIFICATION Spec
CONSTANTS
  a = a  b = b  c = c
  None = None
  NoHead = NoHead
  Items = {a, b}
  BlockedBy <- Chain
  Completed = {}
  Configured = TRUE
  Policies = {"continuous_frontier", "wave_barrier"}
  MaxWaves = 3
  MaxAttempts = 1
  MaxTip = 2
  MaxCrashes = 1
  MaxFailures = 0
INVARIANT RestartRecovers
\* Nothing is left to do once every item is delivered.
CHECK_DEADLOCK FALSE
