SPECIFICATION Spec
CONSTANTS
  a = a  b = b  c = c
  r1 = r1  r2 = r2
  None = None
  NoHead = NoHead
  RequiredApprovals = 1
  RequireReviewers = TRUE
  Items = {a, b, c}
  BlockedBy <- Fork
  Completed = {}
  Policies = {"wave_barrier", "continuous_frontier"}
  Revisions = {r1, r2}
  InitialRevision = r1
  MaxWaves = 6
  MaxAttempts = 2
  Observations <- Reported
INVARIANT WavesAgree
INVARIANT DecisionIsCurrent
PROPERTY ReleaseNeedsCurrentEvidence
PROPERTY ImplementsGatedDelivery
\* Nothing is left to do once every item is released.
CHECK_DEADLOCK FALSE
