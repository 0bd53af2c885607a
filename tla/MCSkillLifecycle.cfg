SPECIFICATION Spec
CONSTANTS
  Stages <- DefaultStages
  Writers = {3, 4}
  Artifacts = {3}
  Expiring = {4}
INVARIANT StagesInOrder
INVARIANT SilentEndIsComplete
INVARIANT SettledLifecycleAccepted
INVARIANT CancelledStopsThere
\* The attempt ends.
CHECK_DEADLOCK FALSE
