SPECIFICATION Spec
CONSTANTS
  MaxAttempts = 2
  MaxFaults = 2
  None = None
INVARIANT EvidencePrecedesReference
INVARIANT NoLoggedEmissionIsPending
INVARIANT SequencesIdentify
INVARIANT ReleaseIsRecorded
\* The item is delivered, or has no attempt left.
CHECK_DEADLOCK FALSE
