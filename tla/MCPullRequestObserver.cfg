SPECIFICATION Spec
CONSTANTS
  bob = bob
  None = None
  NoHead = NoHead
  RequiredApprovals = 1
  RequireReviewers = TRUE
  Reviewers = {bob}
  RequiredReviewers = {bob}
  MaxHeads = 2
  RealWorkspace = "worktree"
  AssignedWorkspace = "worktree"
INVARIANT ApprovedHeadWasGreen
PROPERTY DeliverableIsApproved
