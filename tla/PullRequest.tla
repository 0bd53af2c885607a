---------------------------- MODULE PullRequest ----------------------------
(***************************************************************************)
(* A pull request and what one dispatched work item's reconciliation knows *)
(* of it: the state that PullRequestObserver changes, and what an approval *)
(* must mean.                                                              *)
(***************************************************************************)
EXTENDS DeliveryGate, FiniteSets

CONSTANTS
  Reviewers,          \* the people who review
  RequiredReviewers,  \* the configured required_reviewers
  MaxHeads,           \* bound: pushes to the pull request
  RealWorkspace,      \* the repository and worktree the work is in
  AssignedWorkspace,  \* those the simulator puts in the dispatch
  None                \* no decision yet; no review yet

ASSUME ObserverAssumption ==
  /\ IsFiniteSet(Reviewers) /\ RequiredReviewers \subseteq Reviewers
  /\ RequireReviewers <=> RequiredReviewers # {}
  /\ MaxHeads \in Nat \ {0}
  /\ NoHead \notin 1..MaxHeads
  /\ None \notin {"approved", "pending", "blocked", "APPROVED", "CHANGES_REQUESTED"}

Heads == 1..MaxHeads

VARIABLES
  head,      \* the pull request's head, NoHead while there is none
  merged,    \* merged_at is set
  onTarget,  \* the pull request is opened against the target branch
  descends,  \* the heads that descend from the base revision
  checks,    \* head -> state of its check runs
  reviews,   \* reviewer -> the last review state GitHub lists, None when that
             \* is a comment
  linked,    \* the tracker item links the pull request
  seen,      \* what has been read so far
  decision   \* the status of the last decision, or None

Approved == decision = "approved"

\* Although its parts are read at different times, an approval is about one
\* commit: the head that was merged into the target branch is the head whose
\* checks passed, and it descends from the base.
ApprovedHeadWasGreen ==
  Approved => /\ merged /\ onTarget
              /\ seen.prHead = head
              /\ head \in descends /\ checks[head] = "passed"

\* The author, CI, the reviewers and the person who merges have done their part.
Delivered ==
  /\ merged /\ onTarget /\ linked
  /\ head \in descends /\ checks[head] = "passed"
  /\ \A r \in Reviewers : reviews[r] # "CHANGES_REQUESTED"
  /\ Cardinality({r \in Reviewers : reviews[r] = "APPROVED"}) >= RequiredApprovals
  /\ \A r \in RequiredReviewers : reviews[r] = "APPROVED"

\* Nothing is missing for an approval: the simulator knows the workspace, too.
Deliverable == Delivered /\ RealWorkspace = AssignedWorkspace
=============================================================================
