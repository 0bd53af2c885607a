---------------------------- MODULE DeliveryGate ----------------------------
(***************************************************************************)
(* The delivery gate of src/mergewave/simulator.py: how one observation of *)
(* a work item's workspace, pull request, CI, reviews and merge is turned  *)
(* into a decision.  Operators only, no state.                             *)
(*                                                                         *)
(* An observation o is a record with the fields                            *)
(*   workspace   repository, worktree path and branch, as one identity     *)
(*   base        base_revision;  initialHead   initial_head_revision       *)
(*   prHead      pr_head_sha, NoHead when there is no pull request         *)
(*   ciHead, ciPending, ciPassed, linked (linked_to_ticket is True),       *)
(*   ancestor (base_is_ancestor)                                           *)
(*   changesOpen   changes_requested or reviews_resolved is False          *)
(*   reviewersOk   required_reviewers_satisfied is True                    *)
(*   approvals, merged                                                     *)
(*   inTarget    merge_revision_in_target: "yes", "no" or "unknown"        *)
(* and a dispatch d has the workspace and the base it was assigned.        *)
(***************************************************************************)
EXTENDS Naturals, FiniteSetsExt

CONSTANTS
  NoHead,             \* the empty pr_head_sha
  RequiredApprovals,  \* ReviewPolicy.required_approvals
  RequireReviewers    \* whether ReviewPolicy.required_reviewers is non-empty

ASSUME GateAssumption ==
  /\ RequiredApprovals \in Nat \ {0}
  /\ RequireReviewers \in BOOLEAN

\* The checks of _classify in the order of the code: a failure code and the
\* condition under which it is returned.
Checks(d, o) ==
  << <<"workspace_drift",              o.workspace # d.workspace>>,
     <<"workspace_drift",              o.base # d.base>>,
     <<"workspace_drift",              o.initialHead # o.base>>,
     <<"missing_pull_request",         o.prHead = NoHead>>,
     <<"ci_pending",                   o.ciPending>>,
     <<"stale_ci",                     o.ciHead # o.prHead>>,
     <<"pull_request_unlinked",        ~o.linked>>,
     <<"base_revision_mismatch",       ~o.ancestor>>,
     <<"ci_failed",                    ~o.ciPassed>>,
     <<"review_changes_requested",     o.changesOpen>>,
     <<"required_reviewer_missing",    RequireReviewers /\ ~o.reviewersOk>>,
     <<"review_pending",               o.approvals < RequiredApprovals>>,
     <<"merge_not_observed",           ~o.merged>>,
     <<"merge_revision_not_in_target", o.inTarget = "no">> >>

\* The code of the first check that fails, "none" when none does.
FirstFailure(checks) ==
  LET failing == {n \in DOMAIN checks : checks[n][2]} IN
  IF failing = {} THEN "none" ELSE checks[Min(failing)][1]

\* The merge checks lost: a green, reviewed pull request is released unmerged.
Classify_MergeForgotten(d, o) == FirstFailure([n \in 1..12 |-> Checks(d, o)[n]])

Classify(d, o) == FirstFailure(Checks(d, o))

PendingCodes == {"ci_pending", "stale_ci", "review_pending", "merge_not_observed"}

\* GateDecision(status, failure) as evaluate_gate computes it.
Decide(d, o) ==
  LET code == Classify(d, o) IN
  [status |-> IF code = "none" THEN "approved"
              ELSE IF code \in PendingCodes THEN "pending" ELSE "blocked",
   code   |-> code]

FailureCodes ==
  {"workspace_drift", "missing_pull_request", "ci_pending", "stale_ci",
   "pull_request_unlinked", "base_revision_mismatch", "ci_failed",
   "review_changes_requested", "required_reviewer_missing", "review_pending",
   "merge_not_observed", "merge_revision_not_in_target"}

Decision == [status : {"approved", "pending", "blocked"},
             code   : FailureCodes \cup {"none"}]

\* The gate contract of the design document, written as one condition: what an
\* observation must show before the item of dispatch d may be released.
MeetsContract(d, o) ==
  /\ o.workspace = d.workspace
  /\ o.base = d.base /\ o.initialHead = d.base
  /\ o.prHead # NoHead /\ o.linked /\ o.ancestor
  /\ ~o.ciPending /\ o.ciPassed /\ o.ciHead = o.prHead
  /\ ~o.changesOpen /\ o.approvals >= RequiredApprovals
  /\ RequireReviewers => o.reviewersOk
  /\ o.merged /\ o.inTarget # "no"
=============================================================================
