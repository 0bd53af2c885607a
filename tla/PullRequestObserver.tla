------------------------ MODULE PullRequestObserver ------------------------
(***************************************************************************)
(* One reconciliation of one dispatched work item, read by read, while the *)
(* pull request it looks at keeps changing.  GitHubDeliveryObserver        *)
(* (src/mergewave/github_adapter.py) fetches the pull request, its check   *)
(* runs, its reviews and its ancestry in separate requests; the controller *)
(* then asks Git and the tracker (controller.py _enrich_observation) and   *)
(* hands everything to the gate of DeliveryGate.  The author, CI, the      *)
(* reviewers and the person who merges are external and act between any    *)
(* two reads.                                                              *)
(***************************************************************************)
EXTENDS PullRequest

VARIABLE step  \* the next read of the observer, "idle" between reconciliations

world == <<head, merged, onTarget, descends, checks, reviews, linked>>
vars == <<world, step, seen, decision>>

\* The dispatch the observation is judged by: the simulator composes its workspace
\* from the repository and the root of the worktrees it was built with.
Assigned == [workspace |-> AssignedWorkspace, base |-> "base"]

\* What observe returns when no pull request is listed: the workspace the factory
\* created, which the controller inspected before, and nothing delivered.
NothingSeen ==
  [workspace |-> RealWorkspace, base |-> "base", initialHead |-> "base", prHead |-> NoHead,
   merged |-> FALSE, ciHead |-> NoHead, ciPending |-> FALSE, ciPassed |-> FALSE,
   approvals |-> 0, changesOpen |-> FALSE, reviewersOk |-> FALSE,
   ancestor |-> FALSE, inTarget |-> "unknown", linked |-> FALSE]

TypeOK ==
  /\ head \in Heads \cup {NoHead}
  /\ merged \in BOOLEAN /\ onTarget \in BOOLEAN /\ linked \in BOOLEAN
  /\ descends \subseteq Heads
  /\ checks \in [Heads -> {"none", "running", "passed", "failed"}]
  /\ reviews \in [Reviewers -> {None, "APPROVED", "CHANGES_REQUESTED"}]
  /\ step \in {"idle", "checks", "reviews", "enrich"}
  /\ DOMAIN seen = DOMAIN NothingSeen
  /\ decision \in {"approved", "pending", "blocked", None}

Init ==
  /\ head = NoHead
  /\ merged = FALSE
  /\ onTarget \in BOOLEAN
  /\ descends = {}
  /\ checks = [h \in Heads |-> "none"]
  /\ reviews = [r \in Reviewers |-> None]
  /\ linked = FALSE
  /\ step = "idle"
  /\ seen = NothingSeen
  /\ decision = None

-----------------------------------------------------------------------------
(* The world: author, CI, reviewers, the human who merges, the tracker.    *)

observer == <<step, seen, decision>>

\* The pull request is opened, or a commit is pushed to its branch.
Push ==
  /\ ~merged
  /\ head' = IF head = NoHead THEN 1 ELSE head + 1
  /\ head' \in Heads
  /\ descends' \in {descends, descends \cup {head'}}
  /\ UNCHANGED <<merged, onTarget, checks, reviews, linked, observer>>

\* Bound: checks that passed are not run again, so that a green head is one whose
\* checks are green now.
StartChecks(h) ==
  /\ head # NoHead /\ h <= head
  /\ checks[h] \in {"none", "failed"}
  /\ checks' = [checks EXCEPT ![h] = "running"]
  /\ UNCHANGED <<head, merged, onTarget, descends, reviews, linked, observer>>

FinishChecks(h, result) ==
  /\ checks[h] = "running"
  /\ checks' = [checks EXCEPT ![h] = result]
  /\ UNCHANGED <<head, merged, onTarget, descends, reviews, linked, observer>>

\* The last state GitHub lists counts; a comment listed last counts as nothing.
Review(r, state) ==
  /\ head # NoHead
  /\ reviews' = [reviews EXCEPT ![r] = IF state = "COMMENTED" THEN None ELSE state]
  /\ UNCHANGED <<head, merged, onTarget, descends, checks, linked, observer>>

Merge ==
  /\ head # NoHead /\ ~merged
  /\ merged' = TRUE
  /\ UNCHANGED <<head, onTarget, descends, checks, reviews, linked, observer>>

LinkTicket ==
  /\ head # NoHead
  /\ linked' = ~linked
  /\ UNCHANGED <<head, merged, onTarget, descends, checks, reviews, observer>>

-----------------------------------------------------------------------------
(* The observer.                                                           *)

Goto(next) == step' = next /\ UNCHANGED <<world, decision>>

\* GET pulls: the head and whether it is merged come from this one snapshot.
\* Without a pull request nothing else is fetched.  Reconciliation stops once
\* the item is approved.
ReadPullRequest ==
  /\ step = "idle"
  /\ decision # "approved"
  /\ seen' = [NothingSeen EXCEPT !.prHead = head, !.merged = merged]
  /\ Goto(IF head = NoHead THEN "enrich" ELSE "checks")

\* GET check-runs of the head that was seen.  No run at all counts as pending.
ReadChecks ==
  /\ step = "checks"
  /\ LET state == checks[seen.prHead] IN
     seen' = [seen EXCEPT !.ciHead = IF state = "none" THEN NoHead ELSE seen.prHead,
                          !.ciPending = state \in {"none", "running"},
                          !.ciPassed = state = "passed"]
  /\ Goto("reviews")

\* GET reviews: only the last state listed for each reviewer counts.  GET
\* compare of the base revision with the head that was seen is no step of its
\* own: whether a commit descends from another never changes.
ReadReviews ==
  /\ step = "reviews"
  /\ LET approvers == {r \in Reviewers : reviews[r] = "APPROVED"} IN
     seen' = [seen EXCEPT
       !.approvals = Cardinality(approvers),
       !.changesOpen = \E r \in Reviewers : reviews[r] = "CHANGES_REQUESTED",
       !.reviewersOk = RequiredReviewers \subseteq approvers,
       !.ancestor = seen.prHead \in descends]
  /\ Goto("enrich")

\* The merge flag is fetched again, together with the target branch.
Enriched_MergeReadAgain ==
  [seen EXCEPT !.merged = merged,
               !.inTarget = IF ~merged THEN "unknown" ELSE IF onTarget THEN "yes" ELSE "no",
               !.linked = seen.prHead # NoHead /\ linked]

\* _enrich_observation: the merge commit is looked up in the fetched target
\* branch, and the link is read from the tracker.
Enriched ==
  [seen EXCEPT !.inTarget = IF ~seen.merged THEN "unknown" ELSE IF onTarget THEN "yes" ELSE "no",
               !.linked = seen.prHead # NoHead /\ linked]

\* observe_delivery does not drop the cached decision.
EvaluateGate_FirstDecisionKept ==
  /\ step = "enrich"
  /\ step' = "idle"
  /\ \E observation \in {Enriched} :
       /\ decision' = IF decision = None THEN Decide(Assigned, observation).status ELSE decision
       /\ seen' = IF decision' = "approved" THEN observation ELSE NothingSeen
  /\ UNCHANGED world

\* The last read, the link, is followed at once by observe_delivery, which drops
\* a decision that is not an approval, and evaluate_gate, which classifies the new
\* observation.  What was seen is kept here for an approval only: a later
\* evaluation never looks at an earlier observation.
EvaluateGate ==
  /\ step = "enrich"
  /\ step' = "idle"
  /\ \E observation \in {Enriched} :  \* evaluated once
       /\ decision' = Decide(Assigned, observation).status
       /\ seen' = IF decision' = "approved" THEN observation ELSE NothingSeen
  /\ UNCHANGED world

World ==
  \/ Push \/ Merge \/ LinkTicket
  \/ \E h \in Heads : StartChecks(h) \/ \E result \in {"passed", "failed"} : FinishChecks(h, result)
  \/ \E r \in Reviewers, state \in {"APPROVED", "CHANGES_REQUESTED", "COMMENTED"} : Review(r, state)

Reconcile ==
  ReadPullRequest \/ ReadChecks \/ ReadReviews \/ EvaluateGate

Next == World \/ Reconcile

\* The supervisor reconciles every active item in every cycle; nobody promises
\* that the author, CI or the reviewers ever do anything.
Spec == Init /\ [][Next]_vars /\ WF_vars(Reconcile)

-----------------------------------------------------------------------------
\* When the pull request stays merged, green, reviewed and linked, and the simulator
\* was built with the repository and worktrees that are used, the gate approves it
\* in the end, whatever was read while things were still moving.
DeliverableIsApproved == <>[]Deliverable => <>[]Approved

\* The same without the proviso: workspace_drift means a wrong repository, worktree or
\* branch (design document, lines 120 and 121), and work done where the factory put it
\* is not held back.  It does not hold of the simulator bootstrap.py builds, which is
\* not told where the work is: with another AssignedWorkspace nothing is approved.
DeliveredIsApproved == <>[]Delivered => <>[]Approved
=============================================================================
