------------------------- MODULE DeliveryController -------------------------
(***************************************************************************)
(* DeliveryController of src/mergewave/controller.py, with the simulator   *)
(* of module MergeWaveSimulator inside it, and what outlives the process:  *)
(* the tracker, the Git worktrees and branches, and the projection of the  *)
(* SQLite event log.  One thread calls the controller.  A handler changes  *)
(* memory and touches the outside world one call at a time; the calls it   *)
(* still has to make are the program todo, executed one action per call,   *)
(* so that a crash, or an exception out of a call, falls between any two.  *)
(*                                                                         *)
(* Left out, because nothing modelled reads them: prompts (every item has  *)
(* one, except that retry passes only its own), skills, ARP records,       *)
(* failure comments and evidence payloads.                                 *)
(***************************************************************************)
EXTENDS Naturals, Sequences, FiniteSets

CONSTANTS
  Items, BlockedBy, Completed, Policies, None, NoHead,
  Configured,   \* the simulator was given the repository and root of the worktrees
  MaxWaves, MaxAttempts,
  MaxTip,       \* bound: merges into the target branch
  MaxCrashes,   \* bound: crashes of the controller process
  MaxFailures   \* bound: external calls that raise

Revisions == 0..MaxTip
InitialRevision == 0

ASSUME ControllerAssumption ==
  /\ BlockedBy \in [Items -> SUBSET Items]
  /\ Completed \subseteq Items
  /\ Policies \subseteq {"continuous_frontier", "wave_barrier"}
  /\ Configured \in BOOLEAN
  /\ MaxWaves \in Nat /\ MaxTip \in Nat /\ MaxCrashes \in Nat /\ MaxFailures \in Nat
  /\ MaxAttempts \in Nat \ {0}

VARIABLES
  policy, dispatched, released, cancelled, activeWave, barrierOpen, baseRevision,
  waves, dispatches, observations, decisions, simWave, attemptNumber,
  active,     \* _active: the items with an active assignment
  published,  \* _review_, _attention_ and _done_state_published, as <<item, state>>
  todo,       \* the calls the running handler still has to make
  alive,      \* FALSE when the controller could not be rehydrated
  tracker,    \* item -> the ticket's state in the tracker
  worktrees,  \* the workspaces whose worktree exists
  branches,   \* the workspaces whose branch exists: destroy keeps the branch
  log,        \* ControllerProjection of the event log
  tip,        \* the target branch: one revision more per merge
  mergedAt,   \* workspace -> the revision its pull request was merged as, or 0
  crashes, failures

simVars == <<policy, dispatched, released, cancelled, activeWave, barrierOpen,
             baseRevision, waves, dispatches, observations, decisions, simWave,
             attemptNumber>>
memory == <<simVars, active, published>>
worldVars == <<tip, mergedAt>>
gitVars == <<worktrees, branches>>
counters == <<crashes, failures>>
vars == <<memory, todo, alive, tracker, gitVars, log, worldVars, counters>>

Workspaces == Items \X (1..MaxAttempts)

\* Where the work in workspace w is found, compared with where it was assigned.
\* bootstrap.py builds the simulator without the real repository and root of the
\* worktrees: the two differ until a restart takes the assignment from the log.
Places(w) == IF Configured THEN {w} ELSE {w, None}

\* What observing place w on base r can show: no pull request (a blocking
\* failure, as failed checks would be), a green one awaiting its merge, or the
\* merge.
Observed(w, r, kind) ==
  [workspace |-> w, base |-> r, initialHead |-> r,
   prHead |-> IF kind = "none" THEN NoHead ELSE "head",
   ciHead |-> IF kind = "none" THEN NoHead ELSE "head",
   ciPending |-> FALSE, ciPassed |-> kind \in {"open", "merged"},
   linked |-> kind # "none", ancestor |-> kind # "none", changesOpen |-> FALSE,
   reviewersOk |-> TRUE, approvals |-> IF kind = "none" THEN 0 ELSE 1,
   merged |-> kind = "merged", inTarget |-> IF kind = "merged" THEN "yes" ELSE "unknown"]

Observations ==
  {Observed(w, r, kind) : w \in Workspaces \cup {None}, r \in Revisions,
                          kind \in {"none", "open", "merged"}}

Sim == INSTANCE MergeWaveSimulator WITH RequiredApprovals <- 1, RequireReviewers <- FALSE

Barrier == policy = "wave_barrier"
Ready == Sim!Sched!PreviewReady

TicketStates == {"Ready", "InProgress", "InReview", "NeedsAttention", "Done", "Cancelled"}

\* What is reduced from the event log, as far as a restart reads it here.
Projection ==
  [tickets  : [Items -> TicketStates \cup {None}],
   keys     : SUBSET (Items \X TicketStates),  \* idempotency keys of ticket events
   base     : Revisions \cup {None},
   assigned : [Items -> Sim!Dispatch \cup {None}],
   waves    : [1..MaxWaves -> Sim!Sched!Wave \cup {None}],  \* those logged as started
   ended    : SUBSET (1..MaxWaves)]  \* those logged as released

\* None is a missing entry: it is none of the values that stand in its place.
ASSUME PlaceholderAssumption ==
  None \notin Sim!Dispatch \cup Observations \cup Sim!Decision \cup Sim!Sched!Wave
              \cup TicketStates \cup Revisions

TypeOK ==
  /\ Sim!TypeOK
  /\ active \subseteq Items
  /\ published \subseteq Items \X {"InReview", "NeedsAttention", "Done"}
  /\ alive \in BOOLEAN
  /\ tracker \in [Items -> TicketStates]
  /\ worktrees \subseteq branches /\ branches \subseteq Workspaces
  /\ log \in Projection
  /\ tip \in Revisions
  /\ mergedAt \in [Workspaces -> Revisions]

Init ==
  /\ Sim!Init
  /\ active = {} /\ published = {} /\ todo = <<>> /\ alive = TRUE
  /\ tracker = [i \in Items |-> IF i \in Completed THEN "Done" ELSE "Ready"]
  /\ worktrees = {} /\ branches = {}
  /\ log = [tickets |-> [i \in Items |-> None], keys |-> {}, base |-> None,
            assigned |-> [i \in Items |-> None], waves |-> [n \in 1..MaxWaves |-> None],
            ended |-> {}]
  /\ tip = 0
  /\ mergedAt = [w \in Workspaces |-> 0]
  /\ crashes = 0 /\ failures = 0

-----------------------------------------------------------------------------
(* The programs handlers leave in todo.                                    *)

\* _set_ticket_state: the tracker first, the event log after it.
Publish(i, state) == <<<<"tracker", i, state>>, <<"ticket", i, state>>>>

\* The loop of dispatch_ready over the items it has still to launch, and the wave
\* that is logged after it.  The items are taken in any order.
Launching(ready) == IF ready = {} THEN <<<<"wave">>>> ELSE <<<<"create", ready>>>>

\* The loop body for one item, after its workspace is created.
Launch(i, rest) ==
  Publish(i, "InProgress") \o <<<<"start", i>>, <<"started", i>>>> \o Launching(rest)

Idle == alive /\ todo = <<>>
Doing(call) == alive /\ todo # <<>> /\ Head(todo)[1] = call
Item == Head(todo)[2]
Done == todo' = Tail(todo)

-----------------------------------------------------------------------------
(* The handlers: public methods of the controller, called when it is idle. *)

\* dispatch_ready with a prompt for every item.  With nothing ready it still
\* logs the current wave, which matters when that was never done.
DispatchReady ==
  /\ Idle
  /\ IF Ready # {}
     THEN Sim!DispatchReady /\ todo' = Launching(Ready)
     ELSE /\ waves # <<>> /\ log.waves[Len(waves)] = None
          /\ UNCHANGED simVars
          /\ todo' = <<<<"wave">>>>
  /\ UNCHANGED <<active, published, alive, tracker, gitVars, log, worldVars, counters>>

\* reconcile of an item whose worktree is gone: the ticket asks for attention.
ReconcileMissing(i) ==
  /\ Idle /\ i \in active
  /\ dispatches[i].workspace \notin worktrees
  /\ todo' = Publish(i, "NeedsAttention")
  /\ UNCHANGED <<memory, alive, tracker, gitVars, log, worldVars, counters>>

\* The merge of any attempt's pull request is taken for the assigned attempt's.
Reconcile_AnyAttempt(i) ==
  /\ Idle /\ i \in active
  /\ LET w == dispatches[i].workspace
         kinds == IF \E n \in 1..MaxAttempts : mergedAt[<<i, n>>] > 0
                  THEN {"merged"} ELSE {"none", "open"} IN
     /\ w \in worktrees
     /\ \E kind \in kinds, place \in Places(w) :
          /\ Sim!ObserveDelivery(i, Observed(place, dispatches[i].base, kind))
          /\ todo' = (IF kind # "none" /\ <<i, "InReview">> \notin published
                      THEN Publish(i, "InReview") ELSE <<>>) \o <<<<"gate", i>>>>
  /\ UNCHANGED <<active, published, alive, tracker, gitVars, log, worldVars, counters>>

\* reconcile up to the gate: what is observed depends on the pull request of
\* the attempt's own branch.
Reconcile(i) ==
  /\ Idle /\ i \in active
  /\ LET w == dispatches[i].workspace
         kinds == IF mergedAt[w] > 0 THEN {"merged"} ELSE {"none", "open"} IN
     /\ w \in worktrees
     /\ \E kind \in kinds, place \in Places(w) :
          /\ Sim!ObserveDelivery(i, Observed(place, dispatches[i].base, kind))
          /\ todo' = (IF kind # "none" /\ <<i, "InReview">> \notin published
                      THEN Publish(i, "InReview") ELSE <<>>) \o <<<<"gate", i>>>>
  /\ UNCHANGED <<active, published, alive, tracker, gitVars, log, worldVars, counters>>

\* The worktree of the superseded attempt is not destroyed.
Retry_WorktreeKept(i) ==
  /\ Idle /\ i \in active
  /\ attemptNumber[i] < MaxAttempts
  /\ todo' = <<<<"ended", i>>, <<"retry", i>>, <<"redispatch", i>>>>
  /\ UNCHANGED <<memory, alive, tracker, gitVars, log, worldVars, counters>>

\* The attempt is not logged as superseded.
Retry_NotLogged(i) ==
  /\ Idle /\ i \in active
  /\ attemptNumber[i] < MaxAttempts
  /\ dispatches[i].workspace \in worktrees
  /\ worktrees' = worktrees \ {dispatches[i].workspace}
  /\ todo' = <<<<"retry", i>>, <<"redispatch", i>>>>
  /\ UNCHANGED <<memory, alive, tracker, branches, log, worldVars, counters>>

\* retry: the old run is cancelled and its worktree destroyed before anything
\* else; destroy raises when the worktree is gone already.
Retry(i) ==
  /\ Idle /\ i \in active
  /\ attemptNumber[i] < MaxAttempts
  /\ dispatches[i].workspace \in worktrees
  /\ worktrees' = worktrees \ {dispatches[i].workspace}
  /\ todo' = <<<<"ended", i>>, <<"retry", i>>, <<"redispatch", i>>>>
  /\ UNCHANGED <<memory, alive, tracker, branches, log, worldVars, counters>>

CancelFromWave(i) ==
  /\ Idle /\ i \in active
  /\ dispatches[i].workspace \in worktrees
  /\ worktrees' = worktrees \ {dispatches[i].workspace}
  /\ Sim!CancelFromWave(i)
  /\ active' = active \ {i}
  /\ todo' = Publish(i, "Cancelled")
  /\ UNCHANGED <<published, alive, tracker, branches, log, worldVars, counters>>

\* observe_runtime_events with a failing event: _mark_runtime_failure.
RuntimeFails(i) ==
  /\ Idle /\ i \in active
  /\ <<i, "NeedsAttention">> \notin published
  /\ todo' = Publish(i, "NeedsAttention")
  /\ UNCHANGED <<memory, alive, tracker, gitVars, log, worldVars, counters>>

\* refresh_target_base called by the operator.
RefreshTargetBase ==
  /\ Idle
  /\ Sim!RefreshTargetBase(tip)
  /\ todo' = <<<<"base">>>>
  /\ UNCHANGED <<active, published, alive, tracker, gitVars, log, worldVars, counters>>

Handler ==
  \/ DispatchReady \/ RefreshTargetBase
  \/ \E i \in Items : ReconcileMissing(i) \/ Reconcile(i) \/ Retry(i) \/ CancelFromWave(i)
                      \/ RuntimeFails(i)

-----------------------------------------------------------------------------
(* The calls, one action each.                                             *)

UpdateTracker ==
  /\ Doing("tracker")
  /\ tracker' = [tracker EXCEPT ![Item] = Head(todo)[3]]
  /\ Done
  /\ UNCHANGED <<memory, alive, gitVars, log, worldVars, counters>>

\* The idempotency key of a ticket event is the item and the state: a state
\* that was logged before is not logged again.
LogTicket ==
  /\ Doing("ticket")
  /\ LET state == Head(todo)[3] key == <<Item, state>> IN
     /\ log' = IF key \in log.keys THEN log
               ELSE [log EXCEPT !.keys = @ \cup {key}, !.tickets[Item] = state]
     /\ published' = IF state \in {"InReview", "NeedsAttention", "Done"}
                     THEN published \cup {key} ELSE published
  /\ Done
  /\ UNCHANGED <<simVars, active, alive, tracker, gitVars, worldVars, counters>>

\* A worktree on a detached HEAD: no branch of its own.
CreateWorkspace_Detached ==
  /\ Doing("create")
  /\ \E i \in Item : LET w == dispatches[i].workspace IN
     IF w \in branches
     THEN todo' = <<>> /\ UNCHANGED worktrees
     ELSE worktrees' = worktrees \cup {w} /\ todo' = Launch(i, Item \ {i})
  /\ UNCHANGED <<memory, alive, tracker, branches, log, worldVars, counters>>

\* git worktree add -b: refused when the branch is there already.
CreateWorkspace ==
  /\ Doing("create")
  /\ \E i \in Item : LET w == dispatches[i].workspace IN
     IF w \in branches
     THEN todo' = <<>> /\ UNCHANGED gitVars
     ELSE /\ worktrees' = worktrees \cup {w}
          /\ branches' = branches \cup {w}
          /\ todo' = Launch(i, Item \ {i})
  /\ UNCHANGED <<memory, alive, tracker, log, worldVars, counters>>

StartRuntime ==
  /\ Doing("start")
  /\ active' = active \cup {Item}
  /\ Done
  /\ UNCHANGED <<simVars, published, alive, tracker, gitVars, log, worldVars, counters>>

LogStarted ==
  /\ Doing("started")
  /\ log' = [log EXCEPT !.assigned[Item] = dispatches[Item]]
  /\ Done
  /\ UNCHANGED <<memory, alive, tracker, gitVars, worldVars, counters>>

LogWave ==
  /\ Doing("wave")
  /\ log' = IF log.waves[Len(waves)] # None THEN log
            ELSE [log EXCEPT !.waves[Len(waves)] = [waves[Len(waves)] EXCEPT !.state = "active"]]
  /\ Done
  /\ UNCHANGED <<memory, alive, tracker, gitVars, worldVars, counters>>

\* The assignment is dropped and the frontier advanced before Done is published.
AfterGate_PopFirst(i, status) ==
  CASE status = "approved" ->
         <<<<"pop", i>>>> \o
         (IF <<i, "Done">> \in published THEN <<>>
          ELSE Publish(i, "Done") \o <<<<"ended", i>>>>)
    [] status = "blocked" /\ <<i, "NeedsAttention">> \notin published ->
         Publish(i, "NeedsAttention")
    [] OTHER -> <<>>

\* What follows the gate in reconcile.
AfterGate(i, status) ==
  CASE status = "approved" ->
         (IF <<i, "Done">> \in published THEN <<>>
          ELSE Publish(i, "Done") \o <<<<"ended", i>>>>) \o <<<<"pop", i>>>>
    [] status = "blocked" /\ <<i, "NeedsAttention">> \notin published ->
         Publish(i, "NeedsAttention")
    [] OTHER -> <<>>

EvaluateGate ==
  /\ Doing("gate")
  /\ \/ /\ Sim!EvaluateGate(Item)
        /\ todo' = <<<<"waveState">>>> \o AfterGate(Item, decisions'[Item].status)
     \/ /\ decisions[Item] # None
        /\ todo' = <<<<"waveState">>>> \o AfterGate(Item, decisions[Item].status)
        /\ UNCHANGED simVars
  /\ UNCHANGED <<active, published, alive, tracker, gitVars, log, worldVars, counters>>

\* _record_wave_state: only a released wave is logged, once, and also when it was
\* never logged as started.
LogWaveState ==
  /\ Doing("waveState")
  /\ LET n == Len(waves)
         wave == IF log.waves[n] = None THEN None
                 ELSE [log.waves[n] EXCEPT !.state = "released"] IN
     log' = IF n = 0 \/ waves[n].state # "released" \/ n \in log.ended THEN log
            ELSE [log EXCEPT !.ended = @ \cup {n}, !.waves[n] = wave]
  /\ Done
  /\ UNCHANGED <<memory, alive, tracker, gitVars, worldVars, counters>>

\* work_attempt.state_changed to released or superseded.
LogEnded ==
  /\ Doing("ended")
  /\ log' = [log EXCEPT !.assigned[Item] = None]
  /\ Done
  /\ UNCHANGED <<memory, alive, tracker, gitVars, worldVars, counters>>

\* can_refresh_target_base is not asked.
Pop_AlwaysRefreshes ==
  /\ Doing("pop")
  /\ active' = active \ {Item}
  /\ todo' = <<<<"refresh">>>> \o Tail(todo)
  /\ UNCHANGED <<simVars, published, alive, tracker, gitVars, log, worldVars, counters>>

\* The next frontier is dispatched on the old base.
Pop_NoRefresh ==
  /\ Doing("pop")
  /\ active' = active \ {Item}
  /\ todo' = (IF Sim!CanRefreshTargetBase THEN <<<<"frontier">>>> ELSE <<>>) \o Tail(todo)
  /\ UNCHANGED <<simVars, published, alive, tracker, gitVars, log, worldVars, counters>>

\* Dropping the assignment of an approved item, and what reconcile does next.
Pop ==
  /\ Doing("pop")
  /\ active' = active \ {Item}
  /\ todo' = (IF Sim!CanRefreshTargetBase THEN <<<<"refresh">>>> ELSE <<>>) \o Tail(todo)
  /\ UNCHANGED <<simVars, published, alive, tracker, gitVars, log, worldVars, counters>>

\* The next frontier is forgotten.
Refresh_NoFrontier ==
  /\ Doing("refresh")
  /\ Sim!RefreshTargetBase(tip)
  /\ todo' = <<<<"base">>>>
  /\ UNCHANGED <<active, published, alive, tracker, gitVars, log, worldVars, counters>>

\* refresh_target_base inside reconcile: the revision is fetched here.
Refresh ==
  /\ Doing("refresh")
  /\ Sim!RefreshTargetBase(tip)
  /\ todo' = <<<<"base">>, <<"frontier">>>> \o Tail(todo)
  /\ UNCHANGED <<active, published, alive, tracker, gitVars, log, worldVars, counters>>

LogBase ==
  /\ Doing("base")
  /\ log' = [log EXCEPT !.base = baseRevision]
  /\ Done
  /\ UNCHANGED <<memory, alive, tracker, gitVars, worldVars, counters>>

\* _dispatch_next_frontier.
DispatchNextFrontier ==
  /\ Doing("frontier")
  /\ IF Ready = {} THEN Done /\ UNCHANGED simVars
     ELSE Sim!DispatchReady /\ todo' = Launching(Ready)
  /\ UNCHANGED <<active, published, alive, tracker, gitVars, log, worldVars, counters>>

\* The scheduler refuses to retry a released item, after the attempt is gone.
RetryItem ==
  /\ Doing("retry")
  /\ active' = active \ {Item}
  /\ published' = published \ {<<Item, "InReview">>, <<Item, "NeedsAttention">>}
  /\ IF Item \in released THEN todo' = <<>> /\ UNCHANGED simVars
     ELSE Sim!RetryItem(Item) /\ Done
  /\ UNCHANGED <<alive, tracker, gitVars, log, worldVars, counters>>

\* retry passes its own prompt only: another ready item makes dispatch_ready
\* raise, a closed barrier makes it dispatch nothing and log the current wave, if any.
Redispatch ==
  /\ Doing("redispatch")
  /\ IF Ready = {Item} THEN Sim!DispatchReady /\ todo' = Launching({Item})
     ELSE /\ todo' = IF Ready = {} /\ waves # <<>> THEN <<<<"wave">>>> ELSE <<>>
          /\ UNCHANGED simVars
  /\ UNCHANGED <<active, published, alive, tracker, gitVars, log, worldVars, counters>>

Call ==
  \/ UpdateTracker \/ LogTicket \/ CreateWorkspace \/ StartRuntime \/ LogStarted
  \/ LogWave \/ EvaluateGate \/ LogWaveState \/ LogEnded \/ Pop \/ Refresh
  \/ LogBase \/ DispatchNextFrontier \/ RetryItem \/ Redispatch

\* A call raises and the exception leaves the handler: a request, Git, the runtime,
\* the recorder (before "started") or the event log.  The other calls are memory only.
\* When the runtime does not start, its worktree is destroyed first.
Raise ==
  /\ failures < MaxFailures
  /\ \E call \in {"tracker", "ticket", "create", "start", "started", "wave", "waveState",
                 "ended", "refresh", "base", "frontier", "redispatch"} :
       /\ Doing(call)
       /\ worktrees' = IF call = "start" THEN worktrees \ {dispatches[Item].workspace}
                       ELSE worktrees
  /\ todo' = <<>>
  /\ failures' = failures + 1
  /\ UNCHANGED <<memory, alive, tracker, branches, log, worldVars, crashes>>

-----------------------------------------------------------------------------
(* Crash and restart.                                                      *)

\* _rehydrate on a simulator built on the current target revision.
Rehydrate ==
  LET assigned == {i \in Items : log.assigned[i] # None}
      logged == {n \in 1..MaxWaves : log.waves[n] # None}
      last == CHOOSE n \in logged : \A m \in logged : m <= n
      open == UNION {log.waves[n].items : n \in {m \in logged : log.waves[m].state = "active"}}
      inWave == IF Barrier THEN assigned \cap open ELSE {}
      lastWave == IF logged = {} \/ log.waves[last].state # "active" THEN {}
                  ELSE log.waves[last].items
  IN
  /\ dispatched' = assigned
  /\ released' = Completed \cup {i \in Items : log.tickets[i] \in {"Done", "Cancelled"}}
  /\ cancelled' = {}
     \* restore_dispatched replaces the active wave: one item of it remains.
  /\ \/ inWave = {} /\ activeWave' = {}
     \/ \E i \in inWave : activeWave' = {i}
  /\ barrierOpen' = (inWave = {})
  /\ baseRevision' = IF log.base = None THEN tip ELSE log.base
     \* A wave that was never logged leaves a gap in the wave numbers.
  /\ waves' = IF logged = {} THEN <<>>
              ELSE [n \in 1..last |-> IF n \in logged THEN log.waves[n]
                     ELSE [base |-> InitialRevision, items |-> {}, state |-> "superseded"]]
  /\ dispatches' = log.assigned
  /\ observations' = [i \in Items |-> None]
  /\ decisions' = [i \in Items |-> None]
  /\ simWave' = lastWave \cup (assigned \cap open)
  /\ attemptNumber' = [i \in Items |-> 1]
  /\ active' = assigned
  /\ published' =
       {key \in Items \X {"InReview", "NeedsAttention", "Done"} :
          \/ log.tickets[key[1]] = key[2]
          \/ key[2] = "InReview" /\ log.tickets[key[1]] \in {"NeedsAttention", "Done"}}
  /\ UNCHANGED policy

\* The process dies anywhere and is started again.  Under wave_barrier the
\* refresh of a recorded base raises: no wave has been restored yet.  A wave logged
\* as released and not as started has no base to restore.
Restart ==
  /\ alive /\ crashes < MaxCrashes
  /\ crashes' = crashes + 1
  /\ todo' = <<>>
  /\ IF (Barrier /\ log.base # None) \/ \E n \in log.ended : log.waves[n] = None
     THEN alive' = FALSE /\ UNCHANGED memory
     ELSE alive' = TRUE /\ Rehydrate
  /\ UNCHANGED <<tracker, gitVars, log, worldVars, failures>>

\* A human merges the pull request of an attempt, current or superseded.
Merge(w) ==
  /\ w \in branches
  /\ mergedAt[w] = 0
  /\ tip < MaxTip
  /\ tip' = tip + 1
  /\ mergedAt' = [mergedAt EXCEPT ![w] = tip + 1]
  /\ UNCHANGED <<memory, todo, alive, tracker, gitVars, log, counters>>

Next ==
  \/ Handler \/ Call \/ Raise \/ Restart
  \/ \E w \in Workspaces : Merge(w)

Spec == Init /\ [][Next]_vars

-----------------------------------------------------------------------------
\* A ticket becomes Done only when the pull request of the attempt now assigned
\* has been merged, crashes and retries notwithstanding: an old attempt's pull
\* request never completes its replacement (design document, line 68).
DoneOnlyMerged ==
  [][\A i \in Items : tracker'[i] = "Done" /\ tracker[i] # "Done" =>
       i \in active /\ mergedAt[dispatches[i].workspace] > 0]_vars

\* Work on an item begins only after everything it is blocked by is Done or
\* Cancelled in the event log, so that no crash can undo what it was based on,
\* as long as no call of a handler raises half-way.
DependentsStartAfterDurableRelease ==
  failures = 0 => \A w \in branches : \A i \in BlockedBy[w[1]] :
    i \in Completed \/ <<i, "Done">> \in log.keys \/ <<i, "Cancelled">> \in log.keys

\* At most one attempt of an item has a worktree (design document, line 65).
OneAttemptAtATime ==
  \A v, w \in worktrees : v[1] = w[1] => v = w

\* When no handler is running, what a restart would restore as active is what is
\* active now.  Only an item that was completed or cancelled may still be assigned
\* in the log; and an active one may be missing from it, never assigned otherwise,
\* when the recorder or the log raised right after its agent was started.
RestartFindsActiveWork ==
  Idle => \A i \in Items :
    /\ i \in active => \/ log.assigned[i] = dispatches[i]
                       \/ log.assigned[i] = None /\ failures > 0
    /\ i \notin active /\ log.assigned[i] # None
         => i \in cancelled \/ log.keys \cap {<<i, "Done">>, <<i, "Cancelled">>} # {}

\* A refresh that reconcile decides on is never refused by the scheduler.  After a
\* restart under wave_barrier it may be: the scheduler's active wave is restored as
\* one item, the simulator's as all of them, and the one item may be cancelled.
RefreshNeverRefused ==
  crashes = 0 /\ Doing("refresh") /\ Barrier => Sim!Sched!WaveReleased

\* A dependent works from a revision that contains the merge of every item it is
\* blocked by that was delivered, not cancelled (design document, lines 56 to 58).
\* It does not hold after a crash between Done and the logged base: the restarted
\* controller dispatches on the base of before.
StartsOnMergedWork ==
  \A j \in active : \A i \in BlockedBy[j] :
    <<i, "Done">> \in log.keys /\ <<i, "Cancelled">> \notin log.keys =>
      \E n \in 1..MaxAttempts : mergedAt[<<i, n>>] \in 1..dispatches[j].base

\* Without a crash or a failing call that cuts a handler short, dependents start on
\* merged work: the base is refreshed before they are dispatched.
UninterruptedStartsOnMergedWork ==
  crashes = 0 /\ failures = 0 => StartsOnMergedWork

\* Once a first wave was dispatched and as long as nothing went wrong (no crash,
\* failing call, retry or cancellation), no ready item is left waiting between two
\* handlers: reconcile itself dispatches what a release made ready.
NoReadyItemLeftBehind ==
  /\ Idle /\ waves # <<>>
  /\ crashes = 0 /\ failures = 0 /\ cancelled = {}
  /\ \A i \in Items : attemptNumber[i] = 1
  => Ready = {}

\* A controller can always be rebuilt from its event log (design document, 162).
RestartRecovers == alive
=============================================================================
