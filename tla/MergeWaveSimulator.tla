------------------------- MODULE MergeWaveSimulator -------------------------
(***************************************************************************)
(* MergeWaveSimulator of src/mergewave/simulator.py: the scheduler of      *)
(* module Scheduler, the gate of module DeliveryGate, and between them the *)
(* dispatch, observation and decision kept for every work item.  One       *)
(* action per public method; the caller (the controller, or a test) may    *)
(* call any of them at any time, with any observation.                     *)
(***************************************************************************)
EXTENDS DeliveryGate, Sequences

CONSTANTS
  Items, BlockedBy, Completed, Policies, Revisions, InitialRevision, MaxWaves,
  None,         \* a missing dictionary entry
  MaxAttempts,  \* bound: attempts of one item
  Observations  \* the observations callers may report (see DeliveryGate)

\* The worktree and branch names of an attempt: the item alone for the first
\* attempt, item-attempt-n for the n-th.
Workspace(i, n) == <<i, n>>

Dispatch == [workspace : Items \X (1..MaxAttempts), base : Revisions]

\* The constants of the scheduler; a missing dictionary entry is neither a dispatch
\* nor an observation; an observation's flags are flags, its approvals are counted.
ASSUME SimulatorAssumption ==
  /\ BlockedBy \in [Items -> SUBSET Items]
  /\ Completed \subseteq Items
  /\ Policies \subseteq {"continuous_frontier", "wave_barrier"}
  /\ InitialRevision \in Revisions
  /\ MaxWaves \in Nat /\ MaxAttempts \in Nat \ {0}
  /\ None \notin Dispatch \cup Observations
  /\ \A o \in Observations :
       /\ o.approvals \in Nat
       /\ {o.ciPending, o.ciPassed, o.linked, o.ancestor, o.changesOpen,
           o.reviewersOk, o.merged} \subseteq BOOLEAN

VARIABLES
  policy, dispatched, released, cancelled, activeWave, barrierOpen, baseRevision, waves,
  dispatches,    \* _dispatched: item -> its dispatch, or None
  observations,  \* _observations: item -> its latest observation, or None
  decisions,     \* _decisions: item -> its cached decision, or None
  simWave,       \* the simulator's own _active_wave
  attemptNumber  \* _attempt_numbers (1 when the item has no entry)

schedVars == <<policy, dispatched, released, cancelled, activeWave, barrierOpen,
               baseRevision, waves>>
itemVars == <<dispatches, observations, decisions, attemptNumber>>
vars == <<schedVars, itemVars, simWave>>

Sched == INSTANCE Scheduler

Barrier == policy = "wave_barrier"

TypeOK ==
  /\ Sched!TypeOK
  /\ dispatches \in [Items -> Dispatch \cup {None}]
  /\ observations \in [Items -> Observations \cup {None}]
  /\ decisions \in [Items -> Decision \cup {None}]
  /\ simWave \subseteq Items
  /\ attemptNumber \in [Items -> 1..MaxAttempts]

Init ==
  /\ Sched!Init
  /\ dispatches = [i \in Items |-> None]
  /\ observations = [i \in Items |-> None]
  /\ decisions = [i \in Items |-> None]
  /\ simWave = {}
  /\ attemptNumber = [i \in Items |-> 1]

Approved(i) == decisions[i] # None /\ decisions[i].status = "approved"

-----------------------------------------------------------------------------
DispatchReady ==
  LET ready == Sched!PreviewReady IN
  /\ Sched!DispatchReady
  /\ dispatches' = [i \in Items |->
       IF i \in ready
       THEN [workspace |-> Workspace(i, attemptNumber[i]), base |-> baseRevision]
       ELSE dispatches[i]]
  /\ simWave' = IF Barrier THEN ready ELSE simWave
  /\ UNCHANGED <<observations, decisions, attemptNumber>>

\* A cached decision survives a new observation.
ObserveDelivery_DecisionKept(i, o) ==
  /\ dispatches[i] # None
  /\ observations' = [observations EXCEPT ![i] = o]
  /\ UNCHANGED <<schedVars, dispatches, decisions, simWave, attemptNumber>>

\* A blocked or pending decision is dropped so that the gate is evaluated again.
ObserveDelivery(i, o) ==
  /\ dispatches[i] # None
  /\ observations' = [observations EXCEPT ![i] = o]
  /\ decisions' = [decisions EXCEPT ![i] = IF Approved(i) THEN @ ELSE None]
  /\ UNCHANGED <<schedVars, dispatches, simWave, attemptNumber>>

\* A cached decision is returned as it is; otherwise the latest observation is
\* classified and an approval releases the item in the scheduler.
EvaluateGate(i) ==
  /\ decisions[i] = None
  /\ observations[i] # None
  /\ LET decision == Decide(dispatches[i], observations[i]) IN
       /\ decisions' = [decisions EXCEPT ![i] = decision]
       /\ IF decision.status = "approved" THEN Sched!Release(i) ELSE UNCHANGED schedVars
  /\ UNCHANGED <<dispatches, observations, simWave, attemptNumber>>

CanRefreshTargetBase ==
  Barrier => simWave # {} /\ \A i \in simWave : Approved(i)

RefreshTargetBase(revision) ==
  /\ CanRefreshTargetBase
  /\ Sched!RefreshTargetBase(revision)
  /\ simWave' = {}
  /\ UNCHANGED itemVars

\* The simulator's own copy of the wave is not updated.
Forget_KeepsWave(i) ==
  /\ dispatches' = [dispatches EXCEPT ![i] = None]
  /\ observations' = [observations EXCEPT ![i] = None]
  /\ decisions' = [decisions EXCEPT ![i] = None]
  /\ UNCHANGED simWave

\* What retry_item and cancel_from_wave both drop.
Forget(i) ==
  /\ dispatches' = [dispatches EXCEPT ![i] = None]
  /\ observations' = [observations EXCEPT ![i] = None]
  /\ decisions' = [decisions EXCEPT ![i] = None]
  /\ simWave' = simWave \ {i}

RetryItem(i) ==
  /\ Sched!Retry(i)
  /\ attemptNumber[i] < MaxAttempts
  /\ Forget(i)
  /\ attemptNumber' = [attemptNumber EXCEPT ![i] = @ + 1]

CancelFromWave(i) ==
  /\ Sched!Cancel(i)
  /\ Forget(i)
  /\ UNCHANGED attemptNumber

Next ==
  \/ DispatchReady
  \/ \E i \in Items, o \in Observations : ObserveDelivery(i, o)
  \/ \E i \in Items : EvaluateGate(i) \/ RetryItem(i) \/ CancelFromWave(i)
  \/ \E revision \in Revisions : RefreshTargetBase(revision)

Spec == Init /\ [][Next]_vars

-----------------------------------------------------------------------------
\* A decision that is not an approval is the classification of the observation
\* now stored, for the dispatch now stored: neither a retry nor a later
\* observation leaves a verdict about something older.
DecisionIsCurrent ==
  \A i \in Items : decisions[i] # None =>
    /\ dispatches[i] # None /\ observations[i] # None
    /\ ~Approved(i) => decisions[i] = Decide(dispatches[i], observations[i])

\* The two copies of the active wave agree, so a refresh the simulator allows is
\* never refused by the scheduler, which would raise after the check passed.
WavesAgree ==
  Barrier => /\ simWave = activeWave
             /\ CanRefreshTargetBase => Sched!WaveReleased

\* An item that is neither completed nor being cancelled is released only by a
\* step whose stored observation meets the whole gate contract for the attempt
\* in flight: an old attempt's pull request cannot release its replacement.
ReleaseNeedsCurrentEvidence ==
  [][\A i \in (released' \ released) \ cancelled' :
       dispatches[i] # None /\ MeetsContract(dispatches[i], observations[i])]_vars

-----------------------------------------------------------------------------
\* The refinement mapping onto GatedDelivery.
InFlight == dispatched \ released

Abstract == INSTANCE GatedDelivery WITH
  NoRevision <- None,
  status <- [i \in Items |-> IF i \in released THEN "settled"
                             ELSE IF i \in dispatched THEN "inflight" ELSE "waiting"],
  startedOn <- [i \in Items |-> IF i \in InFlight THEN dispatches[i].base ELSE None]

\* The simulator implements the promise of GatedDelivery, and keeps its
\* invariant: every start obeys the frontier and the barrier.
ImplementsGatedDelivery == Abstract!Spec
=============================================================================
