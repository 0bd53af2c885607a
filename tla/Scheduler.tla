----------------------------- MODULE Scheduler -----------------------------
(***************************************************************************)
(* The dependency-aware scheduler of src/mergewave/scheduler.py: which     *)
(* work items may be dispatched, on which target-base revision, and in     *)
(* which execution wave.  The scheduler is a passive object: every action  *)
(* below is one public method, called by MergeWaveSimulator in any order.  *)
(*                                                                         *)
(* The restore_* methods only run while a controller is being rehydrated;  *)
(* DeliveryController models them as part of its Restart action.           *)
(***************************************************************************)
EXTENDS Naturals, Sequences

CONSTANTS
  Items,            \* the ids of the compiled dependency graph
  BlockedBy,        \* item -> the items its work-item contract is blocked by
  Completed,        \* the items already Done when the scheduler is built
  Policies,         \* the scheduling policies it may be built with
  Revisions,        \* the revisions the target branch may have
  InitialRevision,  \* the target revision when the scheduler is built
  MaxWaves          \* bound: how many execution waves a behaviour may start

ASSUME SchedulerAssumption ==
  /\ BlockedBy \in [Items -> SUBSET Items]
  /\ Completed \subseteq Items
  /\ Policies \subseteq {"continuous_frontier", "wave_barrier"}
  /\ InitialRevision \in Revisions
  /\ MaxWaves \in Nat

VARIABLES
  policy,        \* _policy
  dispatched,    \* _dispatched
  released,      \* _released: completed, approved or cancelled items
  cancelled,     \* _cancelled
  activeWave,    \* _active_wave, kept under wave_barrier only
  barrierOpen,   \* _barrier_open
  baseRevision,  \* _base_revision
  waves          \* _waves; _current_wave is its last element

vars == <<policy, dispatched, released, cancelled, activeWave,
          barrierOpen, baseRevision, waves>>

Barrier == policy = "wave_barrier"

Wave == [base  : Revisions,
         items : SUBSET Items,
         state : {"active", "released", "superseded", "cancelled"}]

TypeOK ==
  /\ policy \in Policies
  /\ dispatched \subseteq Items
  /\ released \subseteq Items
  /\ cancelled \subseteq released
  /\ activeWave \subseteq Items
  /\ barrierOpen \in BOOLEAN
  /\ baseRevision \in Revisions
  /\ waves \in Seq(Wave)

Init ==
  /\ policy \in Policies
  /\ dispatched = {}
  /\ released = Completed
  /\ cancelled = {}
  /\ activeWave = {}
  /\ barrierOpen = TRUE
  /\ baseRevision = InitialRevision
  /\ waves = <<>>

-----------------------------------------------------------------------------
\* What a bug in DependencyGraph.ready could be: a blocker counts as soon as
\* it is dispatched, merged or not.
Ready_BlockerMerelyDispatched ==
  {i \in Items : i \notin released /\ BlockedBy[i] \subseteq released \cup dispatched}

\* DependencyGraph.ready(self._released)
Ready == {i \in Items : i \notin released /\ BlockedBy[i] \subseteq released}

PreviewReady_BarrierIgnored == Ready \ dispatched

PreviewReady == IF Barrier /\ ~barrierOpen THEN {} ELSE Ready \ dispatched

CurrentWave == waves[Len(waves)]

\* The current wave, when there is one and the condition holds, takes a new state.
MarkWave(condition, state) ==
  waves' = IF waves # <<>> /\ condition
           THEN [waves EXCEPT ![Len(waves)].state = state]
           ELSE waves

DispatchReady ==
  LET ready == PreviewReady IN
  /\ ready # {}
  /\ Len(waves) < MaxWaves
  /\ dispatched' = dispatched \cup ready
  /\ activeWave' = IF Barrier THEN ready ELSE activeWave
  /\ barrierOpen' = (barrierOpen /\ ~Barrier)
  /\ waves' = Append(waves, [base |-> baseRevision, items |-> ready, state |-> "active"])
  /\ UNCHANGED <<policy, released, cancelled, baseRevision>>

\* The subset test reversed: one released item closes the wave.
Release_WaveClosedByOneItem(i) ==
  /\ i \in dispatched
  /\ released' = released \cup {i}
  /\ MarkWave(CurrentWave.items \cap released' # {}, "released")
  /\ UNCHANGED <<policy, dispatched, cancelled, activeWave, barrierOpen, baseRevision>>

Release(i) ==
  /\ i \in dispatched
  /\ released' = released \cup {i}
  /\ MarkWave(CurrentWave.items \subseteq released', "released")
  /\ UNCHANGED <<policy, dispatched, cancelled, activeWave, barrierOpen, baseRevision>>

\* The barrier reopened by any retry, not by the retry that empties the wave.
LeaveWave_AlwaysOpens(i) ==
  /\ activeWave' = activeWave \ {i}
  /\ barrierOpen' = TRUE

\* The item leaves the active wave; an emptied wave opens the barrier.
LeaveWave(i) ==
  /\ activeWave' = activeWave \ {i}
  /\ barrierOpen' = (barrierOpen \/ (Barrier /\ activeWave' = {}))

Retry(i) ==
  /\ i \in dispatched
  /\ i \notin released
  /\ dispatched' = dispatched \ {i}
  /\ cancelled' = cancelled \ {i}
  /\ LeaveWave(i)
  /\ MarkWave(i \in CurrentWave.items, "superseded")
  /\ UNCHANGED <<policy, released, baseRevision>>

\* The cancelled item never counts as released: its dependents wait forever.
Cancel_NotReleased(i) ==
  /\ i \in dispatched
  /\ dispatched' = dispatched \ {i}
  /\ cancelled' = cancelled \cup {i}
  /\ LeaveWave(i)
  /\ MarkWave(i \in CurrentWave.items, "cancelled")
  /\ UNCHANGED <<policy, released, baseRevision>>

Cancel(i) ==
  /\ i \in dispatched
  /\ dispatched' = dispatched \ {i}
  /\ released' = released \cup {i}
  /\ cancelled' = cancelled \cup {i}
  /\ LeaveWave(i)
  /\ MarkWave(i \in CurrentWave.items, "cancelled")
  /\ UNCHANGED <<policy, baseRevision>>

\* The guard of a barrier refresh, which raises ValueError when it fails.
WaveReleased == activeWave # {} /\ activeWave \subseteq released

\* The guard forgotten: the wave is dropped whatever is still in flight.
RefreshTargetBase_Unguarded(revision) ==
  /\ activeWave' = IF Barrier THEN {} ELSE activeWave
  /\ barrierOpen' = (barrierOpen \/ Barrier)
  /\ baseRevision' = revision
  /\ UNCHANGED <<policy, dispatched, released, cancelled, waves>>

RefreshTargetBase(revision) ==
  /\ Barrier => WaveReleased
  /\ activeWave' = IF Barrier THEN {} ELSE activeWave
  /\ barrierOpen' = (barrierOpen \/ Barrier)
  /\ baseRevision' = revision
  /\ UNCHANGED <<policy, dispatched, released, cancelled, waves>>

Next ==
  \/ DispatchReady
  \/ \E i \in Items : Release(i) \/ Retry(i) \/ Cancel(i)
  \/ \E revision \in Revisions : RefreshTargetBase(revision)

Spec == Init /\ [][Next]_vars

-----------------------------------------------------------------------------
InFlight == dispatched \ released

\* Nothing is dispatched before every item it is blocked by has been merged or
\* cancelled by a human: retries, cancellations and refreshes in between do not
\* let a dependent slip past (scheduler.py preview_ready).
BlockersFirst == \A i \in dispatched : BlockedBy[i] \subseteq released

\* Under wave_barrier the flag _barrier_open and the set _active_wave, which
\* retry, cancel and refresh update separately, say the same thing, and the set
\* misses no item that is still being delivered.
BarrierTracksWave ==
  Barrier => /\ barrierOpen <=> activeWave = {}
             /\ InFlight \subseteq activeWave

\* Under wave_barrier everything in flight belongs to the current wave and was
\* dispatched on the revision that is still the scheduler's base.
InFlightOnOneBase ==
  Barrier /\ InFlight # {} =>
    /\ waves # <<>>
    /\ InFlight \subseteq CurrentWave.items
    /\ CurrentWave.base = baseRevision

\* A wave recorded as released has only released items, whatever was retried or
\* cancelled on the way, and a current wave recorded as active still has work.
WaveStatesTruthful ==
  /\ \A n \in DOMAIN waves : waves[n].state = "released" => waves[n].items \subseteq released
  /\ waves # <<>> /\ CurrentWave.state = "active" => ~(CurrentWave.items \subseteq released)

\* Under wave_barrier a step that moves the base or dispatches anything starts
\* from a state with nothing in flight (scheduler.py 54 and 123).
BarrierHolds ==
  [][Barrier /\ (baseRevision' # baseRevision \/ ~(dispatched' \subseteq dispatched))
     => InFlight = {}]_vars
=============================================================================
