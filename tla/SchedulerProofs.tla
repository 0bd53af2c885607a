--------------------------- MODULE SchedulerProofs ---------------------------
(***************************************************************************)
(* Proofs about Scheduler for every graph, policy and set of revisions.    *)
(* The inductive invariant IInv adds to the checked invariants the fact    *)
(* that the active wave of a barrier is part of the current execution wave *)
(* and that its base is still the scheduler's base.                        *)
(***************************************************************************)
EXTENDS Scheduler, TLAPS

\* Under wave_barrier the active wave is what is left of the current wave, and
\* the base has not moved since that wave was dispatched.
ActiveWaveIsCurrent ==
  Barrier /\ activeWave # {} =>
    /\ waves # <<>>
    /\ activeWave \subseteq CurrentWave.items
    /\ CurrentWave.base = baseRevision

IInv ==
  /\ TypeOK
  /\ BlockersFirst
  /\ BarrierTracksWave
  /\ ActiveWaveIsCurrent
  /\ WaveStatesTruthful

\* The state of the last wave changes and nothing else: what MarkWave does to a
\* non-empty sequence of waves (scheduler.py release, retry and cancel).
LEMMA MarkedWaves ==
  ASSUME NEW w \in Seq(Wave), w # <<>>,
         NEW s \in {"active", "released", "superseded", "cancelled"},
         NEW v, v = [w EXCEPT ![Len(w)].state = s]
  PROVE  /\ v \in Seq(Wave)
         /\ Len(v) = Len(w)
         /\ v # <<>>
         /\ \A n \in 1..Len(w) : v[n].items = w[n].items /\ v[n].base = w[n].base
         /\ \A n \in 1..Len(w) : n # Len(w) => v[n].state = w[n].state
         /\ v[Len(w)].state = s
<1>1. Len(w) \in Nat \ {0} /\ DOMAIN w = 1..Len(w) /\ w \in [1..Len(w) -> Wave]
  OBVIOUS
<1>2. w[Len(w)] \in Wave
  BY <1>1
<1>3. [w[Len(w)] EXCEPT !.state = s] \in Wave
  BY <1>2 DEF Wave
<1>4. v = [n \in 1..Len(w) |-> IF n = Len(w) THEN [w[Len(w)] EXCEPT !.state = s] ELSE w[n]]
  BY <1>1
<1>5. v \in [1..Len(w) -> Wave]
  BY <1>1, <1>3, <1>4
<1>6. v \in Seq(Wave) /\ Len(v) = Len(w) /\ v # <<>>
  BY <1>1, <1>5
<1>7. /\ \A n \in 1..Len(w) : v[n].items = w[n].items /\ v[n].base = w[n].base
      /\ \A n \in 1..Len(w) : n # Len(w) => v[n].state = w[n].state
      /\ v[Len(w)].state = s
  BY <1>1, <1>2, <1>4 DEF Wave
<1> QED
  BY <1>6, <1>7

\* Appending a wave leaves the earlier ones alone (scheduler.py dispatch_ready).
LEMMA AppendedWave ==
  ASSUME NEW w \in Seq(Wave), NEW e \in Wave, NEW v, v = Append(w, e)
  PROVE  /\ v \in Seq(Wave)
         /\ v # <<>>
         /\ v[Len(v)] = e
         /\ \A n \in 1..Len(v) : n # Len(v) => n \in 1..Len(w) /\ v[n] = w[n]
OBVIOUS

\* The scheduler starts in the invariant.
LEMMA InitIInv == Init => IInv
BY SchedulerAssumption
   DEF Init, IInv, TypeOK, BlockersFirst, BarrierTracksWave, ActiveWaveIsCurrent,
       WaveStatesTruthful, InFlight, Wave

\* Dispatching the frontier preserves the invariant.
LEMMA DispatchReadyIInv == IInv /\ DispatchReady => IInv'
<1> SUFFICES ASSUME IInv, DispatchReady PROVE IInv'
  OBVIOUS
<1> DEFINE new == [base |-> baseRevision, items |-> PreviewReady, state |-> "active"]
<1>1. /\ PreviewReady # {} /\ PreviewReady \subseteq Ready \ dispatched
      /\ Barrier => barrierOpen
  BY DEF DispatchReady, PreviewReady
<1>2. PreviewReady \subseteq Items /\ PreviewReady \cap released = {}
  BY <1>1 DEF Ready
<1>3. /\ new \in Wave /\ new.state = "active" /\ new.items = PreviewReady
      /\ new.base = baseRevision
  BY <1>2 DEF IInv, TypeOK, Wave
<1>4. waves' = Append(waves, new)
  BY DEF DispatchReady
<1>5. /\ waves' \in Seq(Wave)
      /\ waves' # <<>>
      /\ CurrentWave' = new
      /\ \A n \in 1..Len(waves') :
           n # Len(waves') => n \in 1..Len(waves) /\ waves'[n] = waves[n]
  BY <1>3, <1>4, AppendedWave DEF IInv, TypeOK, CurrentWave
<1>6. TypeOK'
  BY <1>2, <1>5 DEF IInv, TypeOK, DispatchReady
<1>7. BlockersFirst'
  BY <1>1 DEF IInv, BlockersFirst, DispatchReady, Ready
<1>8. BarrierTracksWave'
  BY <1>1 DEF IInv, BarrierTracksWave, DispatchReady, InFlight, Barrier
<1>9. ActiveWaveIsCurrent'
  BY <1>3, <1>5 DEF ActiveWaveIsCurrent, DispatchReady, Barrier
<1>10. WaveStatesTruthful'
  <2>1. ~(CurrentWave.items \subseteq released)'
    BY <1>1, <1>2, <1>3, <1>5 DEF DispatchReady
  <2>2. ASSUME NEW n \in 1..Len(waves'), waves'[n].state = "released"
        PROVE  waves'[n].items \subseteq released'
    <3>1. n # Len(waves')
      BY <1>3, <1>5, <2>2 DEF CurrentWave
    <3> QED
      BY <1>5, <2>2, <3>1 DEF IInv, TypeOK, WaveStatesTruthful, DispatchReady
  <2> QED
    BY <1>5, <2>1, <2>2 DEF WaveStatesTruthful
<1> QED
  BY <1>6, <1>7, <1>8, <1>9, <1>10 DEF IInv

\* What every operation that may mark the current wave leaves behind: the same
\* waves, except that the state of the last one may have become s.
LEMMA MarkWaveFacts ==
  ASSUME waves \in Seq(Wave),
         NEW s \in {"active", "released", "superseded", "cancelled"},
         \/ waves' = waves
         \/ waves # <<>> /\ waves' = [waves EXCEPT ![Len(waves)].state = s]
  PROVE  /\ waves' \in Seq(Wave)
         /\ Len(waves') = Len(waves)
         /\ waves' = <<>> <=> waves = <<>>
         /\ \A n \in 1..Len(waves) :
              /\ waves'[n].items = waves[n].items
              /\ waves'[n].base = waves[n].base
              /\ waves'[n].state = waves[n].state \/ (n = Len(waves) /\ waves'[n].state = s)
         /\ waves' # waves => waves'[Len(waves)].state = s
<1>1. CASE waves' = waves
  BY <1>1
<1>2. CASE waves # <<>> /\ waves' = [waves EXCEPT ![Len(waves)].state = s]
  BY <1>2, MarkedWaves
<1> QED
  BY <1>1, <1>2

\* The current wave keeps its items and its base when it is marked.
LEMMA MarkedCurrentWave ==
  ASSUME waves \in Seq(Wave), waves # <<>>,
         NEW s \in {"active", "released", "superseded", "cancelled"},
         \/ waves' = waves
         \/ waves' = [waves EXCEPT ![Len(waves)].state = s]
  PROVE  /\ waves' # <<>>
         /\ CurrentWave'.items = CurrentWave.items
         /\ CurrentWave'.base = CurrentWave.base
         /\ waves' = waves => CurrentWave'.state = CurrentWave.state
         /\ waves' = [waves EXCEPT ![Len(waves)].state = s] => CurrentWave'.state = s
<1>1. Len(waves) \in 1..Len(waves)
  OBVIOUS
<1>2. CASE waves' = waves /\ waves' # [waves EXCEPT ![Len(waves)].state = s]
  BY <1>2 DEF CurrentWave
<1>3. CASE waves' = [waves EXCEPT ![Len(waves)].state = s]
  <2>1. /\ Len(waves') = Len(waves)
        /\ waves' # <<>>
        /\ waves'[Len(waves)].items = waves[Len(waves)].items
        /\ waves'[Len(waves)].base = waves[Len(waves)].base
        /\ waves'[Len(waves)].state = s
    BY <1>1, <1>3, MarkedWaves
  <2> QED
    BY <2>1 DEF CurrentWave
<1> QED
  BY <1>2, <1>3

\* Releasing an item preserves the invariant.
LEMMA ReleaseIInv == ASSUME NEW i \in Items, IInv, Release(i) PROVE IInv'
<1> DEFINE marked == [waves EXCEPT ![Len(waves)].state = "released"]
<1>1. waves' = waves \/ (waves # <<>> /\ waves' = marked)
  BY DEF Release, MarkWave
<1>2. waves \in Seq(Wave)
  BY DEF IInv, TypeOK
<1>3. /\ waves' \in Seq(Wave) /\ Len(waves') = Len(waves)
      /\ waves' = <<>> <=> waves = <<>>
      /\ \A n \in 1..Len(waves) :
           /\ waves'[n].items = waves[n].items
           /\ waves'[n].state = waves[n].state \/ (n = Len(waves) /\ waves' # waves)
  BY <1>1, <1>2, MarkWaveFacts
<1>4. waves # <<>> => /\ CurrentWave'.items = CurrentWave.items
                      /\ CurrentWave'.base = CurrentWave.base
                      /\ waves' = waves => CurrentWave'.state = CurrentWave.state
                      /\ waves' = marked => CurrentWave'.state = "released"
  BY <1>1, <1>2, MarkedCurrentWave
<1>5. TypeOK'
  BY <1>3 DEF Release, IInv, TypeOK
<1>6. BlockersFirst'
  BY DEF Release, IInv, BlockersFirst
<1>7. BarrierTracksWave'
  BY DEF Release, IInv, BarrierTracksWave, InFlight, Barrier
<1>8. ActiveWaveIsCurrent'
  BY <1>3, <1>4 DEF Release, IInv, ActiveWaveIsCurrent, Barrier
<1>9. WaveStatesTruthful'
  <2>1. ASSUME NEW n \in 1..Len(waves'), waves'[n].state = "released"
        PROVE  waves'[n].items \subseteq released'
    <3>1. CASE waves'[n].state = waves[n].state
      BY <1>2, <1>3, <2>1, <3>1 DEF Release, IInv, WaveStatesTruthful
    <3>2. CASE n = Len(waves) /\ waves' # waves
      BY <1>3, <2>1, <3>2 DEF Release, MarkWave, CurrentWave
    <3> QED
      BY <1>3, <2>1, <3>1, <3>2
  <2>2. ASSUME waves' # <<>>, CurrentWave'.state = "active"
        PROVE  ~(CurrentWave'.items \subseteq released')
    <3>1. waves' # marked
      BY <1>3, <1>4, <2>2
    <3>2. ~(CurrentWave.items \subseteq released')
      BY <1>3, <2>2, <3>1 DEF Release, MarkWave
    <3> QED
      BY <1>3, <1>4, <2>2, <3>2
  <2> QED
    BY <1>3, <2>1, <2>2 DEF WaveStatesTruthful
<1> QED
  BY <1>5, <1>6, <1>7, <1>8, <1>9 DEF IInv

\* Taking an item out of the active wave keeps flag and set in step.
LEMMA LeaveWaveTracks ==
  ASSUME NEW i \in Items, IInv, LeaveWave(i),
         dispatched' = dispatched \ {i}, released \subseteq released', policy' = policy
  PROVE  /\ BarrierTracksWave'
         /\ barrierOpen' \in BOOLEAN
         /\ activeWave' \subseteq activeWave
<1>1. activeWave' = activeWave \ {i}
      /\ barrierOpen' = (barrierOpen \/ (Barrier /\ activeWave' = {}))
  BY DEF LeaveWave
<1>2. Barrier => InFlight' \subseteq activeWave'
  BY <1>1 DEF InFlight, IInv, BarrierTracksWave
<1>3. Barrier => (barrierOpen' <=> activeWave' = {})
  BY <1>1 DEF IInv, BarrierTracksWave
<1> QED
  BY <1>1, <1>2, <1>3 DEF BarrierTracksWave, Barrier

\* Retrying an item preserves the invariant.
LEMMA RetryIInv == ASSUME NEW i \in Items, IInv, Retry(i) PROVE IInv'
<1> DEFINE marked == [waves EXCEPT ![Len(waves)].state = "superseded"]
<1>1. waves' = waves \/ (waves # <<>> /\ waves' = marked)
  BY DEF Retry, MarkWave
<1>2. waves \in Seq(Wave)
  BY DEF IInv, TypeOK
<1>3. /\ waves' \in Seq(Wave) /\ Len(waves') = Len(waves)
      /\ waves' = <<>> <=> waves = <<>>
      /\ \A n \in 1..Len(waves) :
           /\ waves'[n].items = waves[n].items
           /\ waves'[n].state \in {waves[n].state, "superseded"}
  BY <1>1, <1>2, MarkWaveFacts
<1>4. waves # <<>> => /\ CurrentWave'.items = CurrentWave.items
                      /\ CurrentWave'.base = CurrentWave.base
                      /\ waves' = waves => CurrentWave'.state = CurrentWave.state
                      /\ waves' = marked => CurrentWave'.state = "superseded"
  BY <1>1, <1>2, MarkedCurrentWave
<1>5. BarrierTracksWave' /\ barrierOpen' \in BOOLEAN /\ activeWave' \subseteq activeWave
  BY LeaveWaveTracks DEF Retry
<1>6. TypeOK'
  BY <1>3, <1>5 DEF Retry, IInv, TypeOK
<1>7. BlockersFirst'
  BY DEF Retry, IInv, BlockersFirst
<1>8. ActiveWaveIsCurrent'
  BY <1>3, <1>4, <1>5 DEF Retry, IInv, ActiveWaveIsCurrent, Barrier
<1>9. WaveStatesTruthful'
  <2>1. \A n \in 1..Len(waves') : waves'[n].state = "released" => waves'[n].items \subseteq released'
    BY <1>2, <1>3 DEF Retry, IInv, WaveStatesTruthful
  <2>2. waves' # <<>> /\ CurrentWave'.state = "active" => ~(CurrentWave'.items \subseteq released')
    BY <1>1, <1>3, <1>4 DEF Retry, IInv, WaveStatesTruthful
  <2> QED
    BY <1>3, <2>1, <2>2 DEF WaveStatesTruthful
<1> QED
  BY <1>5, <1>6, <1>7, <1>8, <1>9 DEF IInv

\* Cancelling an item preserves the invariant.
LEMMA CancelIInv == ASSUME NEW i \in Items, IInv, Cancel(i) PROVE IInv'
<1> DEFINE marked == [waves EXCEPT ![Len(waves)].state = "cancelled"]
<1>1. \/ waves' = waves /\ (waves = <<>> \/ i \notin CurrentWave.items)
      \/ waves # <<>> /\ waves' = marked
  BY DEF Cancel, MarkWave
<1>2. waves \in Seq(Wave)
  BY DEF IInv, TypeOK
<1>3. /\ waves' \in Seq(Wave) /\ Len(waves') = Len(waves)
      /\ waves' = <<>> <=> waves = <<>>
      /\ \A n \in 1..Len(waves) :
           /\ waves'[n].items = waves[n].items
           /\ waves'[n].state \in {waves[n].state, "cancelled"}
  BY <1>1, <1>2, MarkWaveFacts
<1>4. waves # <<>> => /\ CurrentWave'.items = CurrentWave.items
                      /\ CurrentWave'.base = CurrentWave.base
                      /\ waves' = waves => CurrentWave'.state = CurrentWave.state
                      /\ waves' = marked => CurrentWave'.state = "cancelled"
  BY <1>1, <1>2, MarkedCurrentWave
<1>5. BarrierTracksWave' /\ barrierOpen' \in BOOLEAN /\ activeWave' \subseteq activeWave
  BY LeaveWaveTracks DEF Cancel
<1>6. TypeOK'
  BY <1>3, <1>5 DEF Cancel, IInv, TypeOK
<1>7. BlockersFirst'
  BY DEF Cancel, IInv, BlockersFirst
<1>8. ActiveWaveIsCurrent'
  BY <1>3, <1>4, <1>5 DEF Cancel, IInv, ActiveWaveIsCurrent, Barrier
<1>9. WaveStatesTruthful'
  <2>1. \A n \in 1..Len(waves') : waves'[n].state = "released" => waves'[n].items \subseteq released'
    BY <1>2, <1>3 DEF Cancel, IInv, WaveStatesTruthful
  <2>2. waves' # <<>> /\ CurrentWave'.state = "active" => ~(CurrentWave'.items \subseteq released')
    BY <1>1, <1>3, <1>4 DEF Cancel, IInv, WaveStatesTruthful
  <2> QED
    BY <1>3, <2>1, <2>2 DEF WaveStatesTruthful
<1> QED
  BY <1>5, <1>6, <1>7, <1>8, <1>9 DEF IInv

\* Moving the base preserves the invariant: the guard leaves nothing in flight.
LEMMA RefreshIInv ==
  ASSUME NEW revision \in Revisions, IInv, RefreshTargetBase(revision)
  PROVE  IInv'
<1>1. TypeOK'
  BY DEF RefreshTargetBase, IInv, TypeOK
<1>2. BlockersFirst'
  BY DEF RefreshTargetBase, IInv, BlockersFirst
<1>3. BarrierTracksWave'
  BY DEF RefreshTargetBase, IInv, BarrierTracksWave, InFlight, WaveReleased, Barrier
<1>4. ActiveWaveIsCurrent'
  BY DEF RefreshTargetBase, ActiveWaveIsCurrent, Barrier
<1>5. WaveStatesTruthful'
  BY DEF RefreshTargetBase, IInv, WaveStatesTruthful, CurrentWave
<1> QED
  BY <1>1, <1>2, <1>3, <1>4, <1>5 DEF IInv

\* Every step of the scheduler preserves the invariant.
LEMMA NextIInv == IInv /\ [Next]_vars => IInv'
<1> SUFFICES ASSUME IInv, [Next]_vars PROVE IInv'
  OBVIOUS
<1>1. CASE DispatchReady
  BY <1>1, DispatchReadyIInv
<1>2. ASSUME NEW i \in Items, Release(i) PROVE IInv'
  BY <1>2, ReleaseIInv
<1>3. ASSUME NEW i \in Items, Retry(i) PROVE IInv'
  BY <1>3, RetryIInv
<1>4. ASSUME NEW i \in Items, Cancel(i) PROVE IInv'
  BY <1>4, CancelIInv
<1>5. ASSUME NEW revision \in Revisions, RefreshTargetBase(revision) PROVE IInv'
  BY <1>5, RefreshIInv
<1>6. CASE UNCHANGED vars
  BY <1>6 DEF vars, IInv, TypeOK, BlockersFirst, BarrierTracksWave, ActiveWaveIsCurrent,
             WaveStatesTruthful, InFlight, CurrentWave, Barrier
<1> QED
  BY <1>1, <1>2, <1>3, <1>4, <1>5, <1>6 DEF Next

\* The scheduler's state always satisfies the inductive invariant.
THEOREM Invariance == Spec => []IInv
BY InitIInv, NextIInv, PTL DEF Spec

\* Whatever the graph and the policy, the scheduler's fields keep their types, and
\* an item a human cancelled counts as released.
THEOREM TypeCorrect == Spec => []TypeOK
<1>1. IInv => TypeOK
  BY DEF IInv
<1> QED
  BY <1>1, Invariance, PTL

\* No item is ever dispatched before all its blockers are released.
THEOREM DependencySafety == Spec => []BlockersFirst
<1>1. IInv => BlockersFirst
  BY DEF IInv
<1> QED
  BY <1>1, Invariance, PTL

\* Under wave_barrier the open flag and the active wave never disagree, and the
\* wave covers everything in flight.
THEOREM BarrierConsistency == Spec => []BarrierTracksWave
<1>1. IInv => BarrierTracksWave
  BY DEF IInv
<1> QED
  BY <1>1, Invariance, PTL

\* Under wave_barrier everything in flight was dispatched on the current base.
THEOREM OneBaseInFlight == Spec => []InFlightOnOneBase
<1>1. IInv => InFlightOnOneBase
  BY DEF IInv, BarrierTracksWave, ActiveWaveIsCurrent, InFlightOnOneBase
<1> QED
  BY <1>1, Invariance, PTL

\* The recorded states of the execution waves never lie about released work.
THEOREM WaveRecords == Spec => []WaveStatesTruthful
<1>1. IInv => WaveStatesTruthful
  BY DEF IInv
<1> QED
  BY <1>1, Invariance, PTL

\* Under wave_barrier the base moves, and new work is dispatched, only when
\* nothing is in flight.
THEOREM NothingInFlightAtBarrier == Spec => BarrierHolds
<1>1. ASSUME IInv, [Next]_vars, Barrier,
             baseRevision' # baseRevision \/ ~(dispatched' \subseteq dispatched)
      PROVE  InFlight = {}
  <2>1. CASE DispatchReady
    BY <1>1, <2>1 DEF DispatchReady, PreviewReady, IInv, BarrierTracksWave
  <2>2. CASE \E revision \in Revisions : RefreshTargetBase(revision)
    BY <1>1, <2>2 DEF RefreshTargetBase, WaveReleased, IInv, BarrierTracksWave, InFlight
  <2>3. CASE \E i \in Items : Release(i) \/ Retry(i) \/ Cancel(i)
    BY <1>1, <2>3 DEF Release, Retry, Cancel
  <2>4. CASE UNCHANGED vars
    BY <1>1, <2>4 DEF vars
  <2> QED
    BY <1>1, <2>1, <2>2, <2>3, <2>4 DEF Next
<1>2. IInv /\ [Next]_vars =>
        [Barrier /\ (baseRevision' # baseRevision \/ ~(dispatched' \subseteq dispatched))
         => InFlight = {}]_vars
  BY <1>1
<1> QED
  BY <1>2, Invariance, PTL DEF Spec, BarrierHolds
=============================================================================
