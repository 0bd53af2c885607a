--------------------------- MODULE SimulatorProofs ---------------------------
(***************************************************************************)
(* Proofs about MergeWaveSimulator: that its gate decides what the design  *)
(* document's contract asks, what the scheduler's theorems say of the      *)
(* scheduler inside it, that its own copies and caches agree with the      *)
(* scheduler, that only a gate contract met releases an item, and that it  *)
(* implements GatedDelivery.                                               *)
(***************************************************************************)
EXTENDS MergeWaveSimulator, WellFoundedInduction, TLAPS

SP == INSTANCE SchedulerProofs

\* An item has a dispatch exactly while the scheduler counts it as dispatched,
\* and nothing is remembered of an item without one.
DispatchesTracked ==
  \A i \in Items : /\ dispatches[i] # None <=> i \in dispatched
                   /\ observations[i] # None => dispatches[i] # None

\* The simulator's decision and the scheduler's release are two records of one
\* fact: what the gate approved, the scheduler has released.
ApprovedIsReleased == \A i \in Items : Approved(i) => i \in released

\* Under wave_barrier what is in flight was dispatched on the current base.
DispatchedOnBase ==
  Barrier => \A i \in InFlight : dispatches[i].base = baseRevision

IInv ==
  /\ TypeOK
  /\ SP!IInv
  /\ DispatchesTracked
  /\ DecisionIsCurrent
  /\ ApprovedIsReleased
  /\ Barrier => simWave = activeWave
  /\ DispatchedOnBase

-----------------------------------------------------------------------------
(* The gate, for every observation and every review policy.                *)

\* A non-empty set of positions has a least element.
LEMMA LeastPosition ==
  ASSUME NEW S \in SUBSET Nat, S # {}
  PROVE  Min(S) \in S
<1>1. \E x \in S : \A y \in S : ~(<<y, x>> \in OpToRel(<, Nat))
  BY NatLessThanWellFounded, WFMin
<1>2. \E x \in S : \A y \in S : ~(y < x)
  BY <1>1 DEF OpToRel
<1>3. \E x \in S : \A y \in S : x =< y
  BY <1>2
<1> QED
  BY <1>3, Zenon DEF Min

\* The table of checks holds a failure code in every row.
LEMMA CodesOfChecks ==
  ASSUME NEW d, NEW o
  PROVE  /\ DOMAIN Checks(d, o) = 1..14
         /\ \A n \in 1..14 : Checks(d, o)[n][1] \in FailureCodes
BY DEF Checks, FailureCodes

\* No check fails exactly when classification finds no failure.
LEMMA NoFailure ==
  ASSUME NEW d, NEW o
  PROVE  Classify(d, o) = "none" <=> \A n \in 1..14 : ~Checks(d, o)[n][2]
<1> DEFINE failing == {n \in 1..14 : Checks(d, o)[n][2]}
<1>1. Classify(d, o) = IF failing = {} THEN "none" ELSE Checks(d, o)[Min(failing)][1]
  BY CodesOfChecks DEF Classify, FirstFailure
<1>2. "none" \notin FailureCodes
  BY DEF FailureCodes
<1>3. ASSUME failing # {} PROVE Checks(d, o)[Min(failing)][1] \in FailureCodes
  <2>1. Min(failing) \in 1..14
    BY <1>3, LeastPosition
  <2> QED
    BY <2>1, CodesOfChecks
<1> QED
  BY <1>1, <1>2, <1>3

\* Whatever is observed, the answer is a decision with one of the known codes
\* (simulator.py evaluate_gate).
LEMMA DecisionOfGate ==
  ASSUME NEW d, NEW o
  PROVE  Decide(d, o) \in Decision
<1> DEFINE failing == {n \in 1..14 : Checks(d, o)[n][2]}
<1>1. Classify(d, o) = IF failing = {} THEN "none" ELSE Checks(d, o)[Min(failing)][1]
  BY CodesOfChecks DEF Classify, FirstFailure
<1>2. ASSUME failing # {} PROVE Checks(d, o)[Min(failing)][1] \in FailureCodes
  <2>1. Min(failing) \in 1..14
    BY <1>2, LeastPosition
  <2> QED
    BY <2>1, CodesOfChecks
<1>3. Classify(d, o) \in FailureCodes \cup {"none"}
  BY <1>1, <1>2
<1> QED
  BY <1>3 DEF Decide, Decision

\* An item is approved exactly when the observation meets the whole contract:
\* the order of the checks in _classify and the split into pending and blocked
\* codes let nothing else through (simulator.py evaluate_gate).
THEOREM ApprovedMeansContract ==
  ASSUME NEW d, NEW o,
         o.approvals \in Nat,
         {o.ciPending, o.ciPassed, o.linked, o.ancestor, o.changesOpen,
          o.reviewersOk, o.merged} \subseteq BOOLEAN
  PROVE  Decide(d, o).status = "approved" <=> MeetsContract(d, o)
<1>1. Decide(d, o).status = "approved" <=> Classify(d, o) = "none"
  BY DEF Decide
<1>2. (\A n \in 1..14 : ~Checks(d, o)[n][2]) <=> MeetsContract(d, o)
  <2>1. (\A n \in 1..14 : ~Checks(d, o)[n][2]) <=>
          /\ ~Checks(d, o)[1][2] /\ ~Checks(d, o)[2][2] /\ ~Checks(d, o)[3][2]
          /\ ~Checks(d, o)[4][2] /\ ~Checks(d, o)[5][2] /\ ~Checks(d, o)[6][2]
          /\ ~Checks(d, o)[7][2] /\ ~Checks(d, o)[8][2] /\ ~Checks(d, o)[9][2]
          /\ ~Checks(d, o)[10][2] /\ ~Checks(d, o)[11][2] /\ ~Checks(d, o)[12][2]
          /\ ~Checks(d, o)[13][2] /\ ~Checks(d, o)[14][2]
    OBVIOUS
  <2>2. /\ Checks(d, o)[1][2] = (o.workspace # d.workspace)
        /\ Checks(d, o)[2][2] = (o.base # d.base)
        /\ Checks(d, o)[3][2] = (o.initialHead # o.base)
        /\ Checks(d, o)[4][2] = (o.prHead = NoHead)
        /\ Checks(d, o)[5][2] = o.ciPending
        /\ Checks(d, o)[6][2] = (o.ciHead # o.prHead)
        /\ Checks(d, o)[7][2] = ~o.linked
        /\ Checks(d, o)[8][2] = ~o.ancestor
        /\ Checks(d, o)[9][2] = ~o.ciPassed
        /\ Checks(d, o)[10][2] = o.changesOpen
        /\ Checks(d, o)[11][2] = (RequireReviewers /\ ~o.reviewersOk)
        /\ Checks(d, o)[12][2] = (o.approvals < RequiredApprovals)
        /\ Checks(d, o)[13][2] = ~o.merged
        /\ Checks(d, o)[14][2] = (o.inTarget = "no")
    BY DEF Checks
  <2>3. o.approvals < RequiredApprovals <=> ~(o.approvals >= RequiredApprovals)
    BY GateAssumption
  <2> QED
    BY <2>1, <2>2, <2>3, Zenon DEF MeetsContract
<1> QED
  BY <1>1, <1>2, NoFailure

-----------------------------------------------------------------------------
(* The simulator's steps.                                                  *)

\* The scheduler's theorems are about the scheduler inside the simulator: each of
\* its methods the simulator calls preserves the scheduler's invariant.
LEMMA SchedulerKeepsInvariant ==
  ASSUME SP!IInv,
         \/ Sched!DispatchReady
         \/ \E i \in Items : Sched!Release(i) \/ Sched!Retry(i) \/ Sched!Cancel(i)
         \/ \E revision \in Revisions : Sched!RefreshTargetBase(revision)
         \/ UNCHANGED schedVars
  PROVE  SP!IInv' /\ Sched!TypeOK'
<1>1. SP!IInv'
  <2>1. CASE Sched!DispatchReady
    <3>1. SP!DispatchReady
      BY <2>1 DEF Sched!DispatchReady, SP!DispatchReady, Sched!PreviewReady, SP!PreviewReady,
                  Sched!Ready, SP!Ready, Sched!Barrier, SP!Barrier
    <3> QED
      BY <3>1, SP!NextIInv, SimulatorAssumption DEF SP!Next
  <2>2. ASSUME NEW i \in Items, Sched!Release(i) \/ Sched!Retry(i) \/ Sched!Cancel(i)
        PROVE  SP!IInv'
    <3>1. SP!Release(i) \/ SP!Retry(i) \/ SP!Cancel(i)
      BY <2>2 DEF Sched!Release, SP!Release, Sched!Retry, SP!Retry, Sched!Cancel, SP!Cancel,
                  Sched!LeaveWave, SP!LeaveWave, Sched!MarkWave, SP!MarkWave,
                  Sched!CurrentWave, SP!CurrentWave, Sched!Barrier, SP!Barrier
    <3> QED
      BY <3>1, SP!NextIInv, SimulatorAssumption DEF SP!Next
  <2>3. ASSUME NEW revision \in Revisions, Sched!RefreshTargetBase(revision) PROVE SP!IInv'
    <3>1. SP!RefreshTargetBase(revision)
      BY <2>3 DEF Sched!RefreshTargetBase, SP!RefreshTargetBase, Sched!WaveReleased,
                  SP!WaveReleased, Sched!Barrier, SP!Barrier
    <3> QED
      BY <3>1, SP!NextIInv, SimulatorAssumption DEF SP!Next
  <2>4. CASE UNCHANGED schedVars
    <3>1. UNCHANGED SP!vars
      BY <2>4 DEF schedVars, SP!vars
    <3> QED
      BY <3>1, SP!NextIInv, SimulatorAssumption
  <2> QED
    BY <2>1, <2>2, <2>3, <2>4
<1> QED
  BY <1>1 DEF SP!IInv, SP!TypeOK, Sched!TypeOK, SP!Wave, Sched!Wave

\* What the scheduler's invariant says in the simulator's words.
LEMMA SchedulerFacts ==
  ASSUME SP!IInv
  PROVE  /\ Sched!TypeOK
         /\ \A i \in dispatched : BlockedBy[i] \subseteq released
         /\ Barrier => /\ barrierOpen <=> activeWave = {}
                       /\ InFlight \subseteq activeWave
BY DEF SP!IInv, SP!TypeOK, Sched!TypeOK, SP!Wave, Sched!Wave, SP!BlockersFirst,
       SP!BarrierTracksWave, SP!Barrier, Barrier, SP!InFlight, InFlight

\* The gate answers with a decision, and approves what meets the contract only.
LEMMA DecideFacts ==
  ASSUME NEW d, NEW o
  PROVE  /\ Decide(d, o) \in Decision
         /\ o \in Observations =>
              (Decide(d, o).status = "approved" <=> MeetsContract(d, o))
BY DecisionOfGate, ApprovedMeansContract, SimulatorAssumption

\* The simulator starts in the invariant.
LEMMA InitIInv == Init => IInv
<1> SUFFICES ASSUME Init PROVE IInv
  OBVIOUS
<1>1. SP!IInv
  <2>1. SP!Init
    BY DEF Init, Sched!Init, SP!Init
  <2> QED
    BY <2>1, SP!InitIInv, SimulatorAssumption
<1>2. TypeOK
  BY <1>1, SchedulerFacts, SimulatorAssumption DEF Init, TypeOK
<1> QED
  BY <1>1, <1>2
     DEF Init, IInv, Sched!Init, DispatchesTracked, DecisionIsCurrent, ApprovedIsReleased,
         Approved, DispatchedOnBase, InFlight

\* Dispatching the frontier preserves the invariant.
LEMMA DispatchReadyIInv == IInv /\ DispatchReady => IInv'
<1> SUFFICES ASSUME IInv, DispatchReady PROVE IInv'
  OBVIOUS
<1> DEFINE ready == Sched!PreviewReady
<1>1. /\ Sched!DispatchReady
      /\ UNCHANGED <<observations, decisions, attemptNumber>>
      /\ dispatches' = [i \in Items |->
           IF i \in ready
           THEN [workspace |-> Workspace(i, attemptNumber[i]), base |-> baseRevision]
           ELSE dispatches[i]]
      /\ simWave' = IF Barrier THEN ready ELSE simWave
  BY DEF DispatchReady
<1>2. SP!IInv' /\ Sched!TypeOK'
  BY <1>1, SchedulerKeepsInvariant DEF IInv
<1>3. /\ ready \subseteq Items \ (dispatched \cup released)
      /\ dispatched' = dispatched \cup ready
      /\ released' = released /\ baseRevision' = baseRevision /\ policy' = policy
      /\ activeWave' = IF Barrier THEN ready ELSE activeWave
      /\ Barrier => barrierOpen
  BY <1>1 DEF Sched!DispatchReady, Sched!PreviewReady, Sched!Ready, Sched!Barrier, Barrier
<1>4. \A i \in Items : [workspace |-> Workspace(i, attemptNumber[i]), base |-> baseRevision]
                       \in Dispatch
  BY DEF IInv, TypeOK, Sched!TypeOK, Workspace, Dispatch
<1>5. TypeOK'
  BY <1>1, <1>2, <1>3, <1>4 DEF IInv, TypeOK
<1>6. DispatchesTracked'
  BY <1>1, <1>3, <1>4, SimulatorAssumption DEF IInv, DispatchesTracked
<1>7. DecisionIsCurrent' /\ ApprovedIsReleased'
  BY <1>1, <1>3, <1>6
     DEF IInv, TypeOK, DispatchesTracked, DecisionIsCurrent, ApprovedIsReleased, Approved
<1>8. (Barrier => simWave = activeWave)'
  BY <1>1, <1>3 DEF IInv, Barrier
<1>9. DispatchedOnBase'
  BY <1>1, <1>3 DEF IInv, TypeOK, Sched!TypeOK, DispatchedOnBase, InFlight, Barrier
<1> QED
  BY <1>2, <1>5, <1>6, <1>7, <1>8, <1>9 DEF IInv

\* A new observation preserves the invariant: the stale decision goes with it.
LEMMA ObserveDeliveryIInv ==
  ASSUME NEW i \in Items, NEW o \in Observations, IInv, ObserveDelivery(i, o)
  PROVE  IInv'
<1>1. /\ UNCHANGED <<schedVars, dispatches, simWave, attemptNumber>>
      /\ observations' = [observations EXCEPT ![i] = o]
      /\ decisions' = [decisions EXCEPT ![i] = IF Approved(i) THEN decisions[i] ELSE None]
  BY DEF ObserveDelivery
<1>2. SP!IInv' /\ Sched!TypeOK'
  BY <1>1, SchedulerKeepsInvariant DEF IInv
<1>3. TypeOK'
  BY <1>1, <1>2 DEF IInv, TypeOK, ObserveDelivery
<1>4. DispatchesTracked'
  BY <1>1 DEF IInv, TypeOK, DispatchesTracked, ObserveDelivery, schedVars
<1>5. \A j \in Items : Approved(j)' <=> Approved(j)
  BY <1>1 DEF IInv, TypeOK, Approved
<1>6. DecisionIsCurrent'
  <2> SUFFICES ASSUME NEW j \in Items, decisions'[j] # None
               PROVE  /\ dispatches'[j] # None /\ observations'[j] # None
                      /\ ~Approved(j)' => decisions'[j] = Decide(dispatches'[j], observations'[j])
    BY DEF DecisionIsCurrent
  <2>1. CASE j = i
    BY <1>1, <1>5, <2>1, SimulatorAssumption
       DEF IInv, TypeOK, DecisionIsCurrent, ObserveDelivery, Approved
  <2>2. CASE j # i
    BY <1>1, <1>5, <2>2 DEF IInv, TypeOK, DecisionIsCurrent
  <2> QED
    BY <2>1, <2>2
<1>7. ApprovedIsReleased' /\ DispatchedOnBase' /\ (Barrier => simWave = activeWave)'
  BY <1>1, <1>5
     DEF IInv, ApprovedIsReleased, DispatchedOnBase, InFlight, Barrier, schedVars
<1> QED
  BY <1>2, <1>3, <1>4, <1>6, <1>7 DEF IInv

\* Evaluating the gate preserves the invariant: the decision is about what is
\* stored, and an approval releases the item in the same step.
LEMMA EvaluateGateIInv ==
  ASSUME NEW i \in Items, IInv, EvaluateGate(i)
  PROVE  IInv'
<1> DEFINE decision == Decide(dispatches[i], observations[i])
<1>1. /\ decisions[i] = None /\ observations[i] # None
      /\ UNCHANGED <<dispatches, observations, simWave, attemptNumber>>
      /\ decisions' = [decisions EXCEPT ![i] = decision]
      /\ IF decision.status = "approved" THEN Sched!Release(i) ELSE UNCHANGED schedVars
  BY DEF EvaluateGate
<1>2. SP!IInv' /\ Sched!TypeOK'
  BY <1>1, SchedulerKeepsInvariant DEF IInv
<1>3. /\ UNCHANGED <<policy, dispatched, activeWave, baseRevision>>
      /\ released \subseteq released'
      /\ decision.status = "approved" => i \in released'
  BY <1>1 DEF Sched!Release, schedVars
<1>4. decision \in Decision
  BY DecideFacts
<1>5. TypeOK'
  BY <1>1, <1>2, <1>4 DEF IInv, TypeOK
<1>6. DispatchesTracked'
  BY <1>1, <1>3 DEF IInv, DispatchesTracked
<1>7. DecisionIsCurrent'
  BY <1>1, <1>3 DEF IInv, TypeOK, DispatchesTracked, DecisionIsCurrent, Approved
<1>8. ApprovedIsReleased'
  BY <1>1, <1>3 DEF IInv, TypeOK, ApprovedIsReleased, Approved
<1>9. DispatchedOnBase' /\ (Barrier => simWave = activeWave)'
  BY <1>1, <1>3 DEF IInv, DispatchedOnBase, InFlight, Barrier
<1> QED
  BY <1>2, <1>5, <1>6, <1>7, <1>8, <1>9 DEF IInv

\* Moving the base preserves the invariant: under a barrier nothing is in flight.
LEMMA RefreshTargetBaseIInv ==
  ASSUME NEW revision \in Revisions, IInv, RefreshTargetBase(revision)
  PROVE  IInv'
<1>1. /\ Sched!RefreshTargetBase(revision)
      /\ simWave' = {} /\ UNCHANGED itemVars
  BY DEF RefreshTargetBase
<1>2. SP!IInv' /\ Sched!TypeOK'
  BY <1>1, SchedulerKeepsInvariant DEF IInv
<1>3. /\ UNCHANGED <<policy, dispatched, released>>
      /\ Barrier => activeWave \subseteq released /\ activeWave' = {}
  BY <1>1 DEF Sched!RefreshTargetBase, Sched!WaveReleased, Sched!Barrier, Barrier
<1>4. TypeOK'
  BY <1>1, <1>2 DEF IInv, TypeOK, itemVars
<1>5. DispatchesTracked' /\ DecisionIsCurrent' /\ ApprovedIsReleased'
  BY <1>1, <1>3
     DEF IInv, DispatchesTracked, DecisionIsCurrent, ApprovedIsReleased, Approved, itemVars
<1>6. DispatchedOnBase' /\ (Barrier => simWave = activeWave)'
  BY <1>1, <1>3, SchedulerFacts DEF IInv, DispatchedOnBase, InFlight, Barrier
<1> QED
  BY <1>2, <1>4, <1>5, <1>6 DEF IInv

\* Forgetting an item that leaves the scheduler's dispatched set preserves the
\* invariant, whether it is retried or cancelled.
LEMMA ForgetIInv ==
  ASSUME NEW i \in Items, IInv, Forget(i), SP!IInv', Sched!TypeOK',
         attemptNumber' \in [Items -> 1..MaxAttempts],
         dispatched' = dispatched \ {i}, released \subseteq released',
         activeWave' = activeWave \ {i}, UNCHANGED <<policy, baseRevision>>
  PROVE  IInv'
<1>1. /\ dispatches' = [dispatches EXCEPT ![i] = None]
      /\ observations' = [observations EXCEPT ![i] = None]
      /\ decisions' = [decisions EXCEPT ![i] = None]
      /\ simWave' = simWave \ {i}
  BY DEF Forget
<1>2. TypeOK'
  BY <1>1 DEF IInv, TypeOK
<1>3. DispatchesTracked'
  BY <1>1 DEF IInv, TypeOK, DispatchesTracked
<1>4. DecisionIsCurrent' /\ ApprovedIsReleased'
  BY <1>1 DEF IInv, TypeOK, DecisionIsCurrent, ApprovedIsReleased, Approved
<1>5. DispatchedOnBase' /\ (Barrier => simWave = activeWave)'
  BY <1>1 DEF IInv, TypeOK, DispatchedOnBase, InFlight, Barrier
<1> QED
  BY <1>2, <1>3, <1>4, <1>5 DEF IInv

\* Retrying an item preserves the invariant.
LEMMA RetryItemIInv ==
  ASSUME NEW i \in Items, IInv, RetryItem(i)
  PROVE  IInv'
<1>1. SP!IInv' /\ Sched!TypeOK'
  BY SchedulerKeepsInvariant DEF IInv, RetryItem
<1>2. attemptNumber' \in [Items -> 1..MaxAttempts]
  BY SimulatorAssumption DEF IInv, TypeOK, RetryItem
<1> QED
  BY <1>1, <1>2, ForgetIInv DEF RetryItem, Sched!Retry, Sched!LeaveWave

\* Cancelling an item preserves the invariant.
LEMMA CancelFromWaveIInv ==
  ASSUME NEW i \in Items, IInv, CancelFromWave(i)
  PROVE  IInv'
<1>1. SP!IInv' /\ Sched!TypeOK'
  BY SchedulerKeepsInvariant DEF IInv, CancelFromWave
<1>2. attemptNumber' \in [Items -> 1..MaxAttempts]
  BY DEF IInv, TypeOK, CancelFromWave
<1> QED
  BY <1>1, <1>2, ForgetIInv DEF CancelFromWave, Sched!Cancel, Sched!LeaveWave

\* Every step of the simulator preserves the invariant.
LEMMA NextIInv == IInv /\ [Next]_vars => IInv'
<1> SUFFICES ASSUME IInv, [Next]_vars PROVE IInv'
  OBVIOUS
<1>1. CASE DispatchReady
  BY <1>1, DispatchReadyIInv
<1>2. ASSUME NEW i \in Items, NEW o \in Observations, ObserveDelivery(i, o) PROVE IInv'
  BY <1>2, ObserveDeliveryIInv
<1>3. ASSUME NEW i \in Items, EvaluateGate(i) PROVE IInv'
  BY <1>3, EvaluateGateIInv
<1>4. ASSUME NEW i \in Items, RetryItem(i) PROVE IInv'
  BY <1>4, RetryItemIInv
<1>5. ASSUME NEW i \in Items, CancelFromWave(i) PROVE IInv'
  BY <1>5, CancelFromWaveIInv
<1>6. ASSUME NEW revision \in Revisions, RefreshTargetBase(revision) PROVE IInv'
  BY <1>6, RefreshTargetBaseIInv
<1>7. CASE UNCHANGED vars
  <2>1. SP!IInv' /\ Sched!TypeOK'
    BY <1>7, SchedulerKeepsInvariant DEF IInv, vars
  <2> QED
    BY <1>7, <2>1
       DEF vars, schedVars, itemVars, IInv, TypeOK, DispatchesTracked, DecisionIsCurrent,
           ApprovedIsReleased, Approved, DispatchedOnBase, InFlight, Barrier
<1> QED
  BY <1>1, <1>2, <1>3, <1>4, <1>5, <1>6, <1>7 DEF Next

-----------------------------------------------------------------------------
\* The simulator's state always satisfies the inductive invariant.
THEOREM Invariance == Spec => []IInv
BY InitIInv, NextIInv, PTL DEF Spec

\* The simulator's maps keep their types, and so does the scheduler inside it.
THEOREM TypeCorrect == Spec => []TypeOK
<1>1. IInv => TypeOK
  BY DEF IInv
<1> QED
  BY <1>1, Invariance, PTL

\* The simulator and its scheduler always agree about the active wave, and a
\* refresh that can_refresh_target_base allows is never refused by the scheduler.
THEOREM WavesAlwaysAgree == Spec => []WavesAgree
<1>1. IInv => WavesAgree
  BY DEF IInv, TypeOK, WavesAgree, ApprovedIsReleased, CanRefreshTargetBase, Sched!WaveReleased
<1> QED
  BY <1>1, Invariance, PTL

\* A cached decision is always about the dispatch and the observation now stored.
THEOREM DecisionsAreCurrent == Spec => []DecisionIsCurrent
<1>1. IInv => DecisionIsCurrent
  BY DEF IInv
<1> QED
  BY <1>1, Invariance, PTL

\* Whatever observations are reported in whatever order, an item that is not
\* cancelled is released only by a step whose stored observation meets the whole
\* gate contract for the attempt in flight.
THEOREM EvidenceBeforeRelease == Spec => ReleaseNeedsCurrentEvidence
<1>1. ASSUME IInv, [Next]_vars, NEW i \in (released' \ released) \ cancelled'
      PROVE  dispatches[i] # None /\ MeetsContract(dispatches[i], observations[i])
  <2>1. CASE DispatchReady
    BY <1>1, <2>1 DEF DispatchReady, Sched!DispatchReady
  <2>2. ASSUME NEW j \in Items, NEW o \in Observations, ObserveDelivery(j, o) PROVE FALSE
    BY <1>1, <2>2 DEF ObserveDelivery, schedVars
  <2>3. ASSUME NEW j \in Items, EvaluateGate(j)
        PROVE  dispatches[i] # None /\ MeetsContract(dispatches[i], observations[i])
    <3>1. /\ observations[j] # None
          /\ Decide(dispatches[j], observations[j]).status = "approved"
          /\ Sched!Release(j)
      BY <1>1, <2>3 DEF EvaluateGate, schedVars
    <3>2. j = i
      BY <1>1, <3>1 DEF Sched!Release
    <3>3. dispatches[j] # None /\ observations[j] \in Observations
      BY <1>1, <3>1 DEF IInv, TypeOK, DispatchesTracked
    <3> QED
      BY <3>1, <3>2, <3>3, DecideFacts
  <2>4. ASSUME NEW j \in Items, RetryItem(j) PROVE FALSE
    BY <1>1, <2>4 DEF RetryItem, Sched!Retry
  <2>5. ASSUME NEW j \in Items, CancelFromWave(j) PROVE FALSE
    BY <1>1, <2>5 DEF CancelFromWave, Sched!Cancel
  <2>6. ASSUME NEW revision \in Revisions, RefreshTargetBase(revision) PROVE FALSE
    BY <1>1, <2>6 DEF RefreshTargetBase, Sched!RefreshTargetBase
  <2>7. CASE UNCHANGED vars
    BY <1>1, <2>7 DEF vars, schedVars
  <2> QED
    BY <1>1, <2>1, <2>2, <2>3, <2>4, <2>5, <2>6, <2>7 DEF Next
<1>2. IInv /\ [Next]_vars =>
        [\A i \in (released' \ released) \ cancelled' :
           dispatches[i] # None /\ MeetsContract(dispatches[i], observations[i])]_vars
  BY <1>1
<1> QED
  BY <1>2, Invariance, PTL DEF Spec, ReleaseNeedsCurrentEvidence

-----------------------------------------------------------------------------
(* The refinement of GatedDelivery.                                        *)

\* The two state functions of the refinement mapping.
Status(i) == IF i \in released THEN "settled"
             ELSE IF i \in dispatched THEN "inflight" ELSE "waiting"

StartedOn(i) == IF i \in InFlight THEN dispatches[i].base ELSE None

\* An initial state of the simulator is one of the abstract specification.
LEMMA InitRefines == Init => Abstract!Init
BY SimulatorAssumption DEF Init, Sched!Init, Abstract!Init, InFlight

\* A step that leaves the scheduler's sets and the dispatches of what is in flight
\* alone is a stutter of the abstract specification.
LEMMA StutterRefines ==
  ASSUME \A i \in Items : Status(i)' = Status(i) /\ StartedOn(i)' = StartedOn(i),
         policy' = policy
  PROVE  UNCHANGED Abstract!vars
BY DEF Abstract!vars, Status, StartedOn

\* Taking one item out of flight is the abstract Leave.
LEMMA LeaveRefines ==
  ASSUME NEW i \in Items, i \in InFlight, NEW next \in {"waiting", "settled"},
         Status(i)' = next, StartedOn(i)' = None,
         \A j \in Items \ {i} : Status(j)' = Status(j) /\ StartedOn(j)' = StartedOn(j),
         policy' = policy
  PROVE  Abstract!Next
<1>1. Abstract!Leave(i, next)
  BY DEF Abstract!Leave, Status, StartedOn, InFlight
<1> QED
  BY <1>1 DEF Abstract!Next

\* Dispatching the frontier is one abstract Start, of all of it on one revision.
LEMMA DispatchReadyRefines ==
  ASSUME IInv, DispatchReady
  PROVE  Abstract!Next
<1> PICK ready, revision : ready = Sched!PreviewReady /\ revision = baseRevision
  OBVIOUS
<1>1. /\ dispatches' = [i \in Items |->
           IF i \in ready
           THEN [workspace |-> Workspace(i, attemptNumber[i]), base |-> revision]
           ELSE dispatches[i]]
      /\ ready # {}
      /\ \A i \in ready : /\ i \in Items /\ i \notin dispatched /\ i \notin released
                         /\ BlockedBy[i] \subseteq released
      /\ dispatched' = dispatched \cup ready
      /\ released' = released /\ policy' = policy
      /\ Barrier => barrierOpen
  BY DEF DispatchReady, Sched!DispatchReady, Sched!PreviewReady, Sched!Ready, Sched!Barrier,
         Barrier
<1>2. ready \in SUBSET Abstract!Startable
  BY <1>1, SimulatorAssumption DEF Abstract!Startable
<1>3. Barrier => InFlight = {}
  BY <1>1, SchedulerFacts DEF IInv
<1>4. revision \in Revisions
  BY DEF IInv, TypeOK, Sched!TypeOK
<1>5. \A i \in Items : /\ Status(i)' = IF i \in ready THEN "inflight" ELSE Status(i)
                      /\ StartedOn(i)' = IF i \in ready THEN revision ELSE StartedOn(i)
  BY <1>1 DEF Status, StartedOn, InFlight
<1>6. Abstract!Start(ready, revision)
  BY <1>1, <1>3, <1>5 DEF Abstract!Start, Status, StartedOn, Barrier, InFlight
<1> QED
  BY <1>2, <1>4, <1>6 DEF Abstract!Next

\* An item that leaves the dispatched set, or enters the released one, alone.
LEMMA ItemLeaves ==
  ASSUME IInv, NEW i \in Items, i \in dispatched, policy' = policy,
         NEW next \in {"waiting", "settled"},
         \A j \in Items \ {i} : /\ j \in dispatched' <=> j \in dispatched
                                /\ j \in released' <=> j \in released
                                /\ dispatches'[j] = dispatches[j],
         released \subseteq released',
         IF next = "settled" THEN i \in released'
         ELSE i \notin released' /\ i \notin dispatched'
  PROVE  Abstract!Next \/ UNCHANGED Abstract!vars
<1>1. \A j \in Items \ {i} : Status(j)' = Status(j) /\ StartedOn(j)' = StartedOn(j)
  BY DEF Status, StartedOn, InFlight
<1>2. CASE i \in released
  <2>1. Status(i)' = Status(i) /\ StartedOn(i)' = StartedOn(i)
    BY <1>2 DEF Status, StartedOn, InFlight
  <2> QED
    BY <1>1, <2>1, StutterRefines
<1>3. CASE i \notin released
  <2>1. i \in InFlight /\ Status(i)' = next /\ StartedOn(i)' = None
    BY <1>3 DEF Status, StartedOn, InFlight
  <2> QED
    BY <1>1, <2>1, LeaveRefines
<1> QED
  BY <1>2, <1>3

\* Every step of the simulator is a step of the abstract specification or leaves
\* its state alone.
LEMMA NextRefines ==
  ASSUME IInv, [Next]_vars
  PROVE  [Abstract!Next]_Abstract!vars
<1>1. CASE DispatchReady
  BY <1>1, DispatchReadyRefines
<1>2. ASSUME NEW i \in Items, NEW o \in Observations, ObserveDelivery(i, o)
      PROVE  UNCHANGED Abstract!vars
  BY <1>2 DEF ObserveDelivery, schedVars, Abstract!vars, InFlight
<1>3. ASSUME NEW i \in Items, EvaluateGate(i)
      PROVE  Abstract!Next \/ UNCHANGED Abstract!vars
  <2>1. CASE UNCHANGED schedVars
    BY <1>3, <2>1 DEF EvaluateGate, schedVars, Abstract!vars, InFlight
  <2>2. CASE Sched!Release(i)
    BY <1>3, <2>2, ItemLeaves DEF EvaluateGate, Sched!Release
  <2> QED
    BY <1>3, <2>1, <2>2 DEF EvaluateGate
<1>4. ASSUME NEW i \in Items, RetryItem(i)
      PROVE  Abstract!Next \/ UNCHANGED Abstract!vars
  BY <1>4, ItemLeaves DEF RetryItem, Sched!Retry, Forget, IInv, TypeOK
<1>5. ASSUME NEW i \in Items, CancelFromWave(i)
      PROVE  Abstract!Next \/ UNCHANGED Abstract!vars
  BY <1>5, ItemLeaves DEF CancelFromWave, Sched!Cancel, Forget, IInv, TypeOK
<1>6. ASSUME NEW revision \in Revisions, RefreshTargetBase(revision)
      PROVE  UNCHANGED Abstract!vars
  BY <1>6 DEF RefreshTargetBase, Sched!RefreshTargetBase, itemVars, Abstract!vars, InFlight
<1>7. CASE UNCHANGED vars
  BY <1>7 DEF vars, schedVars, itemVars, Abstract!vars, InFlight
<1> QED
  BY <1>1, <1>2, <1>3, <1>4, <1>5, <1>6, <1>7 DEF Next

\* The simulator implements GatedDelivery: it starts items only when all they are
\* blocked by is settled and, under wave_barrier, when nothing is in flight, and
\* what is settled stays so, whatever is retried, cancelled, observed or refreshed.
THEOREM Implementation == Spec => ImplementsGatedDelivery
<1>1. IInv /\ [Next]_vars => [Abstract!Next]_Abstract!vars
  BY NextRefines
<1> QED
  BY <1>1, InitRefines, Invariance, PTL DEF Spec, ImplementsGatedDelivery, Abstract!Spec

\* No item is in flight ahead of an item it is blocked by, and under wave_barrier
\* the worktrees of all items in flight were created from one revision.
THEOREM OneFrontierInFlight == Spec => []Abstract!OneFrontier
<1>1. IInv => Abstract!OneFrontier
  BY SchedulerFacts, SimulatorAssumption
     DEF IInv, DispatchedOnBase, Abstract!OneFrontier, InFlight, Barrier
<1> QED
  BY <1>1, Invariance, PTL
=============================================================================
