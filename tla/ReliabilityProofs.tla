------------------------- MODULE ReliabilityProofs -------------------------
(***************************************************************************)
(* Proofs about ReliabilityRecords for any number of attempts and faults.  *)
(* What the sink refers to is in the sink, and what the log knows is not   *)
(* written again, because memory never knows less than the log and every   *)
(* set of identities in memory names evidence that was written before.     *)
(***************************************************************************)
EXTENDS ReliabilityRecords, TLAPS

\* The steps at which the evidence of the observation at work is complete.
Evidenced == {"logEvidence", "checkRequest", "request", "gate.requested", "logRequest",
              "checkDecision", "decision"}

\* An artifact one of whose claims is known in memory has all its evidence in
\* the sink.
KnownIsWritten ==
  \A r \in Runs, a \in Artifacts :
    EvidenceOf(r, a) \cap (emitted \cup known) # {} => EvidenceOf(r, a) \subseteq evidence

\* The evidence of the observation at work, up to the claim at work.
ClaimsAreWritten ==
  /\ pc = "evidence" =>
       \A n \in 1..3 : n < claim => EvidenceId(n, run, seen.artifact) \in evidence
  /\ pc \in Evidenced => EvidenceOf(run, seen.artifact) \subseteq evidence

\* Memory knows what the log knows, and nothing pending is known.
PendingIsNew == loggedEmissions \subseteq emitted /\ Pending \cap emitted = {}

IInv ==
  /\ TypeOK
  /\ KnownIsWritten
  /\ ClaimsAreWritten
  /\ requested \subseteq evidence
  /\ EvidencePrecedesReference
  /\ PendingIsNew

-----------------------------------------------------------------------------
(* What the numbers and the records of a release rest on.                  *)

\* The writes that begin a run.
Starting == {"manifest", "episode", "episode.started", "execution.started",
             "logRun", "logStarted"}

\* Runs begin in the order of their numbers, the active run and the logged one
\* are the latest that began, and only what began has events or a logged start.
RunsInOrder ==
  /\ created = {} => /\ attempt = 1 /\ requested = {} /\ ~decided /\ loggedGate = None
  /\ created # {} => attempt \in created
  /\ \A r \in created, q \in Runs : q < r => q \in created
  /\ run # 0 => run \in created /\ \A q \in created : q =< run
  /\ loggedRun # 0 => loggedRun \in created /\ \A q \in created : q =< loggedRun
  /\ \A e \in events : e.run \in created
  /\ \A kind \in {"run", "request", "decision"}, r \in Runs :
       Milestone(kind, r) \in emitted => r \in created

HasGate(kind, r) == \E g \in gates : g.kind = kind /\ g.run = r

\* A logged milestone has left its record, and so has a run whose next step comes
\* after that record.
MilestonesAreWritten ==
  /\ emitted = loggedEmissions
  /\ \A r \in Runs :
       /\ Milestone("run", r) \in emitted => r \in manifests
       /\ Milestone("request", r) \in emitted => HasGate("request", r)
       /\ Milestone("decision", r) \in emitted => HasGate("decision", r)
  /\ pc \in {"episode", "episode.started", "execution.started", "logRun"} =>
       run \in manifests
  /\ pc = "logStarted" => Milestone("run", run) \in emitted
  /\ loggedRun # 0 => Milestone("run", loggedRun) \in emitted
  /\ pc \in {"gate.requested", "logRequest"} => HasGate("request", run)
  /\ pc \in {"gate.decided", "episode.completed", "logDecision"} => HasGate("decision", run)

\* Done is published and logged in one step; a run begins only before that, and
\* only an approval gets there.
ReleaseInOrder ==
  /\ published <=> released # 0
  /\ pc \in Starting => released = 0
  /\ pc \in {"decision", "gate.decided", "episode.completed", "logDecision", "done"} =>
       seen.status = "approved"

\* Without a failing call: a run has its manifest once it is written, and
\* where memory or log says approved, the decision is in the sink, except for the
\* approval a replacement inherits across its own crash from one before it.
ApprovalIsRecorded ==
  failures = 0 =>
    /\ run # 0 /\ pc # "manifest" => run \in manifests
    /\ run # 0 /\ decided /\ pc # "decision" =>
         HasGate("decision", run) \/ (run > 1 /\ crashes >= 2)
    /\ loggedRun # 0 /\ loggedGate = "approved" =>
         HasGate("decision", loggedRun) \/ (loggedRun > 1 /\ crashes >= 1)
    /\ pc \in {"gate", "done"} /\ seen.status = "approved" =>
         HasGate("decision", run) \/ (run > 1 /\ crashes >= 2)
    /\ loggedGate = "approved" /\ released = 0 => crashes >= 1 \/ pc = "done"
    /\ run = 1 /\ pc \in Starting => loggedGate = None

\* The events of the first attempt in the order of their numbers.
Schedule == <<"episode.started", "execution.started", "gate.requested",
              "gate.decided", "episode.completed">>

FirstEvent(n) == [run |-> 1, seq |-> n, checkpoint |-> Schedule[n + 1]]

PastRequest == {"checkDecision", "decision", "gate.decided", "episode.completed",
                "logDecision", "gate", "done"}

\* The first attempt writes its schedule, from the beginning and nothing else.
ScheduleWritten ==
  /\ \A e \in events : e.run = 1 => e.seq \in 0..4 /\ e = FirstEvent(e.seq)
  /\ \A n \in 1..4 : FirstEvent(n) \in events => FirstEvent(n - 1) \in events
  /\ loggedRun = 1 => FirstEvent(1) \in events
  /\ Milestone("request", 1) \in emitted => FirstEvent(2) \in events

\* Its next number while it begins, and afterwards.
PositionAtStart ==
  /\ pc \in {"episode", "episode.started"} => sequence[1] = 0
  /\ pc = "execution.started" => sequence[1] = 1 /\ FirstEvent(0) \in events
  /\ pc \in {"logRun", "logStarted"} => sequence[1] = 2 /\ FirstEvent(1) \in events
  /\ pc \in Starting => requested = {} /\ ~decided /\ Milestone("request", 1) \notin emitted

PositionAfterStart ==
  pc \notin Starting =>
    /\ FirstEvent(1) \in events
    /\ pc \in {"request", "gate.requested"} => sequence[1] = 2
    /\ pc = "logRequest" => sequence[1] = 3 /\ FirstEvent(2) \in events
    /\ pc \notin {"request", "gate.requested", "logRequest"}
        /\ Milestone("request", 1) \notin emitted => sequence[1] = 2 /\ requested = {}
    /\ ~decided /\ Milestone("request", 1) \in emitted
        /\ Milestone("decision", 1) \notin emitted => sequence[1] = 3
    /\ pc \in PastRequest /\ seen.status # "unready" => Milestone("request", 1) \in emitted
    /\ pc \in {"decision", "gate.decided"} => decided /\ sequence[1] = 3
    /\ pc = "episode.completed" => sequence[1] = 4 /\ FirstEvent(3) \in events

\* Without a failing call the first attempt's number is the position of its next
\* event in the schedule, across any number of crashes.
FirstAttemptFollowsSchedule ==
  failures = 0 => ScheduleWritten /\ (run = 1 => PositionAtStart /\ PositionAfterStart)

\* The events of a run are numbered from 0 up to its next number.
PositionsOf(r) ==
  /\ sequence[r] = None => \A e \in events : e.run # r
  /\ sequence[r] # None =>
       /\ \A e \in events : e.run = r => e.seq < sequence[r]
       /\ \A k \in 0..(sequence[r] - 1) : \E e \in events : e.run = r /\ e.seq = k
  /\ \A e, f \in events :
       e.run = r /\ f.run = r /\ e.seq = f.seq => e.checkpoint = f.checkpoint

\* While the process lives its numbers are the positions of the events written.
NumbersArePositions ==
  /\ pc = "manifest" => \A e \in events : e.run # run
  /\ crashes = 0 => \A r \in Runs : PositionsOf(r)

RInv ==
  /\ IInv
  /\ RunsInOrder
  /\ MilestonesAreWritten
  /\ ReleaseInOrder
  /\ ApprovalIsRecorded
  /\ FirstAttemptFollowsSchedule
  /\ NumbersArePositions
  /\ ReleaseIsRecorded

-----------------------------------------------------------------------------
(* Identities.                                                             *)

\* Evidence identities tell their run and artifact, and are no milestones.
LEMMA Identities ==
  /\ \A n \in 1..3, r \in Runs, a \in Artifacts :
       EvidenceId(n, r, a) \in EvidenceIds
  /\ \A n, m \in 1..3, r, q \in Runs, a, b \in Artifacts :
       EvidenceId(n, r, a) = EvidenceId(m, q, b) => n = m /\ r = q /\ a = b
  /\ \A kind \in {"run", "request", "decision"}, r \in Runs :
       Milestone(kind, r) \in Milestones
  /\ EvidenceIds \cap Milestones = {}
<1>1. \A n, m \in 1..3 : Claims[n] = Claims[m] => n = m
  BY DEF Claims
<1>2. "-" \notin Artifacts
  BY DEF Artifacts
<1> QED
  BY <1>1, <1>2 DEF EvidenceIds, EvidenceId, Milestones, Milestone

\* A claim belongs to one artifact only, and the required two are among the
\* three recorded ones.
LEMMA EvidenceSets ==
  ASSUME NEW r \in Runs, NEW a \in Artifacts
  PROVE  /\ EvidenceOf(r, a) \subseteq EvidenceIds
         /\ Required(r, a) \subseteq EvidenceOf(r, a)
         /\ Required(r, a) # {}
         /\ \A n \in 1..3, q \in Runs, b \in Artifacts :
              EvidenceId(n, q, b) \in EvidenceOf(r, a) <=> q = r /\ b = a
         /\ EvidenceOf(r, a) \cap Milestones = {}
BY Identities DEF EvidenceOf, Required

\* With the third claim an artifact's evidence is complete.
LEMMA ThirdClaim ==
  ASSUME NEW r, NEW a, NEW e,
         \A n \in 1..3 : n < 3 => EvidenceId(n, r, a) \in e,
         EvidenceId(3, r, a) \in e
  PROVE  EvidenceOf(r, a) \subseteq e
BY DEF EvidenceOf

-----------------------------------------------------------------------------
(* Types.                                                                  *)

\* Dispatch and retry begin a run or none, and one that is not there yet.
LEMMA BeginType ==
  ASSUME NEW a \in Runs, created \subseteq Runs, Begin(a)
  PROVE  /\ run' \in Runs \cup {0} /\ created' \subseteq Runs
         /\ pc' \in {"idle", "manifest", "logStarted"}
         /\ pc' # "idle" => run' # 0
<1> USE RecordsAssumption DEF Runs
<1>1. CASE a \in created
  BY <1>1 DEF Begin
<1>2. CASE a \notin created
  <2>1. /\ run' = a /\ created' = created \cup {a}
        /\ pc' \in {"manifest", "logStarted"}
    BY <1>2 DEF Begin
  <2>2. a # 0
    OBVIOUS
  <2> QED
    BY <2>1, <2>2
<1> QED
  BY <1>1, <1>2

LEMMA TypeStep == TypeOK /\ [Next]_vars => TypeOK'
<1> SUFFICES ASSUME TypeOK, [Next]_vars PROVE TypeOK'
  OBVIOUS
<1> USE RecordsAssumption DEF TypeOK, Runs, SinkWrites, Appends, memory, log, sink, faults
<1>1. CASE Dispatch
  BY <1>1, BeginType DEF Dispatch
<1>2. CASE Retry
  <2>1. attempt + 1 \in Runs
    BY <1>2 DEF Retry
  <2>2. /\ run' \in Runs \cup {0} /\ created' \subseteq Runs
        /\ pc' \in {"idle", "manifest", "logStarted"}
        /\ pc' # "idle" => run' # 0
    BY <1>2, <2>1, BeginType DEF Retry
  <2> QED
    BY <1>2, <2>1, <2>2 DEF Retry, Forget, Artifacts
<1>3. CASE WriteManifest
  BY <1>3 DEF WriteManifest
<1>4. CASE WriteEpisode
  BY <1>4 DEF WriteEpisode
<1>5. CASE EmitEvent
  <2>1. PICK at \in SinkWrites, next \in SinkWrites \cup Appends : Emit(at, next)
    BY <1>5 DEF EmitEvent
  <2>2. run \in Runs /\ sequence[run] \in Nat
    BY <2>1 DEF Emit
  <2>3. /\ [run |-> run, seq |-> sequence[run], checkpoint |-> at]
             \in [run : Runs, seq : Nat, checkpoint : SinkWrites]
        /\ sequence' \in [Runs -> Nat \cup {None}]
    <3>1. sequence' = [sequence EXCEPT ![run] = sequence[run] + 1]
      BY <2>1 DEF Emit
    <3>2. sequence' \in [Runs -> Nat \cup {None}]
      BY <2>2, <3>1
    <3> QED
      BY <2>1, <2>2, <3>2
  <2>4. events' \subseteq [run : Runs, seq : Nat, checkpoint : SinkWrites]
    BY <2>1, <2>3 DEF Emit
  <2> QED
    BY <2>1, <2>3, <2>4 DEF Emit
<1>6. CASE LogEmission
  <2>1. PICK at \in Appends, kind \in {"run", "request", "decision"},
             next \in {"logStarted", "checkDecision", "gate"} : LogMilestone(at, kind, next)
    BY <1>6 DEF LogEmission
  <2>2. Milestone(kind, run) \in Milestones
    BY <2>1, Identities DEF LogMilestone
  <2> QED
    BY <2>1, <2>2 DEF LogMilestone
<1>7. CASE LogStarted
  BY <1>7 DEF LogStarted
<1>8. CASE Reconcile
  BY <1>8 DEF Reconcile, Judgements, Statuses, Artifacts
<1>9. CASE WriteEvidence
  BY <1>9, Identities, EvidenceSets DEF WriteEvidence
<1>10. CASE LogEvidence
  BY <1>10, Identities, EvidenceSets DEF LogEvidence
<1>11. CASE CheckRequest
  BY <1>11, Identities, EvidenceSets DEF CheckRequest
<1>12. CASE WriteRequest
  BY <1>12, Identities, EvidenceSets DEF WriteRequest
<1>13. CASE CheckDecision
  BY <1>13 DEF CheckDecision
<1>14. CASE WriteDecision
  BY <1>14, Identities, EvidenceSets DEF WriteDecision
<1>15. CASE LogGate
  BY <1>15 DEF LogGate
<1>16. CASE LogDone
  BY <1>16 DEF LogDone
<1>17. CASE LogEnded
  BY <1>17 DEF LogEnded
<1>18. CASE Raise
  BY <1>18 DEF Raise
<1>19. CASE Restart
  BY <1>19 DEF Restart, Restored, RestoredSequence
<1>20. CASE PullRequestMoves
  BY <1>20 DEF PullRequestMoves, Artifacts
<1>21. CASE UNCHANGED vars
  BY <1>21 DEF vars
<1> QED
  BY <1>1, <1>2, <1>3, <1>4, <1>5, <1>6, <1>7, <1>8, <1>9, <1>10, <1>11, <1>12, <1>13, <1>14, <1>15, <1>16, <1>17, <1>18, <1>19, <1>20, <1>21 DEF Next

-----------------------------------------------------------------------------
(* Evidence comes before what names it.                                    *)

\* The steps that only move on: no identity is learned, no evidence is written
\* and the observation at work stays or the handler ends.
Moves ==
  \/ Dispatch \/ Retry \/ WriteManifest \/ WriteEpisode \/ EmitEvent \/ LogStarted
  \/ CheckRequest \/ WriteRequest \/ CheckDecision \/ WriteDecision \/ LogGate \/ LogDone
  \/ LogEnded \/ Raise \/ PullRequestMoves \/ UNCHANGED vars

LEMMA NextIsMove ==
  [Next]_vars <=> Moves \/ LogEmission \/ Reconcile \/ WriteEvidence \/ LogEvidence \/ Restart
BY DEF Next, Moves

LEMMA MovesKeep ==
  ASSUME TypeOK, Moves
  PROVE  /\ UNCHANGED <<emitted, known, evidence, loggedEmissions>>
         /\ pc' = "evidence" => pc = "evidence" /\ UNCHANGED <<run, seen, claim>>
         /\ pc' \in Evidenced => pc \in Evidenced /\ UNCHANGED <<run, seen>>
<1> USE DEF Evidenced, memory, log, sink, faults
<1>1. CASE Dispatch
  BY <1>1 DEF Dispatch, Begin
<1>2. CASE Retry
  BY <1>2 DEF Retry, Begin, Forget
<1>3. CASE EmitEvent
  BY <1>3 DEF EmitEvent, Emit
<1>4. CASE WriteManifest \/ WriteEpisode \/ LogStarted
  BY <1>4 DEF WriteManifest, WriteEpisode, LogStarted
<1>5. CASE CheckRequest \/ WriteRequest \/ CheckDecision \/ WriteDecision
  BY <1>5 DEF CheckRequest, WriteRequest, CheckDecision, WriteDecision
<1>6. CASE LogGate \/ LogDone \/ LogEnded
  BY <1>6 DEF LogGate, LogDone, LogEnded, TypeOK
<1>7. CASE Raise \/ PullRequestMoves \/ UNCHANGED vars
  BY <1>7 DEF Raise, PullRequestMoves, vars
<1> QED
  BY <1>1, <1>2, <1>3, <1>4, <1>5, <1>6, <1>7 DEF Moves

\* Evidence is complete before an identity of it is known, and before a request
\* or a decision is considered.
LEMMA EvidenceStep ==
  ASSUME TypeOK, KnownIsWritten, ClaimsAreWritten, PendingIsNew, [Next]_vars
  PROVE  KnownIsWritten' /\ ClaimsAreWritten'
<1> USE DEF memory, log, sink, faults
<1>1. CASE Moves
  BY <1>1, MovesKeep DEF KnownIsWritten, ClaimsAreWritten
<1>2. CASE LogEmission
  <2>1. PICK at \in {"logRun", "logRequest", "logDecision"},
             kind \in {"run", "request", "decision"},
             next \in {"logStarted", "checkDecision", "gate"} :
               /\ LogMilestone(at, kind, next)
               /\ next \in Evidenced => at \in Evidenced
    BY <1>2 DEF LogEmission, Evidenced
  <2>2. /\ run \in Runs
        /\ emitted' = emitted \cup {Milestone(kind, run)}
        /\ UNCHANGED <<run, seen, known, evidence>> /\ pc = at /\ pc' = next
    BY <2>1 DEF LogMilestone, TypeOK
  <2>3. Milestone(kind, run) \in Milestones
    BY <2>2, Identities
  <2>4. \A r \in Runs, a \in Artifacts :
          EvidenceOf(r, a) \cap (emitted' \cup known') = EvidenceOf(r, a) \cap (emitted \cup known)
    BY <2>2, <2>3, EvidenceSets
  <2> QED
    BY <2>1, <2>2, <2>4 DEF KnownIsWritten, ClaimsAreWritten
<1>3. CASE Reconcile
  <2>1. /\ UNCHANGED <<emitted, known, evidence, run>> /\ run \in Runs
        /\ claim' = 1 /\ seen'.artifact = artifact /\ artifact \in Artifacts
        /\ pc' = IF Recorded(artifact) THEN "checkRequest" ELSE "evidence"
    BY <1>3 DEF Reconcile, TypeOK
  <2>2. ASSUME Recorded(artifact) PROVE EvidenceOf(run, artifact) \subseteq evidence
    <3>1. EvidenceId(1, run, artifact) \in EvidenceOf(run, artifact)
      BY <2>1, EvidenceSets
    <3>2. EvidenceOf(run, artifact) \cap (emitted \cup known) # {}
      BY <2>2, <3>1 DEF Recorded
    <3> QED
      BY <2>1, <3>2 DEF KnownIsWritten
  <2> QED
    BY <2>1, <2>2 DEF KnownIsWritten, ClaimsAreWritten, Evidenced
<1>4. CASE WriteEvidence
  <2>1. /\ evidence' = evidence \cup {EvidenceId(claim, run, seen.artifact)}
        /\ UNCHANGED <<emitted, run, seen>> /\ run \in Runs /\ seen.artifact \in Artifacts
        /\ pc = "evidence" /\ claim \in 1..3
    BY <1>4 DEF WriteEvidence, TypeOK
  <2>2. CASE claim = 3
    <3>1. /\ known' = known \cup EvidenceOf(run, seen.artifact)
          /\ pc' = "logEvidence"
      BY <1>4, <2>2 DEF WriteEvidence
    <3>2. EvidenceOf(run, seen.artifact) \subseteq evidence'
      BY <2>1, <2>2, ThirdClaim DEF ClaimsAreWritten
    <3>3. \A r \in Runs, a \in Artifacts :
            EvidenceOf(r, a) \cap EvidenceOf(run, seen.artifact) # {} =>
              r = run /\ a = seen.artifact
      BY <2>1, EvidenceSets DEF EvidenceOf
    <3> QED
      BY <2>1, <3>1, <3>2, <3>3 DEF KnownIsWritten, ClaimsAreWritten, Evidenced
  <2>3. CASE claim # 3
    BY <1>4, <2>1, <2>3 DEF WriteEvidence, KnownIsWritten, ClaimsAreWritten, Evidenced
  <2> QED
    BY <2>2, <2>3
<1>5. CASE LogEvidence
  <2>1. /\ emitted' = emitted \cup {EvidenceId(claim, run, seen.artifact)}
        /\ UNCHANGED <<known, evidence, run, seen>>
        /\ run \in Runs /\ seen.artifact \in Artifacts /\ claim \in 1..3
        /\ pc = "logEvidence" /\ pc' \in Evidenced
    BY <1>5 DEF LogEvidence, TypeOK, Evidenced
  <2>2. EvidenceOf(run, seen.artifact) \subseteq evidence
    BY <2>1 DEF ClaimsAreWritten, Evidenced
  <2>3. \A r \in Runs, a \in Artifacts :
          EvidenceId(claim, run, seen.artifact) \in EvidenceOf(r, a) =>
            r = run /\ a = seen.artifact
    BY <2>1, EvidenceSets
  <2> QED
    BY <2>1, <2>2, <2>3 DEF KnownIsWritten, ClaimsAreWritten, Evidenced
<1>6. CASE Restart
  <2>1. emitted' \subseteq emitted /\ known' = {} /\ evidence' = evidence /\ pc' = "idle"
    BY <1>6 DEF Restart, Restored, PendingIsNew
  <2> QED
    BY <2>1 DEF KnownIsWritten, ClaimsAreWritten, Evidenced
<1> QED
  BY <1>1, <1>2, <1>3, <1>4, <1>5, <1>6, NextIsMove

\* What a request or a decision names is in the sink.
LEMMA ReferenceStep ==
  ASSUME TypeOK, ClaimsAreWritten, requested \subseteq evidence, EvidencePrecedesReference,
         [Next]_vars
  PROVE  (requested \subseteq evidence)' /\ EvidencePrecedesReference'
<1> USE DEF memory, log, sink, faults
<1>1. run # 0 => Required(run, seen.artifact) \subseteq EvidenceOf(run, seen.artifact)
  BY EvidenceSets DEF TypeOK
<1>2. pc \in Evidenced => EvidenceOf(run, seen.artifact) \subseteq evidence
  BY DEF ClaimsAreWritten
<1>3. CASE CheckRequest
  <2>1. UNCHANGED <<evidence, gates>> /\ requested' \in {requested, Required(run, seen.artifact)}
    BY <1>3 DEF CheckRequest
  <2>2. run # 0 /\ pc \in Evidenced
    BY <1>3 DEF CheckRequest, TypeOK, Evidenced
  <2> QED
    BY <1>1, <1>2, <2>1, <2>2 DEF EvidencePrecedesReference
<1>4. CASE WriteRequest
  <2>1. run # 0 /\ pc \in Evidenced
    BY <1>4 DEF WriteRequest, TypeOK, Evidenced
  <2> QED
    BY <1>1, <1>2, <1>4, <2>1 DEF WriteRequest, EvidencePrecedesReference
<1>5. CASE WriteDecision
  <2>1. pc \in Evidenced
    BY <1>5 DEF WriteDecision, Evidenced
  <2> QED
    BY <1>2, <1>5, <2>1 DEF WriteDecision, EvidencePrecedesReference
<1>6. CASE WriteEvidence
  BY <1>6 DEF WriteEvidence, EvidencePrecedesReference
<1>7. CASE Restart
  BY <1>7 DEF Restart, EvidencePrecedesReference
<1>8. CASE Dispatch \/ Retry
  BY <1>8 DEF Dispatch, Retry, Forget, EvidencePrecedesReference
<1>9. CASE EmitEvent \/ LogEmission
  BY <1>9 DEF EmitEvent, Emit, LogEmission, LogMilestone, EvidencePrecedesReference
<1>10. CASE WriteManifest \/ WriteEpisode \/ LogStarted \/ Reconcile \/ LogEvidence
  BY <1>10 DEF WriteManifest, WriteEpisode, LogStarted, Reconcile, LogEvidence,
               EvidencePrecedesReference
<1>11. CASE CheckDecision \/ LogGate \/ LogDone \/ LogEnded
  BY <1>11 DEF CheckDecision, LogGate, LogDone, LogEnded, EvidencePrecedesReference
<1>12. CASE Raise \/ PullRequestMoves \/ UNCHANGED vars
  BY <1>12 DEF Raise, PullRequestMoves, vars, EvidencePrecedesReference
<1> QED
  BY <1>3, <1>4, <1>5, <1>6, <1>7, <1>8, <1>9, <1>10, <1>11, <1>12 DEF Next

-----------------------------------------------------------------------------
(* Nothing is written whose identity is known.                             *)

LEMMA PendingStep ==
  ASSUME TypeOK, PendingIsNew, [Next]_vars
  PROVE  PendingIsNew'
<1> USE DEF memory, log, sink, faults, PendingIsNew
<1>1. CASE Dispatch
  BY <1>1 DEF Dispatch, Begin, Pending
<1>2. CASE Retry
  BY <1>2 DEF Retry, Begin, Forget, Pending
<1>3. CASE WriteManifest \/ WriteEpisode \/ LogStarted
  BY <1>3 DEF WriteManifest, WriteEpisode, LogStarted, Pending
<1>4. CASE EmitEvent
  BY <1>4 DEF EmitEvent, Emit, Pending
<1>5. CASE LogEmission
  BY <1>5 DEF LogEmission, LogMilestone, Pending
<1>6. CASE Reconcile
  <2>1. run \in Runs /\ artifact \in Artifacts
    BY <1>6 DEF Reconcile, TypeOK
  <2>2. ASSUME ~Recorded(artifact) PROVE \A n \in 1..3 : EvidenceId(n, run, artifact) \notin emitted
    BY <2>1, <2>2, EvidenceSets DEF Recorded
  <2> QED
    BY <1>6, <2>2 DEF Reconcile, Pending
<1>7. CASE WriteEvidence
  BY <1>7 DEF WriteEvidence, Pending, TypeOK
<1>8. CASE LogEvidence
  BY <1>8 DEF LogEvidence, Pending
<1>9. CASE CheckRequest
  BY <1>9 DEF CheckRequest, Pending
<1>10. CASE CheckDecision
  BY <1>10 DEF CheckDecision, Pending
<1>11. CASE WriteRequest \/ WriteDecision
  BY <1>11 DEF WriteRequest, WriteDecision, Pending
<1>12. CASE LogGate \/ LogDone \/ LogEnded
  BY <1>12 DEF LogGate, LogDone, LogEnded, Pending
<1>13. CASE Raise
  BY <1>13 DEF Raise, Pending
<1>14. CASE Restart
  BY <1>14 DEF Restart, Restored, Pending
<1>15. CASE PullRequestMoves
  BY <1>15 DEF PullRequestMoves, Pending
<1>16. CASE UNCHANGED vars
  BY <1>16 DEF vars, Pending
<1> QED
  BY <1>1, <1>2, <1>3, <1>4, <1>5, <1>6, <1>7, <1>8, <1>9, <1>10, <1>11, <1>12, <1>13, <1>14,
     <1>15, <1>16 DEF Next

-----------------------------------------------------------------------------
(* What is logged, and in which order runs begin.                          *)

\* The kind of milestone that is logged at a step.
KindAt == [logRun |-> "run", logRequest |-> "request", logDecision |-> "decision"]

\* Memory and log learn a milestone only where it is logged, for the active run.
LEMMA MilestoneStep ==
  ASSUME TypeOK, emitted = loggedEmissions, [Next]_vars
  PROVE  /\ emitted' = loggedEmissions'
         /\ \A kind \in {"run", "request", "decision"}, r \in Runs :
              Milestone(kind, r) \in emitted' <=>
                \/ Milestone(kind, r) \in emitted
                \/ LogEmission /\ r = run /\ kind = KindAt[pc]
<1> USE DEF memory, log, sink, faults
<1>1. CASE Moves
  <2>1. UNCHANGED <<emitted, loggedEmissions>>
    BY <1>1, MovesKeep
  <2>2. ASSUME LogEmission PROVE emitted' = emitted \cup {Milestone(KindAt[pc], run)}
    BY <2>2 DEF LogEmission, LogMilestone, KindAt
  <2> QED
    BY <2>1, <2>2, Zenon
<1>2. CASE LogEmission
  <2>1. /\ emitted' = emitted \cup {Milestone(KindAt[pc], run)}
        /\ loggedEmissions' = loggedEmissions \cup {Milestone(KindAt[pc], run)}
    BY <1>2 DEF LogEmission, LogMilestone, KindAt
  <2> QED
    BY <1>2, <2>1 DEF Milestone
<1>3. CASE LogEvidence
  <2>1. /\ emitted' = emitted \cup {EvidenceId(claim, run, seen.artifact)}
        /\ loggedEmissions' = loggedEmissions \cup {EvidenceId(claim, run, seen.artifact)}
        /\ run \in Runs /\ seen.artifact \in Artifacts /\ claim \in 1..3
        /\ ~LogEmission
    BY <1>3 DEF LogEvidence, LogEmission, LogMilestone, TypeOK
  <2> QED
    BY <2>1, Identities
<1>4. CASE Reconcile \/ WriteEvidence \/ Restart
  <2>1. UNCHANGED <<emitted, loggedEmissions>> /\ ~LogEmission
    BY <1>4 DEF Reconcile, WriteEvidence, Restart, Restored, LogEmission, LogMilestone
  <2> QED
    BY <2>1
<1> QED
  BY <1>1, <1>2, <1>3, <1>4, NextIsMove

\* Runs begin in order.
LEMMA OrderStep ==
  ASSUME TypeOK, RunsInOrder, emitted = loggedEmissions, [Next]_vars
  PROVE  RunsInOrder'
<1> USE RecordsAssumption DEF memory, log, sink, faults, Runs
<1>1. \A kind \in {"run", "request", "decision"}, r \in Runs :
        Milestone(kind, r) \in emitted' =>
          Milestone(kind, r) \in emitted \/ (r = run /\ run # 0)
  BY MilestoneStep DEF LogEmission, LogMilestone, TypeOK
<1>2. CASE Dispatch
  <2>1. created = {} /\ attempt = 1 /\ loggedRun = 0
    BY <1>2 DEF Dispatch, RunsInOrder
  <2>2. /\ run' = 1 /\ created' = {1} /\ attempt' = 1
        /\ UNCHANGED <<events, loggedRun>>
    BY <1>2, <2>1 DEF Dispatch, Begin
  <2> QED
    BY <1>1, <1>2, <2>1, <2>2 DEF RunsInOrder, Dispatch, TypeOK
<1>3. CASE Retry
  <2>1. /\ run # 0 /\ created # {} /\ attempt \in created /\ attempt + 1 \in Runs
        /\ loggedRun' = 0 /\ attempt' = attempt + 1
        /\ UNCHANGED <<events, emitted>>
    BY <1>3 DEF Retry, Forget, RunsInOrder, TypeOK
  <2>2. CASE attempt + 1 \in created
    <3>1. run' = 0 /\ created' = created
      BY <1>3, <2>2 DEF Retry, Begin
    <3> QED
      BY <2>1, <2>2, <3>1 DEF RunsInOrder
  <2>3. CASE attempt + 1 \notin created
    <3>1. run' = attempt + 1 /\ created' = created \cup {attempt + 1}
      BY <1>3, <2>3 DEF Retry, Begin
    <3>2. \A q \in created : q =< attempt
      BY <2>1, <2>3 DEF RunsInOrder, TypeOK
    <3>3. \A q \in Runs : q =< attempt => q \in created
      BY <2>1 DEF RunsInOrder, TypeOK
    <3> QED
      BY <2>1, <3>1, <3>2, <3>3 DEF RunsInOrder, TypeOK
  <2> QED
    BY <2>2, <2>3
<1>4. CASE EmitEvent
  <2>1. /\ UNCHANGED <<created, attempt, run, loggedRun, requested, decided, loggedGate, emitted>>
        /\ \A e \in events' : e \in events \/ e.run = run
        /\ run # 0
    BY <1>4 DEF EmitEvent, Emit, TypeOK
  <2> QED
    BY <2>1 DEF RunsInOrder
<1>5. CASE \/ WriteManifest \/ WriteEpisode \/ LogEmission \/ Reconcile \/ WriteEvidence
           \/ LogEvidence \/ WriteRequest \/ WriteDecision \/ Raise \/ PullRequestMoves
           \/ UNCHANGED vars
  <2>1. UNCHANGED <<created, attempt, run, loggedRun, requested, decided, loggedGate, events>>
    BY <1>5 DEF WriteManifest, WriteEpisode, LogEmission, LogMilestone, Reconcile, WriteEvidence,
                LogEvidence, WriteRequest, WriteDecision, Raise, PullRequestMoves, vars
  <2> QED
    BY <1>1, <2>1 DEF RunsInOrder
<1>6. CASE LogStarted \/ CheckRequest \/ CheckDecision \/ LogGate \/ LogDone \/ LogEnded
  <2>1. /\ UNCHANGED <<created, attempt, events>> /\ run # 0
        /\ run' \in {run, 0} /\ loggedRun' \in {loggedRun, run, 0}
    BY <1>6 DEF LogStarted, CheckRequest, CheckDecision, LogGate, LogDone, LogEnded, TypeOK
  <2> QED
    BY <1>1, <2>1 DEF RunsInOrder
<1>7. CASE Restart
  <2>1. /\ run' = loggedRun /\ attempt' = 1 /\ requested' = {}
        /\ decided' = (loggedGate = "approved") /\ emitted' = emitted
        /\ UNCHANGED <<created, loggedRun, loggedGate, events>>
    BY <1>7 DEF Restart, Restored
  <2>2. created # {} => 1 \in created
    BY DEF RunsInOrder, TypeOK
  <2>3. None # "approved"
    OBVIOUS
  <2> QED
    BY <2>1, <2>2, <2>3 DEF RunsInOrder
<1> QED
  BY <1>2, <1>3, <1>4, <1>5, <1>6, <1>7 DEF Next

\* The sink forgets nothing, and a gate record is written where it is written.
LEMMA SinkGrows ==
  ASSUME [Next]_vars
  PROVE  /\ manifests \subseteq manifests' /\ events \subseteq events'
         /\ \A kind, r : HasGate(kind, r) => HasGate(kind, r)'
         /\ WriteManifest => run \in manifests'
         /\ WriteRequest => HasGate("request", run)'
         /\ WriteDecision => HasGate("decision", run)'
<1> USE DEF memory, log, sink, faults
<1>1. CASE WriteManifest
  BY <1>1 DEF WriteManifest, HasGate, WriteRequest, WriteDecision
<1>2. CASE EmitEvent
  BY <1>2 DEF EmitEvent, Emit, HasGate, WriteManifest, WriteRequest, WriteDecision
<1>3. CASE WriteRequest
  <2> DEFINE g == [kind |-> "request", run |-> run, names |-> Required(run, seen.artifact)]
  <2>1. /\ gates' = gates \cup {g} /\ UNCHANGED <<manifests, events, run>>
        /\ ~WriteManifest /\ ~WriteDecision
    BY <1>3 DEF WriteManifest, WriteRequest, WriteDecision
  <2>2. g \in gates' /\ g.kind = "request" /\ g.run = run' /\ gates \subseteq gates'
    BY <2>1
  <2> HIDE DEF g
  <2>3. HasGate("request", run)'
    BY <2>2 DEF HasGate
  <2>4. \A kind, r : HasGate(kind, r) => HasGate(kind, r)'
    BY <2>2 DEF HasGate
  <2> QED
    BY <2>1, <2>3, <2>4
<1>4. CASE WriteDecision
  <2> DEFINE g == [kind |-> "decision", run |-> run,
                   names |-> requested \cup EvidenceOf(run, seen.artifact)]
  <2>1. /\ gates' = gates \cup {g} /\ UNCHANGED <<manifests, events, run>>
        /\ ~WriteManifest /\ ~WriteRequest
    BY <1>4 DEF WriteManifest, WriteRequest, WriteDecision
  <2>2. g \in gates' /\ g.kind = "decision" /\ g.run = run' /\ gates \subseteq gates'
    BY <2>1
  <2> HIDE DEF g
  <2>3. HasGate("decision", run)'
    BY <2>2 DEF HasGate
  <2>4. \A kind, r : HasGate(kind, r) => HasGate(kind, r)'
    BY <2>2 DEF HasGate
  <2> QED
    BY <2>1, <2>3, <2>4
<1>5. CASE /\ UNCHANGED <<manifests, events, gates>>
           /\ ~WriteManifest /\ ~WriteRequest /\ ~WriteDecision
  BY <1>5 DEF HasGate
<1> QED
  BY <1>1, <1>2, <1>3, <1>4, <1>5
     DEF Next, Dispatch, Retry, WriteEpisode, LogEmission, LogMilestone, LogStarted, Reconcile,
         WriteEvidence, LogEvidence, CheckRequest, CheckDecision, LogGate, LogDone, LogEnded,
         Raise, Restart, PullRequestMoves, vars

\* Records are written before their milestones are logged.
LEMMA WrittenStep ==
  ASSUME TypeOK, RunsInOrder, MilestonesAreWritten, [Next]_vars
  PROVE  MilestonesAreWritten'
<1> USE DEF memory, log, sink, faults
<1> DEFINE Chain ==
      /\ pc \in {"episode", "episode.started", "execution.started", "logRun"} => run \in manifests
      /\ pc = "logStarted" => Milestone("run", run) \in emitted
      /\ pc \in {"gate.requested", "logRequest"} => HasGate("request", run)
      /\ pc \in {"gate.decided", "episode.completed", "logDecision"} => HasGate("decision", run)
<1>1. /\ emitted' = loggedEmissions'
      /\ \A kind \in {"run", "request", "decision"}, r \in Runs :
           Milestone(kind, r) \in emitted' <=>
             \/ Milestone(kind, r) \in emitted
             \/ LogEmission /\ r = run /\ kind = KindAt[pc]
  BY MilestoneStep DEF MilestonesAreWritten
<1>2. /\ \A r \in Runs :
           /\ Milestone("run", r) \in emitted' => r \in manifests'
           /\ Milestone("request", r) \in emitted' => HasGate("request", r)'
           /\ Milestone("decision", r) \in emitted' => HasGate("decision", r)'
  BY <1>1, SinkGrows DEF MilestonesAreWritten, LogEmission, LogMilestone, KindAt
<1>3. loggedRun' # 0 => Milestone("run", loggedRun') \in emitted'
  <2>1. CASE LogStarted
    BY <2>1 DEF LogStarted, MilestonesAreWritten
  <2>2. CASE ~LogStarted
    <3>1. loggedRun' \in {0, loggedRun}
      BY <2>2 DEF Next, Dispatch, Retry, WriteManifest, WriteEpisode, EmitEvent, Emit, LogEmission,
         LogMilestone, Reconcile, WriteEvidence, LogEvidence, CheckRequest, WriteRequest,
         CheckDecision, WriteDecision, LogGate, LogDone, LogEnded, Raise, Restart,
         PullRequestMoves, vars
    <3> QED
      BY <1>1, <3>1 DEF MilestonesAreWritten, TypeOK
  <2> QED
    BY <2>1, <2>2
<1>4. Chain'
  <2> USE DEF MilestonesAreWritten
  <2>1. CASE Dispatch \/ Retry
    BY <2>1, SinkGrows DEF Dispatch, Retry, Begin, Forget
  <2>2. CASE WriteManifest \/ WriteEpisode \/ WriteRequest \/ WriteDecision
    BY <2>2, SinkGrows DEF WriteManifest, WriteEpisode, WriteRequest, WriteDecision
  <2>3. CASE EmitEvent
    BY <2>3, SinkGrows DEF EmitEvent, Emit
  <2>4. CASE LogEmission
    BY <2>4, SinkGrows DEF LogEmission, LogMilestone
  <2>5. CASE PullRequestMoves \/ UNCHANGED vars
    BY <2>5, SinkGrows DEF PullRequestMoves, vars
  <2>6. CASE \/ LogStarted \/ Reconcile \/ WriteEvidence \/ LogEvidence \/ CheckRequest
             \/ CheckDecision \/ LogGate \/ LogDone \/ LogEnded \/ Raise \/ Restart
    BY <2>6 DEF LogStarted, Reconcile, WriteEvidence, LogEvidence, CheckRequest, CheckDecision,
                LogGate, LogDone, LogEnded, Raise, Restart
  <2> QED
    BY <2>1, <2>2, <2>3, <2>4, <2>5, <2>6 DEF Next
<1> QED
  BY <1>1, <1>2, <1>3, <1>4 DEF MilestonesAreWritten

\* Done comes once, and only after an approval.
LEMMA ReleaseOrderStep ==
  ASSUME TypeOK, ReleaseInOrder, [Next]_vars
  PROVE  ReleaseInOrder'
<1> USE DEF memory, log, sink, faults, ReleaseInOrder, Starting
<1>1. CASE Dispatch \/ Retry
  BY <1>1 DEF Dispatch, Retry, Begin, Forget
<1>2. CASE EmitEvent
  BY <1>2 DEF EmitEvent, Emit
<1>3. CASE LogEmission
  BY <1>3 DEF LogEmission, LogMilestone
<1>4. CASE \/ WriteManifest \/ WriteEpisode \/ LogStarted \/ Reconcile \/ WriteEvidence
           \/ LogEvidence \/ CheckRequest \/ WriteRequest
  BY <1>4 DEF WriteManifest, WriteEpisode, LogStarted, Reconcile, WriteEvidence, LogEvidence,
              CheckRequest, WriteRequest
<1>5. CASE CheckDecision \/ WriteDecision \/ LogEnded \/ Raise
  BY <1>5 DEF CheckDecision, WriteDecision, LogEnded, Raise
<1>6. CASE LogGate
  <2>1. /\ UNCHANGED <<published, released, seen>>
        /\ pc' \in {"idle", "done"}
        /\ pc' = "done" => seen.status = "approved"
    BY <1>6 DEF LogGate
  <2> QED
    BY <2>1
<1>7. CASE LogDone
  BY <1>7 DEF LogDone, TypeOK
<1>8. CASE Restart
  <2>1. published' = (released # 0) /\ released' = released /\ pc' = "idle"
    BY <1>8 DEF Restart
  <2> QED
    BY <2>1
<1>9. CASE PullRequestMoves \/ UNCHANGED vars
  BY <1>9 DEF PullRequestMoves, vars
<1> QED
  BY <1>1, <1>2, <1>3, <1>4, <1>5, <1>6, <1>7, <1>8, <1>9 DEF Next

\* What begins is a new run, and the first begins with nothing remembered.
LEMMA BeginFacts ==
  ASSUME TypeOK, RunsInOrder, Dispatch \/ Retry
  PROVE  /\ \/ run' = 0 /\ pc' = "idle"
            \/ /\ run' \in Runs \ created /\ pc' = "manifest"
               /\ \A e \in events : e.run # run'
         /\ loggedRun' = 0 /\ decided' = FALSE
         /\ run' = 1 => requested = {} /\ loggedGate = None /\ Milestone("request", 1) \notin emitted
         /\ UNCHANGED <<gates, manifests, events, emitted, requested, loggedGate, sequence,
                        released, seen, crashes, failures>>
         /\ released = 0
         /\ Retry => pc = "idle" /\ run' # 1
<1> USE RecordsAssumption DEF Runs, log, sink, faults
<1>1. CASE Dispatch
  <2>1. created = {} /\ attempt = 1 /\ loggedRun = 0 /\ ~decided /\ loggedGate = None
        /\ requested = {} /\ events = {}
    BY <1>1 DEF Dispatch, RunsInOrder, TypeOK
  <2>2. Milestone("run", 1) \notin emitted /\ Milestone("request", 1) \notin emitted
    BY <2>1 DEF RunsInOrder
  <2>3. run' = 1 /\ pc' = "manifest"
    BY <1>1, <2>1, <2>2 DEF Dispatch, Begin
  <2> QED
    BY <1>1, <2>1, <2>2, <2>3 DEF Dispatch, Retry, TypeOK
<1>2. CASE Retry
  <2>1. run # 0 /\ attempt + 1 \in Runs /\ attempt + 1 # 1 /\ attempt + 1 # 0
    BY <1>2 DEF Retry, TypeOK
  <2>2. loggedRun' = 0
    BY <1>2, <2>1 DEF Retry, RunsInOrder, TypeOK
  <2>3. \/ run' = 0 /\ pc' = "idle"
        \/ /\ run' = attempt + 1 /\ run' \in Runs \ created /\ pc' = "manifest"
           /\ \A e \in events : e.run # run'
    <3>1. CASE attempt + 1 \in created
      BY <1>2, <3>1 DEF Retry, Begin
    <3>2. CASE attempt + 1 \notin created
      <4>1. Milestone("run", attempt + 1) \notin emitted
        BY <2>1, <3>2 DEF RunsInOrder
      <4> QED
        BY <1>2, <2>1, <3>2, <4>1 DEF Retry, Begin, RunsInOrder
    <3> QED
      BY <3>1, <3>2
  <2> QED
    BY <1>2, <2>1, <2>2, <2>3 DEF Retry, Forget
<1> QED
  BY <1>1, <1>2

\* Faults are counted and not forgotten.
LEMMA CountsOfFaults ==
  ASSUME TypeOK, [Next]_vars
  PROVE  crashes =< crashes' /\ (failures' = 0 => failures = 0) /\ (crashes' = 0 => crashes = 0)
<1> USE DEF memory, log, sink, faults
<1>1. CASE Raise \/ Restart
  BY <1>1 DEF Raise, Restart, TypeOK
<1>2. CASE ~Raise /\ ~Restart
  <2>1. UNCHANGED <<failures, crashes>>
    BY <1>2 DEF Next, Dispatch, Retry, WriteManifest, WriteEpisode, EmitEvent, Emit, LogEmission,
       LogMilestone, LogStarted, Reconcile, WriteEvidence, LogEvidence, CheckRequest,
       WriteRequest, CheckDecision, WriteDecision, LogGate, LogDone, LogEnded,
       PullRequestMoves, vars
  <2> QED
    BY <2>1 DEF TypeOK
<1> QED
  BY <1>1, <1>2

\* Without a failing call approvals leave their decisions.
LEMMA ApprovalStep ==
  ASSUME TypeOK, RunsInOrder, MilestonesAreWritten, ReleaseInOrder, ApprovalIsRecorded,
         [Next]_vars
  PROVE  ApprovalIsRecorded'
<1> SUFFICES ASSUME failures' = 0 PROVE ApprovalIsRecorded'
  BY DEF ApprovalIsRecorded
<1> USE DEF memory, log, sink, faults
<1>1. failures = 0 /\ crashes =< crashes' /\ crashes \in Nat
  BY CountsOfFaults DEF TypeOK
<1>2. CASE Dispatch \/ Retry
  BY <1>1, <1>2, BeginFacts DEF ApprovalIsRecorded, HasGate, Starting, Dispatch, RunsInOrder
<1>3. CASE WriteManifest \/ WriteEpisode
  BY <1>1, <1>3 DEF WriteManifest, WriteEpisode, ApprovalIsRecorded, HasGate, Starting
<1>4. CASE EmitEvent
  BY <1>1, <1>4 DEF EmitEvent, Emit, ApprovalIsRecorded, HasGate, Starting
<1>5. CASE LogEmission
  BY <1>1, <1>5 DEF LogEmission, LogMilestone, ApprovalIsRecorded, HasGate, Starting, MilestonesAreWritten
<1>6. CASE LogStarted
  <2>1. /\ loggedRun' = run /\ run \in Runs /\ pc = "logStarted" /\ pc' = "idle"
        /\ UNCHANGED <<run, decided, gates, manifests, released, loggedGate, crashes, seen>>
    BY <1>6 DEF LogStarted, TypeOK
  <2>2. loggedGate = "approved" => run > 1 /\ crashes >= 1
    BY <1>1, <2>1, RecordsAssumption DEF ApprovalIsRecorded, ReleaseInOrder, Starting, Runs
  <2> QED
    BY <1>1, <2>1, <2>2 DEF ApprovalIsRecorded, HasGate, Starting
<1>7. CASE Reconcile \/ WriteEvidence \/ LogEvidence
  BY <1>1, <1>7 DEF Reconcile, WriteEvidence, LogEvidence, ApprovalIsRecorded, HasGate, Starting
<1>8. CASE CheckRequest
  BY <1>1, <1>8 DEF CheckRequest, ApprovalIsRecorded, HasGate, Starting
<1>9. CASE CheckDecision
  BY <1>1, <1>9 DEF CheckDecision, ApprovalIsRecorded, HasGate, Starting, MilestonesAreWritten, TypeOK
<1>10. CASE WriteRequest
  BY <1>1, <1>10, SinkGrows DEF WriteRequest, ApprovalIsRecorded, Starting
<1>11. CASE WriteDecision
  BY <1>1, <1>11, SinkGrows DEF WriteDecision, ApprovalIsRecorded, Starting
<1>12. CASE LogGate
  <2>1. /\ loggedGate' = seen.status /\ pc = "gate" /\ run \in Runs /\ run' \in {run, 0}
        /\ UNCHANGED <<decided, gates, manifests, released, loggedRun, crashes, seen>>
        /\ pc' \in {"idle", "done"}
        /\ pc' = "done" => seen.status = "approved"
        /\ seen.status = "approved" => pc' = "done" \/ published
    BY <1>12 DEF LogGate, TypeOK
  <2>2. loggedRun # 0 => loggedRun = run
    BY <2>1 DEF RunsInOrder, TypeOK, Runs
  <2>3. published => released # 0
    BY DEF ReleaseInOrder
  <2>4. loggedGate' = "approved" =>
          HasGate("decision", run) \/ (run > 1 /\ crashes >= 2)
    BY <1>1, <2>1 DEF ApprovalIsRecorded
  <2>5. loggedRun' # 0 /\ loggedGate' = "approved" =>
          HasGate("decision", loggedRun)' \/ (loggedRun' > 1 /\ crashes' >= 1)
    <3>1. CASE loggedRun # 0
      BY <1>1, <2>1, <2>2, <2>4, <3>1 DEF HasGate
    <3>2. CASE loggedRun = 0
      BY <2>1, <3>2
    <3> QED
      BY <3>1, <3>2
  <2>6. loggedGate' = "approved" /\ released' = 0 => crashes' >= 1 \/ pc' = "done"
    BY <2>1, <2>3
  <2>7. run' # 0 => run' \in manifests'
    BY <1>1, <2>1 DEF ApprovalIsRecorded
  <2>8. run' # 0 /\ decided' => HasGate("decision", run)' \/ (run' > 1 /\ crashes' >= 2)
    BY <1>1, <2>1 DEF ApprovalIsRecorded, HasGate
  <2>9. pc' = "done" => HasGate("decision", run)' \/ (run' > 1 /\ crashes' >= 2)
    <3>1. pc' = "done" => run' = run
      BY <1>12 DEF LogGate
    <3> QED
      BY <1>1, <2>1, <3>1 DEF ApprovalIsRecorded, HasGate
  <2> QED
    BY <2>1, <2>5, <2>6, <2>7, <2>8, <2>9 DEF ApprovalIsRecorded, Starting
<1>13. CASE LogDone \/ LogEnded
  BY <1>1, <1>13 DEF LogDone, LogEnded, ApprovalIsRecorded, HasGate, Starting, TypeOK
<1>14. CASE Raise
  BY <1>1, <1>14 DEF Raise, ApprovalIsRecorded, HasGate, Starting
<1>15. CASE Restart
  <2>1. /\ run' = loggedRun /\ pc' = "idle" /\ crashes' = crashes + 1
        /\ decided' = (loggedGate = "approved")
        /\ UNCHANGED <<gates, manifests, released, loggedRun, loggedGate, seen>>
    BY <1>15 DEF Restart
  <2>2. loggedRun # 0 => loggedRun \in manifests
    BY DEF MilestonesAreWritten, TypeOK
  <2>3. run' # 0 /\ decided' => HasGate("decision", run)' \/ (run' > 1 /\ crashes' >= 2)
    <3>1. ASSUME loggedRun # 0, loggedGate = "approved"
          PROVE  HasGate("decision", loggedRun) \/ (loggedRun > 1 /\ crashes >= 1)
      BY <1>1, <3>1 DEF ApprovalIsRecorded
    <3>2. decided' => loggedGate = "approved"
      BY <2>1, Zenon
    <3>3. HasGate("decision", run)' <=> HasGate("decision", loggedRun)
      BY <2>1 DEF HasGate
    <3> QED
      BY <1>1, <2>1, <3>1, <3>2, <3>3
  <2>4. loggedRun' # 0 /\ loggedGate' = "approved" =>
          HasGate("decision", loggedRun)' \/ (loggedRun' > 1 /\ crashes' >= 1)
    BY <1>1, <2>1 DEF ApprovalIsRecorded, HasGate
  <2>5. crashes' >= 1
    BY <1>1, <2>1
  <2> QED
    BY <2>1, <2>2, <2>3, <2>4, <2>5 DEF ApprovalIsRecorded, Starting
<1>16. CASE PullRequestMoves \/ UNCHANGED vars
  BY <1>1, <1>16 DEF PullRequestMoves, vars, ApprovalIsRecorded, HasGate, Starting
<1> QED
  BY <1>2, <1>3, <1>4, <1>5, <1>6, <1>7, <1>8, <1>9, <1>10, <1>11, <1>12, <1>13, <1>14, <1>15,
     <1>16 DEF Next

\* The schedule written out.
LEMMA ScheduleEvents ==
  /\ FirstEvent(0) = [run |-> 1, seq |-> 0, checkpoint |-> "episode.started"]
  /\ FirstEvent(1) = [run |-> 1, seq |-> 1, checkpoint |-> "execution.started"]
  /\ FirstEvent(2) = [run |-> 1, seq |-> 2, checkpoint |-> "gate.requested"]
  /\ FirstEvent(3) = [run |-> 1, seq |-> 3, checkpoint |-> "gate.decided"]
  /\ FirstEvent(4) = [run |-> 1, seq |-> 4, checkpoint |-> "episode.completed"]
BY DEF FirstEvent, Schedule

\* Writing the next event of the schedule, or an event of another run, keeps it.
LEMMA ScheduleExtended ==
  ASSUME ScheduleWritten, NEW e, events' = events \cup {e},
         UNCHANGED <<loggedRun, emitted>>,
         \/ e.run # 1
         \/ \E n \in 0..4 : e = FirstEvent(n) /\ (n # 0 => FirstEvent(n - 1) \in events)
  PROVE  ScheduleWritten'
<1>1. \A n \in 0..4 : FirstEvent(n).seq = n /\ FirstEvent(n).run = 1
  BY DEF FirstEvent
<1>2. ASSUME NEW f \in events', f.run = 1
      PROVE  f.seq \in 0..4 /\ f = FirstEvent(f.seq)
  <2>1. CASE f \in events
    BY <1>2, <2>1 DEF ScheduleWritten
  <2>2. CASE f = e
    <3>1. PICK n \in 0..4 : f = FirstEvent(n)
      BY <1>2, <2>2
    <3>2. f.seq = n
      BY <1>1, <3>1
    <3> QED
      BY <3>1, <3>2
  <2> QED
    BY <2>1, <2>2
<1>3. ASSUME NEW n \in 1..4, FirstEvent(n) \in events' PROVE FirstEvent(n - 1) \in events'
  <2>1. CASE FirstEvent(n) \in events
    BY <2>1 DEF ScheduleWritten
  <2>2. CASE FirstEvent(n) = e
    <3>1. e.run = 1 /\ e.seq = n
      BY <1>1, <2>2
    <3>2. PICK m \in 0..4 : e = FirstEvent(m) /\ (m # 0 => FirstEvent(m - 1) \in events)
      BY <3>1
    <3>3. m = n
      BY <1>1, <3>1, <3>2
    <3> QED
      BY <3>2, <3>3
  <2> QED
    BY <1>3, <2>1, <2>2
<1>4. \A n : FirstEvent(n) \in events => FirstEvent(n) \in events'
  OBVIOUS
<1> QED
  BY <1>2, <1>3, <1>4 DEF ScheduleWritten

\* A step that writes no event and logs nothing of the first run keeps it too.
LEMMA ScheduleKept ==
  ASSUME ScheduleWritten, UNCHANGED events,
         loggedRun' = 1 => loggedRun = 1 \/ FirstEvent(1) \in events,
         Milestone("request", 1) \in emitted' =>
           Milestone("request", 1) \in emitted \/ FirstEvent(2) \in events
  PROVE  ScheduleWritten'
BY DEF ScheduleWritten

\* Without a failing call the first attempt stays on its schedule.
LEMMA ScheduleStep ==
  ASSUME TypeOK, RunsInOrder, MilestonesAreWritten, ReleaseInOrder, ApprovalIsRecorded,
         FirstAttemptFollowsSchedule, [Next]_vars
  PROVE  FirstAttemptFollowsSchedule'
<1> SUFFICES ASSUME failures' = 0
             PROVE  ScheduleWritten' /\ (run' = 1 => PositionAtStart' /\ PositionAfterStart')
  BY DEF FirstAttemptFollowsSchedule
<1> USE DEF memory, log, sink, faults
<1>1. failures = 0
  BY CountsOfFaults
<1>2. ScheduleWritten /\ (run = 1 => PositionAtStart /\ PositionAfterStart)
  BY <1>1 DEF FirstAttemptFollowsSchedule
<1>3. Milestone("request", 1) \in emitted' <=>
        Milestone("request", 1) \in emitted \/ (pc = "logRequest" /\ run = 1 /\ LogEmission)
  BY MilestoneStep, RecordsAssumption
     DEF MilestonesAreWritten, KindAt, LogEmission, LogMilestone, Runs
<1>4. Milestone("decision", 1) \in emitted => Milestone("decision", 1) \in emitted'
  BY MilestoneStep, RecordsAssumption DEF MilestonesAreWritten, Runs
<1>5. CASE Dispatch \/ Retry
  <2>0. UNCHANGED <<events, emitted, requested>> /\ loggedRun' = 0 /\ ~decided'
    BY <1>5, BeginFacts
  <2>1. ScheduleWritten'
    BY <1>2, <2>0, ScheduleKept
  <2>2. run' = 1 => pc' = "manifest"
    <3>1. run' = 0 \/ pc' = "manifest"
      BY <1>5, BeginFacts, Zenon
    <3> QED
      BY <3>1
  <2>3. run' = 1 => requested = {} /\ Milestone("request", 1) \notin emitted
    BY <1>5, BeginFacts
  <2> QED
    BY <2>0, <2>1, <2>2, <2>3 DEF PositionAtStart, PositionAfterStart, Starting
<1>6. CASE WriteManifest \/ WriteEpisode
  <2>1. ScheduleWritten'
    BY <1>2, <1>6, ScheduleKept DEF WriteManifest, WriteEpisode
  <2> QED
    BY <1>2, <1>6, <2>1
       DEF WriteManifest, WriteEpisode, TypeOK, PositionAtStart, PositionAfterStart, Starting
<1>7. CASE EmitEvent
  <2> DEFINE e == [run |-> run, seq |-> sequence[run], checkpoint |-> pc]
  <2>1. /\ events' = events \cup {e}
        /\ sequence' = [sequence EXCEPT ![run] = @ + 1]
        /\ run \in Runs /\ 1 \in Runs
        /\ UNCHANGED <<run, emitted, requested, decided, loggedRun, seen>>
    BY <1>7, RecordsAssumption DEF EmitEvent, Emit, TypeOK, Runs
  <2>2. CASE run # 1
    <3>1. e.run # 1
      BY <2>2
    <3> HIDE DEF e
    <3> QED
      BY <1>2, <2>1, <2>2, <3>1, ScheduleExtended
  <2>3. CASE run = 1
    <3>1. CASE Emit("episode.started", "execution.started")
      <4>1. e = FirstEvent(0) /\ sequence'[1] = 1
        BY <1>2, <2>1, <2>3, <3>1, ScheduleEvents DEF Emit, PositionAtStart, Starting, TypeOK
      <4> HIDE DEF e
      <4>2. ScheduleWritten'
        BY <1>2, <2>1, <4>1, ScheduleExtended
      <4> QED
        BY <1>2, <2>1, <2>3, <3>1, <4>1, <4>2
           DEF Emit, PositionAtStart, PositionAfterStart, Starting
    <3>2. CASE Emit("execution.started", "logRun")
      <4>1. e = FirstEvent(1) /\ sequence'[1] = 2 /\ FirstEvent(0) \in events
        BY <1>2, <2>1, <2>3, <3>2, ScheduleEvents DEF Emit, PositionAtStart, Starting, TypeOK
      <4> HIDE DEF e
      <4>2. ScheduleWritten'
        BY <1>2, <2>1, <4>1, ScheduleExtended
      <4> QED
        BY <1>2, <2>1, <2>3, <3>2, <4>1, <4>2
           DEF Emit, PositionAtStart, PositionAfterStart, Starting
    <3>3. CASE Emit("gate.requested", "logRequest")
      <4>1. e = FirstEvent(2) /\ sequence'[1] = 3 /\ FirstEvent(1) \in events
        BY <1>2, <2>1, <2>3, <3>3, ScheduleEvents DEF Emit, PositionAfterStart, Starting, TypeOK
      <4> HIDE DEF e
      <4>2. ScheduleWritten'
        BY <1>2, <2>1, <4>1, ScheduleExtended
      <4> QED
        BY <1>2, <2>1, <2>3, <3>3, <4>1, <4>2
           DEF Emit, PositionAtStart, PositionAfterStart, Starting, PastRequest
    <3>4. CASE Emit("gate.decided", "episode.completed")
      <4>1. /\ e = FirstEvent(3) /\ sequence'[1] = 4 /\ FirstEvent(1) \in events
            /\ Milestone("request", 1) \in emitted
        BY <1>2, <2>1, <2>3, <3>4, ScheduleEvents
           DEF Emit, PositionAfterStart, Starting, TypeOK
      <4>2. FirstEvent(2) \in events
        BY <1>2, <4>1 DEF ScheduleWritten
      <4> HIDE DEF e
      <4>3. ScheduleWritten'
        BY <1>2, <2>1, <4>1, <4>2, ScheduleExtended
      <4> QED
        BY <1>2, <2>1, <2>3, <3>4, <4>1, <4>3
           DEF Emit, PositionAtStart, PositionAfterStart, Starting, PastRequest
    <3>5. CASE Emit("episode.completed", "logDecision")
      <4>1. /\ e = FirstEvent(4) /\ sequence'[1] = 5 /\ FirstEvent(1) \in events
            /\ FirstEvent(3) \in events /\ Milestone("request", 1) \in emitted
        BY <1>2, <2>1, <2>3, <3>5, ScheduleEvents
           DEF Emit, PositionAfterStart, Starting, TypeOK
      <4> HIDE DEF e
      <4>2. ScheduleWritten'
        BY <1>2, <2>1, <4>1, ScheduleExtended
      <4> QED
        BY <1>2, <2>1, <2>3, <3>5, <4>1, <4>2
           DEF Emit, PositionAtStart, PositionAfterStart, Starting, PastRequest
    <3> QED
      BY <1>7, <3>1, <3>2, <3>3, <3>4, <3>5 DEF EmitEvent
  <2> QED
    BY <2>2, <2>3
<1>8. CASE LogEmission
  <2>1. ScheduleWritten'
    BY <1>2, <1>3, <1>8, ScheduleKept
       DEF LogEmission, LogMilestone, PositionAfterStart, Starting
  <2> QED
    BY <1>2, <1>3, <1>4, <1>8, <2>1
       DEF LogEmission, LogMilestone, PositionAtStart, PositionAfterStart, Starting, PastRequest
<1>9. CASE LogStarted
  <2>1. ScheduleWritten'
    BY <1>2, <1>9, ScheduleKept DEF LogStarted, PositionAtStart
  <2> QED
    BY <1>2, <1>9, <2>1
       DEF LogStarted, PositionAtStart, PositionAfterStart, Starting, PastRequest
<1>10. CASE Reconcile \/ WriteEvidence \/ LogEvidence
  <2>1. ScheduleWritten'
    BY <1>2, <1>3, <1>10, ScheduleKept DEF Reconcile, WriteEvidence, LogEvidence, LogEmission, LogMilestone
  <2> QED
    BY <1>2, <1>3, <1>4, <1>10, <2>1
       DEF Reconcile, WriteEvidence, LogEvidence, LogEmission, LogMilestone,
           PositionAtStart, PositionAfterStart, Starting, PastRequest
<1>11. CASE CheckRequest \/ WriteRequest
  <2>1. ScheduleWritten'
    BY <1>2, <1>11, ScheduleKept DEF CheckRequest, WriteRequest
  <2> QED
    BY <1>2, <1>11, <2>1, EvidenceSets
       DEF CheckRequest, WriteRequest, PositionAtStart, PositionAfterStart, Starting, PastRequest, TypeOK, Statuses
<1>12. CASE CheckDecision \/ WriteDecision
  <2>1. ScheduleWritten'
    BY <1>2, <1>12, ScheduleKept DEF CheckDecision, WriteDecision
  <2> QED
    BY <1>2, <1>12, <2>1
       DEF CheckDecision, WriteDecision, PositionAtStart, PositionAfterStart, Starting, PastRequest
<1>13. CASE LogGate \/ LogDone \/ LogEnded
  <2>1. /\ run' \in {run, 0} /\ loggedRun' \in {loggedRun, 0} /\ pc' \in {"idle", "done", "ended"}
        /\ pc \in {"gate", "done", "ended"}
        /\ pc' = "done" => pc = "gate"
        /\ UNCHANGED <<events, emitted, requested, decided, sequence, seen>>
    <3>1. CASE LogGate
      BY <3>1 DEF LogGate, TypeOK, Statuses
    <3>2. CASE LogDone \/ LogEnded
      BY <3>2 DEF LogDone, LogEnded
    <3> QED
      BY <1>13, <3>1, <3>2
  <2>2. ScheduleWritten'
    BY <1>2, <2>1, ScheduleKept
  <2> QED
    BY <1>2, <2>1, <2>2 DEF PositionAtStart, PositionAfterStart, Starting, PastRequest
<1>14. CASE Raise
  <2>1. /\ pc \in {"episode.started", "execution.started", "gate.requested",
                   "gate.decided", "episode.completed"}
        /\ sequence[run] = None /\ pc' = "idle"
        /\ UNCHANGED <<events, emitted, requested, decided, sequence, loggedRun, run, seen>>
    BY <1>1, <1>14 DEF Raise
  <2>2. ScheduleWritten'
    BY <1>2, <2>1, ScheduleKept
  <2>3. run # 1
    BY <1>2, <2>1, RecordsAssumption DEF PositionAtStart, PositionAfterStart, Starting
  <2> QED
    BY <2>1, <2>2, <2>3
<1>15. CASE Restart
  <2>1. /\ run' = loggedRun /\ pc' = "idle" /\ requested' = {}
        /\ emitted' = loggedEmissions /\ emitted = loggedEmissions
        /\ sequence' = [r \in Runs |-> RestoredSequence(r)]
        /\ UNCHANGED <<events, loggedRun>>
    BY <1>15 DEF Restart, Restored, MilestonesAreWritten
  <2>2. ScheduleWritten'
    BY <1>2, <2>1, ScheduleKept
  <2>3. ASSUME loggedRun = 1
        PROVE  /\ FirstEvent(1) \in events
               /\ Milestone("request", 1) \in emitted => sequence'[1] = 3
               /\ Milestone("request", 1) \notin emitted => sequence'[1] = 2
    <3>1. Milestone("run", 1) \in loggedEmissions /\ 1 \in Runs
      BY <2>3, RecordsAssumption DEF MilestonesAreWritten, Runs
    <3> QED
      BY <1>2, <2>1, <2>3, <3>1 DEF ScheduleWritten, RestoredSequence
  <2> QED
    BY <2>1, <2>2, <2>3 DEF PositionAtStart, PositionAfterStart, Starting, PastRequest
<1>16. CASE PullRequestMoves \/ UNCHANGED vars
  <2>1. ScheduleWritten'
    BY <1>2, <1>16, ScheduleKept DEF PullRequestMoves, vars
  <2> QED
    BY <1>2, <1>16, <2>1
       DEF PullRequestMoves, vars, PositionAtStart, PositionAfterStart, Starting, PastRequest
<1> QED
  BY <1>5, <1>6, <1>7, <1>8, <1>9, <1>10, <1>11, <1>12, <1>13, <1>14, <1>15, <1>16 DEF Next

\* Without a crash a number is taken by the event it is written with.
LEMMA PositionsStep ==
  ASSUME TypeOK, RunsInOrder, NumbersArePositions, [Next]_vars
  PROVE  NumbersArePositions'
<1> USE DEF memory, log, sink, faults
<1>1. crashes' = 0 => crashes = 0
  BY CountsOfFaults
<1>2. CASE Dispatch \/ Retry
  <2>1. UNCHANGED <<events, sequence>>
    BY <1>2, BeginFacts
  <2>2. pc' = "manifest" => \A e \in events : e.run # run'
    BY <1>2, BeginFacts
  <2> QED
    BY <1>1, <2>1, <2>2 DEF NumbersArePositions, PositionsOf
<1>3. CASE WriteManifest
  <2>1. /\ sequence' = [sequence EXCEPT ![run] = 0] /\ events' = events /\ pc' = "episode"
        /\ run \in Runs /\ \A e \in events : e.run # run
        /\ sequence \in [Runs -> Nat \cup {None}]
    BY <1>3, RecordsAssumption DEF WriteManifest, NumbersArePositions, TypeOK
  <2>2. 0 # None
    BY RecordsAssumption
  <2>3. ASSUME NEW r \in Runs, PositionsOf(r) PROVE PositionsOf(r)'
    <3>1. CASE r = run
      BY <2>1, <2>2, <3>1 DEF PositionsOf
    <3>2. CASE r # run
      BY <2>1, <2>3, <3>2 DEF PositionsOf
    <3> QED
      BY <3>1, <3>2
  <2> QED
    BY <1>1, <2>1, <2>3 DEF NumbersArePositions
<1>4. CASE EmitEvent
  <2> DEFINE n == sequence[run]
  <2>1. /\ events' = events \cup {[run |-> run, seq |-> n, checkpoint |-> pc]}
        /\ sequence' = [sequence EXCEPT ![run] = n + 1] /\ pc' # "manifest"
        /\ run \in Runs /\ n \in Nat
        /\ sequence \in [Runs -> Nat \cup {None}]
    BY <1>4, RecordsAssumption DEF EmitEvent, Emit, TypeOK
  <2>2. n # None /\ n + 1 # None
    BY <2>1, RecordsAssumption
  <2>3. ASSUME NEW r \in Runs, PositionsOf(r) PROVE PositionsOf(r)'
    <3>1. CASE r = run
      <4>1. /\ \A e \in events : e.run = r => e.seq < n
            /\ \A k \in 0..(n - 1) : \E e \in events : e.run = r /\ e.seq = k
            /\ sequence'[r] = n + 1
        BY <2>1, <2>2, <2>3, <3>1 DEF PositionsOf
      <4>2. \A e \in events' : e.run = r => e.seq < n + 1
        BY <2>1, <4>1 DEF TypeOK
      <4>3. \A k \in 0..n : \E e \in events' : e.run = r /\ e.seq = k
        <5>1. ASSUME NEW k \in 0..n PROVE \E e \in events' : e.run = r /\ e.seq = k
          <6>1. CASE k = n
            <7> DEFINE e == [run |-> run, seq |-> n, checkpoint |-> pc]
            <7>1. e \in events' /\ e.run = r /\ e.seq = k
              BY <2>1, <3>1, <6>1
            <7> HIDE DEF e
            <7> QED
              BY <7>1
          <6>2. CASE k # n
            <7>1. k \in 0..(n - 1)
              BY <2>1, <6>2
            <7> QED
              BY <2>1, <4>1, <7>1
          <6> QED
            BY <6>1, <6>2
        <5> QED
          BY <5>1
      <4>4. \A e, f \in events' :
              e.run = r /\ f.run = r /\ e.seq = f.seq => e.checkpoint = f.checkpoint
        BY <2>1, <2>3, <4>1 DEF PositionsOf
      <4>5. (n + 1) - 1 = n
        BY <2>1
      <4> QED
        BY <2>2, <4>1, <4>2, <4>3, <4>4, <4>5 DEF PositionsOf
    <3>2. CASE r # run
      BY <2>1, <2>3, <3>2 DEF PositionsOf
    <3> QED
      BY <3>1, <3>2
  <2> QED
    BY <1>1, <2>1, <2>3 DEF NumbersArePositions
<1>5. CASE Restart
  <2>1. crashes' # 0 /\ pc' = "idle"
    BY <1>5 DEF Restart, TypeOK
  <2> QED
    BY <2>1 DEF NumbersArePositions
<1>6. CASE \/ WriteEpisode \/ LogEmission \/ LogStarted \/ Reconcile \/ WriteEvidence
           \/ LogEvidence \/ CheckRequest \/ WriteRequest \/ CheckDecision \/ WriteDecision
           \/ LogGate \/ LogDone \/ LogEnded \/ Raise \/ PullRequestMoves \/ UNCHANGED vars
  <2>1. /\ UNCHANGED <<events, sequence>>
        /\ pc' = "manifest" => pc = "manifest" /\ UNCHANGED run
    BY <1>6 DEF WriteEpisode, LogEmission, LogMilestone, LogStarted, Reconcile, WriteEvidence,
       LogEvidence, CheckRequest, WriteRequest, CheckDecision, WriteDecision, LogGate, LogDone,
       LogEnded, Raise, PullRequestMoves, vars
  <2> QED
    BY <1>1, <2>1 DEF NumbersArePositions, PositionsOf
<1> QED
  BY <1>2, <1>3, <1>4, <1>5, <1>6 DEF Next

\* A release comes after its records.
LEMMA ReleaseRecordedStep ==
  ASSUME TypeOK, MilestonesAreWritten, ReleaseInOrder, ApprovalIsRecorded,
         FirstAttemptFollowsSchedule, ReleaseIsRecorded, [Next]_vars
  PROVE  ReleaseIsRecorded'
<1> SUFFICES ASSUME released' # 0, failures' = 0
             PROVE  /\ released' \in manifests'
                    /\ released' = 1 \/ crashes' < 2 => HasGate("decision", released)'
                    /\ released' = 1 => HasGate("request", released)'
  BY DEF ReleaseIsRecorded, HasGate
<1> USE DEF memory, log, sink, faults
<1>1. failures = 0 /\ crashes =< crashes' /\ crashes \in Nat /\ crashes' \in Nat
  BY CountsOfFaults, TypeStep DEF TypeOK
<1>2. CASE LogDone
  <2>1. /\ released' = run /\ pc = "done" /\ run \in Runs /\ run # 0
        /\ seen.status = "approved" /\ UNCHANGED <<manifests, gates, crashes>>
    BY <1>2 DEF LogDone, ReleaseInOrder, TypeOK
  <2>2. run \in manifests /\ (HasGate("decision", run) \/ (run > 1 /\ crashes >= 2))
    BY <1>1, <2>1 DEF ApprovalIsRecorded
  <2>3. run = 1 => HasGate("request", 1)
    BY <1>1, <2>1
       DEF FirstAttemptFollowsSchedule, PositionAfterStart, PastRequest, Starting,
           MilestonesAreWritten
  <2> QED
    BY <1>1, <2>1, <2>2, <2>3 DEF HasGate
<1>3. CASE ~LogDone
  <2>1. released' = released
    BY <1>3 DEF Next, Dispatch, Retry, WriteManifest, WriteEpisode, EmitEvent, Emit, LogEmission,
       LogMilestone, LogStarted, Reconcile, WriteEvidence, LogEvidence, CheckRequest,
       WriteRequest, CheckDecision, WriteDecision, LogGate, LogEnded, Raise, Restart,
       PullRequestMoves, vars
  <2>2. /\ released \in manifests
        /\ released = 1 \/ crashes < 2 => HasGate("decision", released)
        /\ released = 1 => HasGate("request", released)
    BY <1>1, <2>1 DEF ReleaseIsRecorded, HasGate
  <2>3. /\ manifests \subseteq manifests'
        /\ \A kind, r : HasGate(kind, r) => HasGate(kind, r)'
    BY SinkGrows
  <2> QED
    BY <1>1, <2>1, <2>2, <2>3 DEF HasGate
<1> QED
  BY <1>2, <1>3

-----------------------------------------------------------------------------
(* The theorems.                                                           *)

LEMMA Initially == Init => IInv
<1> SUFFICES ASSUME Init PROVE IInv
  OBVIOUS
<1>1. TypeOK
  <2>1. 1 \in Runs /\ MaxFaults \in Nat
    BY RecordsAssumption DEF Runs
  <2>2. sequence \in [Runs -> Nat \cup {None}]
    BY DEF Init
  <2>3. seen \in [artifact : Artifacts, status : Statuses]
    BY DEF Init, Artifacts, Statuses
  <2>4. crashes \in Nat /\ failures \in Nat /\ crashes + failures =< MaxFaults
    BY <2>1 DEF Init
  <2>5. /\ run \in Runs \cup {0} /\ attempt \in Runs
        /\ loggedRun \in Runs \cup {0} /\ released \in Runs \cup {0}
        /\ loggedGate \in Statuses \cup {None} /\ artifact \in Artifacts
        /\ decided \in BOOLEAN /\ published \in BOOLEAN
    BY <2>1 DEF Init, Artifacts
  <2>6. /\ pc \in SinkWrites \cup Appends \cup {"idle", "checkRequest", "checkDecision"}
        /\ claim \in 1..3 /\ (pc # "idle" => run # 0)
    BY DEF Init
  <2>7. \A s : {} \subseteq s
    OBVIOUS
  <2> QED
    BY <2>2, <2>3, <2>4, <2>5, <2>6, <2>7, Zenon DEF Init, TypeOK
<1> QED
  BY <1>1 DEF Init, IInv, KnownIsWritten, ClaimsAreWritten, Evidenced,
              EvidencePrecedesReference, PendingIsNew, Pending

LEMMA Inductive == IInv /\ [Next]_vars => IInv'
BY TypeStep, EvidenceStep, ReferenceStep, PendingStep DEF IInv

\* The first attempt follows its schedule whatever dies, and every run does while
\* nothing dies, so no number is used twice and none is left out.
LEMMA Identify == RInv => SequencesIdentify
<1> SUFFICES ASSUME RInv, crashes = 0 \/ failures = 0,
                    NEW e \in events, e.run = 1 \/ crashes = 0
             PROVE  /\ \A f \in events : f.run = e.run /\ f.seq = e.seq =>
                                           f.checkpoint = e.checkpoint
                    /\ e.seq > 0 => \E f \in events : f.run = e.run /\ f.seq = e.seq - 1
  BY DEF SequencesIdentify
<1>1. e.run \in Runs /\ e.seq \in Nat /\ sequence[e.run] \in Nat \cup {None}
  BY DEF RInv, IInv, TypeOK
<1>2. CASE crashes = 0
  <2>1. PositionsOf(e.run)
    BY <1>1, <1>2 DEF RInv, NumbersArePositions
  <2>2. sequence[e.run] \in Nat /\ e.seq < sequence[e.run]
    BY <1>1, <2>1 DEF PositionsOf
  <2>3. e.seq > 0 => e.seq - 1 \in 0..(sequence[e.run] - 1)
    BY <1>1, <2>2
  <2> QED
    BY <1>1, <2>1, <2>2, <2>3, RecordsAssumption DEF PositionsOf
<1>3. CASE crashes # 0
  <2>1. failures = 0 /\ e.run = 1
    BY <1>3
  <2>2. ScheduleWritten
    BY <2>1 DEF RInv, FirstAttemptFollowsSchedule
  <2>3. \A f \in events : f.run = e.run /\ f.seq = e.seq => f = e
    BY <2>1, <2>2 DEF ScheduleWritten
  <2>4. e.seq > 0 => FirstEvent(e.seq - 1) \in events
    BY <2>1, <2>2 DEF ScheduleWritten
  <2>5. e.seq > 0 => /\ FirstEvent(e.seq - 1).run = e.run
                     /\ FirstEvent(e.seq - 1).seq = e.seq - 1
    BY <1>1, <2>1 DEF FirstEvent
  <2> QED
    BY <2>3, <2>4, <2>5
<1> QED
  BY <1>2, <1>3

LEMMA RecordsInitially == Init => RInv
<1> SUFFICES ASSUME Init PROVE RInv
  OBVIOUS
<1> USE DEF Init
<1>1. 0 \notin Runs /\ 1 \in Runs /\ None # "approved"
  BY RecordsAssumption DEF Runs
<1>2. RunsInOrder /\ MilestonesAreWritten /\ ReleaseInOrder
  BY DEF RunsInOrder, MilestonesAreWritten, ReleaseInOrder, Starting
<1>3. ApprovalIsRecorded
  BY <1>1 DEF ApprovalIsRecorded, Starting
<1>4. FirstAttemptFollowsSchedule
  BY DEF FirstAttemptFollowsSchedule, ScheduleWritten
<1>5. NumbersArePositions
  BY DEF NumbersArePositions, PositionsOf
<1>6. ReleaseIsRecorded
  BY DEF ReleaseIsRecorded
<1> QED
  BY <1>2, <1>3, <1>4, <1>5, <1>6, Initially DEF RInv

LEMMA RecordsInductive == RInv /\ [Next]_vars => RInv'
<1> SUFFICES ASSUME RInv, [Next]_vars PROVE RInv'
  OBVIOUS
<1> USE DEF RInv, IInv
<1>1. IInv'
  BY Inductive
<1>2. RunsInOrder' /\ MilestonesAreWritten' /\ ReleaseInOrder'
  BY OrderStep, WrittenStep, ReleaseOrderStep DEF MilestonesAreWritten
<1>3. ApprovalIsRecorded' /\ FirstAttemptFollowsSchedule'
  BY ApprovalStep, ScheduleStep
<1>4. NumbersArePositions' /\ ReleaseIsRecorded'
  BY PositionsStep, ReleaseRecordedStep
<1> QED
  BY <1>1, <1>2, <1>3, <1>4

\* Whatever raises and whenever the process dies, memory, log and sink keep their
\* types (reliability.py, controller.py _record_run, _record_decision, _rehydrate).
THEOREM RecordsTyped == Spec => []TypeOK
<1>1. IInv => TypeOK
  BY DEF IInv
<1> QED
  BY <1>1, Initially, Inductive, PTL DEF Spec

\* For any number of attempts, crashes and failures a gate request or decision in
\* the sink names only evidence in the sink (controller.py _record_decision).
THEOREM ReferencesResolve == Spec => []EvidencePrecedesReference
<1>1. IInv => EvidencePrecedesReference
  BY DEF IInv
<1> QED
  BY <1>1, Initially, Inductive, PTL DEF Spec

\* For any number of attempts, crashes and failures no record is written whose
\* identity is in the log (controller.py _record_arp_emission, _rehydrate).
THEOREM LoggedIsNeverRepeated == Spec => []NoLoggedEmissionIsPending
<1>1. IInv => NoLoggedEmissionIsPending
  BY DEF IInv, PendingIsNew, NoLoggedEmissionIsPending
<1> QED
  BY <1>1, Initially, Inductive, PTL DEF Spec

\* For any number of attempts, crashes and failures: as long as nothing crashed,
\* or no call raised, a sequence number names one event and none is skipped, in
\* the first attempt always and in a replacement while the process lives
\* (reliability.py _emit_lifecycle, restore_run).
THEOREM NumbersIdentify == Spec => []SequencesIdentify
BY Identify, RecordsInitially, RecordsInductive, PTL DEF Spec

\* For any number of attempts and crashes a released run has left its records, as
\* long as no call raised (controller.py _record_decision, _finish).
THEOREM ReleaseLeavesRecords == Spec => []ReleaseIsRecorded
<1>1. RInv => ReleaseIsRecorded
  BY DEF RInv
<1> QED
  BY <1>1, RecordsInitially, RecordsInductive, PTL DEF Spec
=============================================================================
