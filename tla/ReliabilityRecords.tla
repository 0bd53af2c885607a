------------------------- MODULE ReliabilityRecords -------------------------
(***************************************************************************)
(* The portable records of one work item: Arp3Recorder                     *)
(* (src/mergewave/reliability.py) writes them to a sink, the controller    *)
(* (_record_run and _record_decision of controller.py) decides when, and   *)
(* logs the identity of what was written in the event log afterwards.      *)
(* Every write of the sink and every append to the log is one step, pc     *)
(* names the next one.  A write may raise, which ends the handler; the     *)
(* process may die between any two steps and is rebuilt from the log.      *)
(*                                                                         *)
(* An identity is <<kind, run, artifact>>.  Evidence identities carry the  *)
(* digest of the delivery artifact, here the state of the pull request it  *)
(* describes; the others carry "-".  Content-addressed artifacts and the   *)
(* records' other fields are left out.                                     *)
(***************************************************************************)
EXTENDS Naturals

CONSTANTS
  MaxAttempts,   \* bound: attempts of the item
  MaxFaults,     \* bound: deaths of the process and calls that raise
  None           \* no lifecycle state, no gate status

ASSUME RecordsAssumption ==
  /\ MaxAttempts \in Nat \ {0}
  /\ MaxFaults \in Nat
  /\ None \notin Nat \cup {"unready", "ready", "approved"}

Runs == 1..MaxAttempts
Claims == <<"revision", "checks", "acceptance">>
Artifacts == {"none", "open", "merged"}
Statuses == {"unready", "ready", "approved"}

EvidenceId(n, r, a) == <<Claims[n], r, a>>
EvidenceIds == {EvidenceId(n, r, a) : n \in 1..3, r \in Runs, a \in Artifacts}
Milestone(kind, r) == <<kind, r, "-">>
Milestones == {"run", "request", "decision"} \X Runs \X {"-"}

\* The three claims about one artifact, and the two a human gate requires.
EvidenceOf(r, a) == {EvidenceId(n, r, a) : n \in 1..3}
Required(r, a) == {EvidenceId(n, r, a) : n \in 1..2}

VARIABLES
  run,        \* the active run, 0 when there is none
  attempt,    \* the simulator's attempt number
  known,      \* _recorded_evidence_ids
  emitted,    \* _arp_emissions
  requested,  \* _gate_request_evidence of the item, {} when there is none
  decided,    \* _recorded_decisions of the item is "approved"
  sequence,   \* run -> next sequence number; None before its manifest
  published,  \* the item is in _done_state_published
  pc,         \* the next write or append
  claim,      \* the claim at work in the loops over the evidence
  seen,       \* the artifact and the gate status of the observation at work
  loggedRun,  \* the log's active assignment, 0 when there is none
  loggedEmissions,  \* the identities in the log
  loggedGate, \* the item's last gate status in the log
  released,   \* the run whose merge the log calls Done, 0 when there is none
  manifests,  \* the runs with a manifest in the sink
  evidence,   \* the evidence in the sink
  gates,      \* gate requests and decisions in the sink
  events,     \* lifecycle events in the sink
  created,    \* the runs whose branch was created
  artifact,   \* the pull request of the active run
  crashes,    \* deaths of the process
  failures    \* calls that raised

memory == <<run, attempt, known, emitted, requested, decided, sequence, published>>
log == <<loggedRun, loggedEmissions, loggedGate, released>>
sink == <<manifests, evidence, gates, events>>
faults == <<crashes, failures>>
vars == <<memory, pc, claim, seen, log, sink, created, artifact, faults>>

SinkWrites == {"manifest", "episode", "episode.started", "execution.started",
               "evidence", "request", "gate.requested",
               "decision", "gate.decided", "episode.completed"}
Appends == {"logRun", "logStarted", "logEvidence", "logRequest", "logDecision",
            "gate", "done", "ended"}

TypeOK ==
  /\ run \in Runs \cup {0} /\ attempt \in Runs
  /\ known \subseteq EvidenceIds
  /\ emitted \subseteq EvidenceIds \cup Milestones
  /\ requested \subseteq EvidenceIds
  /\ decided \in BOOLEAN /\ published \in BOOLEAN
  /\ sequence \in [Runs -> Nat \cup {None}]
  /\ pc \in SinkWrites \cup Appends \cup {"idle", "checkRequest", "checkDecision"}
  /\ claim \in 1..3
  /\ seen \in [artifact : Artifacts, status : Statuses]
  /\ loggedRun \in Runs \cup {0} /\ released \in Runs \cup {0}
  /\ loggedEmissions \subseteq EvidenceIds \cup Milestones
  /\ loggedGate \in Statuses \cup {None}
  /\ manifests \subseteq Runs /\ created \subseteq Runs
  /\ evidence \subseteq EvidenceIds
  /\ gates \subseteq [kind : {"request", "decision"}, run : Runs,
                      names : SUBSET EvidenceIds]
  /\ events \subseteq [run : Runs, seq : Nat, checkpoint : SinkWrites]
  /\ artifact \in Artifacts
  /\ crashes \in Nat /\ failures \in Nat /\ crashes + failures =< MaxFaults
  /\ pc # "idle" => run # 0

Init ==
  /\ run = 0 /\ attempt = 1
  /\ known = {} /\ emitted = {} /\ requested = {}
  /\ decided = FALSE /\ published = FALSE
  /\ sequence = [r \in Runs |-> None]
  /\ pc = "idle" /\ claim = 1
  /\ seen = [artifact |-> "none", status |-> "unready"]
  /\ loggedRun = 0 /\ loggedEmissions = {} /\ loggedGate = None /\ released = 0
  /\ manifests = {} /\ evidence = {} /\ gates = {} /\ events = {}
  /\ created = {} /\ artifact = "none"
  /\ crashes = 0 /\ failures = 0

-----------------------------------------------------------------------------
(* Dispatch, retry and the records of a run.                               *)

\* The handler of attempt a becomes active when its branch is new; creating the
\* workspace of an earlier attempt raises and leaves the item without a run.
Begin(a) ==
  IF a \in created
    THEN /\ run' = 0 /\ pc' = "idle"
         /\ UNCHANGED created
    ELSE /\ run' = a /\ created' = created \cup {a}
         /\ pc' = IF Milestone("run", a) \in emitted THEN "logStarted" ELSE "manifest"

Dispatch ==
  /\ pc = "idle" /\ run = 0 /\ released = 0
  /\ attempt \notin created
  /\ Begin(attempt)
  /\ UNCHANGED <<attempt, known, emitted, requested, decided, sequence, published,
                 claim, seen, log, sink, artifact, faults>>

\* The decision is kept for the replacement.
Forget_DecisionKept == UNCHANGED <<known, emitted, requested, decided>>

\* What retry forgets of the superseded run: its decision, not its request.
Forget ==
  /\ decided' = FALSE
  /\ UNCHANGED <<known, emitted, requested>>

Retry ==
  /\ pc = "idle" /\ run # 0 /\ released = 0
  /\ attempt < MaxAttempts
  /\ attempt' = attempt + 1
  /\ loggedRun' = IF loggedRun = run THEN 0 ELSE loggedRun
  /\ Forget
  /\ Begin(attempt + 1)
  /\ artifact' = "none"
  /\ UNCHANGED <<sequence, published, claim, seen, loggedEmissions, loggedGate,
                 released, sink, faults>>

WriteManifest ==
  /\ pc = "manifest"
  /\ manifests' = manifests \cup {run}
  /\ sequence' = [sequence EXCEPT ![run] = 0]
  /\ pc' = "episode"
  /\ UNCHANGED <<run, attempt, known, emitted, requested, decided, published, claim, seen,
                 log, evidence, gates, events, created, artifact, faults>>

WriteEpisode ==
  /\ pc = "episode"
  /\ pc' = "episode.started"
  /\ UNCHANGED <<memory, claim, seen, log, sink, created, artifact, faults>>

\* _emit_lifecycle: the number is taken after the write.
Emit(checkpoint, next) ==
  /\ pc = checkpoint /\ sequence[run] # None
  /\ events' = events \cup {[run |-> run, seq |-> sequence[run], checkpoint |-> checkpoint]}
  /\ sequence' = [sequence EXCEPT ![run] = @ + 1]
  /\ pc' = next
  /\ UNCHANGED <<run, attempt, known, emitted, requested, decided, published, claim, seen,
                 log, manifests, evidence, gates, created, artifact, faults>>

EmitEvent ==
  \/ Emit("episode.started", "execution.started")
  \/ Emit("execution.started", "logRun")
  \/ Emit("gate.requested", "logRequest")
  \/ Emit("gate.decided", "episode.completed")
  \/ Emit("episode.completed", "logDecision")

\* _record_arp_emission of the run, a gate request or a gate decision.
LogMilestone(at, kind, next) ==
  /\ pc = at
  /\ emitted' = emitted \cup {Milestone(kind, run)}
  /\ loggedEmissions' = loggedEmissions \cup {Milestone(kind, run)}
  /\ pc' = next
  /\ UNCHANGED <<run, attempt, known, requested, decided, sequence, published, claim, seen,
                 loggedRun, loggedGate, released, sink, created, artifact, faults>>

LogEmission ==
  \/ LogMilestone("logRun", "run", "logStarted")
  \/ LogMilestone("logRequest", "request", "checkDecision")
  \/ LogMilestone("logDecision", "decision", "gate")

LogStarted ==
  /\ pc = "logStarted"
  /\ loggedRun' = run
  /\ pc' = "idle"
  /\ UNCHANGED <<memory, claim, seen, loggedEmissions, loggedGate, released,
                 sink, created, artifact, faults>>

-----------------------------------------------------------------------------
(* Reconciliation: evidence, gate request, gate decision.                  *)

\* The gate's answers about an artifact: the same pull request may be judged
\* differently when the ticket's link or the target branch changed meanwhile.
Judgements(a) ==
  CASE a = "none"   -> {"unready"}
    [] a = "open"   -> {"unready", "ready"}
    [] a = "merged" -> {"unready", "approved"}

\* Evidence about this artifact was recorded before.
Recorded(a) ==
  \/ EvidenceId(1, run, a) \in known
  \/ EvidenceOf(run, a) \cap emitted # {}

Reconcile ==
  /\ pc = "idle" /\ run # 0
  /\ \E s \in Judgements(artifact) :
       seen' = [artifact |-> artifact, status |-> s]
  /\ pc' = IF Recorded(artifact) THEN "checkRequest" ELSE "evidence"
  /\ claim' = 1
  /\ UNCHANGED <<memory, log, sink, created, artifact, faults>>

\* _recorded_evidence_ids takes all three before they are written.
WriteEvidence_KnownFirst ==
  /\ pc = "evidence"
  /\ evidence' = evidence \cup {EvidenceId(claim, run, seen.artifact)}
  /\ known' = known \cup EvidenceOf(run, seen.artifact)
  /\ IF claim = 3 THEN pc' = "logEvidence" /\ claim' = 1
                  ELSE claim' = claim + 1 /\ UNCHANGED pc
  /\ UNCHANGED <<run, attempt, emitted, requested, decided, sequence, published, seen,
                 log, manifests, gates, events, created, artifact, faults>>

\* One claim after the other; _recorded_evidence_ids takes all three at the end.
WriteEvidence ==
  /\ pc = "evidence"
  /\ evidence' = evidence \cup {EvidenceId(claim, run, seen.artifact)}
  /\ IF claim = 3
       THEN /\ known' = known \cup EvidenceOf(run, seen.artifact)
            /\ pc' = "logEvidence" /\ claim' = 1
       ELSE /\ claim' = claim + 1
            /\ UNCHANGED <<known, pc>>
  /\ UNCHANGED <<run, attempt, emitted, requested, decided, sequence, published, seen,
                 log, manifests, gates, events, created, artifact, faults>>

LogEvidence ==
  /\ pc = "logEvidence"
  /\ emitted' = emitted \cup {EvidenceId(claim, run, seen.artifact)}
  /\ loggedEmissions' = loggedEmissions \cup {EvidenceId(claim, run, seen.artifact)}
  /\ IF claim = 3
       THEN pc' = "checkRequest" /\ claim' = 1
       ELSE claim' = claim + 1 /\ UNCHANGED pc
  /\ UNCHANGED <<run, attempt, known, requested, decided, sequence, published, seen,
                 loggedRun, loggedGate, released, sink, created, artifact, faults>>

\* The request is remembered before it is written.
CheckRequest ==
  /\ pc = "checkRequest"
  /\ IF /\ seen.status \in {"ready", "approved"}
        /\ requested = {}
        /\ Milestone("request", run) \notin emitted
       THEN requested' = Required(run, seen.artifact) /\ pc' = "request"
       ELSE pc' = "checkDecision" /\ UNCHANGED requested
  /\ UNCHANGED <<run, attempt, known, emitted, decided, sequence, published, claim, seen,
                 log, sink, created, artifact, faults>>

WriteRequest ==
  /\ pc = "request"
  /\ gates' = gates \cup {[kind |-> "request", run |-> run,
                           names |-> Required(run, seen.artifact)]}
  /\ pc' = "gate.requested"
  /\ UNCHANGED <<memory, claim, seen, log, manifests, evidence, events,
                 created, artifact, faults>>

CheckDecision ==
  /\ pc = "checkDecision"
  /\ IF seen.status = "approved" /\ ~decided /\ Milestone("decision", run) \notin emitted
       THEN decided' = TRUE /\ pc' = "decision"
       ELSE pc' = "gate" /\ UNCHANGED decided
  /\ UNCHANGED <<run, attempt, known, emitted, requested, sequence, published, claim, seen,
                 log, sink, created, artifact, faults>>

WriteDecision ==
  /\ pc = "decision"
  /\ gates' = gates \cup {[kind |-> "decision", run |-> run,
                           names |-> requested \cup EvidenceOf(run, seen.artifact)]}
  /\ pc' = "gate.decided"
  /\ UNCHANGED <<memory, claim, seen, log, manifests, evidence, events,
                 created, artifact, faults>>

\* gate.pending or gate.decided; an approved item that is Done leaves _active.
LogGate ==
  /\ pc = "gate"
  /\ loggedGate' = seen.status
  /\ CASE seen.status # "approved" -> pc' = "idle" /\ UNCHANGED run
       [] seen.status = "approved" /\ ~published -> pc' = "done" /\ UNCHANGED run
       [] seen.status = "approved" /\ published -> pc' = "idle" /\ run' = 0
  /\ UNCHANGED <<attempt, known, emitted, requested, decided, sequence, published, claim, seen,
                 loggedRun, loggedEmissions, released, sink, created, artifact, faults>>

\* The tracker's Done and its event.
LogDone ==
  /\ pc = "done"
  /\ released' = run /\ published' = TRUE
  /\ pc' = "ended"
  /\ UNCHANGED <<run, attempt, known, emitted, requested, decided, sequence, claim, seen,
                 loggedRun, loggedEmissions, loggedGate, sink, created, artifact, faults>>

\* The event that ends the attempt in the log.
LogEnded ==
  /\ pc = "ended"
  /\ run' = 0 /\ pc' = "idle"
  /\ loggedRun' = IF loggedRun = run THEN 0 ELSE loggedRun
  /\ UNCHANGED <<attempt, known, emitted, requested, decided, sequence, published, claim, seen,
                 loggedEmissions, loggedGate, released, sink, created, artifact, faults>>

-----------------------------------------------------------------------------
(* Faults and the pull request.                                            *)

\* A write that raises, and an event of a run without manifest, end the handler
\* where it is; so does the tracker when it refuses Done.
Raise ==
  /\ \/ /\ pc \in SinkWrites \cup {"done"} /\ crashes + failures < MaxFaults
        /\ failures' = failures + 1
     \/ /\ pc \in {"episode.started", "execution.started", "gate.requested",
                   "gate.decided", "episode.completed"}
        /\ sequence[run] = None
        /\ UNCHANGED failures
  /\ pc' = "idle"
  /\ UNCHANGED <<memory, claim, seen, log, sink, created, artifact, crashes>>

\* The request's event is not counted.
RestoredSequence_RequestForgotten(r) ==
  IF r # loggedRun \/ Milestone("run", r) \notin loggedEmissions THEN None ELSE 2

\* restore_run: the events of a restored run are counted from what is logged.
RestoredSequence(r) ==
  IF r # loggedRun \/ Milestone("run", r) \notin loggedEmissions THEN None
  ELSE IF Milestone("request", r) \in loggedEmissions THEN 3 ELSE 2

\* The log's identities are not read.
Restored_IdentitiesForgotten ==
  /\ emitted' = {}
  /\ sequence' = [r \in Runs |-> RestoredSequence(r)]

\* The identities and the sequence a restart takes from the log.
Restored ==
  /\ emitted' = loggedEmissions
  /\ sequence' = [r \in Runs |-> RestoredSequence(r)]

Restart ==
  /\ crashes + failures < MaxFaults
  /\ run' = loggedRun /\ attempt' = 1
  /\ known' = {} /\ requested' = {}
  /\ decided' = (loggedGate = "approved")
  /\ published' = (released # 0)
  /\ Restored
  /\ pc' = "idle" /\ claim' = 1
  /\ crashes' = crashes + 1
  /\ UNCHANGED <<seen, log, sink, created, artifact, failures>>

\* The pull request of the active run is opened, and merged by a human.
PullRequestMoves ==
  /\ run # 0
  /\ \/ artifact = "none" /\ artifact' = "open"
     \/ artifact = "open" /\ artifact' = "merged"
  /\ UNCHANGED <<memory, pc, claim, seen, log, sink, created, faults>>

Next ==
  \/ Dispatch \/ Retry \/ WriteManifest \/ WriteEpisode \/ EmitEvent \/ LogEmission
  \/ LogStarted \/ Reconcile \/ WriteEvidence \/ LogEvidence \/ CheckRequest \/ WriteRequest
  \/ CheckDecision \/ WriteDecision \/ LogGate \/ LogDone \/ LogEnded
  \/ Raise \/ Restart \/ PullRequestMoves

Spec == Init /\ [][Next]_vars

-----------------------------------------------------------------------------
(* Properties.                                                             *)

\* A gate request or decision names only evidence that is already in the sink,
\* whatever failed or died before, so that a consumer reading the sink never
\* follows a reference to nothing (controller.py _record_decision).
EvidencePrecedesReference == \A g \in gates : g.names \subseteq evidence

\* The identity the write at pc belongs to.
Pending ==
  CASE pc \in {"manifest", "episode", "episode.started", "execution.started"} ->
         {Milestone("run", run)}
    [] pc = "evidence" -> {EvidenceId(n, run, seen.artifact) : n \in claim..3}
    [] pc \in {"request", "gate.requested"} -> {Milestone("request", run)}
    [] pc \in {"decision", "gate.decided", "episode.completed"} -> {Milestone("decision", run)}
    [] OTHER -> {}

\* No record is written once its identity is in the log, across restarts and
\* failures (controller.py:1310 restores _arp_emissions; README "restart-safe
\* ARP emission identities").
NoLoggedEmissionIsPending == Pending \cap loggedEmissions = {}

\* Without a crash, or without a failing call, the lifecycle events of the first
\* attempt are numbered from 0 without gaps and no number names two of them,
\* although a restart takes the number from the log and not from the sink.  A
\* replacement has no such promise: retry keeps the old request, and a restart
\* between its decision and the decision's identity has it request afterwards.
SequencesIdentify ==
  crashes = 0 \/ failures = 0 =>
    \A e \in {e \in events : e.run = 1 \/ crashes = 0} :
      /\ \A f \in events : f.run = e.run /\ f.seq = e.seq => f.checkpoint = e.checkpoint
      /\ e.seq > 0 => \E f \in events : f.run = e.run /\ f.seq = e.seq - 1

\* When no call failed, an item that is Done has left its manifest, its approving
\* decision and, in its first attempt, its gate request in the sink.  After a
\* second crash the decision of a replacement may be missing: the log keeps the
\* gate status by item, so a restart takes the old attempt's approval for the
\* replacement's (controller.py:1432).
ReleaseIsRecorded ==
  released # 0 /\ failures = 0 =>
    /\ released \in manifests
    /\ released = 1 \/ crashes < 2 =>
         \E g \in gates : g.kind = "decision" /\ g.run = released
    /\ released = 1 => \E g \in gates : g.kind = "request" /\ g.run = released
=============================================================================
