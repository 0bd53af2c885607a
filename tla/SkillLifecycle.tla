--------------------------- MODULE SkillLifecycle ---------------------------
(***************************************************************************)
(* One attempt that runs through the lifecycle stages: LifecycleRouter and *)
(* LifecycleAgentRuntime of src/mergewave/lifecycle.py, in a stream thread *)
(* of the supervisor, and what the controller makes of the events          *)
(* (observe_runtime_events, _record_skill_stage_started,                   *)
(* _record_skill_result, _verify_active_authority).  runtime_events        *)
(* returns a tuple: the controller sees nothing before the stream has      *)
(* ended, while it checks the workspace in every cycle.                    *)
(*                                                                         *)
(* Names, versions and manifests of an invocation are taken to match; a    *)
(* result either belongs to the stage or is "foreign".  The content of the *)
(* workspace is the set of stages that wrote to it, and the set of stages  *)
(* whose artifact it does not hold as their result declares it.            *)
(***************************************************************************)
EXTENDS Naturals, Sequences, FiniteSets

CONSTANTS
  Stages,   \* a sequence of stages, [id, runIf, writes]
  Writers,  \* bound: the stages whose agents may write, allowed or not
  Artifacts,\* bound: the stages whose results declare an artifact
  Expiring  \* bound: the stages whose authority can expire before the stream is observed

RunConditions ==
  {"always", "after_previous", "on_failure", "after_implementation", "after_verify",
   "after_review", "after_release"}

ASSUME LifecycleAssumption ==
  /\ Stages \in Seq([id : STRING, runIf : RunConditions, writes : BOOLEAN]) \ {<<>>}
  /\ \A j, k \in DOMAIN Stages : Stages[j].id = Stages[k].id => j = k
  /\ Stages[1].runIf = "always"
     \* One diagnostic stage, as by default; a chain of skips has one link.
  /\ \A j, k \in DOMAIN Stages :
       Stages[j].runIf = "on_failure" /\ Stages[k].runIf = "on_failure" => j = k
  /\ Writers \subseteq DOMAIN Stages
  /\ Artifacts \subseteq DOMAIN Stages
  /\ Expiring \subseteq DOMAIN Stages

Ids == DOMAIN Stages

\* blocked, failed and needs_input are treated alike and called failed; so are
\* completed and skipped, called completed.
Statuses == {"completed", "failed"}

\* What the agent of a stage emits before it exits: no result, one, a result that
\* is taken back by a second one, or one that is not about this stage.
Emissions == {<<>>, <<"foreign">>, <<"failed", "completed">>} \cup {<<s>> : s \in Statuses}

VARIABLES
  \* _LifecycleSession, and the stream over it
  current,   \* the stage of current_decision
  begun,     \* current_started
  finished,  \* the stream has ended
  results,   \* stage -> status of its result, or "none"
  skipped,   \* skipped_stages
  handle,    \* the stage whose process is current_inner_handle
  emitted,   \* the events of the stream the controller has not seen
  \* the agents and their workspace
  agent,     \* the stage whose process runs, or 0: there is one at a time
  exit,      \* how the last agent ended: what it emitted and whether with status 0
  written,   \* the stages that wrote
  stale,     \* the stages whose artifact is missing or has another hash than declared
  expired,   \* the stages whose authority has expired
  cancelled, \* the attempt was cancelled while the agent of this stage was running, or 0
  \* the controller
  active,    \* the attempt is the active one of its item
  invocation,\* the stage of _skill_invocations
  baseline,  \* _authority_baselines
  seen,      \* _skill_result_seen is the current invocation
  failures,  \* the codes reported by observe_runtime_events
  alarm      \* reconcile reported an authority violation

session == <<current, begun, finished, results, skipped, handle>>
world == <<agent, exit, written>>
outside == <<stale, expired>>
control == <<active, invocation, baseline, seen, failures, alarm>>
vars == <<session, emitted, world, outside, cancelled, control>>

FailureCodes ==
  {"invalid_skill_provenance", "invalid_skill_result", "skill_result_failed",
   "authority_violation", "missing_skill_result", "runtime_failed"}

Event == [kind : {"started"}, stage : Ids]
         \cup [kind : {"result"}, stage : Ids, status : Statuses]
         \cup [kind : {"exited"}, ok : BOOLEAN]

TypeOK ==
  /\ current \in Ids /\ handle \in Ids /\ handle <= current
  /\ begun \in BOOLEAN /\ finished \in BOOLEAN
  /\ results \in [Ids -> Statuses \cup {"none"}]
  /\ skipped \subseteq Ids
  /\ emitted \in Seq(Event)
  /\ agent \in Ids \cup {0} /\ written \subseteq Writers
  /\ exit \in [events : Emissions, ok : BOOLEAN]
  /\ stale \subseteq Artifacts /\ expired \subseteq Expiring
  /\ cancelled \in Ids \cup {0}
  /\ active \in BOOLEAN /\ seen \in BOOLEAN /\ alarm \in BOOLEAN
  /\ invocation \in Ids
  /\ baseline \subseteq Writers
  /\ failures \subseteq FailureCodes

\* No agent has ended, or what the last one left was read.
NoExit == [events |-> <<>>, ok |-> FALSE]

Init ==
  /\ current = 1 /\ begun = FALSE /\ finished = FALSE
  /\ results = [k \in Ids |-> "none"] /\ skipped = {}
  /\ handle = 1 /\ emitted = <<>>
  /\ agent = 1 /\ exit = NoExit /\ written = {}
  /\ stale = {} /\ expired = {}
  /\ cancelled = 0
  /\ active = TRUE /\ invocation = 1 /\ baseline = {} /\ seen = FALSE
  /\ failures = {} /\ alarm = FALSE

-----------------------------------------------------------------------------
(* LifecycleRouter.next: the first stage that is neither settled nor       *)
(* passed over decides.                                                    *)

Settled(res, skip) == {k \in Ids : res[k] = "completed"} \cup skip

\* The stage a run condition waits for.
Requires(runIf) ==
  CASE runIf = "after_implementation" -> "implement-test"
    [] runIf = "after_verify" -> "verify"
    [] runIf = "after_review" -> "review"
    [] runIf = "after_release" -> "release"
    [] OTHER -> "nothing"

\* after_previous is not looked at.
Ready_PreviousIgnored(k, known) ==
  \A j \in Ids : Stages[j].id = Requires(Stages[k].runIf) => j \in known

\* Whether the run condition of stage k is met.
Ready(k, known) ==
  /\ Stages[k].runIf = "after_previous" /\ k > 1 => k - 1 \in known
  /\ Requires(Stages[k].runIf) # "nothing" =>
       \E j \in known : Stages[j].id = Requires(Stages[k].runIf)

\* Pairs of an action and a stage; with every stage settled, "none".
Decision(res, skip, failure) ==
  LET known == Settled(res, skip)
      open == {k \in Ids \ known :
                 ~(failure /\ res[k] # "none" /\ Stages[k].runIf # "on_failure")}
      k == CHOOSE m \in open : \A n \in open : m <= n
  IN CASE open = {} -> <<"none", 1>>
       [] OTHER ->
          IF res[k] # "none" THEN <<"blocked", k>>
          ELSE IF Stages[k].runIf = "on_failure"
               THEN <<IF failure THEN "run" ELSE "skip", k>>
               ELSE <<IF Ready(k, known) THEN "run" ELSE "blocked", k>>

-----------------------------------------------------------------------------
(* LifecycleAgentRuntime.stream, in its thread.                            *)

Started == [kind |-> "started", stage |-> current]
Result(status) == [kind |-> "result", stage |-> current, status |-> status]
Exited(ok) == [kind |-> "exited", ok |-> ok]

\* skill.stage_started, once per stage.
BeginStage ==
  /\ ~finished /\ ~begun /\ handle = current
  /\ begun' = TRUE
  /\ emitted' = Append(emitted, Started)
  /\ UNCHANGED <<current, finished, results, skipped, handle, world, outside, cancelled, control>>

\* The results of the stage as the stream passes them on, up to a foreign one.
Forwarded(events) ==
  IF events = <<"foreign">> THEN <<>> ELSE [n \in DOMAIN events |-> Result(events[n])]

Finish(events) ==
  /\ finished' = TRUE
  /\ emitted' = emitted \o events
  /\ UNCHANGED <<begun, handle, agent>>

\* A failed process counts as a successful one.
StageOk_StatusIgnored(e) == e.events \notin {<<>>, <<"foreign">>}

\* _advance_after_stage goes on for a process that exited with status 0 and a result.
StageOk(e) == e.ok /\ e.events \notin {<<>>, <<"foreign">>}

\* current_started keeps its value: the next stage is not announced.
NextBegun_Kept == begun

NextBegun == FALSE

\* The process of the stage has ended: its results are forwarded, the last one
\* counts, and the router decides.  The next stage may lack an authority, or its
\* agent may not start.
AdvanceAfterStage ==
  /\ ~finished /\ begun /\ handle = current /\ agent = 0
  /\ LET events == exit.events
         passed == Forwarded(events)
     IN IF ~StageOk(exit)
        THEN Finish(passed \o <<Exited(FALSE)>>) /\ UNCHANGED <<current, results, skipped>>
        ELSE LET status == events[Len(events)]
                 res == [results EXCEPT ![current] = status]
                 first == Decision(res, skipped, status = "failed")
                 skip == IF first[1] = "skip" THEN skipped \cup {first[2]} ELSE skipped
                 decision == IF first[1] = "skip" THEN Decision(res, skip, FALSE) ELSE first
             IN /\ results' = res /\ skipped' = skip
                /\ CASE decision[1] = "none" ->
                          Finish(passed \o <<Exited(TRUE)>>) /\ UNCHANGED current
                     [] decision[1] = "blocked" ->
                          Finish(passed \o <<Exited(FALSE)>>) /\ UNCHANGED current
                     [] OTHER ->
                          \/ /\ current' = decision[2]
                             /\ agent' = decision[2]
                             /\ begun' = NextBegun
                             /\ emitted' = emitted \o passed
                             /\ UNCHANGED <<finished, handle>>
                          \/ /\ current' \in {current, decision[2]}
                             /\ Finish(passed \o <<Exited(FALSE)>>)
  /\ exit' = NoExit
  /\ UNCHANGED <<written, outside, cancelled, control>>

\* current_inner_handle is assigned once the agent of the stage has been started.
AssignHandle ==
  /\ ~finished /\ handle # current
  /\ handle' = current
  /\ UNCHANGED <<current, begun, finished, results, skipped, emitted, world, outside, cancelled,
                 control>>

-----------------------------------------------------------------------------
(* The agents.                                                             *)

\* It may rewrite or remove the artifact of an earlier stage, or bring it back.
AgentWrites(k) ==
  /\ agent = k /\ k \in Writers
  /\ written' = written \cup {k}
  /\ stale' \in SUBSET {a \in Artifacts : a < k}
  /\ UNCHANGED <<session, emitted, agent, exit, expired, cancelled, control>>

\* Its results may declare an artifact that is not in the workspace.
AgentExits ==
  /\ agent # 0
  /\ agent' = 0
  /\ exit' \in [events : Emissions, ok : BOOLEAN]
  /\ \E wrong \in SUBSET ({agent} \cap Artifacts) : stale' = stale \cup wrong
  /\ UNCHANGED <<session, emitted, written, expired, cancelled, control>>

\* SkillAuthority.is_expired becomes true; nothing but an observation looks at it.
Expire(k) ==
  /\ k \in Expiring \ expired
  /\ expired' = expired \cup {k}
  /\ UNCHANGED <<session, emitted, world, stale, cancelled, control>>

-----------------------------------------------------------------------------
(* The controller, in the supervisor's thread.                             *)

\* Whether verify accepts the workspace for the invocation the controller knows.
Verified ==
  /\ invocation \notin expired
  /\ Stages[invocation].writes \/ written = baseline

\* An event makes observe_runtime_events return a failure: the rest of its batch,
\* any number of events, is dropped.
Fail(code) ==
  /\ failures' = failures \cup {code}
  /\ \E n \in 1..Len(emitted) : emitted' = SubSeq(emitted, n + 1, Len(emitted))

Pass == emitted' = Tail(emitted) /\ UNCHANGED failures

\* _record_skill_stage_started.
ObserveStarted(event) ==
  /\ event.kind = "started"
  /\ IF event.stage \in expired
     THEN Fail("invalid_skill_provenance") /\ UNCHANGED <<invocation, baseline, seen>>
     ELSE invocation' = event.stage /\ baseline' = written /\ seen' = FALSE /\ Pass

\* The authority allows what was written, and the artifact is the declared one.
Accepted(event) == event.stage = invocation /\ Verified /\ event.stage \notin stale

\* A failed result is recorded like any other.
ObserveResult_FailureIgnored(event) ==
  /\ event.kind = "result"
  /\ IF ~Accepted(event)
     THEN Fail("invalid_skill_result") /\ UNCHANGED <<baseline, seen>>
     ELSE seen' = TRUE /\ baseline' = written /\ Pass
  /\ UNCHANGED invocation

\* _record_skill_result, and the failure a failed result is.
ObserveResult(event) ==
  /\ event.kind = "result"
  /\ IF ~Accepted(event)
     THEN Fail("invalid_skill_result") /\ UNCHANGED <<baseline, seen>>
     ELSE /\ seen' = TRUE /\ baseline' = written
          /\ IF event.status = "failed" THEN Fail("skill_result_failed") ELSE Pass
  /\ UNCHANGED invocation

ObserveExited(event) ==
  /\ event.kind = "exited"
  /\ IF ~Verified THEN Fail("authority_violation") /\ UNCHANGED baseline
     ELSE /\ baseline' = written
          /\ IF ~event.ok THEN Fail("runtime_failed")
             ELSE IF ~seen THEN Fail("missing_skill_result") ELSE Pass
  /\ UNCHANGED <<invocation, seen>>

\* Events of an attempt that is no longer the active one are not observed.
ObserveEvent ==
  /\ finished /\ active /\ emitted # <<>>
  /\ LET event == Head(emitted) IN
     ObserveStarted(event) \/ ObserveResult(event) \/ ObserveExited(event)
  /\ UNCHANGED <<session, world, outside, cancelled, active, alarm>>

\* _verify_active_authority at the beginning of reconcile.
CheckAuthority ==
  /\ active
  /\ IF Verified THEN baseline' = written /\ UNCHANGED alarm
     ELSE alarm' = TRUE /\ UNCHANGED baseline
  /\ UNCHANGED <<session, emitted, world, outside, cancelled, active, invocation, seen, failures>>

\* retry and cancel_from_wave: cancel the process of current_inner_handle.  It may
\* have emitted its result before; a terminated process is taken to end with
\* another status than 0.
Cancel ==
  /\ active
  /\ active' = FALSE
  /\ IF agent = handle
     THEN /\ agent' = 0
          /\ exit' \in [events : Emissions, ok : {FALSE}]
          /\ cancelled' = handle
     ELSE UNCHANGED <<agent, exit, cancelled>>
  /\ UNCHANGED <<session, emitted, written, outside, invocation, baseline, seen, failures, alarm>>

Next ==
  \/ BeginStage \/ AdvanceAfterStage \/ AssignHandle
  \/ AgentExits \/ \E k \in Ids : AgentWrites(k) \/ Expire(k)
  \/ ObserveEvent \/ CheckAuthority \/ Cancel

Spec == Init /\ [][Next]_vars

-----------------------------------------------------------------------------
Known == Settled(results, skipped)

Diagnostic(k) == Stages[k].runIf = "on_failure"

\* A stage that waits for another waits for the last one before it that is not
\* diagnostic, as in DEFAULT_LIFECYCLE_STAGES; the router does not ask for it.
Chained ==
  \A k \in Ids :
    /\ Stages[k].runIf = "always" => k = 1
    /\ Requires(Stages[k].runIf) # "nothing" =>
         \A j \in Ids : j < k /\ ~Diagnostic(j) =>
           \A p \in Ids : Stages[p].id = Requires(Stages[k].runIf) => p >= j

\* No agent works on a stage while an earlier one is unsettled; only a diagnostic
\* stage may follow a stage that failed, and then the lifecycle does not go on.
StagesInOrder ==
  agent # 0 => \A j \in 1..(agent - 1) :
    j \in Known \/ (Stages[agent].runIf = "on_failure" /\ results[j] = "failed")

\* When the controller has seen the whole stream of an active attempt and reports
\* no failure, every stage is settled: a lifecycle that stopped early, or whose
\* last stage failed, is never taken for a finished one.
SilentEndIsComplete ==
  finished /\ active /\ emitted = <<>> /\ failures = {} => Known = Ids

\* A lifecycle that settled every stage is accepted: no result of it is rejected,
\* missing or out of place, and it is no runtime failure, unless one of its stages
\* first reported a failure and then took it back, or, since the controller judges
\* all stages after the last one, an artifact is no longer what its stage declared
\* or an authority has expired meanwhile.
SettledLifecycleAccepted ==
  finished /\ Known = Ids /\ stale = {} /\ expired = {} /\ failures # {} =>
    "skill_result_failed" \in failures

\* An attempt that was cancelled while one of its agents was running starts no other.
CancelledStopsThere == cancelled # 0 => agent = 0 /\ current = cancelled

\* The workspace is judged by the authority of the stage at work
\* (docs/skill-integration.md, line 108): no alarm without an unauthorised write or
\* an authority that expired.
AlarmsAreDeserved ==
  alarm => expired # {} \/ \E k \in written : ~Stages[k].writes

\* The write of a stage without write authority is noticed before the attempt is
\* taken for a complete one.
UnauthorisedWritesNoticed ==
  finished /\ active /\ emitted = <<>> /\ failures = {} /\ ~alarm =>
    \A k \in written : Stages[k].writes
=============================================================================
