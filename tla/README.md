# MergeWave: specifications, checks and proofs

MergeWave dispatches work items of a dependency graph to coding agents. Each item
gets a Git worktree on a fixed base revision and an agent run; the pull request
that results is observed, judged by a gate and, once a human has merged it, its
item is Done and the items it was blocking become dispatchable. Two policies
exist: `continuous_frontier` dispatches whatever is ready, `wave_barrier`
dispatches a wave and waits until all of it is delivered.

This directory holds TLA+ modules for the parts that decide and remember, TLC
configurations that check them on small instances, and TLAPS proofs for every
value of the constants. Source paths below are relative to `src/mergewave/`.

## Inventory

| Part | State it keeps | Operations | What makes it correct |
|---|---|---|---|
| `scheduler.py` Scheduler | dispatched, released and cancelled items, active wave, barrier flag, base, wave records | dispatch_ready, release, retry, cancel, refresh_target_base, restore_* | blockers first; flag, wave and record agree; one base in flight under a barrier |
| `simulator.py` MergeWaveSimulator | a dispatch, an observation and a decision per item; its own copy of the wave; attempt numbers | observe_delivery, evaluate_gate, retry_item, cancel_from_wave, refresh_target_base | only current evidence releases; both copies of the wave agree |
| `simulator.py` gate (`_classify`) | none | one observation to approved, pending or blocked | approval means the whole contract |
| `github_adapter.py`, `git_provider.py` | none; several reads per observation | observe, contains_revision | an approval is about one commit although it was read in pieces |
| `controller.py` DeliveryController | active assignments, published states, evidence; rebuilt from the event log | dispatch_ready, reconcile, retry, cancel_from_wave, refresh_target_base, observe_runtime_events, from_event_log | tracker, worktrees, log and memory stay consistent through failures and restarts |
| `persistence.py` SqliteEventLog | events with unique idempotency keys | append, events, reduce | the projection is the state at the last append |
| `git_workspace.py` | worktrees and branches | create, inspect, destroy | one isolated worktree per attempt |
| `bootstrap.py` | none | build, start, reconcile_once | a controller is rebuilt when there is a log |
| `supervisor.py` | stream threads, event queue, consumed runs, start times | run_once, run_forever | every stream is read once, an attempt answers for its own failures only, no failure or hang stays unnoticed |
| `lifecycle.py`, `skills.py` | current stage, its process, results and skips; in the controller the invocation and the workspace baseline | next, start, stream, cancel; verify | stages run in order, an incomplete lifecycle is never taken for a complete one, the workspace is judged by the stage at work |
| `reliability.py`, `_record_run` and `_record_decision` of `controller.py` | sequence numbers; in the controller the identities emitted and what was requested and decided; the identities in the event log | record_run, record_evidence, record_gate_request, record_gate_decision, restore_run | references resolve, what is logged is not written again, numbers identify events, a release leaves its records |
| `linear_adapter.py` | none; the cursor of a listing | fetch_candidates, retries, state transitions | every page is read, listing ends |
| `contracts.py` | none; the stack of a search | compile_dependency_graph | what is accepted can be delivered, a reported cycle exists |
| `reconciliation.py` | none | reconcile | nothing in the program calls it |
| `acp_runtime.py`, `runtime_profiles.py` | one agent process and its pipe, shared by all runs; request ids | start, stream, cancel | a run holds its own session, requests return, the end of the process reaches everybody |
| `runtime.py` | one subprocess per run | start, stream, cancel | seen by the supervisor as the outcome of a stream |

How they meet: bootstrap builds the simulator (which owns the scheduler) and the
controller. The supervisor calls the controller from one thread; each of its
stream threads only fills a queue. The controller calls the tracker, Git, the
runtime, the observer and the event log, one after the other, and none of these
calls is undone when a later one fails. What survives the process is the tracker,
Git and the event log. Hard behaviour comes from there: a crash or an exception
between two calls, reads of GitHub at different times, the same fact kept in two
places, retries and cancellations in the middle of a wave. `PROJECT.json` lists
each hazard at its line.

## Modules

| Module | Code | State and actions |
|---|---|---|
| `Scheduler` | `scheduler.py`, `DependencyGraph.ready` | one variable per attribute, `policy` included; one action per public method |
| `DeliveryGate` | `_classify`, `evaluate_gate` | operators: `Checks` lists the checks in the order of the code |
| `MergeWaveSimulator` | `simulator.py` | instantiates Scheduler on the same variables and adds the per-item dictionaries and the second copy of the wave |
| `GatedDelivery` | the promise, no code | items wait, are in flight on one base, or are settled |
| `PullRequest`, `PullRequestObserver` | `github_adapter.py` observe, `_enrich_observation`, the gate | the pull request and what an approval of it means; one action per read; author, CI, reviewers and the person who merges are external actions between them |
| `DeliveryController` | `controller.py`, `persistence.py`, `git_workspace.py`, `bootstrap.py` | instantiates MergeWaveSimulator; see below |
| `DeliverySupervisor` | `supervisor.py`, `runtime_events`, `retry`, `observe_runtime_events` of `controller.py` | `run_once` in phases (start streams, drain, time-outs, observe, reconcile), one program counter per stream thread, agents outside |
| `SkillLifecycle` | `lifecycle.py`, the skill events of `controller.py`, the verifier of `skills.py` | the stream thread step by step, the agents of the stages, and the controller's observation and reconciliation |
| `ReliabilityRecords` | `reliability.py`, `_record_run`, `_record_decision`, `_record_arp_emission`, the records' part of `_rehydrate` and `retry` | one item and its attempts; `pc` names the next write of the sink or append to the log, each is one action |
| `WorkItemIntake` | `fetch_candidates` and the transport of `linear_adapter.py`, `compile_dependency_graph` | one action per answer of the server, then the depth-first search with its recursion as a stack |
| `AcpTransport` | `acp_runtime.py`, and who calls it in `supervisor.py`, `lifecycle.py` | one pipe, the supervisor's thread and a stream thread per run, one action per line read; the agent is outside |
| `SchedulerProofs`, `SimulatorProofs`, `ControllerProofs`, `SupervisorProofs`, `SkillLifecycleProofs`, `ReliabilityProofs`, `AdapterProofs` (intake and observer), `AcpProofs` | | theorems |
| `MC...` | | instances for TLC |

`DeliveryController` splits a handler where a crash can fall. A public method
changes memory up to its first external call and leaves the rest in the program
`todo`, a sequence of calls; each call (tracker transition, event append, worktree
creation, runtime start, base lookup) is one action. `Raise` drops the program:
the exception left the handler. Any call to the outside may raise, the recorder
and the event log included; when they do right after an agent was started, the
item is active and the log does not know its attempt. A wave whose start was not
logged may still be logged as released; no restart succeeds then. `Restart` drops
the program too and rebuilds memory from `log`, the projection of the events.
Handlers start only when `todo` is empty because one thread calls the controller.
Branches outlive their worktrees, so creating a workspace whose branch exists is
refused, as `git worktree add -b` does. `Configured` says whether the simulator
was built with the repository and the root of the worktrees that are used.
`bootstrap.py` does not do that: an observation then shows another place than the
dispatch (`Places`), until a restart takes the dispatch from the log; with
`Configured` FALSE the model allows either place. The items of a frontier are
launched in any order. The restart is that of a project whose work-item bodies fix
the field `state`: bootstrap otherwise rebuilds a snapshot with another digest and
`_rehydrate` refuses it before anything else happens.

`DeliverySupervisor` keeps of the controller what the supervisor sees: which
attempt of which item is active and whether its runtime is attached. Retries come
from the supervisor, after a failure, and from the operator, between two cycles.
The agents outlive the process: `Restart` reattaches any of the active ones, as
the ACP runtime does, and logs the others as orphaned; a reattached stream is read
again, its beginning may be lost, and an orphan is neither read nor cancelled. The
simulator counts attempts from 1 again, and a retry whose branch is left over is
refused. The queue holds pairs of a run and an event; the sentinel that closes a
stream is the event "end". A stream thread looks its assignment up when it starts
to run, not when it was created, waits until the agent has ended (`runtime_events`
builds a tuple) and then puts event after event while `run_once` may be draining.
A run is what a `run_id` is: item and attempt number.

`SkillLifecycle` is one attempt with several stages. Because the events wait in a
tuple, the controller observes them only when the stream has ended; until then it
keeps the invocation of the first stage and compares the workspace with it in
every cycle. Both sides are in one module because that delay is what its
properties are about. Artifacts are verified then, too, and so is whether an
authority has expired: `stale` has the stages whose artifact is not (or no longer)
what their result declared, `expired` those whose authority is over. Starting the
next agent and assigning its handle are two actions: a cancellation can fall
between them. Statuses and emissions stand for classes: blocked, failed and
needs_input are treated alike by both sides.

`ReliabilityRecords` looks at the part of `reconcile` that `DeliveryController`
leaves out, and at that alone: one item, the records of its runs in the sink, and
what memory and log know of them. An observation is abstracted to the artifact
whose digest the evidence carries (no pull request, open, merged) and the gate's
status; the same artifact may be judged differently, because the digest leaves out
the ticket's link and the target branch. A write or the tracker may raise, the
process may die between any two steps, and a restart restores the run, the
identities and the sequence number from the log, the attempt number not.

`WorkItemIntake` lets people edit the relation between two pages, so that the
relation that was read may never have existed. A cursor is the number of issues
before it, or one of `MaxInvented` strings of the server's own, which may lead
anywhere; the server may fail, promise a page behind a wrong cursor, or answer
without issues. The search takes roots and blockers in any order.

`AcpTransport` has one pipe because `create_runtime` builds one transport for all
runs, and no lock guards it. A line goes to whichever thread reads: a request
drops every line with another id, an event stream drops answers and takes any
session's notifications. The ids of `itertools.count` are fresh under CPython.

`PullRequest` has two constants for the place of the work: `RealWorkspace`, which
the observer reports, and `AssignedWorkspace`, which the simulator puts into the
dispatch. The gate compares them, and bootstrap makes them differ.

What an observation shows is one of three representative kinds in
`DeliveryController` (nothing, a green open pull request, a merge);
`MergeWaveSimulator` and `PullRequestObserver` cover the rest. Each `Foo_Bar`
definition in front of `Foo` is a plausible wrong version of `Foo`, used to see
that the properties notice it; no specification reaches it.

## Runs

| Run | Shows |
|---|---|
| `scheduler` | five items with a diamond of blockers, both policies, every order of method calls: types, blockers first, truth of the wave records, barrier consistency |
| `simulator` | both policies, observations of any attempt and base in any order: decisions are current, only evidence about the attempt in flight releases, the two copies of the wave agree, and the simulator implements `GatedDelivery` |
| `observer` | pushes, checks, reviews and the merge between the reads: an approved head was green, descends from the base and is the merged head; a pull request that stays deliverable is approved in the end, if the simulator knows the real repository and worktree |
| `controller_restart` | one crash between any two calls and one call that raises, with retries and cancellations, and the simulator as bootstrap builds it: one worktree per item, the log names the active work or, after a call raised, lacks it, only the assigned attempt's merge makes an item Done |
| `controller_frontier` | two roots and a dependent, one failing call: releases are durable before dependents start, refreshes are not refused, no ready item is left behind, dependents build on the merge of their blockers |
| `controller_recovery` | violation: under `wave_barrier` a log with a refreshed base cannot be rehydrated |
| `supervisor` | threads, queue, time-outs, retries of supervisor and operator, and one death of the process with reattached and orphaned agents: one agent per item apart from orphans, streams consumed once in a life of the process, attempts fail for themselves, a completion that was read is kept, no attempt is forgotten |
| `lifecycle` | the nine default stages with failing, silent, contradicting and cancelled agents, a rewritten artifact and an expired authority: stages in order, no silent incomplete end, a settled lifecycle whose artifacts and authorities still hold is accepted, nothing runs after a cancelled stage |
| `lifecycle_authority` | violation: an authorised write of a later stage is reported as an authority violation |
| `records` | two attempts, two faults (crashes, failing writes, a refusing tracker): a gate record names written evidence only, logged identities are not written again, event numbers are unique and without gaps, an item that is Done has left manifest, request and decision |
| `intake` | three issues on two pages with a foreign blocker, a server error, wrong cursors, and one edit or one cursor of the server's own: accepted graphs are acyclic and complete, reported cycles real, a settled team is judged right, the intake ends |
| `acp` | two runs, the supervisor's thread, an agent that may answer, refuse, be silent or end: sessions are kept apart, a request without a competing reader returns, the end of the process reaches every run |

The violation runs check statements of the documentation that the code does not
meet; `PROJECT.json` quotes them. Where the code does not keep what one might
expect of it, the property says under which condition it does, and the hazard says
what happens otherwise:

- after a crash between Done and the logged base, dependents start on the old
  base (`StartsOnMergedWork` of `DeliveryController`, without the condition of
  `UninterruptedStartsOnMergedWork`, has this counterexample);
- after a restart under `wave_barrier` a refresh may be refused: the scheduler's
  active wave is restored as one item, the simulator's copy as all of them
  (`RefreshNeverRefused` is claimed until a crash);
- a cancelled item becomes active again after a restart, and a wave that was logged
  as released and never as started makes every restart fail;
- after a restart the operator's retry of an orphaned attempt starts an agent beside
  the orphan (`OneAgentPerItem` says that nothing else starts a second one), and a reattached run
  is read a second time;
- a settled lifecycle is rejected when a later stage rewrote an artifact, or an
  authority expired, before the controller looked (`SettledLifecycleAccepted` says
  that otherwise only a result that was taken back rejects it);
- a reviewer's comment hides the change request before it, and approvals are not
  tied to the head they were given on;
- a baseline captured late hides what a read-only stage wrote
  (`UnauthorisedWritesNoticed`), and a cancellation between two stages reaches
  the one that has ended;
- a replacement goes without a gate request of its own, and after a second crash
  without a gate decision; a record whose write raised is not written later;
- a listing that ends with a malformed answer is taken for complete, blockers beyond
  the first page of an issue's relations are not read, and a server that makes up a
  fresh cursor for every page is followed for ever;
- the simulator `bootstrap.py` builds does not know the real repository and worktrees:
  every delivery is held back as `workspace_drift` until a restart takes the dispatch
  from the log (`DeliveredIsApproved` of `PullRequestObserver`, which is
  `DeliverableIsApproved` without the premise that both agree, has this
  counterexample with `AssignedWorkspace` other than `RealWorkspace`);
- two readers of the ACP pipe: the answer to one is dropped by the other, and the
  request waits until the process ends. Events reach the wrong run's stream.

Type invariants are in the runs of the scheduler and the controller; all others
are proved.

### Bounds

- `MaxWaves`, `MaxAttempts`: dispatch and retry stop there. Three or four waves
  cover a first wave, one superseded by a retry and the next frontier; a second
  attempt is what it takes for an old attempt to interfere with its replacement.
- `MaxHeads` 2: an observation can mix an old and a new head.
  `controller_restart` has two waves: a first one and the one after a retry.
- `MaxTip` 2: two merges, so a base can be too old for one of them; in
  `controller_restart`, which is not about bases, one merge.
- One item in the run `supervisor`: `run_once` treats items one by one, they share
  only the queue, and all interference there is between runs of one item. Two
  attempts are the default policy, and with `MaxRuns` 2 either the supervisor or the
  operator asks for the second.
- `Configured` FALSE in `controller_restart`: every observation may show the assigned
  place or another, which covers both the simulator of bootstrap and, after a
  restart, the one restored from the log. TRUE in the two runs about deliveries.
- `MaxFaults` 2: two attempts and two crashes or failing writes are what it takes
  to lose a record of the replacement; with one everything is repeated or restored.
- `PageSize` 2 of three issues: an edit can fall between the pages, a cycle can
  have three items; `MaxRelations` 3 covers every cycle and a shared blocker,
  `MaxErrors` 1 one retry that succeeds or a request that raises. `MaxInvented` and
  `MaxMishaps` 1: one cursor the server made up, leading anywhere, or one edit; any
  number of cursors that belong to other pages or to none.
- `MaxIds` 4 and `MaxEvents` 2: two sessions, one next stage and a cancellation,
  with two notifications to be mistaken for answers.
- `StartChecks`: checks that passed are not run again, so that "was green" is "is
  green".
- `Writers`: one stage without and the one with write authority; `Artifacts`: the one
  before the writing stage, which can rewrite it; `Expiring`: the writing stage.
- `MaxCrashes`, `MaxFailures` of the controller: one of either, at any point. Every
  hazard found there needs one; two multiply the states.
- Items: the scheduler has five (two roots, a join, a chain, one already
  completed), the controller two or three. No action looks at more than one item
  and its blockers, or at a wave as a set.

Deadlock is not checked where the system may stop: everything delivered, or a
controller that could not be rebuilt, an intake that ended, threads that wait for
a silent agent.

### Fairness

`PullRequestObserver`: weak fairness of the observer's next read, because
`run_forever` reconciles every active item in every cycle and every read ends.
Author, CI, reviewers and operator may do nothing forever.

`DeliverySupervisor`: weak fairness of `run_once` (the loop of `run_forever`), of
each stream thread (the operating system schedules it) and of the clock. Agents
need not end: that a hanging one is noticed by its time-out is the point of
`NoAttemptForgotten`. `Expire` assumes that a thread starts to run within its
time-out (half an hour by default); without that a thread could look up the run
that replaced its own. The time-out is on and failures are retried, the defaults
of `SupervisorPolicy`; a run without time-out may hang forever.

`WorkItemIntake`: weak fairness of the intake as a whole, one sequential program
whose requests are answered or fail. Retries and the search are bounded by the
code, the cursors by the server: `IntakeEnds` assumes that it invents finitely
many.

`AcpTransport`: weak fairness of every thread's read (the operating system
schedules threads that can read) and of opening the stream of an active run
(`run_forever`). Nothing is assumed of the agent; `LoneRequestReturns` has its
answer as a premise, `EndReachesEveryRun` needs only that it ended.

`SkillLifecycle` and `ReliabilityRecords` state none. `SkillLifecycle` assumes
that a process that is terminated ends with a status other than 0. All other
properties are safety properties.

## Proofs

`SchedulerProofs` proves, for every set of items, blocking relation, policy and
bound, the type invariant and all five other properties of the run `scheduler`.
The properties are not inductive by themselves: that a refresh finds the barrier
consistent needs to know that the active wave is what is left of the last wave
dispatched and that the base has not moved since. `ActiveWaveIsCurrent` says so;
`IInv` joins it to the type, `BlockersFirst`, `BarrierTracksWave` and
`WaveStatesTruthful`. Each action has its lemma; `MarkedWaves` and `AppendedWave`
say what the two updates of the wave sequence do. The only assumption is
`SchedulerAssumption`, which the runs evaluate.

`SimulatorProofs` does the same for `MergeWaveSimulator`. It first proves
`ApprovedMeansContract`: for all observations with natural approvals and Boolean
flags, `_classify` approves exactly what the contract asks. The first failing row
of the table exists because positions are natural numbers, and its code is never
"none". The scheduler's theorems are used as they are: `SP` is an instance of
`SchedulerProofs` on the simulator's variables, and every method of the simulator
makes a step of the scheduler that keeps `SP!IInv` (`SchedulerKeepsInvariant`).
The simulator's inductive invariant adds that an item has a dispatch exactly while
it is dispatched (`DispatchesTracked`), that a recorded decision is the gate's on
the last observation (`DecisionIsCurrent`), that what the gate approved is
released, and that the two copies of the wave agree. From it follow the action
property `ReleaseNeedsCurrentEvidence` and the refinement
`ImplementsGatedDelivery`: `Implementation` maps the initial states and every
method to the promise `GatedDelivery`, and `OneFrontierInFlight` reads its
invariant back.

`ControllerProofs` proves every property of the runs `controller_restart` and
`controller_frontier` for any items, bounds, crashes and failing calls. Its first
half is about restarts. A handler can be cut between any two of its calls, so the
inductive invariant `IInv` has one part about the handler at work and three about
what is left when it is cut. `Phase` lists every program that can be left in
`todo` and what its next calls rely on: the items still to be launched are
assigned nowhere, an item whose release is being published is active and its
attempt's pull request merged. `WorktreeFacts` says where the worktrees of an item
can be: only where memory, and the event log, have its assignment, and not at all
when it is not dispatched, unless the branch the next attempt needs exists
already, which makes git refuse it. That last clause is what a crash after the
creation of a workspace needs: the worktree stays, no assignment names it, and the
item is dispatched again. `ItemFacts` ties an approval to a merged pull request
(by the gate's theorem of `SimulatorProofs`), and `LogFacts` says that the log
differs from memory in the middle of dispatch, release and retry only
(`Unlogged`), or lacks an attempt after a call raised. Each call has its lemma;
the `At...` lemmas recover the phase from the call. The assumptions are
`ControllerAssumption` and `PlaceholderAssumption` (None is none of the values it
stands in for), which the runs evaluate.

The second half is about deliveries, with one invariant for each of its questions,
each relative to `IInv` and each under the condition its property has.
`DurableInv` (no call failed): what the scheduler counts as released is Done or
Cancelled in the event log, or the handler that will log it is still under way,
and whatever is dispatched or has a branch has only durable blockers. Branches
have to be in it because a restart restores what they were created for.
`SimulatorInv` (no crash): every action of the controller is a step of the
simulator or leaves its variables alone (`SimulatorSteps`), so the simulator's
inductive invariant holds in the middle of every handler. `RefreshIsNeverRefused`
follows with the phase of the refresh, and so does
`ControllerImplementsGatedDelivery`, which carries the refinement over from the
simulator. `MergedInv` (no crash, no failure): a delivered item was released and
is contained in the target branch; it is contained in the base as well, unless its
handler has yet to refresh the base or the barrier keeps its wave closed
(`DeliveredIsInBase`). The base of a dispatch therefore contains the merges of its
blockers (`DispatchedOnMergedWork`), and a released item is assigned only until
its handler ends (`ReleasedIsFinishing`). `FrontierInv` (nothing was retried or
cancelled either): outside the handler of an approval nothing ready is left, and
under a barrier no wave is ready to be replaced. An approval can make either
false, and the rest of its handler restores both.

`SupervisorProofs` proves all four safety properties of the run `supervisor` for
any items, attempts and number of crashes. `OneAgentPerItem` needs that the
running agent of an item is the one of its active attempt, is orphaned, or belongs
to a settled item (`RunningIsCurrent`), that an active attempt was started
(`CurrentStarted`), and that an active item the controller is not attached to was
logged as orphaned (`DetachedIsOrphaned`): a retry cancels what it is attached to
and leaves an orphan otherwise. A retry starts nothing that ran before, because
the branch of its attempt would be left over. The others follow what is on its
way: a thread may have looked up a later attempt than its own, and the queue may
hold events of superseded attempts, but then the run they name is *past* (settled
or superseded) and stays so; a failure under the name of any other run is in its
own agent's output, which no longer changes (`ThreadsAreKnown`, `FeedIsOwn`,
`QueueIsOwn`, `BatchIsOwn`). A run is read once in a life of the process because
an active, attached run that has a thread is in one of the two tables; a restart
empties the tables and the threads together. `ReadCompletionIsKept` is about
`run_once`, not the operator, and holds because only a run with a start time can
time out, and the start time goes with the thread.

The other half of the supervisor's promise is that nothing is lost on that way
(`NoAttemptIsLost`). Its invariant, `FollowInv`, is the converse of the three
`...IsOwn`: until the process dies, an active run is attached, and, once its
stream was collected it either completed or its failure is in the feed of its
thread, in the queue, in the batch or recorded (`IsFollowed`). A run is consumed
by its sentinel or by its time-out. The sentinel is the last thing its thread puts
and nothing of the run is behind it in the queue (`FeedEnds`, `QueueEnds`), so the
failure was drained before it, and `Accepts` kept it because the run was active
all along; the time-out puts its own failure into the batch.

`SkillLifecycleProofs` proves the four invariants of the run `lifecycle` for any
sequence of stages with distinct names, an unconditional first and at most one
diagnostic stage. The router only moves forward: what is ahead of the current
stage is open, what is behind is settled or failed (`Progress`). Every started
stage is announced before its results (`InPlace`), a stream ends with the exit of
its process (`StreamEnds`), and what is left of the stream of a complete lifecycle
meets the controller's checks event by event (`CompleteIsAcceptable`), provided
that no artifact is stale and no authority expired; `StreamGoesOn` says what holds
before the end. `StagesInOrder` has a hypothesis, `Chained`: a stage that waits
for another waits for the last non-diagnostic one before it. `LifecycleRouter`
does not check that. With a stage that runs "always" behind another, or one that
waits for an earlier stage than its predecessor, a stage runs after a failed one,
as its condition says. `MCSkillLifecycle` has TLC evaluate `Chained` for the
default stages.

`ReliabilityProofs` proves, for every number of attempts and faults, the types of
`ReliabilityRecords`, that references resolve, that nothing logged is repeated,
`SequencesIdentify` and `ReleaseIsRecorded`. References resolve because an
artifact one of whose claims is known in memory has all its evidence written
(`KnownIsWritten`), and at the steps in between the evidence of the observation at
work is written up to the claim at work (`ClaimsAreWritten`). Nothing is repeated
because memory never knows less than the log and the identity of the pending write
is unknown to memory (`PendingIsNew`). The last two need the order of a run: the
sink holds the milestones the phase says (`MilestonesAreWritten`), the runs follow
each other (`RunsInOrder`), an approval is remembered only with its decision
(`ApprovalIsRecorded`), and the numbers of the first attempt are positions in its
schedule (`FirstAttemptFollowsSchedule`).

`AdapterProofs` is about the two adapters that read a moving outside piece by
piece. For `WorkItemIntake` it proves types, acyclicity and the truth of reported
cycles for every team, relation and history of edits. The search is a stack, so no
induction over data is needed: each item on the stack is a blocker of the one
below (`StackIsPath`, which makes reported cycles real), its blockers are visited,
left to visit, or next on the stack (`StackIsProgress`), the visited items are
closed under their blockers (`VisitedIsClosed`), and no set of visited items waits
for itself (`VisitedIsAcyclic`). Leaving an item keeps the last two because all
its blockers are visited and it is not among them. `SettledTeamIsJudgedRight`
needs a second invariant about the listing (`Faithful`): while nobody edits and no
answer is malformed, what was read up to the cursor is what the tracker says
(`ReadFaithfully`), a missing blocker is really foreign (`MissingIsReal`), and a
reason once given ends the intake (`ReasonIsFinal`). `IntakeComesCloser` counts,
the most significant number first, the phases, the cursors not yet seen, the
retries, the items the search has not come to, the stack and the blockers left on
top of it (`Distance`), and shows that every step of the intake lowers it in the
lexicographic order.

For `PullRequestObserver` the same module proves `ApprovedHeadWasGreen`, from
`ObserverAssumption` and `GateAssumption`, which the run evaluates, and for every
number of pushes and reviewers. The reads of one observation are of different
moments, so the invariant says of each read what outlives it: a merge fixes the
head, checks that passed stay passed, a head goes on descending from the base
(`SeenStaysTrue`). The head that was read first is the one the other reads are
about, and nothing is seen between two reconciliations unless the item was
approved (`ReadsInOrder`). The gate's table is expanded row by row (`RowsOfGate`):
what it approves is merged and green on one commit. In the other direction,
`DeliverableIsNotHeldBack`: while the pull request stays deliverable, what a
reconciliation has read since its start is what makes it so (`UpToDate`), and then
none of the fourteen rows fails.

`AcpProofs` proves `SessionsKeptApart` for any number of runs. No id is in use
before it is given out (`IdsAreFresh`); requests with one id are one request and
have no session before they are answered (`TodoIsUnanswered`); what a waiting
thread can take for its answer is a session that works for its run
(`AnswersBelong`). `LoneAnswerIsKept` takes as its premise what
`LoneRequestReturns` does, that at most one thread reads at a time: the answer is
with the agent or in the pipe, because the line that a read drops has another id.
`EndComesCloser` (for a finite set of runs) has a measure again: once the process
has ended no line is added, every read takes one away or ends a thread's reading,
and what starts anew uses up a request or an unopened stream.

Liveness (`DeliverableIsApproved`, `NoAttemptForgotten`, `IntakeEnds`,
`LoneRequestReturns`, `EndReachesEveryRun`) is out of the prover's reach and stays
with TLC. What each of the five rests on besides fairness is proved, as a safety
property: `DeliverableIsNotHeldBack`, `NoAttemptIsLost`, `IntakeComesCloser`,
`LoneAnswerIsKept` and `EndComesCloser`. That the fair step is enabled as long as
there is something to do, and that a measure of natural numbers cannot fall
forever, is what remains to TLC. Every safety property of a passing run is a
theorem.

## Not modelled

The reconciliation loop is one append that nothing calls. The command line, smoke
and acceptance scripts are wiring; runtime profiles are tables. Drift of a
worktree's HEAD changes nothing the program remembers. Field validation, digests,
prompts and payloads are data without control. Within modelled parts the following
is left out: prompts that differ between calls, evidence payloads and artifacts of
the records, failure comments, warnings, payload conflicts of an idempotency key,
the single-issue queries of the Linear adapter, continuing, snapshots and closing
of an ACP session (what reattaching means to the supervisor is in
`DeliverySupervisor`), and HTTP or Git errors that end an observation without
changing anything.

## Plan

Liveness across a restart under `continuous_frontier`, with the operator's
fairness.
