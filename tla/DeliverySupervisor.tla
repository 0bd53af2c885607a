------------------------- MODULE DeliverySupervisor -------------------------
(***************************************************************************)
(* DeliverySupervisor of src/mergewave/supervisor.py: one thread repeats   *)
(* run_once; for every run a stream thread waits for the agent to end and  *)
(* then puts its events into a queue, one by one, closed by a sentinel.    *)
(*                                                                         *)
(* A run is an item and an attempt number, as the run_id is.  The          *)
(* controller behind the supervisor is reduced to which attempt of which   *)
(* item is active and attached to its agent; what it does inside is module *)
(* DeliveryController.                                                     *)
(***************************************************************************)
EXTENDS Naturals, Sequences, FiniteSets

CONSTANTS
  Items,
  MaxAttempts,  \* SupervisorPolicy.max_attempts
  MaxRuns,      \* bound: the attempts of an item, with those the operator asks for
  MaxCrashes    \* bound: deaths of the process, by an exception out of run_once too

ASSUME SupervisorAssumption ==
  /\ MaxAttempts \in Nat \ {0}
  /\ MaxRuns \in Nat /\ MaxRuns >= MaxAttempts
  /\ MaxCrashes \in Nat

Runs == Items \X (1..MaxRuns)

\* What observe_runtime_events tells apart: an exit with status 0, a failure
\* worth a retry, and one that is not (a rejected or blocked skill result).
\* "timeout" is added by run_once, "end" is the None that closes a stream.
Streamed == {"completed", "failed", "rejected"}
Events == Streamed \cup {"timeout"}
Failing == {"failed", "rejected", "timeout"}
Retryable == {"failed", "timeout"}

\* The streams agents produce; a runtime's own time-out is followed by the exit
\* status of the terminated process, hence two failures in one stream.
Outcomes == {<<"completed">>, <<"failed", "failed">>, <<"rejected", "completed">>}

VARIABLES
  phase,     \* item -> waiting for its dispatch, active, or settled
  attempt,   \* item -> the number in the run_id of its last attempt
  count,     \* item -> the attempt number the simulator knows, 1 after a restart
  attached,  \* the items whose assignment has runtime_attached
  orphaned,  \* the runs logged as runtime.orphaned
  reported,  \* the runs whose failure was recorded
  agent,     \* run -> the agent's process: none, running, ended
  output,    \* run -> what the agent's stream held when it ended
  thread,    \* run -> its stream thread: none, starting, streaming, putting, done
  source,    \* run -> the run whose stream that thread reads
  feed,      \* run -> what that thread still has to put
  queue,     \* _events: pairs of a run and an event or "end"
  consumed,  \* _consumed_runs
  threads,   \* _stream_threads
  started,   \* _stream_started_at
  expired,   \* the started runs whose runtime_timeout_seconds are over
  pc,        \* where run_once is
  batch,     \* events_by_item
  crashes

controller == <<phase, attempt, count, attached, orphaned, reported>>
agents == <<agent, output>>
streams == <<thread, source, feed>>
tables == <<consumed, threads, started, expired>>
vars == <<controller, agents, streams, queue, tables, pc, batch, crashes>>

Run(i) == <<i, attempt[i]>>
Active == {i \in Items : phase[i] = "active"}
Current == {Run(i) : i \in Active}

TypeOK ==
  /\ phase \in [Items -> {"waiting", "active", "settled"}]
  /\ attempt \in [Items -> 1..MaxRuns] /\ count \in [Items -> 1..MaxRuns]
  /\ attached \subseteq Items
  /\ orphaned \subseteq Runs
  /\ reported \subseteq Runs
  /\ agent \in [Runs -> {"none", "running", "ended"}]
  /\ output \in [Runs -> Outcomes \cup {<<>>, <<"failed">>}]
  /\ thread \in [Runs -> {"none", "starting", "streaming", "putting", "done"}]
  /\ source \in [Runs -> Runs]
  /\ feed \in [Runs -> Seq(Streamed \cup {"end"})]
  /\ queue \in Seq(Runs \X (Streamed \cup {"end"}))
  /\ consumed \subseteq Runs /\ expired \subseteq started /\ started = threads
  /\ threads \subseteq Runs
  /\ pc \in {"start", "drain", "observe"}
  /\ batch \in [Items -> Seq(Events)]

NoEvents == [i \in Items |-> <<>>]

\* Some items are dispatched and their agents run; the others wait.
Init ==
  /\ \E first \in SUBSET Items \ {{}} :
       /\ phase = [i \in Items |-> IF i \in first THEN "active" ELSE "waiting"]
       /\ agent = [r \in Runs |-> IF r \in first \X {1} THEN "running" ELSE "none"]
       /\ attached = first
  /\ attempt = [i \in Items |-> 1] /\ count = [i \in Items |-> 1]
  /\ orphaned = {}
  /\ reported = {}
  /\ output = [r \in Runs |-> <<>>]
  /\ thread = [r \in Runs |-> "none"] /\ source = [r \in Runs |-> r]
  /\ feed = [r \in Runs |-> <<>>] /\ queue = <<>>
  /\ consumed = {} /\ threads = {} /\ started = {} /\ expired = {}
  /\ pc = "start" /\ batch = NoEvents /\ crashes = 0

-----------------------------------------------------------------------------
(* The stream threads.                                                     *)

\* runtime_events looks the assignment up by item; without one it raises.  An active
\* item whose thread is alive is attached: only a restart detaches.
LookUp(r) ==
  /\ thread[r] = "starting"
  /\ LET i == r[1] IN
     IF i \in Active
     THEN /\ thread' = [thread EXCEPT ![r] = "streaming"]
          /\ source' = [source EXCEPT ![r] = Run(i)]
          /\ UNCHANGED feed
     ELSE /\ thread' = [thread EXCEPT ![r] = "putting"]
          /\ feed' = [feed EXCEPT ![r] = <<"failed", "end">>]
          /\ UNCHANGED source
  /\ UNCHANGED <<controller, agents, queue, tables, pc, batch, crashes>>

\* runtime_events returns a tuple: nothing is put before the agent has ended.  After
\* a restart the beginning of the stream may be lost.
Collect(r) ==
  /\ thread[r] = "streaming"
  /\ agent[source[r]] = "ended"
  /\ thread' = [thread EXCEPT ![r] = "putting"]
  /\ LET events == output[source[r]] IN
     \E lost \in 0..Len(events) :
       /\ crashes = 0 => lost = 0
       /\ feed' = [feed EXCEPT ![r] = SubSeq(events, lost + 1, Len(events)) \o <<"end">>]
  /\ UNCHANGED <<controller, agents, source, queue, tables, pc, batch, crashes>>

Put(r) ==
  /\ thread[r] = "putting"
  /\ queue' = Append(queue, <<r, Head(feed[r])>>)
  /\ feed' = [feed EXCEPT ![r] = Tail(@)]
  /\ thread' = IF Tail(feed[r]) = <<>> THEN [thread EXCEPT ![r] = "done"] ELSE thread
  /\ UNCHANGED <<controller, agents, source, tables, pc, batch, crashes>>

StreamThread(r) == LookUp(r) \/ Collect(r) \/ Put(r)

-----------------------------------------------------------------------------
(* run_once, in the thread of run_forever.                                 *)

\* The check on _consumed_runs is missing.
Unread_Again(r) == r \notin threads

\* Consumption is remembered per item instead of per run.
Unread_ByItem(r) == r \notin threads /\ \A s \in consumed : s[1] # r[1]

Unread(r) == r \notin consumed /\ r \notin threads

StartStreams ==
  /\ pc = "start" /\ pc' = "drain"
  /\ LET new == {Run(i) : i \in {j \in Active \cap attached : Unread(Run(j))}} IN
     /\ thread' = [r \in Runs |-> IF r \in new THEN "starting" ELSE thread[r]]
     /\ threads' = threads \cup new
     /\ started' = started \cup new
  /\ UNCHANGED <<controller, agents, source, feed, queue, consumed, expired, batch, crashes>>

\* An event of any attempt is taken for the active one.
Accepts_AnyAttempt(r) == r[1] \in Active

\* Whether an event of run r is kept: it must be the active run of its item.
Accepts(r) == r \in Current

\* The start time of a consumed run stays in _stream_started_at.
Forget_KeepsClock(r) ==
  threads' = threads \ {r} /\ UNCHANGED <<started, expired>>

Forget(r) ==
  /\ threads' = threads \ {r}
  /\ started' = started \ {r}
  /\ expired' = expired \ {r}

Drain ==
  /\ pc = "drain" /\ queue # <<>>
  /\ queue' = Tail(queue)
  /\ LET r == Head(queue)[1] event == Head(queue)[2] IN
     IF event = "end"
     THEN /\ consumed' = consumed \cup {r}
          /\ Forget(r)
          /\ UNCHANGED batch
     ELSE /\ batch' = IF Accepts(r) THEN [batch EXCEPT ![r[1]] = Append(@, event)] ELSE batch
          /\ UNCHANGED tables
  /\ UNCHANGED <<controller, agents, streams, pc, crashes>>

\* The queue is found empty and the clock is read: the active runs that are
\* expired get one more event.
CheckTimeouts ==
  /\ pc = "drain" /\ queue = <<>> /\ pc' = "observe"
  /\ batch' = [i \in Items |-> IF i \in Active /\ Run(i) \in expired
                               THEN Append(batch[i], "timeout") ELSE batch[i]]
  /\ consumed' = consumed \cup (Current \cap expired)
  /\ UNCHANGED <<controller, agents, streams, queue, threads, started, expired, crashes>>

\* The agent of the superseded attempt is left running.
Cancelled_LeftRunning(r) == agent

Cancelled(r) == IF agent[r] = "running" THEN [agent EXCEPT ![r] = "ended"] ELSE agent

\* controller.retry: the agent is cancelled if the controller is attached to it; the
\* next attempt starts at once, unless an attempt of that number has left its branch
\* behind, or waits while a barrier is closed.
Retry(i) ==
  LET old == Run(i)
      new == <<i, count[i] + 1>>
      left == IF i \in attached THEN Cancelled(old) ELSE agent
  IN /\ count' = [count EXCEPT ![i] = @ + 1]
     /\ attempt' = [attempt EXCEPT ![i] = count[i] + 1]
     /\ output' = IF i \in attached /\ agent[old] = "running"
                  THEN [output EXCEPT ![old] = <<"failed">>] ELSE output
     /\ \/ /\ agent[new] = "none"
           /\ agent' = [left EXCEPT ![new] = "running"]
           /\ attached' = attached \cup {i}
           /\ UNCHANGED phase
        \/ /\ agent' = left
           /\ phase' = [phase EXCEPT ![i] = "waiting"]
           /\ attached' = attached \ {i}
     /\ UNCHANGED orphaned

\* observe_runtime_events stops at the first failing event and drops the rest.
FirstFailure(events) ==
  events[CHOOSE n \in DOMAIN events :
           events[n] \in Failing /\ \A m \in 1..(n - 1) : events[m] \notin Failing]

Observe(i) ==
  /\ pc = "observe" /\ batch[i] # <<>>
  /\ batch' = [batch EXCEPT ![i] = <<>>]
  /\ IF \E n \in DOMAIN batch[i] : batch[i][n] \in Failing
     THEN /\ reported' = reported \cup {Run(i)}
          /\ IF FirstFailure(batch[i]) \in Retryable /\ count[i] < MaxAttempts
             THEN Retry(i)
             ELSE UNCHANGED <<phase, attempt, count, attached, orphaned, agents>>
     ELSE UNCHANGED <<controller, agents>>
  /\ UNCHANGED <<streams, queue, tables, pc, crashes>>

\* reconcile of every active item: some are settled, whatever their agents do.
\* Waiting items are dispatched by a reconcile, or by the operator before the next
\* cycle; a workspace is refused for an attempt that had one before.
Reconcile ==
  /\ pc = "observe" /\ batch = NoEvents /\ pc' = "start"
  /\ \E settled \in SUBSET Active :
     \E next \in SUBSET {i \in Items : phase[i] = "waiting" /\ agent[Run(i)] = "none"} :
       /\ phase' = [i \in Items |-> IF i \in settled THEN "settled"
                                    ELSE IF i \in next THEN "active" ELSE phase[i]]
       /\ attached' = (attached \ settled) \cup next
       /\ agent' = [r \in Runs |-> IF r \in {Run(i) : i \in next} THEN "running" ELSE agent[r]]
  /\ UNCHANGED <<attempt, count, orphaned, reported, output, streams, queue, tables, batch,
                 crashes>>

RunOnce ==
  \/ StartStreams \/ Drain \/ CheckTimeouts \/ Reconcile
  \/ \E i \in Items : Observe(i)

-----------------------------------------------------------------------------
(* The surroundings.                                                       *)

AgentEnds(r) ==
  /\ agent[r] = "running"
  /\ agent' = [agent EXCEPT ![r] = "ended"]
  /\ \E events \in Outcomes : output' = [output EXCEPT ![r] = events]
  /\ UNCHANGED <<controller, streams, queue, tables, pc, batch, crashes>>

\* The clock passes the time-out of a stream.  A thread is taken to be scheduled
\* within that time.
Expire(r) ==
  /\ r \in started \ expired
  /\ thread[r] # "starting"
  /\ expired' = expired \cup {r}
  /\ UNCHANGED <<controller, agents, streams, queue, consumed, threads, started, pc, batch, crashes>>

\* The operator calls controller.retry between two cycles, as often as he likes.
OperatorRetry(i) ==
  /\ pc = "start"
  /\ i \in Active /\ count[i] < MaxRuns
  /\ Retry(i)
  /\ UNCHANGED <<reported, streams, queue, tables, pc, batch, crashes>>

\* The process dies and is started again: threads, queue and tables are gone and the
\* simulator's attempt numbers start over.  The agents live on; the runtime may
\* reattach to those of the active runs, the others are logged as orphaned.
Restart ==
  /\ crashes < MaxCrashes
  /\ crashes' = crashes + 1
  /\ attempt' = [i \in Items |-> IF i \in Active THEN attempt[i] ELSE 1]
  /\ count' = [i \in Items |-> 1]
  /\ attached' \in SUBSET Active
  /\ orphaned' = orphaned \cup {Run(i) : i \in Active \ attached'}
  /\ thread' = [r \in Runs |-> "none"] /\ source' = [r \in Runs |-> r]
  /\ feed' = [r \in Runs |-> <<>>]
  /\ queue' = <<>>
  /\ consumed' = {} /\ threads' = {} /\ started' = {} /\ expired' = {}
  /\ pc' = "start" /\ batch' = NoEvents
  /\ UNCHANGED <<phase, reported, agents>>

Next ==
  \/ RunOnce \/ Restart
  \/ \E i \in Items : OperatorRetry(i)
  \/ \E r \in Runs : StreamThread(r) \/ AgentEnds(r) \/ Expire(r)

\* run_forever never stops by itself, threads are scheduled, and time passes.
\* Agents need not end.
Fairness ==
  /\ WF_vars(RunOnce)
  /\ \A r \in Runs : WF_vars(StreamThread(r)) /\ WF_vars(Expire(r))

Spec == Init /\ [][Next]_vars /\ Fairness

-----------------------------------------------------------------------------
\* At most one agent works on an item, except for those a restart reported as
\* orphaned: any other retry, the supervisor's or the operator's, first cancels the
\* previous attempt (design document, lines 65 and 66), and a restart starts none.
OneAgentPerItem ==
  \A r, s \in Runs : r[1] = s[1] /\ agent[r] = "running" /\ agent[s] = "running" =>
    r = s \/ r \in orphaned \/ s \in orphaned

\* Each runtime stream is consumed once (supervisor.py, line 42): while the process
\* lives no second thread is started for a run, also when its first one has ended.
EachStreamConsumedOnce ==
  [][\A r \in Runs : thread[r] \in {"streaming", "putting", "done"} =>
       thread'[r] # "starting"]_vars

\* A failure is recorded for a run, and the run superseded, only for a failure or
\* a time-out of its own, never for an event its predecessor left behind.
FailsForItself ==
  [][\A r \in reported' \ reported :
       r \in expired \/ \E n \in DOMAIN output[r] : output[r][n] \in Failing]_vars

\* Once the whole stream of a run was read and held no failure, the supervisor never
\* supersedes it: no time-out arrives after its sentinel.
ReadCompletionIsKept ==
  [][RunOnce => \A i \in Active :
       Run(i) \in consumed \ threads /\ output[Run(i)] = <<"completed">> =>
         attempt'[i] = attempt[i] /\ phase'[i] # "waiting"]_vars

\* As long as the process lives, an attempt does not stay unnoticed: it completes,
\* its failure or time-out is reported, or it stops being the active one.
NoAttemptForgotten ==
  \A r \in Runs :
    r \in Current ~> \/ r \notin Current \/ r \in reported \/ crashes > 0
                     \/ output[r] = <<"completed">>
=============================================================================
