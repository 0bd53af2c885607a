-------------------------- MODULE SupervisorProofs --------------------------
(***************************************************************************)
(* Proofs about DeliverySupervisor for any items, attempts and crashes: an *)
(* item has one agent that is not orphaned, a stream is read once in a     *)
(* life of the process, what is on its way to the controller is about the  *)
(* run it names or about a past one, and no active attempt is lost on that *)
(* way.                                                                    *)
(***************************************************************************)
EXTENDS DeliverySupervisor, SequenceTheorems, TLAPS

IsCurrent(r) == phase[r[1]] = "active" /\ r[2] = attempt[r[1]]

\* A run that was started and will not be active again.
Past(r) == agent[r] # "none" /\ ~IsCurrent(r)

\* The agent of the run ended with a failure in its stream.
Failed(r) == agent[r] = "ended" /\ \E n \in DOMAIN output[r] : output[r][n] \in Failing

\* Only the active attempt has an agent that runs, or one a restart orphaned; a settled
\* item keeps the one it had.
RunningIsCurrent ==
  \A r \in Runs : agent[r] = "running" =>
    IsCurrent(r) \/ phase[r[1]] = "settled" \/ r \in orphaned

\* The active attempt was started.
CurrentStarted == \A r \in Runs : IsCurrent(r) => agent[r] # "none"

\* An active attempt without its agent attached was orphaned by a restart.
DetachedIsOrphaned ==
  \A r \in Runs : IsCurrent(r) => r[1] \in attached \/ (r \in orphaned /\ crashes > 0)

\* The thread of an active, attached run is known, at work or done.
ThreadsAreKnown ==
  \A r \in Runs : thread[r] # "none" =>
    /\ agent[r] # "none"
    /\ IsCurrent(r) /\ r[1] \in attached => r \in consumed \cup threads
    /\ thread[r] = "streaming" => source[r] = r \/ Past(r)
    /\ thread[r] = "putting" => feed[r] # <<>>

\* A failure on its way is one of the run it names, unless that run is past.
FeedIsOwn ==
  \A r \in Runs : \A n \in DOMAIN feed[r] : feed[r][n] \in Failing => Past(r) \/ Failed(r)

QueueIsOwn ==
  \A n \in DOMAIN queue :
    queue[n][2] \in Failing => Past(queue[n][1]) \/ Failed(queue[n][1])

\* Events kept for an item are about its active run.
BatchIsOwn ==
  \A i \in Items :
    /\ batch[i] # <<>> => pc # "start" /\ phase[i] = "active"
    /\ \A n \in DOMAIN batch[i] :
         batch[i][n] \in Failing => Failed(Run(i)) \/ (pc = "observe" /\ Run(i) \in expired)

IInv ==
  /\ TypeOK /\ crashes \in Nat
  /\ OneAgentPerItem
  /\ RunningIsCurrent
  /\ CurrentStarted
  /\ DetachedIsOrphaned
  /\ ThreadsAreKnown
  /\ FeedIsOwn
  /\ QueueIsOwn
  /\ BatchIsOwn

-----------------------------------------------------------------------------
(* Runs.                                                                   *)

LEMMA RunFacts ==
  /\ \A r \in Runs : r[1] \in Items /\ r[2] \in 1..MaxRuns /\ r = <<r[1], r[2]>>
  /\ \A i \in Items, n \in 1..MaxRuns : <<i, n>> \in Runs /\ <<i, n>>[1] = i /\ <<i, n>>[2] = n
  /\ MaxRuns \in Nat /\ MaxAttempts \in Nat \ {0} /\ MaxRuns >= MaxAttempts
BY SupervisorAssumption DEF Runs

\* The active runs, one for an item.
LEMMA CurrentFacts ==
  ASSUME TypeOK
  PROVE  /\ \A i \in Items : Run(i) \in Runs /\ Run(i)[1] = i /\ Run(i)[2] = attempt[i]
         /\ \A r \in Runs : r \in Current <=> IsCurrent(r)
         /\ \A r \in Runs : IsCurrent(r) => r = Run(r[1])
         /\ Current \subseteq Runs
<1>1. \A i \in Items : attempt[i] \in 1..MaxRuns
  BY DEF TypeOK
<1>2. \A i \in Items : Run(i) \in Runs /\ Run(i)[1] = i /\ Run(i)[2] = attempt[i]
  BY <1>1, RunFacts DEF Run
<1>3. \A r \in Runs : IsCurrent(r) => r = Run(r[1])
  BY RunFacts DEF IsCurrent, Run
<1>4. ASSUME NEW r \in Runs PROVE r \in Current <=> IsCurrent(r)
  <2>1. ASSUME r \in Current PROVE IsCurrent(r)
    <3>1. PICK i \in Active : r = Run(i)
      BY <2>1 DEF Current
    <3> QED
      BY <1>2, <3>1 DEF Active, IsCurrent
  <2>2. ASSUME IsCurrent(r) PROVE r \in Current
    <3>1. r[1] \in Active /\ r = Run(r[1])
      BY <1>3, <2>2, RunFacts DEF IsCurrent, Active
    <3> QED
      BY <3>1 DEF Current
  <2> QED
    BY <2>1, <2>2
<1>5. Current \subseteq Runs
  BY <1>2 DEF Current, Active
<1> QED
  BY <1>2, <1>3, <1>4, <1>5

\* A retry: the agent of the old attempt is ended if it is attached, the new attempt is
\* started or waits.
Superseded(i) ==
  /\ \E n \in 1..MaxRuns : attempt' = [attempt EXCEPT ![i] = n]
  /\ count' \in [Items -> 1..MaxRuns] /\ orphaned' = orphaned
  /\ output' \in [Runs -> Outcomes \cup {<<>>, <<"failed">>}]
  /\ \A r \in Runs : output'[r] = output[r] \/ (agent[r] = "running" /\ agent'[r] = "ended")
  /\ agent' \in [Runs -> {"none", "running", "ended"}]
  /\ \A r \in Runs : r[1] # i => agent'[r] = agent[r]
  /\ \A r \in Runs : agent[r] # "none" => agent'[r] \in {agent[r], "ended"}
  /\ i \in attached => agent'[Run(i)] # "running"
  /\ \A r \in Runs : agent[r] = "none" /\ agent'[r] # "none" =>
       agent'[r] = "running" /\ phase'[i] = "active" /\ r[1] = i /\ r[2] = attempt'[i]
  /\ \/ /\ \A r \in Runs : r[1] = i /\ r[2] = attempt'[i] =>
             agent[r] = "none" /\ agent'[r] = "running"
        /\ phase' = phase /\ attached' = attached \cup {i}
     \/ /\ phase' = [phase EXCEPT ![i] = "waiting"]
        /\ attached' = attached \ {i}

LEMMA RetryFacts ==
  ASSUME TypeOK, CurrentStarted, NEW i \in Items, Retry(i), count[i] < MaxRuns,
         phase[i] = "active"
  PROVE  Superseded(i)
<1> DEFINE n == count[i] + 1
           old == Run(i)
           new == <<i, n>>
           left == IF i \in attached THEN Cancelled(old) ELSE agent
<1>1. n \in 1..MaxRuns /\ old \in Runs /\ old[1] = i /\ new \in Runs /\ new[1] = i /\ new[2] = n
  <2>1. n \in 1..MaxRuns
    BY RunFacts DEF TypeOK
  <2> QED
    BY <2>1, CurrentFacts, RunFacts
<1>2. \A r \in Runs : r[1] = i /\ r[2] = n <=> r = new
  BY <1>1, RunFacts
<1>s. agent[old] # "none"
  BY <1>1, CurrentFacts DEF CurrentStarted, IsCurrent
<1>3. /\ count' = [count EXCEPT ![i] = n] /\ attempt' = [attempt EXCEPT ![i] = n]
      /\ output' = IF i \in attached /\ agent[old] = "running"
                   THEN [output EXCEPT ![old] = <<"failed">>] ELSE output
      /\ \/ /\ agent[new] = "none"
            /\ agent' = [left EXCEPT ![new] = "running"]
            /\ attached' = attached \cup {i} /\ phase' = phase
         \/ /\ agent' = left
            /\ phase' = [phase EXCEPT ![i] = "waiting"]
            /\ attached' = attached \ {i}
      /\ orphaned' = orphaned
  BY DEF Retry, TypeOK
<1>4. attempt'[i] = n /\ count' \in [Items -> 1..MaxRuns]
  BY <1>1, <1>3 DEF TypeOK
<1> HIDE DEF n, old, new
<1>5. /\ left \in [Runs -> {"none", "running", "ended"}]
      /\ \A r \in Runs : r # old => left[r] = agent[r]
      /\ left[old] \in {agent[old], IF agent[old] = "running" THEN "ended" ELSE agent[old]}
      /\ i \in attached => left[old] = IF agent[old] = "running" THEN "ended" ELSE agent[old]
  BY <1>1 DEF Cancelled, TypeOK
<1> HIDE DEF left
<1>6. \A r \in Runs : /\ agent[r] = "none" => left[r] = "none"
                      /\ agent[r] # "none" => left[r] \in {agent[r], "ended"} /\ left[r] # "none"
  BY <1>1, <1>5
<1>7. \A r \in Runs : r # new => agent'[r] = left[r]
  BY <1>1, <1>3, <1>5
<1>8. output' \in [Runs -> Outcomes \cup {<<>>, <<"failed">>}]
  BY <1>1, <1>3 DEF TypeOK
<1>9. CASE /\ agent[new] = "none"
           /\ agent' = [left EXCEPT ![new] = "running"]
           /\ attached' = attached \cup {i} /\ phase' = phase
  <2>1. agent' \in [Runs -> {"none", "running", "ended"}] /\ agent'[new] = "running"
    BY <1>1, <1>5, <1>9
  <2>2. old # new
    BY <1>s, <1>9
  <2>3. \A r \in Runs : output'[r] = output[r] \/ (agent[r] = "running" /\ agent'[r] = "ended")
    BY <1>1, <1>3, <1>5, <1>7, <2>2 DEF TypeOK
  <2>4. \A r \in Runs : r[1] # i => agent'[r] = agent[r]
    BY <1>1, <1>5, <1>7
  <2>5. \A r \in Runs : agent[r] # "none" => agent'[r] \in {agent[r], "ended"}
    BY <1>6, <1>7, <1>9
  <2>6. i \in attached => agent'[old] # "running"
    BY <1>1, <1>5, <1>7, <2>2
  <2>7. \A r \in Runs : agent[r] = "none" /\ agent'[r] # "none" =>
          agent'[r] = "running" /\ phase'[i] = "active" /\ r[1] = i /\ r[2] = attempt'[i]
    BY <1>1, <1>4, <1>6, <1>7, <1>9, <2>1
  <2>8. \A r \in Runs : r[1] = i /\ r[2] = attempt'[i] =>
          agent[r] = "none" /\ agent'[r] = "running"
    BY <1>2, <1>4, <1>9, <2>1
  <2>9. \E k \in 1..MaxRuns : attempt' = [attempt EXCEPT ![i] = k]
    BY <1>1, <1>3
  <2> QED
    BY <1>3, <1>4, <1>8, <1>9, <2>1, <2>3, <2>4, <2>5, <2>6, <2>7, <2>8, <2>9
    DEF Superseded, old
<1>10. CASE /\ agent' = left
            /\ phase' = [phase EXCEPT ![i] = "waiting"]
            /\ attached' = attached \ {i}
  <2>1. \A r \in Runs : output'[r] = output[r] \/ (agent[r] = "running" /\ agent'[r] = "ended")
    BY <1>1, <1>3, <1>5, <1>10 DEF TypeOK
  <2>2. \E k \in 1..MaxRuns : attempt' = [attempt EXCEPT ![i] = k]
    BY <1>1, <1>3
  <2> QED
    BY <1>1, <1>3, <1>4, <1>5, <1>6, <1>8, <1>10, <2>1, <2>2 DEF Superseded, old
<1> QED
  BY <1>3, <1>9, <1>10

\* What an observation does: it is about an active item, and supersedes a run only
\* for a failure among its events.
ObservedOutcome(i) ==
  /\ pc = "observe" /\ phase[i] = "active" /\ batch' = [batch EXCEPT ![i] = <<>>]
  /\ UNCHANGED <<streams, queue, tables, pc, crashes>>
  /\ \/ UNCHANGED <<controller, agents>>
     \/ /\ \E n \in DOMAIN batch[i] : batch[i][n] \in Failing
        /\ reported' = reported \cup {Run(i)}
        /\ UNCHANGED <<phase, attempt, count, attached, orphaned, agents>> \/ Superseded(i)

LEMMA ObserveFacts ==
  ASSUME TypeOK, CurrentStarted, BatchIsOwn, NEW i \in Items, Observe(i)
  PROVE  ObservedOutcome(i)
<1>1. phase[i] = "active"
  BY DEF Observe, BatchIsOwn
<1>2. CASE \E n \in DOMAIN batch[i] : batch[i][n] \in Failing
  <2>1. \/ UNCHANGED <<phase, attempt, count, attached, orphaned, agents>>
        \/ count[i] < MaxAttempts /\ Retry(i)
    BY <1>2 DEF Observe
  <2>2. count[i] < MaxAttempts => count[i] < MaxRuns
    BY RunFacts DEF TypeOK
  <2>4. UNCHANGED <<phase, attempt, count, attached, orphaned, agents>> \/ Superseded(i)
    BY <1>1, <2>1, <2>2, RetryFacts
  <2>3. /\ pc = "observe" /\ batch' = [batch EXCEPT ![i] = <<>>]
        /\ UNCHANGED <<streams, queue, tables, pc, crashes>>
        /\ reported' = reported \cup {Run(i)}
    BY <1>2 DEF Observe
  <2> QED
    BY <1>1, <1>2, <2>3, <2>4 DEF ObservedOutcome
<1>3. CASE ~ \E n \in DOMAIN batch[i] : batch[i][n] \in Failing
  BY <1>1, <1>3 DEF Observe, ObservedOutcome
<1> QED
  BY <1>2, <1>3

\* The operator's retry supersedes a run likewise, between two cycles.
LEMMA OperatorFacts ==
  ASSUME TypeOK, CurrentStarted, NEW i \in Items, OperatorRetry(i)
  PROVE  /\ phase[i] = "active" /\ pc = "start" /\ Superseded(i)
         /\ UNCHANGED <<reported, streams, queue, tables, pc, batch, crashes>>
<1>1. /\ phase[i] = "active" /\ pc = "start" /\ Retry(i) /\ count[i] < MaxRuns
      /\ UNCHANGED <<reported, streams, queue, tables, pc, batch, crashes>>
  BY DEF OperatorRetry, Active
<1> QED
  BY <1>1, RetryFacts

\* The steps of run_once and of the stream threads that leave items and agents alone.
Quiet == UNCHANGED <<controller, agent, output, crashes>>

LEMMA QuietSteps ==
  ASSUME [Next]_vars
  PROVE  \/ Quiet
         \/ Reconcile \/ Restart \/ (\E i \in Items : Observe(i) \/ OperatorRetry(i))
         \/ \E r \in Runs : AgentEnds(r)
<1>1. CASE StartStreams \/ Drain \/ CheckTimeouts
  <2>1. Quiet
    BY <1>1 DEF StartStreams, Drain, CheckTimeouts, Quiet, agents
  <2> QED
    BY <2>1
<1>2. CASE \E r \in Runs : StreamThread(r) \/ Expire(r)
  <2>1. Quiet
    BY <1>2 DEF StreamThread, LookUp, Collect, Put, Expire, Quiet, agents
  <2> QED
    BY <2>1
<1>3. CASE UNCHANGED vars
  BY <1>3 DEF vars, Quiet, agents
<1> QED
  BY <1>1, <1>2, <1>3 DEF Next, RunOnce

\* What a reconcile settles and dispatches.
Reconciled(settled, next) ==
  /\ settled \subseteq Items /\ next \subseteq Items
  /\ \A i \in settled : phase[i] = "active"
  /\ \A i \in next : phase[i] = "waiting"
  /\ \A r \in Runs : r[1] \in next /\ r[2] = attempt[r[1]] => agent[r] = "none"
  /\ phase' = [i \in Items |-> IF i \in settled THEN "settled"
                               ELSE IF i \in next THEN "active" ELSE phase[i]]
  /\ attached' = (attached \ settled) \cup next
  /\ agent' \in [Runs -> {"none", "running", "ended"}]
  /\ \A r \in Runs : agent'[r] = IF r[1] \in next /\ r[2] = attempt[r[1]]
                                 THEN "running" ELSE agent[r]
  /\ pc = "observe" /\ batch = NoEvents /\ pc' = "start"
  /\ UNCHANGED <<attempt, count, orphaned, reported, output, streams, queue, tables, batch,
                 crashes>>

LEMMA ReconcileFacts ==
  ASSUME TypeOK, Reconcile
  PROVE  \E settled, next : Reconciled(settled, next)
<1>1. PICK settled \in SUBSET Active,
           next \in SUBSET {i \in Items : phase[i] = "waiting" /\ agent[Run(i)] = "none"} :
       /\ phase' = [i \in Items |-> IF i \in settled THEN "settled"
                                    ELSE IF i \in next THEN "active" ELSE phase[i]]
       /\ attached' = (attached \ settled) \cup next
       /\ agent' = [r \in Runs |-> IF r \in {Run(i) : i \in next} THEN "running" ELSE agent[r]]
  BY DEF Reconcile
<1>2. \A r \in Runs : r \in {Run(i) : i \in next} <=> r[1] \in next /\ r[2] = attempt[r[1]]
  <2>1. \A i \in next : Run(i)[1] = i /\ Run(i)[2] = attempt[i]
    BY CurrentFacts
  <2>2. \A r \in Runs : r[2] = attempt[r[1]] => r = Run(r[1])
    BY RunFacts DEF Run
  <2> QED
    BY <2>1, <2>2
<1>3. \A r \in Runs : r[1] \in next /\ r[2] = attempt[r[1]] => agent[r] = "none"
  BY <1>2
<1>4. agent' \in [Runs -> {"none", "running", "ended"}]
  BY <1>1 DEF TypeOK
<1>5. \A r \in Runs : agent'[r] = IF r[1] \in next /\ r[2] = attempt[r[1]]
                                  THEN "running" ELSE agent[r]
  BY <1>1, <1>2
<1>6. Reconciled(settled, next)
  BY <1>1, <1>3, <1>4, <1>5 DEF Reconciled, Reconcile, Active
<1> QED
  BY <1>6

\* The step is the retry of item i, by run_once or by the operator.
RetryStep(i) ==
  /\ phase[i] = "active" /\ Superseded(i)
  /\ UNCHANGED <<streams, queue, tables, pc, crashes>>

\* What a step does to items and agents.
LEMMA StepKinds ==
  ASSUME IInv, [Next]_vars
  PROVE  \/ UNCHANGED <<phase, attempt, count, attached, orphaned, agents, crashes>>
         \/ \E settled, next : Reconciled(settled, next)
         \/ Restart
         \/ \E i \in Items : RetryStep(i)
         \/ \E r \in Runs : AgentEnds(r)
<1> USE DEF IInv, RetryStep
<1>1. CASE Quiet
  BY <1>1 DEF Quiet, controller, agents
<1>2. CASE Reconcile
  BY <1>2, ReconcileFacts
<1>3. ASSUME NEW i \in Items, Observe(i)
      PROVE  \/ UNCHANGED <<phase, attempt, count, attached, orphaned, agents, crashes>>
             \/ RetryStep(i)
  BY <1>3, ObserveFacts DEF ObservedOutcome, controller
<1>4. ASSUME NEW i \in Items, OperatorRetry(i)
      PROVE  RetryStep(i)
  BY <1>4, OperatorFacts
<1> QED
  BY <1>1, <1>2, <1>3, <1>4, QuietSteps

\* An agent that ended stays ended, with its output, and no run loses its agent.
LEMMA AgentsOnlyEnd ==
  ASSUME IInv, [Next]_vars
  PROVE  \A r \in Runs : /\ agent[r] = "ended" => agent'[r] = "ended" /\ output'[r] = output[r]
                         /\ agent[r] # "none" => agent'[r] # "none"
<1>1. CASE UNCHANGED agents
  BY <1>1 DEF agents
<1>2. CASE \E settled, next : Reconciled(settled, next)
  BY <1>2 DEF Reconciled
<1>3. CASE Restart
  BY <1>3 DEF Restart, agents
<1>4. CASE \E i \in Items : RetryStep(i)
  BY <1>4 DEF RetryStep, Superseded
<1>5. CASE \E r \in Runs : AgentEnds(r)
  <2>1. PICK s \in Runs : AgentEnds(s)
    BY <1>5
  <2>2. PICK events \in Outcomes : output' = [output EXCEPT ![s] = events]
    BY <2>1 DEF AgentEnds
  <2> QED
    BY <2>1, <2>2 DEF AgentEnds, IInv, TypeOK
<1> QED
  BY <1>1, <1>2, <1>3, <1>4, <1>5, StepKinds

\* Only an attempt without an agent becomes the active one.
LEMMA CurrentIsNew ==
  ASSUME IInv, [Next]_vars, NEW r \in Runs, IsCurrent(r)'
  PROVE  IsCurrent(r) \/ (agent[r] = "none" /\ agent'[r] = "running" /\ r[1] \in attached')
<1> USE DEF IsCurrent
<1>0. r[1] \in Items /\ TypeOK
  BY RunFacts DEF IInv
<1>1. CASE UNCHANGED <<phase, attempt>>
  BY <1>1
<1>2. CASE \E settled, next : Reconciled(settled, next)
  BY <1>0, <1>2 DEF Reconciled
<1>3. CASE Restart
  BY <1>0, <1>3 DEF Restart, Active
<1>4. CASE \E i \in Items : RetryStep(i)
  <2>1. PICK i \in Items : phase[i] = "active" /\ Superseded(i)
    BY <1>4 DEF RetryStep
  <2>2. CASE r[1] = i
    <3>1. phase'[i] # "waiting" /\ r[2] = attempt'[i]
      BY <2>2
    <3>2. ~(phase' = [phase EXCEPT ![i] = "waiting"])
      BY <1>0, <3>1 DEF TypeOK
    <3> QED
      BY <2>1, <2>2, <3>1, <3>2 DEF Superseded
  <2>3. CASE r[1] # i
    <3>1. phase'[r[1]] = phase[r[1]] /\ attempt'[r[1]] = attempt[r[1]]
      BY <1>0, <2>1, <2>3 DEF Superseded, TypeOK
    <3> QED
      BY <3>1
  <2> QED
    BY <2>2, <2>3
<1>5. CASE \E s \in Runs : AgentEnds(s)
  BY <1>5 DEF AgentEnds, controller
<1> QED
  BY <1>1, <1>2, <1>3, <1>4, <1>5, StepKinds

\* What is past stays past, and what is current is current or past from then on.
LEMMA PastStays ==
  ASSUME IInv, [Next]_vars
  PROVE  \A r \in Runs : /\ Past(r) => Past(r)'
                         /\ IsCurrent(r) => IsCurrent(r)' \/ Past(r)'
<1>1. \A r \in Runs : agent[r] # "none" => agent'[r] # "none"
  BY AgentsOnlyEnd
<1>2. \A r \in Runs : IsCurrent(r)' => IsCurrent(r) \/ agent[r] = "none"
  BY CurrentIsNew
<1>3. \A r \in Runs : IsCurrent(r) => agent[r] # "none"
  BY DEF IInv, CurrentStarted
<1> QED
  BY <1>1, <1>2, <1>3 DEF Past

-----------------------------------------------------------------------------
(* The agents.                                                             *)

AgentInv == OneAgentPerItem /\ RunningIsCurrent /\ CurrentStarted /\ DetachedIsOrphaned

\* A retry ends the one agent that runs for its item, or the log has it as orphaned.
LEMMA SupersedeStep ==
  ASSUME IInv, NEW i \in Items, RetryStep(i)
  PROVE  AgentInv'
<1>1. /\ TypeOK /\ RunningIsCurrent /\ CurrentStarted /\ DetachedIsOrphaned /\ OneAgentPerItem
      /\ phase[i] = "active" /\ Superseded(i) /\ orphaned' = orphaned /\ crashes' = crashes
  BY DEF IInv, RetryStep, Superseded
<1>2. /\ \A j \in Items : j # i => /\ attempt'[j] = attempt[j] /\ phase'[j] = phase[j]
                                   /\ j \in attached' <=> j \in attached
      /\ phase'[i] \in {"active", "waiting"} /\ phase'[i] = "active" => i \in attached'
      /\ \A r \in Runs : r[1] \in Items
  <2>1. \A j \in Items : j # i => attempt'[j] = attempt[j]
    BY <1>1 DEF Superseded, TypeOK
  <2>2. \/ phase' = phase /\ attached' = attached \cup {i}
        \/ phase' = [phase EXCEPT ![i] = "waiting"] /\ attached' = attached \ {i}
    BY <1>1 DEF Superseded
  <2>3. \A j \in Items : j # i => phase'[j] = phase[j] /\ (j \in attached' <=> j \in attached)
    BY <1>1, <2>2 DEF TypeOK
  <2>4. phase'[i] \in {"active", "waiting"} /\ phase'[i] = "active" => i \in attached'
    BY <1>1, <2>2 DEF TypeOK
  <2> QED
    BY <2>1, <2>3, <2>4, RunFacts
<1>3. \A r \in Runs : r[1] # i => /\ agent'[r] = agent[r]
                                  /\ IsCurrent(r)' <=> IsCurrent(r)
  BY <1>1, <1>2 DEF Superseded, IsCurrent
\* A run of the item that runs is a new one or was there before.
<1>4. \A r \in Runs : r[1] = i /\ agent'[r] = "running" =>
        \/ r \in orphaned
        \/ phase'[i] = "active" /\ r[2] = attempt'[i]
  <2> SUFFICES ASSUME NEW r \in Runs, r[1] = i, agent'[r] = "running", r \notin orphaned
               PROVE  phase'[i] = "active" /\ r[2] = attempt'[i]
    OBVIOUS
  <2>1. CASE agent[r] = "none"
    BY <1>1, <2>1 DEF Superseded
  <2>2. CASE agent[r] # "none"
    <3>1. agent[r] = "running"
      BY <1>1, <2>2 DEF Superseded
    <3>2. IsCurrent(r) /\ r = Run(i)
      BY <1>1, <3>1, CurrentFacts DEF RunningIsCurrent
    <3>3. i \in attached
      BY <1>1, <3>2 DEF DetachedIsOrphaned
    <3> QED
      BY <1>1, <3>2, <3>3 DEF Superseded
  <2> QED
    BY <2>1, <2>2
<1>5. OneAgentPerItem'
  <2> SUFFICES ASSUME NEW r \in Runs, NEW s \in Runs, r[1] = s[1],
                      agent'[r] = "running", agent'[s] = "running",
                      r \notin orphaned, s \notin orphaned
               PROVE  r = s
    BY <1>1 DEF OneAgentPerItem
  <2>1. CASE r[1] = i
    <3>1. r[2] = attempt'[i]
      BY <1>4, <2>1
    <3>2. s[1] = i /\ s[2] = attempt'[i]
      BY <1>4, <2>1
    <3> QED
      BY <2>1, <3>1, <3>2, RunFacts
  <2>2. CASE r[1] # i
    BY <1>1, <1>3, <2>2 DEF OneAgentPerItem
  <2> QED
    BY <2>1, <2>2
<1>6. RunningIsCurrent'
  <2> SUFFICES ASSUME NEW r \in Runs, agent'[r] = "running"
               PROVE  IsCurrent(r)' \/ phase'[r[1]] = "settled" \/ r \in orphaned
    BY <1>1 DEF RunningIsCurrent
  <2>1. CASE r[1] = i
    <3>1. r \in orphaned \/ (phase'[r[1]] = "active" /\ r[2] = attempt'[r[1]])
      BY <1>4, <2>1
    <3> QED
      BY <3>1 DEF IsCurrent
  <2>2. CASE r[1] # i
    BY <1>1, <1>2, <1>3, <2>2 DEF RunningIsCurrent
  <2> QED
    BY <2>1, <2>2
<1>7. CurrentStarted'
  <2> SUFFICES ASSUME NEW r \in Runs, IsCurrent(r)' PROVE agent'[r] # "none"
    BY DEF CurrentStarted
  <2>1. CASE r[1] = i
    <3>1. phase'[i] # "waiting" /\ r[2] = attempt'[i]
      BY <2>1 DEF IsCurrent
    <3>2. ~(phase' = [phase EXCEPT ![i] = "waiting"])
      BY <1>1, <3>1 DEF TypeOK
    <3> QED
      BY <1>1, <2>1, <3>1, <3>2 DEF Superseded
  <2>2. CASE r[1] # i
    BY <1>1, <1>3, <2>2 DEF CurrentStarted
  <2> QED
    BY <2>1, <2>2
<1>8. DetachedIsOrphaned'
  <2> SUFFICES ASSUME NEW r \in Runs, IsCurrent(r)'
               PROVE  r[1] \in attached' \/ (r \in orphaned /\ crashes > 0)
    BY <1>1 DEF DetachedIsOrphaned
  <2>1. CASE r[1] = i
    BY <1>2, <2>1 DEF IsCurrent
  <2>2. CASE r[1] # i
    BY <1>1, <1>2, <1>3, <2>2 DEF DetachedIsOrphaned
  <2> QED
    BY <2>1, <2>2
<1> QED
  BY <1>5, <1>6, <1>7, <1>8 DEF AgentInv

LEMMA ReconcileAgents ==
  ASSUME IInv, NEW settled, NEW next, Reconciled(settled, next)
  PROVE  AgentInv'
<1>1. /\ TypeOK /\ RunningIsCurrent /\ CurrentStarted /\ DetachedIsOrphaned /\ OneAgentPerItem
      /\ orphaned' = orphaned /\ crashes' = crashes
  BY DEF IInv, Reconciled
<1>2. /\ \A j \in Items : attempt'[j] = attempt[j]
      /\ \A r \in Runs : r[1] \in Items /\ r = <<r[1], r[2]>>
      /\ \A j \in Items : phase'[j] = IF j \in settled THEN "settled"
                                      ELSE IF j \in next THEN "active" ELSE phase[j]
      /\ attached' = (attached \ settled) \cup next
  BY RunFacts DEF Reconciled
<1>3. /\ \A j \in settled : phase[j] = "active"
      /\ \A j \in next : phase[j] = "waiting" /\ j \notin settled
      /\ \A r \in Runs : agent'[r] = IF r[1] \in next /\ r[2] = attempt[r[1]]
                                     THEN "running" ELSE agent[r]
  BY DEF Reconciled
<1>4. \A r \in Runs : r[1] \in next /\ agent[r] = "running" => r \in orphaned
  BY <1>1, <1>3 DEF RunningIsCurrent, IsCurrent
<1>5. RunningIsCurrent' /\ CurrentStarted' /\ DetachedIsOrphaned'
  BY <1>1, <1>2, <1>3, <1>4 DEF RunningIsCurrent, CurrentStarted, DetachedIsOrphaned, IsCurrent
<1>6. OneAgentPerItem'
  <2> SUFFICES ASSUME NEW r \in Runs, NEW s \in Runs, r[1] = s[1],
                      agent'[r] = "running", agent'[s] = "running",
                      r \notin orphaned, s \notin orphaned
               PROVE  r = s
    BY <1>1 DEF OneAgentPerItem
  <2>1. CASE r[1] \in next
    BY <1>2, <1>3, <1>4, <2>1
  <2>2. CASE r[1] \notin next
    BY <1>1, <1>3, <2>2 DEF OneAgentPerItem
  <2> QED
    BY <2>1, <2>2
<1> QED
  BY <1>5, <1>6 DEF AgentInv

\* A restart orphans the active runs it does not reattach.
LEMMA RestartAgents ==
  ASSUME IInv, Restart
  PROVE  AgentInv'
<1>1. /\ TypeOK /\ RunningIsCurrent /\ CurrentStarted /\ OneAgentPerItem
      /\ UNCHANGED <<phase, agent>> /\ crashes' > 0
      /\ \A i \in Items : attempt'[i] = IF phase[i] = "active" THEN attempt[i] ELSE 1
      /\ orphaned' = orphaned \cup {Run(i) : i \in Active \ attached'}
  BY DEF Restart, agents, Active, IInv
<1>2. \A r \in Runs : IsCurrent(r)' <=> IsCurrent(r)
  BY <1>1, RunFacts DEF IsCurrent
<1>3. DetachedIsOrphaned'
  <2> SUFFICES ASSUME NEW r \in Runs, IsCurrent(r), r[1] \notin attached'
               PROVE  r \in orphaned'
    BY <1>1, <1>2 DEF DetachedIsOrphaned
  <2>1. r = Run(r[1]) /\ r[1] \in Active
    BY <1>1, CurrentFacts, RunFacts DEF IsCurrent, Active
  <2> QED
    BY <1>1, <2>1
<1> QED
  BY <1>1, <1>2, <1>3 DEF AgentInv, OneAgentPerItem, RunningIsCurrent, CurrentStarted

LEMMA AgentStep ==
  ASSUME IInv, [Next]_vars
  PROVE  AgentInv'
<1> USE DEF AgentInv, OneAgentPerItem, RunningIsCurrent, CurrentStarted, DetachedIsOrphaned,
            IsCurrent
<1>1. CASE UNCHANGED <<phase, attempt, count, attached, orphaned, agents, crashes>>
  BY <1>1 DEF agents, IInv
<1>2. CASE \E r \in Runs : AgentEnds(r)
  <2>1. PICK s \in Runs : AgentEnds(s)
    BY <1>2
  <2>2. /\ UNCHANGED <<phase, attempt, attached, orphaned, crashes>> /\ agent[s] = "running"
        /\ \A r \in Runs : agent'[r] = IF r = s THEN "ended" ELSE agent[r]
    BY <2>1 DEF AgentEnds, controller, IInv, TypeOK
  <2> QED
    BY <2>2 DEF IInv
<1> QED
  BY <1>1, <1>2, StepKinds, SupersedeStep, ReconcileAgents, RestartAgents

-----------------------------------------------------------------------------
(* What is on its way from the streams to the controller.                  *)

\* The rest of a stream and its sentinel.
LEMMA OutcomeFacts ==
  ASSUME NEW o \in Outcomes \cup {<<>>, <<"failed">>}, NEW lost \in 0..Len(o)
  PROVE  LET t == SubSeq(o, lost + 1, Len(o)) \o <<"end">> IN
         /\ t \in Seq(Streamed \cup {"end"}) /\ t # <<>>
         /\ \A n \in DOMAIN t : t[n] \in Failing => \E m \in DOMAIN o : o[m] \in Failing
         /\ \A n \in DOMAIN t : t[n] = "end" <=> n = Len(t)
         /\ lost = 0 => \A n \in DOMAIN o : n \in DOMAIN t /\ t[n] = o[n]
<1> DEFINE E == Streamed \cup {"end"}
           u == SubSeq(o, lost + 1, Len(o))
           t == u \o <<"end">>
<1>1. o \in Seq(Streamed) /\ Len(o) \in Nat /\ DOMAIN o = 1..Len(o) /\ lost \in Nat
  <2>1. "completed" \in Streamed /\ "failed" \in Streamed /\ "rejected" \in Streamed
    BY DEF Streamed
  <2> HIDE DEF u, t, E
  <2>2. /\ <<>> \in Seq(Streamed) /\ <<"failed">> \in Seq(Streamed)
        /\ <<"completed">> \in Seq(Streamed) /\ <<"failed", "failed">> \in Seq(Streamed)
        /\ <<"rejected", "completed">> \in Seq(Streamed)
    BY <2>1
  <2>3. o \in Seq(Streamed)
    BY <2>2 DEF Outcomes
  <2> QED
    BY <2>3
<1>2. /\ u \in Seq(Streamed) /\ Len(u) = Len(o) - lost /\ Len(u) \in Nat /\ DOMAIN u = 1..Len(u)
      /\ \A n \in 1..Len(u) : n + lost \in DOMAIN o /\ u[n] = o[n + lost]
  <2>1. lost + 1 \in Int /\ Len(o) \in Int /\ \A n \in (lost + 1)..Len(o) : o[n] \in Streamed
    BY <1>1
  <2>2. /\ u \in Seq(Streamed)
        /\ Len(u) = IF lost + 1 <= Len(o) THEN Len(o) - (lost + 1) + 1 ELSE 0
        /\ \A n \in 1..(Len(o) - (lost + 1) + 1) : u[n] = o[lost + 1 + n - 1]
    BY <2>1, SubSeqProperties
  <2> HIDE DEF u, t
  <2>3. Len(u) = Len(o) - lost /\ Len(u) \in Nat
    <3> DEFINE L == Len(o)
    <3>1. lost \in Nat /\ L \in Nat /\ lost <= L
      BY <1>1
    <3>2. Len(u) = IF lost + 1 <= L THEN L - (lost + 1) + 1 ELSE 0
      BY <2>2
    <3> HIDE DEF L
    <3>3. Len(u) = L - lost /\ Len(u) \in Nat
      BY <3>1, <3>2
    <3> QED
      BY <3>3 DEF L
  <2>4. DOMAIN u = 1..Len(u)
    BY <2>2
  <2>5. ASSUME NEW n \in 1..Len(u) PROVE n + lost \in DOMAIN o /\ u[n] = o[n + lost]
    <3>1. ASSUME NEW L \in Nat, NEW m \in 0..L, NEW k \in 1..(L - m)
          PROVE  k \in 1..(L - (m + 1) + 1) /\ m + 1 + k - 1 = k + m /\ k + m \in 1..L
      OBVIOUS
    <3>2. /\ n \in 1..(Len(o) - (lost + 1) + 1) /\ lost + 1 + n - 1 = n + lost
          /\ n + lost \in 1..Len(o)
      BY <1>1, <2>3, <3>1
    <3> QED
      BY <1>1, <2>2, <3>2
  <2> QED
    BY <2>2, <2>3, <2>4, <2>5
<1> HIDE DEF u
<1>3. u \in Seq(E) /\ <<"end">> \in Seq(E)
  <2>1. Streamed \subseteq E /\ "end" \in E
    OBVIOUS
  <2> HIDE DEF E
  <2> QED
    BY <1>2, <2>1
<1>4. /\ t \in Seq(E) /\ Len(t) = Len(u) + 1 /\ DOMAIN t = 1..Len(t)
      /\ \A n \in 1..Len(u) : t[n] = u[n]
      /\ t[Len(u) + 1] = "end"
  BY <1>2, <1>3
<1> HIDE DEF t
<1>5. t # <<>>
  BY <1>2, <1>4
<1>6. ASSUME NEW n \in DOMAIN t, n # Len(t)
      PROVE  n + lost \in DOMAIN o /\ t[n] = o[n + lost] /\ t[n] # "end"
  <2>1. n \in 1..Len(u)
    BY <1>2, <1>4, <1>6
  <2>2. n + lost \in DOMAIN o /\ t[n] = o[n + lost]
    BY <1>2, <1>4, <2>1
  <2>3. t[n] \in Streamed /\ "end" \notin Streamed
    BY <1>1, <2>2 DEF Streamed
  <2> QED
    BY <2>2, <2>3
<1>7. t[Len(t)] = "end" /\ "end" \notin Failing
  BY <1>4 DEF Failing
<1>8. lost = 0 => \A n \in DOMAIN o : n \in DOMAIN t /\ t[n] = o[n]
  BY <1>1, <1>2, <1>4
<1>9. \A n \in DOMAIN t : t[n] \in Failing => \E m \in DOMAIN o : o[m] \in Failing
  BY <1>6, <1>7
<1>10. \A n \in DOMAIN t : t[n] = "end" <=> n = Len(t)
  BY <1>6, <1>7
<1> QED
  BY <1>4, <1>5, <1>8, <1>9, <1>10 DEF t, u

Streams == ThreadsAreKnown /\ FeedIsOwn /\ QueueIsOwn /\ BatchIsOwn

\* A thread that looks its run up may find a later attempt, or none: then the run
\* is past.
LEMMA LookUpStep ==
  ASSUME IInv, NEW r \in Runs, LookUp(r)
  PROVE  TypeOK' /\ Streams'
<1> DEFINE i == r[1]
<1>1. /\ TypeOK /\ ThreadsAreKnown /\ FeedIsOwn /\ QueueIsOwn /\ BatchIsOwn
      /\ thread[r] = "starting" /\ i \in Items
      /\ UNCHANGED <<phase, attempt, count, attached, orphaned, reported, agent, output, queue,
                     consumed, threads, started, expired, pc, batch, crashes>>
  BY RunFacts DEF LookUp, IInv, controller, agents, tables
<1>2. IsCurrent(r) \/ Past(r)
  BY <1>1 DEF ThreadsAreKnown, Past
<1>3. CASE i \in Active
  <2>1. /\ thread' = [thread EXCEPT ![r] = "streaming"]
        /\ source' = [source EXCEPT ![r] = Run(i)] /\ feed' = feed
    BY <1>3 DEF LookUp
  <2>2. Run(i) \in Runs
    BY <1>1, CurrentFacts
  <2>3. Run(i) = r \/ Past(r)
    BY <1>1, <1>2, CurrentFacts
  <2>4. TypeOK'
    BY <1>1, <2>1, <2>2 DEF TypeOK
  <2>5. /\ \A s \in Runs : s # r => thread'[s] = thread[s] /\ source'[s] = source[s]
        /\ thread'[r] = "streaming" /\ source'[r] = Run(i)
    BY <1>1, <2>1 DEF TypeOK
  <2> HIDE DEF i
  <2>6. ThreadsAreKnown'
    BY <1>1, <1>2, <2>1, <2>3, <2>5 DEF ThreadsAreKnown, IsCurrent, Past
  <2> QED
    BY <1>1, <2>1, <2>4, <2>6 DEF Streams, FeedIsOwn, QueueIsOwn, BatchIsOwn, IsCurrent, Past, Failed, Run
<1>4. CASE i \notin Active
  <2> DEFINE broken == <<"failed", "end">>
  <2>1. /\ thread' = [thread EXCEPT ![r] = "putting"]
        /\ feed' = [feed EXCEPT ![r] = broken] /\ source' = source
    BY <1>4 DEF LookUp
  <2>2. broken \in Seq(Streamed \cup {"end"}) /\ broken # <<>>
    BY DEF Streamed
  <2>3. Past(r)
    BY <1>1, <1>2, <1>4 DEF IsCurrent, Active
  <2> HIDE DEF broken
  <2>4. TypeOK'
    BY <1>1, <2>1, <2>2 DEF TypeOK
  <2>5. /\ \A s \in Runs : s # r => thread'[s] = thread[s] /\ feed'[s] = feed[s]
        /\ thread'[r] = "putting" /\ feed'[r] = broken
    BY <1>1, <2>1 DEF TypeOK
  <2> HIDE DEF i
  <2>6. ThreadsAreKnown'
    BY <1>1, <2>1, <2>2, <2>3, <2>5 DEF ThreadsAreKnown, IsCurrent, Past
  <2>7. FeedIsOwn'
    BY <1>1, <2>3, <2>5 DEF FeedIsOwn, IsCurrent, Past, Failed
  <2> QED
    BY <1>1, <2>4, <2>6, <2>7 DEF Streams, QueueIsOwn, BatchIsOwn, IsCurrent, Past, Failed, Run
<1> QED
  BY <1>3, <1>4

\* The whole output of the agent is fed at once.
LEMMA CollectStep ==
  ASSUME IInv, NEW r \in Runs, Collect(r)
  PROVE  TypeOK' /\ Streams'
<1> DEFINE o == output[source[r]]
<1>0. PICK lost \in 0..Len(o) :
        feed' = [feed EXCEPT ![r] = SubSeq(o, lost + 1, Len(o)) \o <<"end">>]
  BY DEF Collect
<1> DEFINE t == SubSeq(o, lost + 1, Len(o)) \o <<"end">>
<1>1. /\ TypeOK /\ ThreadsAreKnown /\ FeedIsOwn /\ QueueIsOwn /\ BatchIsOwn
      /\ thread[r] = "streaming" /\ agent[source[r]] = "ended"
      /\ thread' = [thread EXCEPT ![r] = "putting"]
      /\ feed' = [feed EXCEPT ![r] = t]
      /\ UNCHANGED <<phase, attempt, count, attached, orphaned, reported, agent, output, source, queue,
                     consumed, threads, started, expired, pc, batch, crashes>>
  BY <1>0 DEF Collect, IInv, controller, agents, tables
<1>2. source[r] = r \/ Past(r)
  BY <1>1 DEF ThreadsAreKnown
<1>3. output[source[r]] \in Outcomes \cup {<<>>, <<"failed">>}
  BY <1>1 DEF TypeOK
<1>4. /\ t \in Seq(Streamed \cup {"end"}) /\ t # <<>>
      /\ \A n \in DOMAIN t : t[n] \in Failing =>
           \E m \in DOMAIN output[source[r]] : output[source[r]][m] \in Failing
  BY <1>3, OutcomeFacts
<1> HIDE DEF t
<1>5. TypeOK'
  BY <1>1, <1>4 DEF TypeOK
<1>6. /\ \A s \in Runs : s # r => thread'[s] = thread[s] /\ feed'[s] = feed[s]
      /\ thread'[r] = "putting" /\ feed'[r] = t
  BY <1>1 DEF TypeOK
<1>7. ThreadsAreKnown'
  BY <1>1, <1>4, <1>6 DEF ThreadsAreKnown, IsCurrent, Past
<1>8. \A n \in DOMAIN t : t[n] \in Failing => Past(r) \/ Failed(r)
  BY <1>1, <1>2, <1>4 DEF Failed
<1>9. FeedIsOwn'
  BY <1>1, <1>6, <1>8 DEF FeedIsOwn, IsCurrent, Past, Failed
<1> QED
  BY <1>1, <1>5, <1>7, <1>9 DEF Streams, QueueIsOwn, BatchIsOwn, IsCurrent, Past, Failed, Run

LEMMA PutStep ==
  ASSUME IInv, NEW r \in Runs, Put(r)
  PROVE  TypeOK' /\ Streams'
<1> DEFINE E == Streamed \cup {"end"}
           f == feed[r]
           x == <<r, Head(f)>>
<1>1. /\ TypeOK /\ ThreadsAreKnown /\ FeedIsOwn /\ QueueIsOwn /\ BatchIsOwn
      /\ thread[r] = "putting"
      /\ queue' = Append(queue, x)
      /\ feed' = [feed EXCEPT ![r] = Tail(f)]
      /\ thread' = IF Tail(f) = <<>> THEN [thread EXCEPT ![r] = "done"] ELSE thread
      /\ UNCHANGED <<phase, attempt, count, attached, orphaned, reported, agent, output, source,
                     consumed, threads, started, expired, pc, batch, crashes>>
  BY DEF Put, IInv, controller, agents, tables, TypeOK
<1>2. f \in Seq(E) /\ f # <<>>
  BY <1>1 DEF ThreadsAreKnown, TypeOK
<1>3. \A n \in DOMAIN f : f[n] \in Failing => Past(r) \/ Failed(r)
  BY <1>1 DEF FeedIsOwn
<1>4. /\ Head(f) \in E /\ Head(f) = f[1] /\ 1 \in DOMAIN f /\ Tail(f) \in Seq(E)
      /\ \A n \in DOMAIN Tail(f) : n + 1 \in DOMAIN f /\ Tail(f)[n] = f[n + 1]
  BY <1>2
<1>5. x \in Runs \X E /\ x[1] = r /\ x[2] = Head(f)
  BY <1>4
<1>6. queue \in Seq(Runs \X E)
  BY <1>1 DEF TypeOK
<1> HIDE DEF x, f, E
<1>7. /\ Append(queue, x) \in Seq(Runs \X E)
      /\ \A n \in DOMAIN Append(queue, x) :
           \/ n \in DOMAIN queue /\ Append(queue, x)[n] = queue[n]
           \/ Append(queue, x)[n] = x
  BY <1>5, <1>6
<1>8. /\ \A s \in Runs : s # r => thread'[s] = thread[s] /\ feed'[s] = feed[s]
      /\ feed'[r] = Tail(f)
      /\ thread'[r] \in {"putting", "done"}
      /\ thread'[r] = "putting" => Tail(f) # <<>>
      /\ thread' \in [Runs -> {"none", "starting", "streaming", "putting", "done"}]
      /\ feed' \in [Runs -> Seq(E)]
  BY <1>1, <1>4 DEF TypeOK, E
<1>9. TypeOK'
  BY <1>1, <1>7, <1>8 DEF TypeOK, E
<1>10. ThreadsAreKnown'
  <2> SUFFICES ASSUME NEW s \in Runs, thread'[s] # "none"
               PROVE  /\ agent[s] # "none"
                      /\ IsCurrent(s) /\ s[1] \in attached => s \in consumed \cup threads
                      /\ thread'[s] = "streaming" => source[s] = s \/ Past(s)
                      /\ thread'[s] = "putting" => feed'[s] # <<>>
    BY <1>1 DEF ThreadsAreKnown, IsCurrent, Past
  <2>1. CASE s = r
    BY <1>1, <1>8, <2>1 DEF ThreadsAreKnown
  <2>2. CASE s # r
    BY <1>1, <1>8, <2>2 DEF ThreadsAreKnown
  <2> QED
    BY <2>1, <2>2
<1>11. FeedIsOwn'
  <2> SUFFICES ASSUME NEW s \in Runs, NEW n \in DOMAIN feed'[s], feed'[s][n] \in Failing
               PROVE  Past(s) \/ Failed(s)
    BY <1>1 DEF FeedIsOwn, IsCurrent, Past, Failed
  <2>1. CASE s = r
    BY <1>3, <1>4, <1>8, <2>1
  <2>2. CASE s # r
    BY <1>1, <1>8, <2>2 DEF FeedIsOwn
  <2> QED
    BY <2>1, <2>2
<1>12. QueueIsOwn'
  <2> SUFFICES ASSUME NEW n \in DOMAIN queue', queue'[n][2] \in Failing
               PROVE  Past(queue'[n][1]) \/ Failed(queue'[n][1])
    BY <1>1 DEF QueueIsOwn, IsCurrent, Past, Failed
  <2>1. CASE queue'[n] = x
    BY <1>3, <1>4, <1>5, <2>1
  <2>2. CASE n \in DOMAIN queue /\ queue'[n] = queue[n]
    BY <1>1, <2>2 DEF QueueIsOwn
  <2> QED
    BY <1>1, <1>7, <2>1, <2>2
<1> QED
  BY <1>1, <1>9, <1>10, <1>11, <1>12 DEF Streams, BatchIsOwn, Failed, Run

\* Only a run that was not read yet gets a thread.
LEMMA StartStep ==
  ASSUME IInv, StartStreams
  PROVE  /\ TypeOK' /\ Streams'
         /\ \A r \in Runs : thread[r] # "none" => thread'[r] = thread[r]
<1> DEFINE new == {Run(i) : i \in {j \in Active \cap attached : Unread(Run(j))}}
<1>1. /\ TypeOK /\ ThreadsAreKnown /\ FeedIsOwn /\ QueueIsOwn /\ BatchIsOwn
      /\ CurrentStarted
      /\ pc = "start" /\ pc' = "drain"
      /\ thread' = [r \in Runs |-> IF r \in new THEN "starting" ELSE thread[r]]
      /\ threads' = threads \cup new /\ started' = started \cup new
      /\ UNCHANGED <<phase, attempt, count, attached, orphaned, reported, agent, output, source, feed, queue,
                     consumed, expired, batch, crashes>>
  BY DEF StartStreams, IInv, controller, agents
<1>2. \A r \in new : /\ r \in Runs /\ IsCurrent(r) /\ r[1] \in attached
                     /\ r \notin consumed /\ r \notin threads
  BY <1>1, CurrentFacts DEF Unread, Active, IsCurrent
<1>3. \A r \in new : agent[r] # "none"
  BY <1>1, <1>2 DEF CurrentStarted
<1>4. \A r \in new : thread[r] = "none"
  BY <1>1, <1>2 DEF ThreadsAreKnown
<1> HIDE DEF new
<1>5. TypeOK'
  BY <1>1, <1>2 DEF TypeOK
<1>6. ThreadsAreKnown'
  BY <1>1, <1>2, <1>3 DEF ThreadsAreKnown, IsCurrent, Past
<1>7. BatchIsOwn'
  <2>1. \A i \in Items : batch[i] = <<>>
    BY <1>1 DEF BatchIsOwn
  <2> QED
    BY <1>1, <2>1 DEF BatchIsOwn
<1>8. FeedIsOwn' /\ QueueIsOwn'
  BY <1>1 DEF FeedIsOwn, QueueIsOwn, IsCurrent, Past, Failed
<1> QED
  BY <1>1, <1>4, <1>5, <1>6, <1>7, <1>8 DEF Streams

\* An event is kept for the active run only, and the end of a stream is remembered.
LEMMA DrainStep ==
  ASSUME IInv, Drain
  PROVE  TypeOK' /\ Streams'
<1> DEFINE q == Head(queue)
           r == q[1]
           event == q[2]
           E == Streamed \cup {"end"}
<1>1. /\ TypeOK /\ ThreadsAreKnown /\ FeedIsOwn /\ QueueIsOwn /\ BatchIsOwn
      /\ pc = "drain" /\ pc' = "drain" /\ queue # <<>> /\ queue' = Tail(queue)
      /\ UNCHANGED <<phase, attempt, count, attached, orphaned, reported, agent, output, thread, source, feed,
                     crashes>>
  BY DEF Drain, IInv, controller, agents, streams
<1>2. queue \in Seq(Runs \X E)
  BY <1>1 DEF TypeOK
<1>3. /\ r \in Runs /\ event \in E
      /\ event \in Failing => Past(r) \/ Failed(r)
      /\ Tail(queue) \in Seq(Runs \X E)
      /\ \A n \in DOMAIN Tail(queue) : n + 1 \in DOMAIN queue /\ Tail(queue)[n] = queue[n + 1]
  <2>1. q = queue[1] /\ 1 \in DOMAIN queue /\ q \in Runs \X E
    BY <1>1, <1>2
  <2> QED
    BY <1>1, <1>2, <2>1 DEF QueueIsOwn
<1>4. QueueIsOwn'
  BY <1>1, <1>3 DEF QueueIsOwn, IsCurrent, Past, Failed
<1>5. FeedIsOwn'
  BY <1>1 DEF FeedIsOwn, IsCurrent, Past, Failed
<1>6. CASE event = "end"
  <2>1. /\ consumed' = consumed \cup {r} /\ threads' = threads \ {r}
        /\ started' = started \ {r} /\ expired' = expired \ {r} /\ batch' = batch
    BY <1>6 DEF Drain, Forget
  <2> HIDE DEF r, event
  <2>2. TypeOK'
    BY <1>1, <1>3, <2>1 DEF TypeOK, E
  <2>3. ThreadsAreKnown'
    BY <1>1, <1>3, <2>1 DEF ThreadsAreKnown, IsCurrent, Past
  <2>4. BatchIsOwn'
    BY <1>1, <2>1 DEF BatchIsOwn, Failed, Run
  <2> QED
    BY <1>4, <1>5, <2>2, <2>3, <2>4 DEF Streams
<1>7. CASE event # "end"
  <2>1. /\ UNCHANGED <<consumed, threads, started, expired>>
        /\ batch' = IF Accepts(r) THEN [batch EXCEPT ![r[1]] = Append(@, event)] ELSE batch
    BY <1>7 DEF Drain, tables
  <2>2. event \in Events
    BY <1>3, <1>7 DEF Events
  <2>3. ThreadsAreKnown'
    BY <1>1, <2>1 DEF ThreadsAreKnown, IsCurrent, Past
  <2> HIDE DEF r, event
  <2>4. CASE Accepts(r)
    <3> DEFINE i == r[1]
               b == Append(batch[i], event)
    <3>1. /\ IsCurrent(r) /\ i \in Items /\ r = Run(i) /\ phase[i] = "active"
      BY <1>1, <1>3, <2>4, CurrentFacts, RunFacts DEF Accepts, IsCurrent
    <3> HIDE DEF i
    <3>2. batch[i] \in Seq(Events) /\ batch' = [batch EXCEPT ![i] = b]
      BY <1>1, <2>1, <2>4, <3>1 DEF TypeOK, i
    <3>3. /\ b \in Seq(Events)
          /\ \A n \in DOMAIN b : b[n] = event \/ (n \in DOMAIN batch[i] /\ b[n] = batch[i][n])
      BY <2>2, <3>2
    <3> HIDE DEF b
    <3>4. TypeOK'
      BY <1>1, <1>3, <2>1, <3>1, <3>2, <3>3 DEF TypeOK, E
    <3>5. event \in Failing => Failed(Run(i))
      <4>1. ~Past(r)
        BY <1>1, <1>3, <3>1, RunFacts DEF IsCurrent, Past, TypeOK
      <4> QED
        BY <1>3, <3>1, <4>1
    <3>6. BatchIsOwn'
      <4> SUFFICES ASSUME NEW j \in Items
                   PROVE  /\ batch'[j] # <<>> => phase[j] = "active"
                          /\ \A n \in DOMAIN batch'[j] :
                               batch'[j][n] \in Failing => Failed(Run(j))
        BY <1>1, <2>1 DEF BatchIsOwn, Failed, Run
      <4>1. CASE j = i
        <5>1. batch'[j] = b
          BY <1>1, <3>1, <3>2, <4>1 DEF TypeOK
        <5>2. \A n \in DOMAIN batch[i] : batch[i][n] \in Failing => Failed(Run(i))
          BY <1>1, <3>1 DEF BatchIsOwn
        <5> QED
          BY <3>1, <3>3, <3>5, <4>1, <5>1, <5>2
      <4>2. CASE j # i
        <5>1. batch'[j] = batch[j]
          BY <1>1, <3>2, <4>2 DEF TypeOK
        <5> QED
          BY <1>1, <5>1 DEF BatchIsOwn
      <4> QED
        BY <4>1, <4>2
    <3> QED
      BY <1>4, <1>5, <2>3, <3>4, <3>6 DEF Streams
  <2>5. CASE ~Accepts(r)
    <3>1. batch' = batch
      BY <2>1, <2>5
    <3>2. TypeOK'
      BY <1>1, <1>3, <2>1, <3>1 DEF TypeOK, E
    <3>3. BatchIsOwn'
      BY <1>1, <2>1, <3>1 DEF BatchIsOwn, Failed, Run
    <3> QED
      BY <1>4, <1>5, <2>3, <3>2, <3>3 DEF Streams
  <2> QED
    BY <2>4, <2>5
<1> QED
  BY <1>6, <1>7

LEMMA TimeoutStep ==
  ASSUME IInv, CheckTimeouts
  PROVE  TypeOK' /\ Streams'
<1>1. /\ TypeOK /\ ThreadsAreKnown /\ FeedIsOwn /\ QueueIsOwn /\ BatchIsOwn
      /\ pc = "drain" /\ pc' = "observe"
      /\ batch' = [i \in Items |-> IF i \in Active /\ Run(i) \in expired
                                   THEN Append(batch[i], "timeout") ELSE batch[i]]
      /\ consumed' = consumed \cup (Current \cap expired)
      /\ UNCHANGED <<phase, attempt, count, attached, orphaned, reported, agent, output, thread, source, feed,
                     queue, threads, started, expired, crashes>>
  BY DEF CheckTimeouts, IInv, controller, agents, streams
<1>2. \A b \in Seq(Events) :
        /\ Append(b, "timeout") \in Seq(Events)
        /\ \A n \in DOMAIN Append(b, "timeout") :
             \/ n = Len(b) + 1
             \/ n \in DOMAIN b /\ Append(b, "timeout")[n] = b[n]
  <2>1. "timeout" \in Events
    BY DEF Events
  <2> HIDE DEF Events
  <2> QED
    BY <2>1
<1>3. TypeOK'
  <2>1. batch' \in [Items -> Seq(Events)]
    BY <1>1, <1>2 DEF TypeOK
  <2>2. consumed' \subseteq Runs
    BY <1>1, CurrentFacts DEF TypeOK
  <2> QED
    BY <1>1, <2>1, <2>2 DEF TypeOK
<1>4. ThreadsAreKnown' /\ FeedIsOwn' /\ QueueIsOwn'
  BY <1>1 DEF ThreadsAreKnown, FeedIsOwn, QueueIsOwn, IsCurrent, Past, Failed
<1>5. BatchIsOwn'
  <2> SUFFICES ASSUME NEW i \in Items
               PROVE  /\ batch'[i] # <<>> => phase[i] = "active"
                      /\ \A n \in DOMAIN batch'[i] :
                           batch'[i][n] \in Failing => Failed(Run(i)) \/ Run(i) \in expired
    BY <1>1 DEF BatchIsOwn, Failed, Run
  <2>1. CASE i \in Active /\ Run(i) \in expired
    BY <2>1 DEF Active
  <2>2. CASE ~(i \in Active /\ Run(i) \in expired)
    <3>1. batch'[i] = batch[i]
      BY <1>1, <2>2
    <3> QED
      BY <1>1, <3>1 DEF BatchIsOwn
  <2> QED
    BY <2>1, <2>2
<1> QED
  BY <1>3, <1>4, <1>5 DEF Streams

\* A crash leaves no stream and no event.
LEMMA RestartStep ==
  ASSUME IInv, Restart
  PROVE  TypeOK' /\ Streams'
<1>1. /\ TypeOK
      /\ attempt' = [i \in Items |-> IF i \in Active THEN attempt[i] ELSE 1]
      /\ count' = [i \in Items |-> 1]
      /\ attached' \in SUBSET Active
      /\ orphaned' = orphaned \cup {Run(i) : i \in Active \ attached'}
      /\ queue' = <<>> /\ pc' = "start" /\ batch' = NoEvents
      /\ thread' = [r \in Runs |-> "none"] /\ source' = [r \in Runs |-> r]
      /\ feed' = [r \in Runs |-> <<>>]
      /\ consumed' = {} /\ threads' = {} /\ started' = {} /\ expired' = {}
      /\ UNCHANGED <<phase, reported, agent, output>>
  BY DEF Restart, IInv, agents
<1>2. /\ 1 \in 1..MaxRuns /\ <<>> \in Seq(Streamed \cup {"end"}) /\ <<>> \in Seq(Events)
      /\ <<>> \in Seq(Runs \X (Streamed \cup {"end"}))
  BY SupervisorAssumption
<1>3. TypeOK'
  <2>1. attempt' \in [Items -> 1..MaxRuns] /\ count' \in [Items -> 1..MaxRuns]
    BY <1>1, <1>2 DEF TypeOK
  <2>2. batch' \in [Items -> Seq(Events)] /\ feed' \in [Runs -> Seq(Streamed \cup {"end"})]
    BY <1>1, <1>2 DEF NoEvents
  <2>3. /\ thread' \in [Runs -> {"none", "starting", "streaming", "putting", "done"}]
        /\ source' \in [Runs -> Runs]
    BY <1>1
  <2>4. attached' \subseteq Items /\ orphaned' \subseteq Runs
    <3>1. \A i \in Active : i \in Items /\ Run(i) \in Runs
      BY <1>1, CurrentFacts DEF Active
    <3> QED
      BY <1>1, <3>1 DEF TypeOK
  <2> QED
    BY <1>1, <1>2, <2>1, <2>2, <2>3, <2>4 DEF TypeOK
<1>4. ThreadsAreKnown'
  BY <1>1 DEF ThreadsAreKnown
<1>5. FeedIsOwn' /\ QueueIsOwn' /\ BatchIsOwn'
  BY <1>1 DEF FeedIsOwn, QueueIsOwn, BatchIsOwn, NoEvents
<1> QED
  BY <1>3, <1>4, <1>5 DEF Streams

\* Only a restart attaches an agent that was there before.
LEMMA AttachedIsNew ==
  ASSUME IInv, [Next]_vars, ~Restart, NEW r \in Runs, agent[r] # "none",
         IsCurrent(r)', r[1] \in attached'
  PROVE  IsCurrent(r) /\ r[1] \in attached
<1>0. IsCurrent(r)
  BY CurrentIsNew
<1>1. CASE UNCHANGED <<phase, attempt, count, attached, orphaned, agents, crashes>>
  BY <1>0, <1>1
<1>2. CASE \E settled, next : Reconciled(settled, next)
  BY <1>0, <1>2 DEF Reconciled, IsCurrent
<1>3. CASE \E i \in Items : RetryStep(i)
  <2>1. PICK i \in Items : RetryStep(i)
    BY <1>3
  <2>2. r[2] = attempt'[r[1]]
    BY DEF IsCurrent
  <2> QED
    BY <1>0, <2>1, <2>2 DEF RetryStep, Superseded
<1>4. CASE \E s \in Runs : AgentEnds(s)
  BY <1>0, <1>4 DEF AgentEnds, controller
<1> QED
  BY <1>1, <1>2, <1>3, <1>4, StepKinds

\* What the controller does to a run keeps what its stream has on its way true.
LEMMA ControlKeepsStreams ==
  ASSUME IInv, [Next]_vars, ~Restart, UNCHANGED <<streams, queue, tables>>
  PROVE  ThreadsAreKnown' /\ FeedIsOwn' /\ QueueIsOwn'
<1>1. /\ ThreadsAreKnown /\ FeedIsOwn /\ QueueIsOwn
      /\ UNCHANGED <<thread, source, feed, queue, consumed, threads>>
      /\ queue \in Seq(Runs \X (Streamed \cup {"end"}))
  BY DEF IInv, TypeOK, streams, tables
<1>2. \A r \in Runs : /\ Past(r) => Past(r)'
                      /\ IsCurrent(r) => IsCurrent(r)' \/ Past(r)'
                      /\ agent[r] # "none" => agent'[r] # "none"
                      /\ Failed(r) => Failed(r)'
  BY PastStays, AgentsOnlyEnd DEF Failed
<1>3. ThreadsAreKnown'
  <2> SUFFICES ASSUME NEW r \in Runs, thread'[r] # "none"
               PROVE  /\ agent'[r] # "none"
                      /\ IsCurrent(r)' /\ r[1] \in attached' => r \in consumed' \cup threads'
                      /\ thread'[r] = "streaming" => source'[r] = r \/ Past(r)'
                      /\ thread'[r] = "putting" => feed'[r] # <<>>
    BY DEF ThreadsAreKnown
  <2>1. /\ agent[r] # "none"
        /\ IsCurrent(r) /\ r[1] \in attached => r \in consumed \cup threads
        /\ thread[r] = "streaming" => source[r] = r \/ Past(r)
        /\ thread[r] = "putting" => feed[r] # <<>>
    BY <1>1 DEF ThreadsAreKnown
  <2>2. IsCurrent(r)' /\ r[1] \in attached' => r \in consumed \cup threads
    BY <2>1, AttachedIsNew
  <2> QED
    BY <1>1, <1>2, <2>1, <2>2
<1>4. FeedIsOwn'
  BY <1>1, <1>2 DEF FeedIsOwn
<1>5. QueueIsOwn'
  <2>1. \A n \in DOMAIN queue : queue[n][1] \in Runs
    BY <1>1
  <2> SUFFICES ASSUME NEW n \in DOMAIN queue, queue[n][2] \in Failing
               PROVE  Past(queue[n][1])' \/ Failed(queue[n][1])'
    BY <1>1 DEF QueueIsOwn
  <2>2. Past(queue[n][1]) \/ Failed(queue[n][1])
    BY <1>1 DEF QueueIsOwn
  <2> QED
    BY <1>1, <1>2, <2>1, <2>2 DEF Past, Failed
<1> QED
  BY <1>3, <1>4, <1>5

\* A retry keeps them, and drops the events kept for its item.
LEMMA RetryKeepsStreams ==
  ASSUME IInv, [Next]_vars, NEW i \in Items, RetryStep(i),
         batch' = [batch EXCEPT ![i] = <<>>], reported' \subseteq Runs
  PROVE  TypeOK' /\ Streams'
<1>1. /\ TypeOK /\ BatchIsOwn /\ Superseded(i) /\ ~Restart
      /\ UNCHANGED <<streams, queue, tables>> /\ pc' = pc
      /\ UNCHANGED <<consumed, threads, started, expired, thread, source, feed>>
  BY DEF IInv, RetryStep, Restart, streams, tables
<1>2. /\ \A j \in Items : j # i => /\ phase'[j] = phase[j] /\ attempt'[j] = attempt[j]
                                   /\ batch'[j] = batch[j]
      /\ batch'[i] = <<>> /\ batch' \in [Items -> Seq(Events)]
  BY <1>1 DEF Superseded, TypeOK
<1>3. TypeOK'
  <2>1. attempt' \in [Items -> 1..MaxRuns]
    BY <1>1 DEF Superseded, TypeOK
  <2>2. phase' \in [Items -> {"waiting", "active", "settled"}] /\ attached' \subseteq Items
    BY <1>1 DEF Superseded, TypeOK
  <2> QED
    BY <1>1, <1>2, <2>1, <2>2 DEF TypeOK, Superseded
<1>4. ThreadsAreKnown' /\ FeedIsOwn' /\ QueueIsOwn'
  BY <1>1, ControlKeepsStreams
<1>5. BatchIsOwn'
  <2> SUFFICES ASSUME NEW j \in Items
               PROVE  /\ batch'[j] # <<>> => pc # "start" /\ phase'[j] = "active"
                      /\ \A n \in DOMAIN batch'[j] :
                           batch'[j][n] \in Failing =>
                             Failed(Run(j))' \/ (pc = "observe" /\ Run(j)' \in expired)
    BY <1>1 DEF BatchIsOwn
  <2>1. CASE j = i
    BY <1>2, <2>1
  <2>2. CASE j # i
    <3>1. Run(j)' = Run(j) /\ Run(j) \in Runs
      BY <1>1, <1>2, <2>2, CurrentFacts DEF Run
    <3>2. Failed(Run(j)) => Failed(Run(j))'
      BY <3>1, AgentsOnlyEnd DEF Failed
    <3> QED
      BY <1>1, <1>2, <2>2, <3>1, <3>2 DEF BatchIsOwn
  <2> QED
    BY <2>1, <2>2
<1> QED
  BY <1>3, <1>4, <1>5 DEF Streams

LEMMA ObserveStep ==
  ASSUME IInv, NEW i \in Items, Observe(i)
  PROVE  TypeOK' /\ Streams'
<1>1. TypeOK /\ BatchIsOwn /\ ObservedOutcome(i) /\ [Next]_vars
  BY ObserveFacts DEF IInv, Next, RunOnce
<1>2. /\ pc = "observe" /\ phase[i] = "active" /\ batch' = [batch EXCEPT ![i] = <<>>]
      /\ UNCHANGED <<streams, queue, tables, pc, crashes>>
      /\ Run(i) \in Runs /\ reported \subseteq Runs
      /\ reported' = reported \/ reported' = reported \cup {Run(i)}
  BY <1>1, CurrentFacts DEF ObservedOutcome, TypeOK, controller
<1>3. CASE Superseded(i)
  BY <1>1, <1>2, <1>3, RetryKeepsStreams DEF RetryStep
<1>4. CASE UNCHANGED <<phase, attempt, count, attached, orphaned, agents>>
  <2>1. UNCHANGED <<agent, output, thread, source, feed, consumed, threads, started, expired>>
    BY <1>2, <1>4 DEF agents, streams, tables
  <2>2. /\ batch' \in [Items -> Seq(Events)] /\ batch'[i] = <<>>
        /\ \A j \in Items : j # i => batch'[j] = batch[j]
    BY <1>1, <1>2 DEF TypeOK
  <2>3. TypeOK'
    BY <1>1, <1>2, <1>4, <2>1, <2>2 DEF TypeOK
  <2>4. BatchIsOwn'
    BY <1>1, <1>2, <1>4, <2>1, <2>2 DEF BatchIsOwn, Failed, Run
  <2> QED
    BY <1>2, <1>4, <2>1, <2>3, <2>4
    DEF IInv, Streams, ThreadsAreKnown, FeedIsOwn, QueueIsOwn, IsCurrent, Past, Failed
<1> QED
  BY <1>1, <1>3, <1>4 DEF ObservedOutcome, controller

LEMMA OperatorStep ==
  ASSUME IInv, NEW i \in Items, OperatorRetry(i)
  PROVE  TypeOK' /\ Streams'
<1>1. /\ TypeOK /\ BatchIsOwn /\ [Next]_vars /\ RetryStep(i) /\ pc = "start"
      /\ batch' = batch /\ reported' = reported
  BY OperatorFacts DEF IInv, Next, RetryStep
<1>2. batch[i] = <<>>
  BY <1>1 DEF BatchIsOwn
<1>3. batch' = [batch EXCEPT ![i] = <<>>] /\ reported' \subseteq Runs
  BY <1>1, <1>2 DEF TypeOK
<1> QED
  BY <1>1, <1>3, RetryKeepsStreams

LEMMA ReconcileStep ==
  ASSUME IInv, Reconcile
  PROVE  TypeOK' /\ Streams'
<1>1. PICK settled, next : Reconciled(settled, next)
  BY ReconcileFacts DEF IInv
<1>2. /\ TypeOK /\ ThreadsAreKnown /\ [Next]_vars /\ ~Restart
      /\ pc' = "start" /\ batch = NoEvents /\ batch' = batch
      /\ UNCHANGED <<streams, queue, tables, attempt, count, orphaned, reported, output>>
  BY <1>1 DEF IInv, Next, RunOnce, Reconciled, Restart
<1>3. TypeOK'
  <2>1. phase' \in [Items -> {"waiting", "active", "settled"}] /\ attached' \subseteq Items
    BY <1>1, <1>2 DEF Reconciled, TypeOK
  <2> QED
    BY <1>1, <1>2, <2>1 DEF Reconciled, TypeOK, streams, tables
<1>5. ThreadsAreKnown' /\ FeedIsOwn' /\ QueueIsOwn'
  BY <1>2, ControlKeepsStreams
<1>6. BatchIsOwn'
  BY <1>2 DEF BatchIsOwn, NoEvents
<1> QED
  BY <1>3, <1>5, <1>6 DEF Streams

LEMMA AgentEndsStep ==
  ASSUME IInv, NEW s \in Runs, AgentEnds(s)
  PROVE  TypeOK' /\ Streams'
<1>1. /\ TypeOK /\ BatchIsOwn /\ [Next]_vars /\ ~Restart
      /\ UNCHANGED <<streams, queue, tables, phase, attempt, count, attached, orphaned, reported, pc, batch>>
  <2>1. /\ UNCHANGED <<streams, queue, tables, phase, attempt, count, attached, orphaned, reported, pc, batch>>
        /\ crashes' = crashes
    BY DEF AgentEnds, controller
  <2>2. ~Restart
    BY <2>1 DEF Restart, IInv
  <2>3. Next
    BY DEF Next
  <2> QED
    BY <2>1, <2>2, <2>3 DEF IInv
<1>2. PICK events \in Outcomes : output' = [output EXCEPT ![s] = events]
  BY DEF AgentEnds
<1>3. TypeOK'
  BY <1>1, <1>2 DEF AgentEnds, TypeOK, streams, tables
<1>4. ThreadsAreKnown' /\ FeedIsOwn' /\ QueueIsOwn'
  BY <1>1, ControlKeepsStreams DEF IsCurrent
<1>5. BatchIsOwn'
  <2>1. \A j \in Items : Run(j)' = Run(j) /\ (Failed(Run(j)) => Failed(Run(j))')
    <3> SUFFICES ASSUME NEW j \in Items
                 PROVE  Run(j)' = Run(j) /\ (Failed(Run(j)) => Failed(Run(j))')
      OBVIOUS
    <3>1. Run(j)' = Run(j) /\ Run(j) \in Runs
      BY <1>1, CurrentFacts DEF Run
    <3> QED
      BY <1>1, <3>1, AgentsOnlyEnd DEF Failed
  <2> QED
    BY <1>1, <2>1 DEF BatchIsOwn, tables
<1> QED
  BY <1>3, <1>4, <1>5 DEF Streams

LEMMA StreamStep ==
  ASSUME IInv, [Next]_vars
  PROVE  TypeOK' /\ Streams' /\ crashes' \in Nat
<1>1. CASE StartStreams \/ Drain \/ CheckTimeouts \/ Reconcile
  <2>1. crashes' = crashes
    BY <1>1 DEF StartStreams, Drain, CheckTimeouts, Reconcile
  <2> QED
    BY <1>1, <2>1, StartStep, DrainStep, TimeoutStep, ReconcileStep DEF IInv
<1>2. CASE \E i \in Items : Observe(i) \/ OperatorRetry(i)
  <2>1. crashes' = crashes
    BY <1>2 DEF Observe, OperatorRetry
  <2> QED
    BY <1>2, <2>1, ObserveStep, OperatorStep DEF IInv
<1>3. CASE Restart
  BY <1>3, RestartStep DEF Restart, IInv
<1>4. ASSUME NEW r \in Runs, StreamThread(r) \/ AgentEnds(r)
      PROVE  TypeOK' /\ Streams' /\ crashes' \in Nat
  <2>1. crashes' = crashes
    BY <1>4 DEF StreamThread, LookUp, Collect, Put, AgentEnds
  <2> QED
    BY <1>4, <2>1, LookUpStep, CollectStep, PutStep, AgentEndsStep DEF StreamThread, IInv
<1>5. ASSUME NEW s \in Runs, Expire(s)
      PROVE  TypeOK' /\ Streams' /\ crashes' \in Nat
  <2>1. /\ s \in started /\ expired' = expired \cup {s}
        /\ UNCHANGED <<phase, attempt, count, attached, orphaned, reported, agent, output, thread, source, feed,
                       queue, consumed, threads, started, pc, batch, crashes>>
    BY <1>5 DEF Expire, controller, agents, streams
  <2>2. TypeOK'
    BY <2>1 DEF IInv, TypeOK
  <2> QED
    BY <2>1, <2>2 DEF IInv, Streams, ThreadsAreKnown, FeedIsOwn, QueueIsOwn, BatchIsOwn,
                      IsCurrent, Past, Failed, Run
<1>6. CASE UNCHANGED vars
  <2>1. UNCHANGED <<phase, attempt, count, attached, orphaned, reported, agent, output, thread, source, feed,
                    queue, consumed, threads, started, expired, pc, batch, crashes>>
    BY <1>6 DEF vars, controller, agents, streams, tables
  <2>2. TypeOK'
    BY <2>1 DEF IInv, TypeOK
  <2> QED
    BY <2>1, <2>2 DEF IInv, Streams, ThreadsAreKnown, FeedIsOwn, QueueIsOwn, BatchIsOwn,
                      IsCurrent, Past, Failed, Run
<1> QED
  BY <1>1, <1>2, <1>3, <1>4, <1>5, <1>6 DEF Next, RunOnce

-----------------------------------------------------------------------------
(* The theorems.                                                           *)

LEMMA Initially == Init => IInv
<1> SUFFICES ASSUME Init PROVE IInv
  OBVIOUS
<1>1. PICK first \in SUBSET Items :
        /\ phase = [i \in Items |-> IF i \in first THEN "active" ELSE "waiting"]
        /\ agent = [r \in Runs |-> IF r \in first \X {1} THEN "running" ELSE "none"]
        /\ attached = first
  BY DEF Init
<1>2. /\ attempt = [i \in Items |-> 1] /\ count = [i \in Items |-> 1]
      /\ orphaned = {} /\ reported = {}
      /\ output = [r \in Runs |-> <<>>] /\ thread = [r \in Runs |-> "none"]
      /\ source = [r \in Runs |-> r] /\ feed = [r \in Runs |-> <<>>] /\ queue = <<>>
      /\ consumed = {} /\ threads = {} /\ started = {} /\ expired = {}
      /\ pc = "start" /\ batch = NoEvents /\ crashes = 0
  BY DEF Init
<1>3. /\ \A r \in Runs : r[1] \in Items /\ r[2] \in 1..MaxRuns /\ r = <<r[1], r[2]>>
      /\ \A r \in Runs : r[2] \in Nat /\ r[2] >= 1
      /\ \A r \in Runs : r \in first \X {1} <=> r[1] \in first /\ r[2] = 1
      /\ 1 \in 1..MaxRuns
  BY RunFacts, SupervisorAssumption
<1>4. TypeOK
  <2>1. <<>> \in Seq(Streamed \cup {"end"}) /\ <<>> \in Seq(Events)
        /\ <<>> \in Seq(Runs \X (Streamed \cup {"end"}))
    OBVIOUS
  <2>2. /\ phase \in [Items -> {"waiting", "active", "settled"}]
        /\ agent \in [Runs -> {"none", "running", "ended"}] /\ attached \subseteq Items
    BY <1>1
  <2>3. /\ attempt \in [Items -> 1..MaxRuns] /\ count \in [Items -> 1..MaxRuns]
        /\ source \in [Runs -> Runs]
        /\ output \in [Runs -> Outcomes \cup {<<>>, <<"failed">>}]
        /\ thread \in [Runs -> {"none", "starting", "streaming", "putting", "done"}]
    BY <1>2, <1>3
  <2>4. feed \in [Runs -> Seq(Streamed \cup {"end"})] /\ batch \in [Items -> Seq(Events)]
    BY <1>2, <2>1 DEF NoEvents
  <2> QED
    BY <1>2, <2>1, <2>2, <2>3, <2>4 DEF TypeOK
<1>5. OneAgentPerItem /\ RunningIsCurrent /\ CurrentStarted /\ DetachedIsOrphaned
  <2>1. \A r \in Runs : /\ agent[r] = IF r[1] \in first /\ r[2] = 1 THEN "running" ELSE "none"
                        /\ phase[r[1]] = IF r[1] \in first THEN "active" ELSE "waiting"
                        /\ attempt[r[1]] = 1
    BY <1>1, <1>2, <1>3
  <2> QED
    BY <1>1, <1>3, <2>1
    DEF OneAgentPerItem, RunningIsCurrent, CurrentStarted, DetachedIsOrphaned, IsCurrent
<1>6. ThreadsAreKnown /\ FeedIsOwn /\ QueueIsOwn /\ BatchIsOwn
  BY <1>2 DEF ThreadsAreKnown, FeedIsOwn, QueueIsOwn, BatchIsOwn, NoEvents
<1> QED
  BY <1>2, <1>4, <1>5, <1>6 DEF IInv

LEMMA Inductive == IInv /\ [Next]_vars => IInv'
BY AgentStep, StreamStep DEF IInv, Streams, AgentInv

THEOREM Invariance == Spec => []IInv
BY Initially, Inductive, PTL DEF Spec

\* Every variable has its type; what has a start time has a thread in the tables
\* (_stream_started_at, _stream_threads), and only that can time out.
THEOREM TypeCorrect == Spec => []TypeOK
<1>1. IInv => TypeOK
  BY DEF IInv
<1> QED
  BY <1>1, Invariance, PTL

\* Whatever the order of exits, time-outs, crashes and retries, the operator's among
\* them: of two agents at work on an item one was logged as runtime.orphaned, which
\* controller.retry cannot cancel (rehydrate, retry).
THEOREM OneAgent == Spec => []OneAgentPerItem
<1>1. IInv => OneAgentPerItem
  BY DEF IInv
<1> QED
  BY <1>1, Invariance, PTL

\* While the process lives StartStreams never starts a second thread for a run; one
\* that a restart reattached is read again (_start_streams, _consumed_runs).
THEOREM StreamsReadOnce == Spec => EachStreamConsumedOnce
<1>1. ASSUME IInv, [Next]_vars
      PROVE  [\A r \in Runs : thread[r] \in {"streaming", "putting", "done"} =>
                thread'[r] # "starting"]_vars
  <2>1. SUFFICES ASSUME NEW r \in Runs, thread[r] \in {"streaming", "putting", "done"}
                 PROVE  thread'[r] # "starting"
    OBVIOUS
  <2>2. CASE StartStreams
    BY <1>1, <2>1, <2>2, StartStep
  <2>3. CASE \/ Drain \/ CheckTimeouts \/ Reconcile \/ UNCHANGED vars
             \/ \E i \in Items : Observe(i) \/ OperatorRetry(i)
    BY <2>1, <2>3 DEF Drain, CheckTimeouts, Reconcile, Observe, OperatorRetry, vars, streams
  <2>4. CASE Restart
    BY <2>1, <2>4 DEF Restart
  <2>5. ASSUME NEW s \in Runs, StreamThread(s) \/ AgentEnds(s) \/ Expire(s)
        PROVE  thread'[r] # "starting"
    BY <1>1, <2>1, <2>5 DEF StreamThread, LookUp, Collect, Put, AgentEnds, Expire, streams, IInv, TypeOK
  <2> QED
    BY <1>1, <2>2, <2>3, <2>4, <2>5 DEF Next, RunOnce
<1> QED
  BY <1>1, Invariance, PTL DEF Spec, EachStreamConsumedOnce

\* What observe_runtime_events reports as the failure of a run was in the stream of
\* its own agent, or its own time-out passed.
THEOREM FailuresAreOwn == Spec => FailsForItself
<1>1. ASSUME IInv, [Next]_vars
      PROVE  [\A r \in reported' \ reported :
                r \in expired \/ \E n \in DOMAIN output[r] : output[r][n] \in Failing]_vars
  <2>1. SUFFICES ASSUME NEW r \in reported' \ reported
                 PROVE  r \in expired \/ \E n \in DOMAIN output[r] : output[r][n] \in Failing
    OBVIOUS
  <2>2. PICK i \in Items : Observe(i)
    <3>1. /\ ~Quiet /\ ~Reconcile /\ ~Restart /\ \A s \in Runs : ~AgentEnds(s)
          /\ \A i \in Items : ~OperatorRetry(i)
      BY <2>1 DEF Quiet, Reconcile, Restart, AgentEnds, OperatorRetry, controller
    <3> QED
      BY <1>1, <3>1, QuietSteps
  <2>3. r = Run(i) /\ \E n \in DOMAIN batch[i] : batch[i][n] \in Failing
    BY <1>1, <2>1, <2>2, ObserveFacts DEF ObservedOutcome, IInv, controller
  <2> QED
    BY <1>1, <2>3 DEF IInv, BatchIsOwn, Failed
<1> QED
  BY <1>1, Invariance, PTL DEF Spec, FailsForItself

\* run_once never supersedes a run whose stream was read to its end without a failure:
\* its time-out was forgotten with its thread.
THEOREM CompletionIsKept == Spec => ReadCompletionIsKept
<1>1. ASSUME IInv, [Next]_vars
      PROVE  [RunOnce => \A i \in Active :
                Run(i) \in consumed \ threads /\ output[Run(i)] = <<"completed">> =>
                  attempt'[i] = attempt[i] /\ phase'[i] # "waiting"]_vars
  <2>1. SUFFICES ASSUME RunOnce, NEW i \in Active, Run(i) \in consumed \ threads,
                        output[Run(i)] = <<"completed">>
                 PROVE  attempt'[i] = attempt[i] /\ phase'[i] # "waiting"
    OBVIOUS
  <2>2. i \in Items /\ phase[i] = "active"
    BY DEF Active
  <2>3. CASE StartStreams \/ Drain \/ CheckTimeouts
    BY <2>2, <2>3 DEF StartStreams, Drain, CheckTimeouts, controller
  <2>4. CASE Reconcile
    BY <1>1, <2>2, <2>4, ReconcileFacts DEF Reconciled, IInv
  <2>5. ASSUME NEW j \in Items, Observe(j)
        PROVE  attempt'[i] = attempt[i] /\ phase'[i] # "waiting"
    <3>1. ObservedOutcome(j)
      BY <1>1, <2>5, ObserveFacts DEF IInv
    <3>2. CASE j = i
      <4>1. Run(i) \notin expired
        BY <1>1, <2>1 DEF IInv, TypeOK
      <4>2. ~Failed(Run(i))
        BY <2>1 DEF Failed, Failing
      <4>3. ~ \E n \in DOMAIN batch[i] : batch[i][n] \in Failing
        BY <1>1, <2>2, <4>1, <4>2 DEF IInv, BatchIsOwn
      <4> QED
        BY <2>2, <3>1, <3>2, <4>3 DEF ObservedOutcome, controller
    <3>3. CASE j # i
      BY <1>1, <2>2, <3>1, <3>3 DEF ObservedOutcome, Superseded, IInv, TypeOK, controller
    <3> QED
      BY <3>2, <3>3
  <2> QED
    BY <2>1, <2>3, <2>4, <2>5 DEF RunOnce
<1> QED
  BY <1>1, Invariance, PTL DEF Spec, ReadCompletionIsKept

-----------------------------------------------------------------------------
(* No attempt is lost while the process lives.                             *)

\* A failure is about to be observed for the run.
FailureKept(r) == \E n \in DOMAIN batch[r[1]] : batch[r[1]][n] \in Failing

\* The failure of a run has got somewhere between its thread and the record of it.
FailureOnItsWay(r) ==
  \/ r \in reported
  \/ FailureKept(r)
  \/ \E n \in DOMAIN queue : queue[n][1] = r /\ queue[n][2] \in Failing
  \/ \E n \in DOMAIN feed[r] : feed[r][n] \in Failing

\* A thread feeds its sentinel last.
FeedEnds ==
  \A r \in Runs :
    /\ thread[r] # "putting" => feed[r] = <<>>
    /\ \A n \in DOMAIN feed[r] : feed[r][n] = "end" <=> n = Len(feed[r])

\* Nothing of a run is in the queue behind its sentinel, or comes after it.
QueueEnds ==
  \A n \in DOMAIN queue :
    /\ thread[queue[n][1]] \in {"putting", "done"}
    /\ queue[n][2] = "end" =>
         /\ thread[queue[n][1]] = "done"
         /\ \A m \in DOMAIN queue : n < m => queue[m][1] # queue[n][1]

\* What is in the tables has, or had, a thread.
ThreadsFirst == \A r \in consumed \cup threads : thread[r] # "none"

\* A stream has a content once its agent ended.
OutputIsFinal == \A r \in Runs : output[r] # <<>> => agent[r] = "ended"

\* What was read of an active run is on its way, and it is consumed only once it
\* completed or its failure is about to be observed.
IsFollowed(r) ==
  /\ r[1] \in attached
  /\ agent[r] = "ended" => output[r] # <<>>
  /\ thread[r] \in {"putting", "done"} =>
       agent[r] = "ended" /\ (output[r] = <<"completed">> \/ FailureOnItsWay(r))
  /\ r \in consumed => r \in reported \/ FailureKept(r) \/ output[r] = <<"completed">>

CurrentIsFollowed == crashes = 0 => \A r \in Runs : IsCurrent(r) => IsFollowed(r)

FollowInv == IInv /\ FeedEnds /\ QueueEnds /\ ThreadsFirst /\ OutputIsFinal /\ CurrentIsFollowed

\* A stream that ended and is not a completion holds a failure.
LEMMA FailureInOutput ==
  ASSUME NEW o \in Outcomes \cup {<<>>, <<"failed">>}, o # <<>>, o # <<"completed">>
  PROVE  1 \in DOMAIN o /\ o[1] \in Failing
<1>1. <<"failed">>[1] \in Failing /\ 1 \in DOMAIN <<"failed">>
  BY DEF Failing
<1>2. <<"failed", "failed">>[1] \in Failing /\ 1 \in DOMAIN <<"failed", "failed">>
  BY DEF Failing
<1>3. <<"rejected", "completed">>[1] \in Failing /\ 1 \in DOMAIN <<"rejected", "completed">>
  BY DEF Failing
<1> QED
  BY <1>1, <1>2, <1>3, Zenon DEF Outcomes

Shape == FeedEnds /\ QueueEnds /\ ThreadsFirst

LEMMA StartShape ==
  ASSUME FollowInv, StartStreams
  PROVE  Shape'
<1> DEFINE new == {Run(i) : i \in {j \in Active \cap attached : Unread(Run(j))}}
<1>1. /\ thread' = [r \in Runs |-> IF r \in new THEN "starting" ELSE thread[r]]
      /\ threads' = threads \cup new
      /\ UNCHANGED <<feed, queue, consumed>>
  BY DEF StartStreams
<1>2. \A r \in new : r \in Runs /\ thread[r] = "none"
  <2>1. \A r \in new : /\ r \in Runs /\ IsCurrent(r) /\ r[1] \in attached
                       /\ r \notin consumed /\ r \notin threads
    BY CurrentFacts DEF Unread, Active, IsCurrent, FollowInv, IInv
  <2> QED
    BY <2>1 DEF FollowInv, IInv, ThreadsAreKnown
<1> HIDE DEF new
<1>3. FeedEnds'
  BY <1>1, <1>2 DEF FollowInv, FeedEnds
<1>4. ThreadsFirst'
  <2>1. consumed \cup threads \subseteq Runs
    BY DEF FollowInv, IInv, TypeOK
  <2> QED
    BY <1>1, <1>2, <2>1 DEF FollowInv, ThreadsFirst
<1>5. QueueEnds'
  <2>1. \A n \in DOMAIN queue : queue[n][1] \in Runs
    BY DEF FollowInv, IInv, TypeOK
  <2>2. \A n \in DOMAIN queue : thread'[queue[n][1]] = thread[queue[n][1]]
    BY <1>1, <1>2, <2>1 DEF FollowInv, QueueEnds
  <2> QED
    BY <1>1, <2>2 DEF FollowInv, QueueEnds
<1> QED
  BY <1>3, <1>4, <1>5 DEF Shape

LEMMA DrainShape ==
  ASSUME FollowInv, Drain
  PROVE  Shape'
<1> DEFINE q == Head(queue)
<1>1. /\ queue # <<>> /\ queue' = Tail(queue) /\ UNCHANGED <<thread, feed>>
      /\ \/ q[2] = "end" /\ consumed' = consumed \cup {q[1]} /\ threads' = threads \ {q[1]}
         \/ UNCHANGED <<consumed, threads>>
  BY DEF Drain, Forget, streams, tables
<1>2. queue \in Seq(Runs \X (Streamed \cup {"end"}))
  BY DEF FollowInv, IInv, TypeOK
<1>3. /\ q = queue[1] /\ 1 \in DOMAIN queue
      /\ \A n \in DOMAIN Tail(queue) : n + 1 \in DOMAIN queue /\ Tail(queue)[n] = queue[n + 1]
      /\ \A n \in DOMAIN Tail(queue) : n \in Nat
  BY <1>1, <1>2
<1>4. thread[q[1]] # "none"
  BY <1>3 DEF FollowInv, QueueEnds
<1> HIDE DEF q
<1>5. ThreadsFirst'
  BY <1>1, <1>4 DEF FollowInv, ThreadsFirst
<1>6. QueueEnds'
  <2> SUFFICES ASSUME NEW n \in DOMAIN Tail(queue)
               PROVE  LET e == Tail(queue)[n] IN
                      /\ thread[e[1]] \in {"putting", "done"}
                      /\ e[2] = "end" =>
                           /\ thread[e[1]] = "done"
                           /\ \A m \in DOMAIN Tail(queue) : n < m => Tail(queue)[m][1] # e[1]
    BY <1>1 DEF QueueEnds
  <2>1. \A m \in DOMAIN Tail(queue) : n < m => n + 1 < m + 1
    BY <1>3
  <2> QED
    BY <1>3, <2>1 DEF FollowInv, QueueEnds
<1> QED
  BY <1>1, <1>5, <1>6 DEF Shape, FollowInv, FeedEnds

\* What is read of a stream whose first events were lost.
Rest(o, lost) == SubSeq(o, lost + 1, Len(o)) \o <<"end">>

LEMMA ThreadShape ==
  ASSUME FollowInv, NEW r \in Runs, LookUp(r) \/ Collect(r)
  PROVE  Shape'
<1>1. /\ thread[r] \in {"starting", "streaming"} /\ UNCHANGED <<queue, consumed, threads>>
      /\ thread' = [thread EXCEPT ![r] = thread'[r]]
      /\ thread'[r] \in {"streaming", "putting"}
  BY DEF LookUp, Collect, FollowInv, IInv, TypeOK, tables
<1>2. \/ feed' = feed /\ thread'[r] = "streaming"
      \/ feed' = [feed EXCEPT ![r] = <<"failed", "end">>] /\ thread'[r] = "putting"
      \/ \E s \in Runs : \E lost \in 0..Len(output[s]) :
           /\ feed' = [feed EXCEPT ![r] = Rest(output[s], lost)]
           /\ thread'[r] = "putting"
  BY DEF LookUp, Collect, FollowInv, IInv, TypeOK, Rest
<1>3. /\ \A s \in Runs : s # r => thread'[s] = thread[s] /\ feed'[s] = feed[s]
      /\ thread'[r] = "streaming" => feed'[r] = feed[r]
      /\ \A n \in DOMAIN feed'[r] : feed'[r][n] = "end" <=> n = Len(feed'[r])
  <2>0. thread \in [Runs -> {"none", "starting", "streaming", "putting", "done"}]
        /\ feed \in [Runs -> Seq(Streamed \cup {"end"})]
    BY DEF FollowInv, IInv, TypeOK
  <2>1. \A s \in Runs : s # r => thread'[s] = thread[s] /\ feed'[s] = feed[s]
    BY <1>1, <1>2, <2>0
  <2>2. \A n \in DOMAIN <<"failed", "end">> :
          <<"failed", "end">>[n] = "end" <=> n = Len(<<"failed", "end">>)
    OBVIOUS
  <2>3. ASSUME NEW s \in Runs, NEW lost \in 0..Len(output[s])
        PROVE  \A n \in DOMAIN Rest(output[s], lost) :
                 Rest(output[s], lost)[n] = "end" <=> n = Len(Rest(output[s], lost))
    <3>1. output[s] \in Outcomes \cup {<<>>, <<"failed">>}
      BY DEF FollowInv, IInv, TypeOK
    <3> QED
      BY <3>1, OutcomeFacts DEF Rest
  <2>4. CASE feed' = feed /\ thread'[r] = "streaming"
    BY <2>1, <2>4 DEF FollowInv, FeedEnds
  <2>5. CASE feed' = [feed EXCEPT ![r] = <<"failed", "end">>] /\ thread'[r] = "putting"
    <3>1. feed'[r] = <<"failed", "end">>
      BY <2>0, <2>5
    <3> QED
      BY <2>1, <2>2, <2>5, <3>1
  <2>6. ASSUME NEW s \in Runs, NEW lost \in 0..Len(output[s]),
               feed' = [feed EXCEPT ![r] = Rest(output[s], lost)], thread'[r] = "putting"
        PROVE  /\ thread'[r] = "streaming" => feed'[r] = feed[r]
               /\ \A n \in DOMAIN feed'[r] : feed'[r][n] = "end" <=> n = Len(feed'[r])
    <3>1. feed'[r] = Rest(output[s], lost)
      BY <2>0, <2>6
    <3> QED
      BY <2>3, <2>6, <3>1
  <2> QED
    BY <1>2, <2>1, <2>4, <2>5, <2>6
<1>4. FeedEnds'
  BY <1>1, <1>3 DEF FollowInv, FeedEnds
<1>5. ThreadsFirst'
  <2>1. consumed \cup threads \subseteq Runs
    BY DEF FollowInv, IInv, TypeOK
  <2> QED
    BY <1>1, <1>3, <2>1 DEF FollowInv, ThreadsFirst
<1>6. QueueEnds'
  <2>1. \A n \in DOMAIN queue : queue[n][1] \in Runs
    BY DEF FollowInv, IInv, TypeOK
  <2>2. \A n \in DOMAIN queue : thread'[queue[n][1]] = thread[queue[n][1]]
    BY <1>1, <1>3, <2>1 DEF FollowInv, QueueEnds
  <2> QED
    BY <1>1, <2>2 DEF FollowInv, QueueEnds
<1> QED
  BY <1>4, <1>5, <1>6 DEF Shape

\* What a thread puts, and what it keeps.
PutOutcome(r) ==
  LET f == feed[r] IN
  /\ thread[r] = "putting" /\ f # <<>> /\ f[1] \in Streamed \cup {"end"}
  /\ 1 \in DOMAIN f /\ \A n \in DOMAIN f : n = 1 \/ n - 1 \in DOMAIN Tail(f)
  /\ \A n \in DOMAIN Tail(f) : n + 1 \in DOMAIN f /\ Tail(f)[n] = f[n + 1]
  /\ Tail(f) = <<>> <=> Len(f) = 1
  /\ Len(Tail(f)) = Len(f) - 1 /\ Len(f) \in Nat
  /\ feed'[r] = Tail(f) /\ \A s \in Runs : s # r => feed'[s] = feed[s] /\ thread'[s] = thread[s]
  /\ thread'[r] = IF Tail(f) = <<>> THEN "done" ELSE "putting"
  /\ Len(queue) \in Nat /\ DOMAIN queue = 1..Len(queue)
  /\ DOMAIN queue' = 1..(Len(queue) + 1)
  /\ \A n \in DOMAIN queue : n \in DOMAIN queue' /\ queue'[n] = queue[n]
  /\ queue'[Len(queue) + 1] = <<r, f[1]>>
  /\ UNCHANGED <<phase, attempt, count, attached, orphaned, reported, agent, output, consumed, threads, batch, crashes>>

LEMMA PutFacts ==
  ASSUME FollowInv, NEW r \in Runs, Put(r)
  PROVE  PutOutcome(r)
<1> DEFINE E == Streamed \cup {"end"}
           f == feed[r]
<1>1. /\ thread[r] = "putting"
      /\ queue' = Append(queue, <<r, Head(f)>>)
      /\ feed' = [feed EXCEPT ![r] = Tail(f)]
      /\ thread' = IF Tail(f) = <<>> THEN [thread EXCEPT ![r] = "done"] ELSE thread
      /\ UNCHANGED <<phase, attempt, count, attached, orphaned, reported, agent, output, consumed, threads, batch, crashes>>
  BY DEF Put, FollowInv, IInv, controller, agents, tables, TypeOK
<1>2. /\ f \in Seq(E) /\ f # <<>> /\ queue \in Seq(Runs \X E)
      /\ feed \in [Runs -> Seq(E)]
      /\ thread \in [Runs -> {"none", "starting", "streaming", "putting", "done"}]
  BY <1>1 DEF FollowInv, IInv, ThreadsAreKnown, TypeOK
<1> HIDE DEF E
<1>3. /\ Head(f) = f[1] /\ f[1] \in E /\ 1 \in DOMAIN f /\ Tail(f) \in Seq(E)
      /\ Len(Tail(f)) = Len(f) - 1 /\ Len(f) \in Nat /\ DOMAIN f = 1..Len(f)
      /\ DOMAIN Tail(f) = 1..(Len(f) - 1)
      /\ \A n \in DOMAIN Tail(f) : n + 1 \in DOMAIN f /\ Tail(f)[n] = f[n + 1]
  <2> HIDE DEF f
  <2> QED
    BY <1>2
<1>4. /\ feed'[r] = Tail(f)
      /\ \A s \in Runs : s # r => feed'[s] = feed[s] /\ thread'[s] = thread[s]
      /\ thread'[r] = IF Tail(f) = <<>> THEN "done" ELSE "putting"
  BY <1>1, <1>2
<1>5. Tail(f) = <<>> <=> Len(f) = 1
  <2>1. Len(Tail(f)) = 0 <=> Len(f) = 1
    BY <1>3
  <2>2. ASSUME NEW s \in Seq(E) PROVE s = <<>> <=> Len(s) = 0
    OBVIOUS
  <2> QED
    BY <1>3, <2>1, <2>2
<1>6. /\ Len(queue) \in Nat /\ DOMAIN queue = 1..Len(queue)
      /\ DOMAIN queue' = 1..(Len(queue) + 1)
      /\ \A n \in DOMAIN queue : n \in DOMAIN queue' /\ queue'[n] = queue[n]
      /\ queue'[Len(queue) + 1] = <<r, f[1]>>
  <2>1. queue' = Append(queue, <<r, f[1]>>)
    BY <1>1, <1>3
  <2> HIDE DEF f
  <2> QED
    BY <1>2, <2>1
<1>7. \A n \in DOMAIN f : n = 1 \/ n - 1 \in DOMAIN Tail(f)
  <2>1. ASSUME NEW L \in Nat, NEW n \in 1..L PROVE n = 1 \/ n - 1 \in 1..(L - 1)
    OBVIOUS
  <2> HIDE DEF f
  <2> QED
    BY <1>3, <2>1
<1> HIDE DEF f
<1> QED
  BY <1>1, <1>2, <1>3, <1>4, <1>5, <1>6, <1>7 DEF PutOutcome, E, f

LEMMA PutShape ==
  ASSUME FollowInv, NEW r \in Runs, PutOutcome(r)
  PROVE  Shape'
<1> DEFINE f == feed[r]
           last == Len(queue) + 1
<1>1. PutOutcome(r)
  OBVIOUS
<1>2. ThreadsFirst'
  <2>1. consumed \cup threads \subseteq Runs
    BY DEF FollowInv, IInv, TypeOK
  <2>2. \A s \in Runs : thread[s] # "none" => thread'[s] # "none"
    BY <1>1 DEF PutOutcome
  <2> QED
    BY <1>1, <2>1, <2>2 DEF PutOutcome, FollowInv, ThreadsFirst
<1>3. FeedEnds'
  <2> SUFFICES ASSUME NEW s \in Runs
               PROVE  /\ thread'[s] # "putting" => feed'[s] = <<>>
                      /\ \A n \in DOMAIN feed'[s] : feed'[s][n] = "end" <=> n = Len(feed'[s])
    BY DEF FeedEnds
  <2>1. CASE s = r
    <3>1. thread'[s] # "putting" => feed'[s] = <<>>
      BY <1>1, <2>1 DEF PutOutcome
    <3>2. ASSUME NEW n \in DOMAIN Tail(f) PROVE Tail(f)[n] = "end" <=> n = Len(Tail(f))
      <4>1. n + 1 \in DOMAIN f /\ Tail(f)[n] = f[n + 1] /\ Len(Tail(f)) = Len(f) - 1
        BY <1>1 DEF PutOutcome
      <4>2. f[n + 1] = "end" <=> n + 1 = Len(f)
        BY <4>1 DEF FollowInv, FeedEnds
      <4>3. n \in Nat /\ Len(f) \in Nat
        <5>1. feed[r] \in Seq(Streamed \cup {"end"}) /\ f # <<>>
          BY <1>1 DEF PutOutcome, FollowInv, IInv, TypeOK
        <5>2. Tail(f) \in Seq(Streamed \cup {"end"})
          BY <5>1
        <5> QED
          BY <5>1, <5>2
      <4> QED
        BY <4>1, <4>2, <4>3
    <3> QED
      BY <1>1, <2>1, <3>1, <3>2 DEF PutOutcome
  <2>2. CASE s # r
    <3>1. feed'[s] = feed[s] /\ thread'[s] = thread[s]
      BY <1>1, <2>2 DEF PutOutcome
    <3> QED
      BY <3>1 DEF FollowInv, FeedEnds
  <2> QED
    BY <2>1, <2>2
<1>4. QueueEnds'
  <2>0. /\ \A n \in DOMAIN queue' : n \in DOMAIN queue \/ n = last
        /\ \A n \in DOMAIN queue : ~(last < n) /\ queue'[n] = queue[n]
        /\ ~(last < last)
        /\ queue'[last] = <<r, f[1]>>
    <3>1. /\ Len(queue) \in Nat /\ DOMAIN queue = 1..Len(queue)
          /\ DOMAIN queue' = 1..(Len(queue) + 1)
          /\ \A n \in DOMAIN queue : queue'[n] = queue[n]
          /\ queue'[last] = <<r, f[1]>>
      BY <1>1 DEF PutOutcome
    <3> HIDE DEF f
    <3> QED
      BY <3>1
  <2>1. ASSUME NEW n \in DOMAIN queue
        PROVE  /\ thread'[queue[n][1]] \in {"putting", "done"}
               /\ queue[n][2] = "end" =>
                    /\ thread'[queue[n][1]] = "done"
                    /\ \A m \in DOMAIN queue' : n < m => queue'[m][1] # queue[n][1]
    <3>1. /\ thread[queue[n][1]] \in {"putting", "done"}
          /\ queue[n][2] = "end" =>
               /\ thread[queue[n][1]] = "done"
               /\ \A m \in DOMAIN queue : n < m => queue[m][1] # queue[n][1]
      BY DEF FollowInv, QueueEnds
    <3>2. queue[n][1] \in Runs
      BY DEF FollowInv, IInv, TypeOK
    <3>3. CASE queue[n][1] = r
      BY <1>1, <3>1, <3>3 DEF PutOutcome
    <3>4. CASE queue[n][1] # r
      <4>1. thread'[queue[n][1]] = thread[queue[n][1]]
        BY <1>1, <3>2, <3>4 DEF PutOutcome
      <4>2. queue'[last][1] # queue[n][1]
        BY <2>0, <3>4
      <4> HIDE DEF last
      <4> QED
        BY <2>0, <3>1, <4>1, <4>2
    <3> QED
      BY <3>3, <3>4
  <2>2. /\ thread'[r] \in {"putting", "done"}
        /\ f[1] = "end" => thread'[r] = "done"
    <3>1. f[1] = "end" => Len(f) = 1
      BY <1>1 DEF PutOutcome, FollowInv, FeedEnds
    <3> QED
      BY <1>1, <3>1 DEF PutOutcome
  <2>3. \A m \in DOMAIN queue' : ~(last < m)
    BY <2>0
  <2>4. queue'[last][1] = r /\ queue'[last][2] = f[1]
    BY <2>0
  <2> HIDE DEF last, f
  <2> QED
    BY <2>0, <2>1, <2>2, <2>3, <2>4 DEF QueueEnds
<1> QED
  BY <1>2, <1>3, <1>4 DEF Shape

LEMMA ShapeStep ==
  ASSUME FollowInv, [Next]_vars
  PROVE  Shape'
<1>1. CASE StartStreams \/ Drain
  BY <1>1, StartShape, DrainShape
<1>2. CASE CheckTimeouts
  <2>1. UNCHANGED <<thread, feed, queue, threads>>
        /\ consumed' = consumed \cup (Current \cap expired) /\ expired \subseteq threads
    BY <1>2 DEF CheckTimeouts, streams, FollowInv, IInv, TypeOK
  <2> QED
    BY <2>1 DEF Shape, FollowInv, FeedEnds, QueueEnds, ThreadsFirst
<1>3. CASE \E r \in Runs : StreamThread(r)
  BY <1>3, ThreadShape, PutShape, PutFacts DEF StreamThread
<1>4. CASE Restart
  <2>1. /\ thread' = [r \in Runs |-> "none"] /\ feed' = [r \in Runs |-> <<>>]
        /\ queue' = <<>> /\ consumed' = {} /\ threads' = {}
    BY <1>4 DEF Restart
  <2> QED
    BY <2>1 DEF Shape, FeedEnds, QueueEnds, ThreadsFirst
<1>5. CASE \/ Reconcile \/ (\E i \in Items : Observe(i) \/ OperatorRetry(i)) \/ UNCHANGED vars
           \/ \E r \in Runs : AgentEnds(r) \/ Expire(r)
  <2>1. UNCHANGED <<thread, feed, queue, consumed, threads>>
    BY <1>5 DEF Reconcile, Observe, OperatorRetry, AgentEnds, Expire, vars, streams, tables
  <2> QED
    BY <2>1 DEF Shape, FollowInv, FeedEnds, QueueEnds, ThreadsFirst
<1> QED
  BY <1>1, <1>2, <1>3, <1>4, <1>5 DEF Next, RunOnce

\* A run becomes active without a thread.
LEMMA StaysCurrent ==
  ASSUME FollowInv, [Next]_vars, ~Restart, NEW r \in Runs, IsCurrent(r)', ~IsCurrent(r)
  PROVE  /\ agent[r] = "none" /\ r[1] \in attached' /\ agent'[r] = "running"
         /\ UNCHANGED <<thread, consumed>>
<1>1. IInv /\ TypeOK
  BY DEF FollowInv, IInv
<1>2. agent[r] = "none" /\ r[1] \in attached' /\ agent'[r] = "running"
  BY <1>1, CurrentIsNew
<1>3. ~UNCHANGED agents /\ \A s \in Runs : ~AgentEnds(s)
  BY <1>1, <1>2 DEF agents, AgentEnds, TypeOK
<1>4. CASE \E settled, next : Reconciled(settled, next)
  BY <1>2, <1>4 DEF Reconciled, streams, tables
<1>5. CASE \E i \in Items : RetryStep(i)
  BY <1>2, <1>5 DEF RetryStep, streams, tables
<1> QED
  BY <1>1, <1>3, <1>4, <1>5, StepKinds

\* What the steps of run_once and of the threads do to an active run.
LEMMA DrainFollows ==
  ASSUME FollowInv, Drain, NEW r \in Runs, IsCurrent(r), IsFollowed(r)
  PROVE  IsFollowed(r)'
<1> DEFINE q == Head(queue)
           i == r[1]
<1>1. /\ TypeOK /\ queue # <<>> /\ queue' = Tail(queue)
      /\ UNCHANGED <<attached, reported, agent, output, thread, feed, phase, attempt>>
  BY DEF Drain, FollowInv, IInv, streams, controller, agents
<1>2. /\ q = queue[1] /\ 1 \in DOMAIN queue /\ q[1] \in Runs
      /\ q[2] \in Streamed \cup {"end"}
      /\ \A n \in DOMAIN queue : n = 1 \/ (1 < n /\ n - 1 \in DOMAIN Tail(queue)
                                            /\ Tail(queue)[n - 1] = queue[n])
  <2> DEFINE Q == Runs \X (Streamed \cup {"end"})
  <2>1. queue \in Seq(Q)
    BY <1>1 DEF TypeOK
  <2> HIDE DEF Q
  <2>2. /\ q = queue[1] /\ 1 \in DOMAIN queue /\ q \in Q
        /\ DOMAIN queue = 1..Len(queue) /\ Len(queue) \in Nat
        /\ DOMAIN Tail(queue) = 1..(Len(queue) - 1)
        /\ \A n \in 1..(Len(queue) - 1) : Tail(queue)[n] = queue[n + 1]
    BY <1>1, <2>1
  <2>3. ASSUME NEW n \in DOMAIN queue, n # 1
        PROVE  1 < n /\ n - 1 \in DOMAIN Tail(queue) /\ Tail(queue)[n - 1] = queue[n]
    <3>1. 1 < n /\ n - 1 \in 1..(Len(queue) - 1) /\ n - 1 + 1 = n
      BY <2>2, <2>3
    <3> HIDE DEF q
    <3> QED
      BY <2>2, <3>1
  <2> QED
    BY <2>2, <2>3 DEF Q
<1>3. i \in Items /\ r = Run(i) /\ r \in Current /\ batch[i] \in Seq(Events)
  BY <1>1, RunFacts, CurrentFacts DEF TypeOK
<1>4. FailureKept(r) => FailureKept(r)'
  <2>1. batch' = batch \/ (q[2] \in Events /\ q[1] \in Current
                           /\ batch' = [batch EXCEPT ![q[1][1]] = Append(@, q[2])])
    BY <1>2 DEF Drain, Accepts, Events
  <2> SUFFICES ASSUME NEW n \in DOMAIN batch[i], batch[i][n] \in Failing, batch' # batch
               PROVE  n \in DOMAIN batch'[i] /\ batch'[i][n] = batch[i][n]
    BY DEF FailureKept
  <2>2. batch'[i] = batch[i] \/ (q[2] \in Events /\ batch'[i] = Append(batch[i], q[2]))
    <3>1. batch \in [Items -> Seq(Events)] /\ i \in Items
      BY <1>1, <1>3 DEF TypeOK
    <3> HIDE DEF q, i
    <3> QED
      BY <2>1, <3>1
  <2> HIDE DEF q, i
  <2> QED
    BY <1>3, <2>2
<1>5. q[1] = r /\ q[2] \in Failing => FailureKept(r)'
  <2> SUFFICES ASSUME q[1] = r, q[2] \in Failing PROVE FailureKept(r)'
    OBVIOUS
  <2>1. q[2] # "end" /\ q[2] \in Events
    BY <1>2 DEF Failing, Events
  <2>2. batch' = [batch EXCEPT ![i] = Append(@, q[2])]
    BY <1>3, <2>1 DEF Drain, Accepts
  <2>3. batch'[i] = Append(batch[i], q[2])
    BY <1>1, <1>3, <2>2 DEF TypeOK
  <2> HIDE DEF q, i
  <2>4. Len(batch[i]) + 1 \in DOMAIN batch'[i] /\ batch'[i][Len(batch[i]) + 1] = q[2]
    BY <1>3, <2>1, <2>3
  <2> QED
    BY <2>4 DEF FailureKept, i
<1>6. FailureOnItsWay(r) => FailureOnItsWay(r)'
  <2>1. ASSUME NEW n \in DOMAIN queue, queue[n][1] = r, queue[n][2] \in Failing
        PROVE  FailureOnItsWay(r)'
    <3>1. CASE n = 1
      BY <1>2, <1>5, <2>1, <3>1 DEF FailureOnItsWay
    <3>2. CASE n # 1
      BY <1>1, <1>2, <2>1, <3>2 DEF FailureOnItsWay
    <3> QED
      BY <3>1, <3>2
  <2> QED
    BY <1>1, <1>4, <2>1 DEF FailureOnItsWay
<1>7. ASSUME r \in consumed' \ consumed
      PROVE  r \in reported \/ FailureKept(r)' \/ output[r] = <<"completed">>
  <2>1. q[2] = "end" /\ q[1] = r
    BY <1>7 DEF Drain, tables
  <2>2. thread[r] = "done" /\ \A m \in DOMAIN queue : 1 < m => queue[m][1] # r
    BY <1>2, <2>1 DEF FollowInv, QueueEnds
  <2>3. queue[1][2] \notin Failing
    BY <1>2, <2>1 DEF Failing
  <2>4. feed[r] = <<>>
    BY <2>2 DEF FollowInv, FeedEnds
  <2>5. ~ \E n \in DOMAIN queue : queue[n][1] = r /\ queue[n][2] \in Failing
    BY <1>2, <2>2, <2>3
  <2> QED
    BY <1>4, <2>2, <2>4, <2>5 DEF IsFollowed, FailureOnItsWay
<1> HIDE DEF q, i
<1> QED
  BY <1>1, <1>4, <1>6, <1>7 DEF IsFollowed

LEMMA TimeoutFollows ==
  ASSUME FollowInv, CheckTimeouts, NEW r \in Runs, IsCurrent(r), IsFollowed(r)
  PROVE  IsFollowed(r)'
<1> DEFINE i == r[1]
<1>1. /\ TypeOK
      /\ batch' = [j \in Items |-> IF j \in Active /\ Run(j) \in expired
                                   THEN Append(batch[j], "timeout") ELSE batch[j]]
      /\ consumed' = consumed \cup (Current \cap expired)
      /\ UNCHANGED <<attached, reported, agent, output, thread, feed, queue>>
  BY DEF CheckTimeouts, FollowInv, IInv, controller, agents, streams
<1>2. i \in Items /\ r = Run(i) /\ i \in Active /\ batch[i] \in Seq(Events)
  BY <1>1, RunFacts, CurrentFacts DEF TypeOK, IsCurrent, Active
<1>3. batch'[i] = IF r \in expired THEN Append(batch[i], "timeout") ELSE batch[i]
  BY <1>1, <1>2
<1>4. "timeout" \in Events /\ "timeout" \in Failing
  BY DEF Events, Failing
<1> HIDE DEF i
<1>5. /\ \A n \in DOMAIN batch[i] : n \in DOMAIN batch'[i] /\ batch'[i][n] = batch[i][n]
      /\ r \in expired => Len(batch[i]) + 1 \in DOMAIN batch'[i]
                          /\ batch'[i][Len(batch[i]) + 1] = "timeout"
  BY <1>2, <1>3, <1>4
<1>6. (FailureKept(r) => FailureKept(r)') /\ (r \in expired => FailureKept(r)')
  BY <1>4, <1>5 DEF FailureKept, i
<1> QED
  BY <1>1, <1>6 DEF IsFollowed, FailureOnItsWay

LEMMA PutFollows ==
  ASSUME FollowInv, NEW s \in Runs, PutOutcome(s), NEW r \in Runs, IsCurrent(r), IsFollowed(r)
  PROVE  IsFollowed(r)'
<1>1. PutOutcome(s)
  OBVIOUS
<1>2. FailureKept(r)' <=> FailureKept(r)
  BY <1>1 DEF PutOutcome, FailureKept
<1>3. FailureOnItsWay(r) => FailureOnItsWay(r)'
  <2>1. ASSUME NEW n \in DOMAIN queue, queue[n][1] = r, queue[n][2] \in Failing
        PROVE  FailureOnItsWay(r)'
    BY <1>1, <2>1 DEF PutOutcome, FailureOnItsWay
  <2>2. ASSUME NEW n \in DOMAIN feed[r], feed[r][n] \in Failing
        PROVE  FailureOnItsWay(r)'
    <3>1. CASE r # s
      BY <1>1, <2>2, <3>1 DEF PutOutcome, FailureOnItsWay
    <3>2. CASE r = s /\ n = 1
      <4>1. /\ Len(queue) + 1 \in DOMAIN queue'
            /\ queue'[Len(queue) + 1] = <<s, feed[s][1]>>
        BY <1>1 DEF PutOutcome
      <4> QED
        BY <2>2, <3>2, <4>1 DEF FailureOnItsWay
    <3>3. CASE r = s /\ n # 1
      <4>1. n - 1 \in DOMAIN Tail(feed[s]) /\ feed'[s] = Tail(feed[s])
            /\ Tail(feed[s])[n - 1] = feed[s][n - 1 + 1]
        BY <1>1, <2>2, <3>3 DEF PutOutcome
      <4>2. n - 1 + 1 = n
        <5>1. feed[r] \in Seq(Streamed \cup {"end"})
          BY DEF FollowInv, IInv, TypeOK
        <5> QED
          BY <2>2, <5>1
      <4> QED
        BY <2>2, <3>3, <4>1, <4>2 DEF FailureOnItsWay
    <3> QED
      BY <3>1, <3>2, <3>3
  <2> QED
    BY <1>1, <1>2, <2>1, <2>2 DEF PutOutcome, FailureOnItsWay
<1>4. thread'[r] \in {"putting", "done"} => thread[r] \in {"putting", "done"}
  BY <1>1 DEF PutOutcome
<1> QED
  BY <1>1, <1>2, <1>3, <1>4 DEF PutOutcome, IsFollowed

LEMMA CollectFollows ==
  ASSUME FollowInv, crashes = 0, NEW s \in Runs, Collect(s), NEW r \in Runs, IsCurrent(r),
         IsFollowed(r)
  PROVE  IsFollowed(r)'
<1>1. /\ TypeOK /\ thread[s] = "streaming" /\ agent[source[s]] = "ended"
      /\ thread' = [thread EXCEPT ![s] = "putting"]
      /\ UNCHANGED <<attached, reported, agent, output, queue, consumed, batch>>
  BY DEF Collect, FollowInv, IInv, controller, agents, tables
<1>f. PICK lost \in 0..Len(output[source[s]]) :
        /\ crashes = 0 => lost = 0
        /\ feed' = [feed EXCEPT ![s] = Rest(output[source[s]], lost)]
  BY DEF Collect, Rest
<1>2. CASE r = s
  <2>1. ~Past(r)
    BY DEF Past
  <2>2. source[r] = r
    BY <1>1, <1>2, <2>1 DEF FollowInv, IInv, ThreadsAreKnown
  <2>3. /\ agent[r] = "ended" /\ output[r] # <<>>
        /\ output[r] \in Outcomes \cup {<<>>, <<"failed">>}
        /\ lost \in 0..Len(output[r]) /\ lost = 0 /\ feed'[r] = Rest(output[r], lost)
    BY <1>1, <1>f, <1>2, <2>2 DEF IsFollowed, TypeOK
  <2>4. output[r] # <<"completed">> => \E n \in DOMAIN feed'[r] : feed'[r][n] \in Failing
    <3>1. \A n \in DOMAIN output[r] : n \in DOMAIN feed'[r] /\ feed'[r][n] = output[r][n]
      BY <2>3, OutcomeFacts DEF Rest
    <3> QED
      BY <2>3, <3>1, FailureInOutput
  <2> QED
    BY <1>1, <1>2, <2>3, <2>4 DEF IsFollowed, FailureOnItsWay, FailureKept, TypeOK
<1>3. CASE r # s
  <2>1. thread'[r] = thread[r] /\ feed'[r] = feed[r]
    BY <1>1, <1>f, <1>3 DEF TypeOK
  <2> QED
    BY <1>1, <2>1 DEF IsFollowed, FailureOnItsWay, FailureKept
<1> QED
  BY <1>2, <1>3

\* A retry leaves the runs alone that stay active.
LEMMA SupersedeFollows ==
  ASSUME FollowInv, NEW i \in Items, Superseded(i), NEW r \in Runs,
         IsCurrent(r), IsCurrent(r)'
  PROVE  /\ r[1] # i /\ agent'[r] = agent[r] /\ output'[r] = output[r]
         /\ r[1] \in attached => r[1] \in attached'
<1>1. TypeOK /\ agent[r] # "none" /\ r[1] \in Items
  BY RunFacts DEF FollowInv, IInv, CurrentStarted
<1>2. r[2] = attempt'[r[1]] /\ phase'[r[1]] # "waiting"
  BY DEF IsCurrent
<1>3. r[1] # i
  <2> SUFFICES ASSUME r[1] = i PROVE FALSE
    OBVIOUS
  <2>1. ~(phase' = [phase EXCEPT ![i] = "waiting"])
    BY <1>1, <1>2 DEF TypeOK
  <2> QED
    BY <1>1, <1>2, <2>1 DEF Superseded
<1> QED
  BY <1>3 DEF Superseded

LEMMA ObserveFollows ==
  ASSUME FollowInv, NEW i \in Items, Observe(i), NEW r \in Runs,
         IsCurrent(r), IsCurrent(r)', IsFollowed(r)
  PROVE  IsFollowed(r)'
<1>1. /\ TypeOK /\ BatchIsOwn /\ ObservedOutcome(i)
      /\ UNCHANGED <<thread, feed, queue, consumed>> /\ batch' = [batch EXCEPT ![i] = <<>>]
  BY ObserveFacts DEF Observe, FollowInv, IInv, streams, tables
<1>2. reported \subseteq reported' /\ (FailureKept(r) => r \in reported' \/ FailureKept(r)')
  <2>1. reported \subseteq reported'
    BY DEF Observe, controller
  <2>2. CASE r[1] = i
    <3>1. r = Run(i)
      BY <1>1, <2>2, CurrentFacts
    <3> QED
      BY <2>1, <2>2, <3>1 DEF Observe, FailureKept
  <2>3. CASE r[1] # i
    <3>1. batch'[r[1]] = batch[r[1]]
      BY <1>1, <2>3, RunFacts DEF TypeOK
    <3> QED
      BY <2>1, <3>1 DEF FailureKept
  <2> QED
    BY <2>2, <2>3
<1>3. FailureOnItsWay(r) => FailureOnItsWay(r)'
  BY <1>1, <1>2 DEF FailureOnItsWay
<1>4. agent'[r] = agent[r] /\ output'[r] = output[r] /\ r[1] \in attached'
  <2>1. CASE UNCHANGED <<phase, attempt, count, attached, orphaned, agents>>
    BY <2>1 DEF agents, IsFollowed
  <2>2. CASE Superseded(i)
    BY <2>2, SupersedeFollows DEF IsFollowed
  <2> QED
    BY <1>1, <2>1, <2>2 DEF ObservedOutcome, controller
<1> QED
  BY <1>1, <1>2, <1>3, <1>4 DEF IsFollowed

LEMMA OperatorFollows ==
  ASSUME FollowInv, NEW i \in Items, OperatorRetry(i), NEW r \in Runs,
         IsCurrent(r), IsCurrent(r)', IsFollowed(r)
  PROVE  IsFollowed(r)'
<1>1. Superseded(i) /\ UNCHANGED <<reported, thread, feed, queue, consumed, batch>>
  BY OperatorFacts DEF FollowInv, IInv, streams, tables
<1>2. agent'[r] = agent[r] /\ output'[r] = output[r] /\ r[1] \in attached'
  BY <1>1, SupersedeFollows DEF IsFollowed
<1> QED
  BY <1>1, <1>2 DEF IsFollowed, FailureOnItsWay, FailureKept

LEMMA OutputStep ==
  ASSUME FollowInv, [Next]_vars
  PROVE  OutputIsFinal'
<1>0. IInv /\ TypeOK /\ OutputIsFinal
  BY DEF FollowInv, IInv
<1>1. CASE UNCHANGED agents \/ Restart
  BY <1>0, <1>1 DEF Restart, agents, OutputIsFinal
<1>2. CASE \E settled, next : Reconciled(settled, next)
  BY <1>0, <1>2, AgentsOnlyEnd DEF Reconciled, OutputIsFinal
<1>3. ASSUME NEW s \in Runs, AgentEnds(s)
      PROVE  OutputIsFinal'
  <2>1. PICK events \in Outcomes : output' = [output EXCEPT ![s] = events]
    BY <1>3 DEF AgentEnds
  <2>2. agent' = [agent EXCEPT ![s] = "ended"]
    BY <1>3 DEF AgentEnds
  <2> QED
    BY <1>0, <2>1, <2>2 DEF OutputIsFinal, TypeOK
<1>4. CASE \E i \in Items : RetryStep(i)
  BY <1>0, <1>4, AgentsOnlyEnd DEF RetryStep, Superseded, OutputIsFinal
<1> QED
  BY <1>0, <1>1, <1>2, <1>3, <1>4, StepKinds

LEMMA FollowStep ==
  ASSUME FollowInv, [Next]_vars
  PROVE  CurrentIsFollowed'
<1>0. CASE Restart
  <2>1. crashes' = crashes + 1 /\ crashes \in Nat
    BY <1>0 DEF Restart, FollowInv, IInv
  <2> QED
    BY <2>1 DEF CurrentIsFollowed
<1> SUFFICES ASSUME ~Restart, crashes' = 0, NEW r \in Runs, IsCurrent(r)'
             PROVE  IsFollowed(r)'
  BY <1>0 DEF CurrentIsFollowed
<1>1. crashes = 0 /\ IInv /\ TypeOK /\ ThreadsFirst
  BY DEF Next, RunOnce, StartStreams, Drain, CheckTimeouts, Observe, OperatorRetry, Reconcile,
         StreamThread, LookUp, Collect, Put, AgentEnds, Expire, vars, FollowInv, IInv
<1>2. CASE ~IsCurrent(r)
  <2>1. /\ agent[r] = "none" /\ r[1] \in attached' /\ agent'[r] = "running"
        /\ UNCHANGED <<thread, consumed>>
    BY <1>1, <1>2, StaysCurrent
  <2>2. thread[r] = "none"
    BY <1>1, <2>1 DEF IInv, ThreadsAreKnown
  <2>3. r \notin consumed
    BY <1>1, <2>2 DEF ThreadsFirst
  <2> QED
    BY <2>1, <2>2, <2>3 DEF IsFollowed
<1>3. CASE IsCurrent(r)
  <2>0. IsFollowed(r)
    BY <1>1, <1>3 DEF FollowInv, CurrentIsFollowed
  <2>1. CASE Drain \/ CheckTimeouts \/ \E i \in Items : Observe(i) \/ OperatorRetry(i)
    BY <1>3, <2>0, <2>1, DrainFollows, TimeoutFollows, ObserveFollows, OperatorFollows
  <2>2. CASE StartStreams
    <3>1. /\ UNCHANGED <<attached, reported, agent, output, feed, queue, consumed, batch>>
          /\ thread'[r] = thread[r] \/ thread'[r] = "starting"
      BY <2>2 DEF StartStreams, controller, agents
    <3> QED
      BY <2>0, <3>1 DEF IsFollowed, FailureOnItsWay, FailureKept
  <2>3. ASSUME NEW s \in Runs, LookUp(s)
        PROVE  IsFollowed(r)'
    <3>1. /\ UNCHANGED <<attached, reported, agent, output, queue, consumed, batch>>
          /\ thread[s] = "starting"
      BY <2>3 DEF LookUp, controller, agents, tables
    <3>2. CASE r = s
      <4>1. r[1] \in Active
        BY <1>1, <1>3, RunFacts DEF IsCurrent, Active
      <4>2. thread'[r] = "streaming" /\ feed' = feed
        BY <1>1, <2>3, <3>2, <4>1 DEF LookUp, TypeOK
      <4> QED
        BY <2>0, <3>1, <4>2 DEF IsFollowed, FailureOnItsWay, FailureKept
    <3>3. CASE r # s
      <4>1. thread'[r] = thread[r] /\ feed'[r] = feed[r]
        BY <1>1, <2>3, <3>3 DEF LookUp, TypeOK
      <4> QED
        BY <2>0, <3>1, <4>1 DEF IsFollowed, FailureOnItsWay, FailureKept
    <3> QED
      BY <3>2, <3>3
  <2>4. CASE \E s \in Runs : Collect(s) \/ Put(s)
    BY <1>1, <1>3, <2>0, <2>4, CollectFollows, PutFacts, PutFollows
  <2>5. ASSUME NEW s \in Runs, AgentEnds(s)
        PROVE  IsFollowed(r)'
    <3>1. /\ UNCHANGED <<attached, reported, thread, feed, queue, consumed, batch>>
          /\ agent[s] = "running" /\ agent' = [agent EXCEPT ![s] = "ended"]
      BY <2>5 DEF AgentEnds, controller, streams, tables
    <3>2. PICK events \in Outcomes : output' = [output EXCEPT ![s] = events]
      BY <2>5 DEF AgentEnds
    <3>3. CASE r = s
      <4>0. events # <<>>
        BY DEF Outcomes
      <4>1. output'[r] = events /\ events # <<>> /\ agent'[r] = "ended"
        BY <1>1, <3>1, <3>2, <3>3, <4>0 DEF TypeOK
      <4>2. thread[r] \notin {"putting", "done"}
        BY <2>0, <3>1, <3>3 DEF IsFollowed
      <4>3. r \notin consumed \/ r \in reported \/ FailureKept(r) \/ output[r] = <<"completed">>
        BY <2>0 DEF IsFollowed
      <4>4. output[r] # <<"completed">>
        BY <3>1, <3>3 DEF FollowInv, OutputIsFinal
      <4> QED
        BY <2>0, <3>1, <4>1, <4>2, <4>3, <4>4 DEF IsFollowed, FailureOnItsWay, FailureKept
    <3>4. CASE r # s
      <4>1. agent'[r] = agent[r] /\ output'[r] = output[r]
        BY <1>1, <3>1, <3>2, <3>4 DEF TypeOK
      <4> QED
        BY <2>0, <3>1, <4>1 DEF IsFollowed, FailureOnItsWay, FailureKept
    <3> QED
      BY <3>3, <3>4
  <2>6. CASE Reconcile
    <3>1. PICK settled, next : Reconciled(settled, next)
      BY <1>1, <2>6, ReconcileFacts
    <3>2. /\ UNCHANGED <<reported, output, thread, feed, queue, consumed, batch>>
          /\ r[1] \in Items /\ phase'[r[1]] = "active" /\ phase[r[1]] = "active"
          /\ r[2] = attempt[r[1]]
      BY <1>3, <3>1, RunFacts DEF Reconciled, streams, tables, IsCurrent
    <3>3. r[1] \notin settled /\ r[1] \notin next
      BY <3>1, <3>2 DEF Reconciled
    <3>4. agent'[r] = agent[r] /\ (r[1] \in attached => r[1] \in attached')
      BY <3>1, <3>3 DEF Reconciled
    <3> QED
      BY <2>0, <3>2, <3>4 DEF IsFollowed, FailureOnItsWay, FailureKept
  <2>7. CASE UNCHANGED vars \/ \E s \in Runs : Expire(s)
    <3>1. UNCHANGED <<attached, reported, agent, output, thread, feed, queue, consumed, batch>>
      BY <2>7 DEF vars, Expire, controller, agents, streams, tables
    <3> QED
      BY <2>0, <3>1 DEF IsFollowed, FailureOnItsWay, FailureKept
  <2> QED
    BY <2>1, <2>2, <2>3, <2>4, <2>5, <2>6, <2>7 DEF Next, RunOnce, StreamThread
<1> QED
  BY <1>2, <1>3

LEMMA InitFollows == Init => FollowInv
<1> SUFFICES ASSUME Init PROVE FollowInv
  OBVIOUS
<1>1. PICK first \in SUBSET Items :
        /\ phase = [i \in Items |-> IF i \in first THEN "active" ELSE "waiting"]
        /\ agent = [r \in Runs |-> IF r \in first \X {1} THEN "running" ELSE "none"]
        /\ attached = first
  BY DEF Init
<1>2. /\ output = [r \in Runs |-> <<>>] /\ thread = [r \in Runs |-> "none"]
      /\ feed = [r \in Runs |-> <<>>] /\ queue = <<>>
      /\ consumed = {} /\ threads = {}
  BY DEF Init
<1>3. FeedEnds /\ QueueEnds /\ ThreadsFirst /\ OutputIsFinal
  BY <1>2 DEF FeedEnds, QueueEnds, ThreadsFirst, OutputIsFinal
<1>4. ASSUME NEW r \in Runs, IsCurrent(r) PROVE IsFollowed(r)
  <2>1. r[1] \in attached /\ agent[r] # "ended"
    BY <1>1, <1>4, RunFacts DEF IsCurrent
  <2> QED
    BY <1>2, <2>1 DEF IsFollowed
<1> QED
  BY <1>3, <1>4, Initially DEF FollowInv, CurrentIsFollowed

LEMMA FollowInvariance == Spec => []FollowInv
<1>1. FollowInv /\ [Next]_vars => FollowInv'
  BY Inductive, ShapeStep, OutputStep, FollowStep DEF FollowInv, Shape
<1> QED
  BY <1>1, InitFollows, PTL DEF Spec

\* The run is going to get a thread, or is watched by the time-out, or was consumed,
\* and it was consumed only with a completion or with a failure that is about to be
\* observed or was recorded.
Accounted(r) ==
  /\ r \in consumed \cup threads \/ (r[1] \in attached /\ Unread(r) /\ thread[r] = "none")
  /\ r \in threads => r \in started
  /\ r \in consumed => r \in reported \/ FailureKept(r) \/ output[r] = <<"completed">>

\* As long as the process lives, no active attempt is lost: it is read, or will be,
\* and the failure it ended with gets through the thread, the queue and the batch to
\* the controller before the run is taken for consumed (supervisor.py run_once,
\* _start_stream).  This is the safety part of NoAttemptForgotten.
THEOREM NoAttemptIsLost == Spec => [](crashes = 0 => \A r \in Current : Accounted(r))
<1>1. ASSUME FollowInv, crashes = 0, NEW r \in Current PROVE Accounted(r)
  <2>1. r \in Runs /\ IsCurrent(r) /\ started = threads
    BY <1>1, CurrentFacts DEF FollowInv, IInv, TypeOK
  <2>2. IsFollowed(r)
    BY <1>1, <2>1 DEF FollowInv, CurrentIsFollowed
  <2>3. thread[r] # "none" => r \in consumed \cup threads
    BY <1>1, <2>1, <2>2 DEF FollowInv, IInv, ThreadsAreKnown, IsFollowed
  <2> QED
    BY <2>1, <2>2, <2>3 DEF Accounted, IsFollowed, Unread
<1>2. FollowInv => (crashes = 0 => \A r \in Current : Accounted(r))
  BY <1>1
<1> QED
  BY <1>2, FollowInvariance, PTL
=============================================================================
