------------------------ MODULE SkillLifecycleProofs ------------------------
(***************************************************************************)
(* Proofs about SkillLifecycle for any sequence of stages: the router goes *)
(* through them in their order, and what the controller makes of a stream  *)
(* agrees with how its lifecycle ended.                                    *)
(***************************************************************************)
EXTENDS SkillLifecycle, WellFoundedInduction, TLAPS

\* The process that runs is the one of the current stage, of a stream that goes on.
AgentIsCurrent == agent # 0 => agent = current /\ ~finished

\* What is behind the current stage is settled or failed, what is ahead is open.
Progress ==
  ~finished =>
    /\ \A m \in Ids : m >= current => results[m] = "none" /\ m \notin skipped
    /\ \A j \in Ids : j < current => j \in Known \/ results[j] = "failed"

\* Only a diagnostic stage has a failed one behind it.
InOrder ==
  ~finished =>
    \A j \in Ids : j < current => j \in Known \/ (Diagnostic(current) /\ results[j] = "failed")

\* A cancelled process has not ended with status 0, so the stream ends after it.
CancelledEnds ==
  cancelled # 0 => /\ agent = 0 /\ current = cancelled /\ ~active
                   /\ finished \/ ~exit.ok

\* A result follows the start of its stage or another result of it.
InPlace(s) ==
  \A n \in 2..Len(s) : s[n].kind = "result" =>
    s[n - 1].kind \in {"started", "result"} /\ s[n - 1].stage = s[n].stage

\* Before it ends a stream has been seen by nobody, and announces its stages.
StreamGoesOn ==
  ~finished =>
    /\ failures = {}
    /\ \A n \in 1..Len(emitted) : emitted[n].kind # "exited"
    /\ emitted # <<>> => emitted[1].kind = "started"
    /\ InPlace(emitted)
    /\ begun => emitted # <<>> /\ emitted[Len(emitted)] = Started

FailedResult(e) == e.kind = "result" /\ e.status = "failed"

\* A stream ends with the exit of its process, and claims success for a lifecycle
\* that is not complete only after the result of a failed stage.
StreamEnds ==
  finished =>
    /\ emitted = <<>> => Known = Ids \/ failures # {}
    /\ emitted # <<>> =>
         /\ emitted[Len(emitted)].kind = "exited"
         /\ emitted[Len(emitted)].ok =>
              \/ Known = Ids \/ failures # {}
              \/ \E n \in 1..Len(emitted) : FailedResult(emitted[n])

\* What is left of the stream of a complete lifecycle will be accepted, as long as
\* no failed result was seen, no artifact changed and no authority expired.
CompleteIsAcceptable ==
  finished /\ Known = Ids /\ "skill_result_failed" \notin failures /\ outside = <<{}, {}>> =>
    /\ failures = {}
    /\ InPlace(emitted)
    /\ \A n \in 1..Len(emitted) : emitted[n].kind = "exited" =>
         emitted[n].ok /\ (n > 1 => emitted[n - 1].kind = "result")
    /\ emitted # <<>> =>
         /\ emitted[1].kind = "result" => emitted[1].stage = invocation
         /\ emitted[1].kind = "exited" => seen
         /\ emitted[1].kind # "started" => baseline = written

IInv ==
  /\ TypeOK
  /\ AgentIsCurrent
  /\ Progress
  /\ CancelledEnds
  /\ StreamGoesOn
  /\ StreamEnds
  /\ CompleteIsAcceptable

-----------------------------------------------------------------------------
(* The router.                                                             *)

\* Stages are numbered, and have one condition and one name each.
LEMMA StageFacts ==
  /\ Ids = 1..Len(Stages) /\ Len(Stages) \in Nat /\ 1 \in Ids /\ 0 \notin Ids
  /\ \A k \in Ids : Stages[k].runIf \in RunConditions /\ Stages[k].writes \in BOOLEAN
  /\ \A j, k \in Ids : Diagnostic(j) /\ Diagnostic(k) => j = k
  /\ Writers \subseteq Ids
<1> DEFINE Stage == [id : STRING, runIf : RunConditions, writes : BOOLEAN]
<1>1. Stages \in Seq(Stage) /\ Stages # <<>>
  BY LifecycleAssumption
<1>2. \A x \in Stage : x.runIf \in RunConditions /\ x.writes \in BOOLEAN
  OBVIOUS
<1> HIDE DEF Stage
<1>3. Ids = 1..Len(Stages) /\ Len(Stages) \in Nat /\ Len(Stages) # 0
  BY <1>1 DEF Ids
<1>4. \A k \in Ids : Stages[k] \in Stage
  BY <1>1, <1>3
<1>5. 1 \in Ids /\ 0 \notin Ids
  BY <1>3
<1>6. \A j, k \in Ids : Diagnostic(j) /\ Diagnostic(k) => j = k
  BY LifecycleAssumption DEF Ids, Diagnostic
<1> QED
  BY <1>2, <1>3, <1>4, <1>5, <1>6, LifecycleAssumption DEF Ids

\* A non-empty set of stages has a first one.
LEMMA FirstStage ==
  ASSUME NEW S \in SUBSET Ids, S # {}
  PROVE  LET k == CHOOSE m \in S : \A n \in S : m <= n
         IN  k \in S /\ \A n \in S : k <= n
<1>1. S \subseteq Nat
  BY StageFacts
<1>2. \E x \in S : \A y \in S : ~(<<y, x>> \in OpToRel(<, Nat))
  BY <1>1, NatLessThanWellFounded, WFMin
<1>3. \E x \in S : \A y \in S : ~(y < x)
  BY <1>1, <1>2 DEF OpToRel
<1>4. \E x \in S : \A y \in S : x =< y
  BY <1>1, <1>3
<1> QED
  BY <1>4, Zenon

\* Passed over because it failed, in the search for a diagnostic stage.
PassedOver(k, res, failure) == failure /\ res[k] # "none" /\ ~Diagnostic(k)

\* What a decision d says: it is about the first stage that is neither settled nor
\* passed over.
Routed(d, res, skip, failure) ==
  LET known == Settled(res, skip) IN
  /\ d[2] \in Ids
  /\ d[1] = "none" => \A k \in Ids : k \in known \/ PassedOver(k, res, failure)
  /\ d[1] # "none" =>
       /\ d[2] \notin known /\ ~PassedOver(d[2], res, failure)
       /\ \A j \in Ids : j < d[2] => j \in known \/ PassedOver(j, res, failure)
  /\ d[1] = "run" => /\ res[d[2]] = "none"
                     /\ ~Diagnostic(d[2]) => Ready(d[2], known)
  /\ d[1] = "skip" => res[d[2]] = "none" /\ Diagnostic(d[2]) /\ ~failure
  /\ d[1] \in {"none", "blocked", "run", "skip"}

LEMMA DecisionFacts ==
  ASSUME NEW res \in [Ids -> Statuses \cup {"none"}], NEW skip \in SUBSET Ids,
         NEW failure \in BOOLEAN
  PROVE  Routed(Decision(res, skip, failure), res, skip, failure)
<1> DEFINE known == Settled(res, skip)
           d == Decision(res, skip, failure)
           open == {k \in Ids \ known : ~PassedOver(k, res, failure)}
           k == CHOOSE m \in open : \A n \in open : m <= n
<1> USE DEF Routed
<1>1. d = IF open = {} THEN <<"none", 1>>
          ELSE IF res[k] # "none" THEN <<"blocked", k>>
          ELSE IF Diagnostic(k) THEN <<IF failure THEN "run" ELSE "skip", k>>
          ELSE <<IF Ready(k, known) THEN "run" ELSE "blocked", k>>
  BY DEF Decision, PassedOver, Diagnostic
<1> SUFFICES Routed(d, res, skip, failure)
  OBVIOUS
<1> HIDE DEF d
<1>2. CASE open = {}
  BY <1>1, <1>2, StageFacts
<1>3. CASE open # {}
  <2>1. k \in open /\ \A n \in open : k <= n
    BY <1>3, FirstStage
  <2>2. k \in Ids /\ k \notin known /\ ~PassedOver(k, res, failure)
    BY <2>1
  <2>3. \A j \in Ids : j < k => j \in known \/ PassedOver(j, res, failure)
    BY <2>1, <2>2, StageFacts
  <2> HIDE DEF k, open
  <2>4. CASE res[k] # "none"
    BY <1>1, <1>3, <2>2, <2>3, <2>4
  <2>5. CASE res[k] = "none"
    BY <1>1, <1>3, <2>2, <2>3, <2>5
  <2> QED
    BY <2>4, <2>5
<1> QED
  BY <1>2, <1>3

-----------------------------------------------------------------------------
(* The end of a stage.                                                     *)

ResultsOfStage == Seq([kind : {"result"}, stage : {current}, status : Statuses])

\* A function on 1..n is a sequence of length n.
LEMMA SequenceOf ==
  ASSUME NEW S, NEW n \in Nat, NEW f, f \in [1..n -> S]
  PROVE  f \in Seq(S) /\ Len(f) = n /\ (n > 0 => f # <<>>)
OBVIOUS

\* What is forwarded are results of the current stage, the last of which counts.
LEMMA ForwardedFacts ==
  ASSUME NEW events \in Emissions
  PROVE  /\ Forwarded(events) \in ResultsOfStage
         /\ events \notin {<<>>, <<"foreign">>} =>
              /\ Forwarded(events) # <<>>
              /\ events[Len(events)] \in Statuses
              /\ Forwarded(events)[Len(Forwarded(events))].status = events[Len(events)]
<1> DEFINE R == [kind : {"result"}, stage : {current}, status : Statuses]
           f == Forwarded(events)
<1>1. \A x \in Statuses : Result(x) \in R /\ Result(x).status = x
  BY DEF Result
<1> HIDE DEF R
<1>2. CASE events = <<>>
  BY <1>2, SequenceOf DEF Forwarded, ResultsOfStage
<1>3. CASE events = <<"foreign">>
  BY <1>3 DEF Forwarded, ResultsOfStage
<1>4. CASE \E n \in {1, 2} : events \in [1..n -> Statuses]
  <2>1. PICK n \in {1, 2} : events \in [1..n -> Statuses]
    BY <1>4
  <2>2. Len(events) = n /\ DOMAIN events = 1..n /\ events[n] \in Statuses
    BY <2>1
  <2>3. events # <<"foreign">>
    BY <2>2 DEF Statuses
  <2>4. f = [m \in 1..n |-> Result(events[m])]
    BY <2>2, <2>3 DEF Forwarded
  <2>5. f \in [1..n -> R] /\ f[n] = Result(events[n])
    BY <1>1, <2>1, <2>4
  <2> HIDE DEF f
  <2>6. f \in Seq(R) /\ Len(f) = n /\ f # <<>>
    BY <2>1, <2>5, SequenceOf
  <2> QED
    BY <1>1, <2>2, <2>5, <2>6 DEF f, R, ResultsOfStage
<1>5. events \in {<<>>, <<"foreign">>} \/ \E n \in {1, 2} : events \in [1..n -> Statuses]
  <2>1. <<"failed", "completed">> \in [1..2 -> Statuses]
    BY DEF Statuses
  <2>2. \A x \in Statuses : <<x>> \in [1..1 -> Statuses]
    OBVIOUS
  <2> QED
    BY <2>1, <2>2 DEF Emissions
<1> QED
  BY <1>2, <1>3, <1>4, <1>5

\* With the results res the router goes forward, past what is settled or failed;
\* stages that are chained only follow a failed one to diagnose it.
Forward(res, skip, d, status) ==
  /\ res \in [Ids -> Statuses \cup {"none"}] /\ skip \subseteq Ids
  /\ d[1] \in {"none", "blocked", "run"} /\ d[2] \in Ids
  /\ d[1] = "none" => Settled(res, skip) = Ids \/ status = "failed"
  /\ d[1] # "none" => d[2] \notin Settled(res, skip)
  /\ d[1] = "run" =>
       /\ d[2] > current
       /\ \A m \in Ids : m >= d[2] => res[m] = "none" /\ m \notin skip
       /\ \A j \in Ids : j < d[2] => j \in Settled(res, skip) \/ res[j] = "failed"
       /\ Chained => \A j \in Ids : j < d[2] =>
            j \in Settled(res, skip) \/ (Diagnostic(d[2]) /\ res[j] = "failed")

LEMMA NextStage ==
  ASSUME TypeOK, Progress, ~finished, NEW status \in Statuses,
         NEW res, res = [results EXCEPT ![current] = status],
         NEW first, first = Decision(res, skipped, status = "failed"),
         NEW skip, skip = IF first[1] = "skip" THEN skipped \cup {first[2]} ELSE skipped,
         NEW d, d = IF first[1] = "skip" THEN Decision(res, skip, FALSE) ELSE first
  PROVE  Forward(res, skip, d, status)
<1> USE DEF Forward
<1>1. /\ res \in [Ids -> Statuses \cup {"none"}] /\ res[current] = status
      /\ \A k \in Ids : k # current => res[k] = results[k]
      /\ current \in Ids /\ skipped \subseteq Ids /\ status # "none"
      /\ \A k \in Ids : k >= 1 /\ k \in Nat
  BY StageFacts DEF TypeOK, Statuses
<1>o. /\ \A j, k, m \in Ids : j > k /\ m >= j => m > k /\ m >= k /\ m # k
      /\ \A j, k \in Ids : ~(j < k) /\ j # k => ~(k >= j)
  BY StageFacts
<1>2. /\ \A m \in Ids : m >= current => results[m] = "none" /\ m \notin skipped
      /\ \A j \in Ids : j < current => res[j] = "completed" \/ j \in skipped \/ res[j] = "failed"
  BY <1>1 DEF Progress, Known, Settled
<1>3. \A k \in Ids : \A t : k \in Settled(res, t) <=> res[k] = "completed" \/ k \in t
  BY DEF Settled
<1>4. ASSUME NEW k \in Ids, res[k] = "none", k \notin Settled(res, skipped) PROVE k > current
  <2>1. ~(k < current) /\ k # current
    BY <1>1, <1>2, <1>3, <1>4
  <2> QED
    BY <1>1, <2>1
<1>5. Settled(res, skipped) \subseteq Ids
  BY <1>1 DEF Settled
<1>6. CASE first[1] = "skip"
  <2>0. Routed(first, res, skipped, status = "failed")
    BY <1>1, DecisionFacts, Zenon
  <2>1. /\ first[2] \in Ids /\ first[2] \notin Settled(res, skipped) /\ status # "failed"
        /\ res[first[2]] = "none" /\ Diagnostic(first[2])
        /\ \A j \in Ids : j < first[2] => j \in Settled(res, skipped)
    BY <1>6, <2>0 DEF Routed, PassedOver
  <2>2. skip = skipped \cup {first[2]} /\ d = Decision(res, skip, FALSE) /\ skip \subseteq Ids
    BY <1>1, <1>6, <2>1
  <2>a. Routed(d, res, skip, FALSE)
    <3>1. /\ skip \in SUBSET Ids /\ FALSE \in BOOLEAN
          /\ res \in [Ids -> Statuses \cup {"none"}]
      BY <1>1, <2>2
    <3>2. Routed(Decision(res, skip, FALSE), res, skip, FALSE)
      BY <3>1, DecisionFacts, Zenon
    <3> QED
      BY <2>2, <3>2, Zenon
  <2>3. /\ d[2] \in Ids
        /\ d[1] = "none" => \A k \in Ids : k \in Settled(res, skip)
        /\ d[1] # "none" => /\ d[2] \notin Settled(res, skip)
                            /\ \A j \in Ids : j < d[2] => j \in Settled(res, skip)
        /\ d[1] = "run" => res[d[2]] = "none"
        /\ d[1] = "skip" => Diagnostic(d[2])
        /\ d[1] \in {"none", "blocked", "run", "skip"}
    BY <2>a DEF Routed, PassedOver
  <2>4. d[1] # "skip"
    BY <2>1, <2>2, <2>3, <1>3, StageFacts
  <2>5. Settled(res, skip) \subseteq Ids
    BY <1>1, <2>2 DEF Settled
  <2>6. ASSUME d[1] = "run" PROVE d[2] > current /\ ~(first[2] >= d[2])
    <3>1. d[2] \notin Settled(res, skipped) /\ d[2] # first[2] /\ res[d[2]] = "none"
      BY <1>3, <2>2, <2>3, <2>6
    <3>2. d[2] > current
      BY <1>4, <2>3, <3>1
    <3>3. ~(d[2] < first[2])
      BY <2>1, <2>3, <3>1
    <3>4. d[2] \in Ids /\ first[2] \in Ids /\ d[2] # first[2]
      BY <2>1, <2>3, <3>1
    <3>5. ~(first[2] >= d[2])
      <4> DEFINE a == d[2]  b == first[2]
      <4>1. a \in Ids /\ b \in Ids /\ ~(a < b) /\ a # b
        BY <3>3, <3>4
      <4> HIDE DEF a, b
      <4>2. ~(b >= a)
        BY <1>o, <4>1
      <4> QED
        BY <4>2 DEF a, b
    <3> QED
      BY <3>2, <3>5
  <2>7. ASSUME d[1] = "run", NEW m \in Ids, m >= d[2] PROVE res[m] = "none" /\ m \notin skip
    <3>0. current \in Ids /\ d[2] \in Ids /\ first[2] \in Ids
      BY <1>1, <2>1, <2>3
    <3>1. m >= current /\ m # current
      BY <1>o, <2>6, <2>7, <3>0
    <3>2. m # first[2]
      BY <2>6, <2>7
    <3> QED
      BY <1>1, <1>2, <2>2, <3>1, <3>2
  <2> QED
    BY <1>1, <2>2, <2>3, <2>4, <2>5, <2>6, <2>7
<1>7. CASE first[1] # "skip"
  <2> DEFINE failure == status = "failed"
  <2>1. skip = skipped /\ d = first
    BY <1>7
  <2>0. Routed(first, res, skipped, failure)
    BY <1>1, DecisionFacts, Zenon
  <2>2. /\ d[2] \in Ids
        /\ d[1] = "none" => \A k \in Ids : k \in Settled(res, skipped) \/ PassedOver(k, res, failure)
        /\ d[1] # "none" =>
             /\ d[2] \notin Settled(res, skipped)
             /\ \A j \in Ids : j < d[2] => j \in Settled(res, skipped) \/ PassedOver(j, res, failure)
        /\ d[1] = "run" => /\ res[d[2]] = "none"
                           /\ ~Diagnostic(d[2]) => Ready(d[2], Settled(res, skipped))
        /\ d[1] \in {"none", "blocked", "run"}
    BY <1>7, <2>0, <2>1 DEF Routed
  <2>3. \A j \in Ids : PassedOver(j, res, failure) =>
          /\ status = "failed" /\ ~Diagnostic(j)
          /\ res[j] = "failed" \/ j \in Settled(res, skipped)
    BY <1>1, <1>3 DEF PassedOver, Statuses
  <2>4. ASSUME d[1] = "run"
        PROVE  /\ d[2] > current
               /\ \A m \in Ids : m >= d[2] => res[m] = "none" /\ m \notin skip
    <3>1. d[2] > current /\ d[2] \in Ids
      BY <1>4, <2>2, <2>4
    <3>2. \A m \in Ids : m >= d[2] => m >= current /\ m # current
      BY <1>1, <1>o, <3>1
    <3> QED
      BY <1>1, <1>2, <2>1, <3>1, <3>2
  <2>5. ASSUME d[1] = "run", Chained, NEW j \in Ids, j < d[2], j \notin Settled(res, skipped)
        PROVE  Diagnostic(d[2])
    <3> SUFFICES ASSUME ~Diagnostic(d[2]) PROVE FALSE
      OBVIOUS
    <3> DEFINE k == d[2]
    <3>1. status = "failed" /\ Ready(k, Settled(res, skipped)) /\ k \in Ids /\ k > current
      BY <2>2, <2>3, <2>4, <2>5
    <3>2. current \notin Settled(res, skipped) /\ ~Diagnostic(current)
      <4>1. current \notin Settled(res, skipped)
        <5>1. current \notin skipped /\ res[current] # "completed"
          BY <1>1, <1>2, <3>1
        <5> QED
          BY <1>1, <1>3, <5>1
      <4> QED
        BY <1>1, <2>2, <2>3, <2>5, <3>1, <4>1
    <3>3. \A p \in Ids : p >= current => p \notin Settled(res, skipped)
      BY <1>1, <1>2, <1>3, <3>2
    <3> HIDE DEF k
    <3>4. k - 1 \in Ids /\ k - 1 >= current /\ k > 1
      BY <1>1, <3>1, StageFacts
    <3>5. CASE Stages[k].runIf = "after_previous"
      BY <3>1, <3>3, <3>4, <3>5 DEF Ready
    <3>6. CASE Requires(Stages[k].runIf) # "nothing"
      <4>1. PICK p \in Settled(res, skipped) : Stages[p].id = Requires(Stages[k].runIf)
        BY <3>1, <3>6 DEF Ready
      <4>2. p \in Ids /\ p >= current
        BY <1>1, <1>5, <2>5, <3>1, <3>2, <3>6, <4>1 DEF Chained
      <4> QED
        BY <3>3, <4>1, <4>2
    <3>7. CASE Stages[k].runIf = "always"
      BY <2>5, <3>1, <3>4, <3>7 DEF Chained
    <3> QED
      BY <3>1, <3>5, <3>6, <3>7, StageFacts DEF Requires, RunConditions, Diagnostic, k
  <2> HIDE DEF failure
  <2>6. d[1] = "none" => Settled(res, skip) = Ids \/ status = "failed"
    BY <1>5, <2>1, <2>2, <2>3
  <2>7. ASSUME d[1] = "run", NEW j \in Ids, j < d[2]
        PROVE  j \in Settled(res, skip) \/ res[j] = "failed"
    BY <2>1, <2>2, <2>3, <2>7
  <2> QED
    BY <1>1, <2>1, <2>2, <2>4, <2>5, <2>6, <2>7
<1> QED
  BY <1>6, <1>7

\* The stream ends with the results f and the exit of its process: with status 0
\* when every stage is settled, or after the failure of the last one.
EndsWith(f) ==
  \E ok \in BOOLEAN :
    /\ finished' = TRUE /\ UNCHANGED <<begun, handle, agent>>
    /\ emitted' = emitted \o (f \o <<Exited(ok)>>)
    /\ current' \in Ids /\ current' >= current /\ (~exit.ok => current' = current)
    /\ ok => f # <<>> /\ (Known' = Ids \/ f[Len(f)].status = "failed")
    /\ Known' = Ids => ok

\* The stream passes the results f on and the next agent starts.
GoesOnWith(f) ==
  /\ finished' = FALSE /\ begun' = FALSE /\ UNCHANGED handle
  /\ exit.ok
  /\ emitted' = emitted \o f /\ f # <<>>
  /\ current' \in Ids /\ current' > current /\ agent' = current'
  /\ Progress'
  /\ Chained => InOrder'

LEMMA AdvanceOutcome ==
  ASSUME TypeOK, Progress, AdvanceAfterStage
  PROVE  /\ ~finished /\ agent = 0 /\ handle = current /\ begun
         /\ results' \in [Ids -> Statuses \cup {"none"}] /\ skipped' \subseteq Ids
         /\ exit' = NoExit /\ UNCHANGED <<written, outside, cancelled, control>>
         /\ \E f \in ResultsOfStage : EndsWith(f) \/ GoesOnWith(f)
<1> USE DEF AdvanceAfterStage
<1> DEFINE events == exit.events
           passed == Forwarded(events)
<1>1. /\ ~finished /\ agent = 0 /\ handle = current /\ begun
      /\ exit' = NoExit /\ UNCHANGED <<written, outside, cancelled, control>>
      /\ current \in Ids /\ events \in Emissions /\ exit.ok \in BOOLEAN
      /\ finished = FALSE
      /\ \A k \in Ids : k \in Nat
  BY StageFacts DEF TypeOK
<1>2. passed \in ResultsOfStage
  BY <1>1, ForwardedFacts
<1>3. Known = Settled(results, skipped) /\ Known' = Settled(results', skipped')
  BY DEF Known
<1>4. CASE ~StageOk(exit)
  <2>1. /\ Finish(passed \o <<Exited(FALSE)>>) /\ UNCHANGED <<current, results, skipped>>
    BY <1>4
  <2>2. current \notin Known'
    BY <1>1, <1>3, <2>1 DEF Progress, Settled
  <2>3. current >= current
    BY <1>1
  <2>4. EndsWith(passed)
    BY <1>1, <2>1, <2>2, <2>3 DEF EndsWith, Finish
  <2> QED
    BY <1>1, <1>2, <2>1, <2>4 DEF TypeOK
<1>5. CASE StageOk(exit)
  <2> DEFINE status == events[Len(events)]
             res == [results EXCEPT ![current] = status]
             first == Decision(res, skipped, status = "failed")
             skip == IF first[1] = "skip" THEN skipped \cup {first[2]} ELSE skipped
             d == IF first[1] = "skip" THEN Decision(res, skip, FALSE) ELSE first
  <2>1. /\ exit.ok /\ passed # <<>> /\ status \in Statuses
        /\ passed[Len(passed)].status = status
    BY <1>1, <1>5, ForwardedFacts DEF StageOk
  <2>3. /\ results' = res /\ skipped' = skip
        /\ CASE d[1] = "none" -> Finish(passed \o <<Exited(TRUE)>>) /\ UNCHANGED current
             [] d[1] = "blocked" -> Finish(passed \o <<Exited(FALSE)>>) /\ UNCHANGED current
             [] OTHER ->
                  \/ /\ current' = d[2] /\ agent' = d[2] /\ begun' = NextBegun
                     /\ emitted' = emitted \o passed
                     /\ UNCHANGED <<finished, handle>>
                  \/ /\ current' \in {current, d[2]}
                     /\ Finish(passed \o <<Exited(FALSE)>>)
    BY <1>5
  <2>0. /\ res = [results EXCEPT ![current] = status]
        /\ first = Decision(res, skipped, status = "failed")
        /\ skip = IF first[1] = "skip" THEN skipped \cup {first[2]} ELSE skipped
        /\ d = IF first[1] = "skip" THEN Decision(res, skip, FALSE) ELSE first
    OBVIOUS
  <2> HIDE DEF status, res, first, skip, d, passed
  <2>2. Forward(res, skip, d, status)
    BY <1>1, <2>0, <2>1, NextStage, Zenon
  <2>4. Known' = Settled(res, skip)
    BY <1>3, <2>3
  <2>5. current >= current
    BY <1>1
  <2>6. CASE d[1] = "none"
    BY <1>1, <1>2, <2>1, <2>2, <2>3, <2>4, <2>5, <2>6 DEF EndsWith, Finish, Forward
  <2>7. CASE d[1] = "blocked"
    BY <1>1, <1>2, <2>1, <2>2, <2>3, <2>4, <2>5, <2>7 DEF EndsWith, Finish, Forward
  <2>8. CASE d[1] = "run"
    <3> DEFINE next == d[2]
    <3>1. /\ next \in Ids /\ next > current /\ next >= current /\ Known' # Ids
      BY <1>1, <2>2, <2>4, <2>8 DEF Forward
    <3>2. \/ /\ current' = next /\ agent' = next /\ begun' = NextBegun
             /\ emitted' = emitted \o passed
             /\ UNCHANGED <<finished, handle>>
          \/ /\ current' \in {current, next}
             /\ Finish(passed \o <<Exited(FALSE)>>)
      BY <2>3, <2>8
    <3>3. /\ \A m \in Ids : m >= next => res[m] = "none" /\ m \notin skip
          /\ \A j \in Ids : j < next => j \in Known' \/ res[j] = "failed"
          /\ Chained => \A j \in Ids : j < next =>
               j \in Known' \/ (Diagnostic(next) /\ res[j] = "failed")
      BY <2>2, <2>4, <2>8 DEF Forward
    <3> HIDE DEF next
    <3>4. CASE /\ current' = next /\ agent' = next /\ begun' = NextBegun
               /\ emitted' = emitted \o passed
               /\ UNCHANGED <<finished, handle>>
      <4>1. Progress'
        BY <2>3, <3>3, <3>4 DEF Progress
      <4>2. Chained => InOrder'
        BY <2>3, <3>3, <3>4 DEF InOrder
      <4> QED
        BY <1>1, <1>2, <2>1, <2>2, <2>3, <3>1, <3>4, <4>1, <4>2 DEF GoesOnWith, NextBegun, Forward
    <3>5. CASE /\ current' \in {current, next}
               /\ Finish(passed \o <<Exited(FALSE)>>)
      BY <1>1, <1>2, <2>1, <2>2, <2>3, <2>5, <3>1, <3>5 DEF EndsWith, Finish, Forward
    <3> QED
      BY <3>2, <3>4, <3>5
  <2> QED
    BY <2>2, <2>6, <2>7, <2>8 DEF Forward
<1> QED
  BY <1>4, <1>5

-----------------------------------------------------------------------------
(* The stream and its reader.                                              *)

\* A sequence without its first n members.
DropsFirst(n, s, t) ==
  /\ n \in 1..Len(s) /\ Len(t) = Len(s) - n
  /\ \A m \in 1..Len(t) : t[m] = s[m + n]

LEMMA RestOf ==
  ASSUME NEW S, NEW s \in Seq(S), s # <<>>
  PROVE  /\ Tail(s) \in Seq(S) /\ DropsFirst(1, s, Tail(s))
         /\ \A n \in 1..Len(s) : /\ SubSeq(s, n + 1, Len(s)) \in Seq(S)
                                 /\ DropsFirst(n, s, SubSeq(s, n + 1, Len(s)))
<1>1. Tail(s) \in Seq(S) /\ DropsFirst(1, s, Tail(s))
  BY DEF DropsFirst
<1>2. ASSUME NEW n \in 1..Len(s)
      PROVE  /\ SubSeq(s, n + 1, Len(s)) \in Seq(S)
             /\ DropsFirst(n, s, SubSeq(s, n + 1, Len(s)))
  BY DEF DropsFirst
<1> QED
  BY <1>1, <1>2

\* The first event is taken: it passes, or it fails and takes others along.
LEMMA EventTaken ==
  ASSUME TypeOK, ObserveEvent
  PROVE  /\ emitted' \in Seq(Event)
         /\ \/ DropsFirst(1, emitted, emitted') /\ failures' = failures
            \/ /\ \E n \in 1..Len(emitted) : DropsFirst(n, emitted, emitted')
               /\ \E code \in FailureCodes : failures' = failures \cup {code}
         /\ emitted[1] \in Event
         /\ emitted[1].kind = "started" => ObserveStarted(emitted[1])
         /\ emitted[1].kind = "result" => ObserveResult(emitted[1])
         /\ emitted[1].kind = "exited" => ObserveExited(emitted[1])
<1>1. emitted \in Seq(Event) /\ emitted # <<>> /\ Head(emitted) = emitted[1] /\ emitted[1] \in Event
  BY DEF TypeOK, ObserveEvent
<1> DEFINE e == emitted[1]
<1>2. ObserveStarted(e) \/ ObserveResult(e) \/ ObserveExited(e)
  BY <1>1 DEF ObserveEvent
<1> HIDE DEF e
<1>3. Pass => /\ emitted' \in Seq(Event) /\ DropsFirst(1, emitted, emitted') /\ failures' = failures
  BY <1>1, RestOf DEF Pass
<1>4. ASSUME NEW code \in FailureCodes, Fail(code)
      PROVE  /\ emitted' \in Seq(Event) /\ failures' = failures \cup {code}
             /\ \E n \in 1..Len(emitted) : DropsFirst(n, emitted, emitted')
  <2>1. PICK n \in 1..Len(emitted) : emitted' = SubSeq(emitted, n + 1, Len(emitted))
    BY <1>4 DEF Fail
  <2> QED
    BY <1>1, <1>4, <2>1, RestOf DEF Fail
<1>5. Pass \/ \E code \in FailureCodes : Fail(code)
  BY <1>2 DEF ObserveStarted, ObserveResult, ObserveExited, FailureCodes
<1>6. /\ e.kind = "started" => ObserveStarted(e)
      /\ e.kind = "result" => ObserveResult(e)
      /\ e.kind = "exited" => ObserveExited(e)
  BY <1>2 DEF ObserveStarted, ObserveResult, ObserveExited
<1> QED
  BY <1>1, <1>3, <1>4, <1>5, <1>6 DEF e

LEMMA TypeStep ==
  ASSUME TypeOK, Progress, [Next]_vars
  PROVE  TypeOK'
<1> USE DEF session, world, outside, control
<1>1. CASE BeginStage
  <2>1. Started \in Event
    BY DEF Started, Event, TypeOK
  <2> QED
    BY <1>1, <2>1 DEF BeginStage, TypeOK
<1>2. CASE AdvanceAfterStage
  <2>1. PICK f \in ResultsOfStage : EndsWith(f) \/ GoesOnWith(f)
    BY <1>2, AdvanceOutcome
  <2>2. f \in Seq(Event)
    <3> DEFINE R == [kind : {"result"}, stage : {current}, status : Statuses]
    <3>1. \A x \in R : x \in Event
      BY DEF Event, TypeOK
    <3>2. f \in Seq(R)
      BY DEF ResultsOfStage
    <3> HIDE DEF R
    <3> QED
      BY <3>1, <3>2
  <2>3. \A ok \in BOOLEAN : emitted \o (f \o <<Exited(ok)>>) \in Seq(Event)
    <3>1. \A ok \in BOOLEAN : Exited(ok) \in Event
      BY DEF Exited, Event
    <3> QED
      BY <2>2, <3>1 DEF TypeOK
  <2>4. emitted \o f \in Seq(Event)
    BY <2>2 DEF TypeOK
  <2>5. NoExit \in [events : Emissions, ok : BOOLEAN]
    BY DEF NoExit, Emissions
  <2>6. /\ emitted' \in Seq(Event) /\ finished' \in BOOLEAN /\ begun' \in BOOLEAN
        /\ current' \in Ids /\ handle' = handle /\ handle <= current'
        /\ agent' \in Ids \cup {0}
    <3>1. handle = current
      BY <1>2, AdvanceOutcome
    <3>2. CASE EndsWith(f)
      BY <2>3, <3>1, <3>2, StageFacts DEF EndsWith, TypeOK
    <3>3. CASE GoesOnWith(f)
      <4>1. handle <= current'
        BY <3>1, <3>3, StageFacts DEF GoesOnWith, TypeOK
      <4> QED
        BY <2>4, <3>3, <4>1 DEF GoesOnWith, TypeOK
    <3> QED
      BY <2>1, <3>2, <3>3
  <2> QED
    BY <1>2, <2>5, <2>6, AdvanceOutcome DEF TypeOK
<1>3. CASE AssignHandle
  BY <1>3, StageFacts DEF AssignHandle, TypeOK
<1>4. CASE AgentExits \/ \E k \in Ids : AgentWrites(k)
  <2>1. stale' \subseteq Artifacts
    BY <1>4 DEF AgentExits, AgentWrites, TypeOK
  <2> QED
    BY <1>4, <2>1 DEF AgentExits, AgentWrites, TypeOK
<1>9. CASE \E k \in Ids : Expire(k)
  BY <1>9 DEF Expire, TypeOK
<1>5. CASE ObserveEvent
  <2>1. /\ emitted' \in Seq(Event) /\ failures' \subseteq FailureCodes /\ emitted[1] \in Event
    BY <1>5, EventTaken DEF TypeOK
  <2>2. invocation' \in Ids /\ baseline' \subseteq Writers /\ seen' \in BOOLEAN
    BY <1>5, <2>1, EventTaken DEF ObserveStarted, ObserveResult, ObserveExited, TypeOK, Event
  <2> QED
    BY <1>5, <2>1, <2>2 DEF ObserveEvent, TypeOK
<1>6. CASE CheckAuthority
  BY <1>6 DEF CheckAuthority, TypeOK
<1>7. CASE Cancel
  BY <1>7 DEF Cancel, TypeOK
<1>8. CASE UNCHANGED vars
  BY <1>8 DEF vars, TypeOK
<1> QED
  BY <1>1, <1>2, <1>3, <1>4, <1>5, <1>6, <1>7, <1>8, <1>9 DEF Next

-----------------------------------------------------------------------------
(* The stages.                                                             *)

\* One agent at a time, in the order of the stages, and none after a cancellation.
LEMMA ControlStep ==
  ASSUME TypeOK, AgentIsCurrent, Progress, CancelledEnds, [Next]_vars
  PROVE  /\ AgentIsCurrent' /\ Progress' /\ CancelledEnds'
         /\ Chained /\ InOrder => InOrder'
<1> USE DEF session, world, outside, control
<1>1. CASE AdvanceAfterStage
  <2>1. PICK f \in ResultsOfStage : EndsWith(f) \/ GoesOnWith(f)
    BY <1>1, AdvanceOutcome
  <2>2. /\ ~finished /\ agent = 0 /\ UNCHANGED <<cancelled, active>>
        /\ cancelled # 0 => ~exit.ok
    BY <1>1, AdvanceOutcome DEF CancelledEnds
  <2>3. CASE EndsWith(f)
    BY <2>2, <2>3 DEF EndsWith, AgentIsCurrent, Progress, CancelledEnds, InOrder
  <2>4. CASE GoesOnWith(f)
    BY <2>2, <2>4 DEF GoesOnWith, AgentIsCurrent, CancelledEnds
  <2> QED
    BY <2>1, <2>3, <2>4
<1>2. CASE AgentExits \/ \E k \in Ids : AgentWrites(k)
  <2>1. /\ agent # 0 /\ agent' \in {agent, 0} /\ UNCHANGED <<session, cancelled, active>>
    BY <1>2, StageFacts DEF AgentExits, AgentWrites
  <2>2. cancelled = 0
    BY <2>1 DEF CancelledEnds
  <2> QED
    BY <2>1, <2>2 DEF AgentIsCurrent, Progress, CancelledEnds, InOrder, Known
<1>3. CASE Cancel
  <2>1. /\ active' = FALSE /\ UNCHANGED session /\ agent' \in {agent, 0}
        /\ \/ agent = handle /\ agent' = 0 /\ cancelled' = handle /\ ~exit'.ok /\ agent # 0
           \/ UNCHANGED <<agent, exit, cancelled>>
    BY <1>3, StageFacts DEF Cancel, TypeOK
  <2> QED
    BY <2>1 DEF AgentIsCurrent, Progress, CancelledEnds, InOrder, Known
<1>4. CASE \/ BeginStage \/ AssignHandle \/ ObserveEvent \/ CheckAuthority \/ UNCHANGED vars
           \/ \E k \in Ids : Expire(k)
  <2>1. UNCHANGED <<current, finished, results, skipped, agent, exit, cancelled, active>>
    BY <1>4 DEF BeginStage, AssignHandle, ObserveEvent, CheckAuthority, Expire, vars
  <2> QED
    BY <2>1 DEF AgentIsCurrent, Progress, CancelledEnds, InOrder, Known
<1> QED
  BY <1>1, <1>2, <1>3, <1>4 DEF Next

-----------------------------------------------------------------------------
(* The stream.                                                             *)

\* u is s followed by t.
Joins(s, t, u) ==
  /\ Len(u) = Len(s) + Len(t)
  /\ \A n \in 1..Len(s) : u[n] = s[n]
  /\ \A n \in 1..Len(t) : u[Len(s) + n] = t[n]

LEMMA Joined ==
  ASSUME NEW S, NEW s \in Seq(S), NEW t \in Seq(S)
  PROVE  Joins(s, t, s \o t)
BY DEF Joins

LEMMA ResultFields ==
  ASSUME NEW f \in ResultsOfStage
  PROVE  /\ Len(f) \in Nat /\ (f # <<>> => Len(f) # 0)
         /\ \A n \in 1..Len(f) : f[n].kind = "result" /\ f[n].stage = current
<1> DEFINE R == [kind : {"result"}, stage : {current}, status : Statuses]
<1>1. \A x \in R : x.kind = "result" /\ x.stage = current
  OBVIOUS
<1>2. f \in Seq(R)
  BY DEF ResultsOfStage
<1> HIDE DEF R
<1> QED
  BY <1>1, <1>2

\* The results of a stage are in place after its start.
LEMMA ResultsInPlace ==
  ASSUME TypeOK, InPlace(emitted), emitted # <<>>, emitted[Len(emitted)] = Started,
         NEW f \in ResultsOfStage, NEW t, Joins(emitted, f, t)
  PROVE  InPlace(t) /\ t[1] = emitted[1]
<1>1. Len(emitted) \in Nat \ {0} /\ Len(f) \in Nat /\ Len(t) = Len(emitted) + Len(f)
  BY DEF TypeOK, ResultsOfStage, Joins
<1>2. \A n \in 1..Len(f) : f[n].kind = "result" /\ f[n].stage = current
  BY ResultFields
<1>3. ASSUME NEW n \in 2..Len(t), t[n].kind = "result"
      PROVE  t[n - 1].kind \in {"started", "result"} /\ t[n - 1].stage = t[n].stage
  <2>1. CASE n =< Len(emitted)
    <3>1. t[n] = emitted[n] /\ t[n - 1] = emitted[n - 1] /\ n \in 2..Len(emitted)
      BY <1>1, <2>1 DEF Joins
    <3> QED
      BY <1>3, <3>1 DEF InPlace
  <2>2. CASE n = Len(emitted) + 1
    <3>1. t[n] = f[1] /\ t[n - 1] = Started /\ 1 \in 1..Len(f)
      BY <1>1, <2>2 DEF Joins
    <3> QED
      BY <1>2, <3>1 DEF Started
  <2>3. CASE n > Len(emitted) + 1
    <3> DEFINE m == n - Len(emitted)
    <3>1. m \in 2..Len(f) /\ m - 1 \in 1..Len(f) /\ n = Len(emitted) + m
          /\ n - 1 = Len(emitted) + (m - 1)
      BY <1>1, <2>3
    <3> HIDE DEF m
    <3>2. t[n] = f[m] /\ t[n - 1] = f[m - 1]
      BY <3>1 DEF Joins
    <3> QED
      BY <1>2, <3>1, <3>2
  <2> QED
    BY <1>1, <2>1, <2>2, <2>3
<1> QED
  BY <1>1, <1>3 DEF InPlace, Joins

\* The end of a stage keeps the stream in order, and the end of the last one ends it.
LEMMA AdvanceStream ==
  ASSUME TypeOK, Progress, StreamGoesOn, AdvanceAfterStage
  PROVE  StreamGoesOn' /\ StreamEnds' /\ CompleteIsAcceptable'
<1>1. PICK f \in ResultsOfStage : EndsWith(f) \/ GoesOnWith(f)
  BY AdvanceOutcome
<1>2. /\ ~finished /\ begun /\ UNCHANGED control
      /\ failures = {} /\ InPlace(emitted) /\ emitted # <<>>
      /\ emitted[Len(emitted)] = Started /\ emitted[1].kind = "started"
      /\ \A n \in 1..Len(emitted) : emitted[n].kind # "exited"
  BY AdvanceOutcome DEF StreamGoesOn
<1>3. UNCHANGED failures
  BY <1>2 DEF control
<1>4. /\ Len(emitted) \in Nat \ {0} /\ emitted \in Seq(Event) /\ f \in Seq(Event)
      /\ Len(f) \in Nat /\ (f # <<>> => Len(f) # 0)
      /\ \A n \in 1..Len(f) : f[n].kind = "result"
  <2> DEFINE R == [kind : {"result"}, stage : {current}, status : Statuses]
  <2>1. \A x \in R : x \in Event
    BY DEF Event, TypeOK
  <2>2. f \in Seq(R)
    BY DEF ResultsOfStage
  <2> HIDE DEF R
  <2>3. f \in Seq(Event)
    BY <2>1, <2>2
  <2> QED
    BY <1>2, <2>3, ResultFields DEF TypeOK
<1> DEFINE t == emitted \o f
<1>5. Joins(emitted, f, t) /\ t \in Seq(Event)
  BY <1>4, Joined
<1> HIDE DEF t
<1>6. InPlace(t) /\ t[1] = emitted[1] /\ Len(t) = Len(emitted) + Len(f)
  BY <1>2, <1>5, ResultsInPlace DEF Joins
<1>7. \A n \in 1..Len(t) : t[n].kind # "exited"
  <2>1. ASSUME NEW n \in 1..Len(t), n > Len(emitted) PROVE t[n].kind # "exited"
    <3>1. n - Len(emitted) \in 1..Len(f) /\ n = Len(emitted) + (n - Len(emitted))
      BY <1>4, <1>6, <2>1
    <3>2. t[n] = f[n - Len(emitted)]
      BY <1>5, <3>1 DEF Joins
    <3> QED
      BY <1>4, <3>1, <3>2
  <2> QED
    BY <1>2, <1>4, <1>5, <1>6, <2>1 DEF Joins
<1>8. CASE GoesOnWith(f)
  <2>1. finished' = FALSE /\ begun' = FALSE /\ emitted' = t
    BY <1>8 DEF GoesOnWith, t
  <2> QED
    BY <1>2, <1>3, <1>6, <1>7, <2>1 DEF StreamGoesOn, StreamEnds, CompleteIsAcceptable
<1>9. CASE EndsWith(f)
  <2>1. PICK ok \in BOOLEAN :
          /\ finished' = TRUE
          /\ emitted' = emitted \o (f \o <<Exited(ok)>>)
          /\ ok => f # <<>> /\ (Known' = Ids \/ f[Len(f)].status = "failed")
          /\ Known' = Ids => ok
    BY <1>9 DEF EndsWith
  <2> DEFINE x == Exited(ok)
             u == t \o <<x>>
  <2>2. x \in Event /\ x.kind = "exited" /\ x.ok = ok
    BY DEF Exited, Event
  <2> HIDE DEF x
  <2>3. emitted' = u
    <3>1. emitted \o (f \o <<x>>) = (emitted \o f) \o <<x>>
      BY <1>4, <2>2
    <3> QED
      BY <2>1, <3>1 DEF t, x
  <2>4. /\ Len(u) = Len(t) + 1 /\ u[Len(u)] = x /\ Len(t) \in Nat \ {0} /\ u # <<>>
        /\ \A n \in 1..Len(t) : u[n] = t[n]
    BY <1>4, <1>5, <1>6, <2>2
  <2> HIDE DEF u
  <2>5. InPlace(u)
    <3> SUFFICES ASSUME NEW n \in 2..Len(u), u[n].kind = "result"
                 PROVE  u[n - 1].kind \in {"started", "result"} /\ u[n - 1].stage = u[n].stage
      BY DEF InPlace
    <3>1. n # Len(u)
      BY <2>2, <2>4
    <3>2. n \in 2..Len(t) /\ u[n] = t[n] /\ u[n - 1] = t[n - 1]
      BY <2>4, <3>1
    <3> QED
      BY <1>6, <3>2 DEF InPlace
  <2>6. \A n \in 1..Len(u) : u[n].kind = "exited" => n = Len(u)
    BY <1>7, <2>4
  <2>7. u[1].kind = "started" /\ Len(u) > 1
    BY <1>2, <1>6, <2>4
  <2>8. f # <<>> => /\ u[Len(u) - 1] = f[Len(f)] /\ f[Len(f)].kind = "result"
                    /\ Len(u) - 1 \in 1..Len(u)
    <3>1. ASSUME f # <<>> PROVE t[Len(t)] = f[Len(f)] /\ f[Len(f)].kind = "result"
      BY <1>4, <1>5, <1>6, <3>1 DEF Joins
    <3>2. Len(u) - 1 = Len(t) /\ Len(t) \in 1..Len(t) /\ Len(u) - 1 \in 1..Len(u)
      BY <2>4
    <3> QED
      BY <2>4, <3>1, <3>2
  <2>9. StreamEnds'
    BY <2>1, <2>2, <2>3, <2>4, <2>8 DEF StreamEnds, FailedResult
  <2>10. CompleteIsAcceptable'
    <3> SUFFICES ASSUME Known' = Ids PROVE CompleteIsAcceptable'
      BY DEF CompleteIsAcceptable
    <3>1. ok /\ f # <<>>
      BY <2>1
    <3>2. \A n \in 1..Len(u) : u[n].kind = "exited" =>
            u[n].ok /\ (n > 1 => u[n - 1].kind = "result")
      BY <2>2, <2>4, <2>6, <2>8, <3>1
    <3> QED
      BY <1>2, <1>3, <2>3, <2>5, <2>7, <3>2 DEF CompleteIsAcceptable
  <2> QED
    BY <2>1, <2>9, <2>10 DEF StreamGoesOn
<1> QED
  BY <1>1, <1>8, <1>9

\* The start of a stage is announced.
LEMMA BeginStream ==
  ASSUME TypeOK, StreamGoesOn, BeginStage
  PROVE  StreamGoesOn' /\ StreamEnds' /\ CompleteIsAcceptable'
<1> DEFINE x == Started
           u == Append(emitted, x)
<1>1. x \in Event /\ x.kind = "started" /\ Started' = x
  BY DEF Started, Event, TypeOK, BeginStage
<1> HIDE DEF x
<1>2. /\ emitted' = u /\ ~finished' /\ UNCHANGED <<failures, finished>> /\ ~finished
  BY DEF BeginStage, x, control
<1>3. /\ Len(u) = Len(emitted) + 1 /\ u[Len(u)] = x /\ Len(emitted) \in Nat /\ u # <<>>
      /\ \A n \in 1..Len(emitted) : u[n] = emitted[n]
      /\ emitted # <<>> => Len(emitted) # 0
      /\ emitted = <<>> => Len(emitted) = 0
  BY <1>1 DEF TypeOK
<1> HIDE DEF u
<1>4. InPlace(u)
  <2> SUFFICES ASSUME NEW n \in 2..Len(u), u[n].kind = "result"
               PROVE  u[n - 1].kind \in {"started", "result"} /\ u[n - 1].stage = u[n].stage
    BY DEF InPlace
  <2>1. n # Len(u)
    BY <1>1, <1>3
  <2>2. n \in 2..Len(emitted) /\ u[n] = emitted[n] /\ u[n - 1] = emitted[n - 1]
    BY <1>3, <2>1
  <2> QED
    BY <1>2, <2>2 DEF InPlace, StreamGoesOn
<1>5. \A n \in 1..Len(u) : u[n].kind # "exited"
  BY <1>1, <1>2, <1>3 DEF StreamGoesOn
<1>6. u[1].kind = "started"
  BY <1>1, <1>2, <1>3 DEF StreamGoesOn
<1> QED
  BY <1>1, <1>2, <1>3, <1>4, <1>5, <1>6 DEF StreamGoesOn, StreamEnds, CompleteIsAcceptable

LEMMA RestInPlace ==
  ASSUME NEW s \in Seq(Event), NEW t, InPlace(s), DropsFirst(1, s, t)
  PROVE  /\ InPlace(t) /\ Len(s) = Len(t) + 1 /\ Len(t) \in Nat
         /\ \A n \in 1..Len(t) : t[n] = s[n + 1] /\ n + 1 \in 2..Len(s) /\ (n + 1) - 1 = n
         /\ \A n \in 2..Len(t) : t[n - 1] = s[n]
<1>1. /\ Len(s) = Len(t) + 1 /\ Len(t) \in Nat
      /\ \A n \in 1..Len(t) : t[n] = s[n + 1] /\ n + 1 \in 2..Len(s) /\ (n + 1) - 1 = n
  BY DEF DropsFirst
<1>2. \A n \in 2..Len(t) : t[n - 1] = s[n] /\ t[n] = s[n + 1]
  BY <1>1
<1>3. InPlace(t)
  BY <1>1, <1>2 DEF InPlace
<1> QED
  BY <1>1, <1>2, <1>3

\* What the controller makes of an event agrees with how the lifecycle ended.
LEMMA ObserveStream ==
  ASSUME TypeOK, StreamEnds, CompleteIsAcceptable, ObserveEvent
  PROVE  StreamGoesOn' /\ StreamEnds' /\ CompleteIsAcceptable'
<1> DEFINE e == emitted[1]
<1>1. /\ finished /\ emitted # <<>> /\ finished' = finished /\ Known' = Known /\ written' = written
      /\ outside' = outside
      /\ emitted \in Seq(Event) /\ Len(emitted) \in Nat \ {0}
  BY DEF ObserveEvent, TypeOK, Known, session, world
<1>2. /\ emitted' \in Seq(Event) /\ e \in Event
      /\ e.kind = "started" => ObserveStarted(e)
      /\ e.kind = "result" => ObserveResult(e)
      /\ e.kind = "exited" => ObserveExited(e)
  BY EventTaken
<1>e. e.kind \in {"started", "result", "exited"}
  BY <1>2 DEF Event
<1>3. PICK n \in 1..Len(emitted) : DropsFirst(n, emitted, emitted')
  BY <1>1, EventTaken
<1>4. failures' # {} \/ (failures' = failures /\ DropsFirst(1, emitted, emitted'))
  BY EventTaken
<1>5. failures \subseteq failures'
  BY EventTaken
<1>6. emitted[Len(emitted)].kind = "exited"
  BY <1>1 DEF StreamEnds
<1>7. StreamEnds'
  <2>1. CASE failures' # {}
    <3>1. ASSUME emitted' # <<>> PROVE emitted'[Len(emitted')] = emitted[Len(emitted)]
      BY <1>1, <1>2, <1>3, <3>1 DEF DropsFirst
    <3> QED
      BY <1>6, <2>1, <3>1 DEF StreamEnds
  <2>2. CASE failures' = {}
    <3>1. /\ failures' = failures /\ Len(emitted') = Len(emitted) - 1
          /\ \A m \in 1..Len(emitted') : emitted'[m] = emitted[m + 1]
      BY <1>4, <2>2 DEF DropsFirst
    <3>2. ~FailedResult(e)
      BY <1>2, <2>2 DEF FailedResult, ObserveResult, Fail
    <3>3. e.kind = "exited" => e.ok
      BY <1>2, <2>2 DEF ObserveExited, Fail
    <3>4. \/ ~emitted[Len(emitted)].ok \/ Known = Ids
          \/ \E m \in 1..Len(emitted) : FailedResult(emitted[m])
      BY <1>1, <2>2, <3>1 DEF StreamEnds
    <3>5. CASE emitted' = <<>>
      <4>1. Len(emitted) = 1
        BY <1>1, <3>1, <3>5
      <4>2. Known = Ids
        BY <1>6, <3>2, <3>3, <3>4, <4>1
      <4> QED
        BY <1>1, <3>5, <4>2 DEF StreamEnds
    <3>6. CASE emitted' # <<>>
      <4>1. Len(emitted') \in 1..Len(emitted') /\ Len(emitted) = Len(emitted') + 1
        BY <1>1, <1>2, <3>1, <3>6
      <4>2. emitted'[Len(emitted')] = emitted[Len(emitted)]
        BY <3>1, <4>1
      <4>3. ASSUME NEW m \in 1..Len(emitted), FailedResult(emitted[m])
            PROVE  \E k \in 1..Len(emitted') : FailedResult(emitted'[k])
        <5>1. m # 1
          BY <3>2, <4>3
        <5>2. m - 1 \in 1..Len(emitted') /\ (m - 1) + 1 = m
          BY <4>1, <5>1
        <5>3. emitted'[m - 1] = emitted[m]
          BY <3>1, <5>2
        <5> QED
          BY <4>3, <5>2, <5>3
      <4> QED
        BY <1>1, <1>6, <3>4, <3>6, <4>2, <4>3 DEF StreamEnds
    <3> QED
      BY <3>5, <3>6
  <2> QED
    BY <2>1, <2>2
<1>8. CompleteIsAcceptable'
  <2> SUFFICES ASSUME Known = Ids, "skill_result_failed" \notin failures',
                      stale = {}, expired = {}
               PROVE  CompleteIsAcceptable'
    BY <1>1 DEF CompleteIsAcceptable, outside
  <2>1. /\ failures = {} /\ InPlace(emitted)
        /\ \A k \in 1..Len(emitted) : emitted[k].kind = "exited" =>
             emitted[k].ok /\ (k > 1 => emitted[k - 1].kind = "result")
        /\ e.kind = "result" => e.stage = invocation
        /\ e.kind = "exited" => seen /\ e.ok
        /\ e.kind # "started" => baseline = written
    BY <1>1, <1>5 DEF CompleteIsAcceptable, outside
  <2>2. /\ Pass
        /\ baseline' = written
        /\ e.kind = "started" => invocation' = e.stage
        /\ e.kind = "result" => seen' /\ invocation' = e.stage
    <3>1. CASE e.kind = "started"
      BY <1>2, <3>1 DEF ObserveStarted
    <3>2. CASE e.kind = "result"
      <4>1. Verified /\ e.stage = invocation
        BY <2>1, <3>2 DEF Verified
      <4>a. Accepted(e)
        BY <4>1 DEF Accepted
      <4>2. e.status # "failed"
        BY <1>2, <3>2, <4>a DEF ObserveResult, Fail
      <4> QED
        BY <1>2, <3>2, <4>1, <4>2, <4>a DEF ObserveResult
    <3>3. CASE e.kind = "exited"
      <4>1. Verified
        BY <2>1, <3>3 DEF Verified
      <4> QED
        BY <1>2, <2>1, <3>3, <4>1 DEF ObserveExited
    <3> QED
      BY <1>e, <3>1, <3>2, <3>3
  <2> HIDE DEF e
  <2>3. failures' = failures /\ DropsFirst(1, emitted, emitted')
    BY <1>1, <2>2, RestOf DEF Pass
  <2> DEFINE t == emitted'
  <2>4. t \in Seq(Event) /\ DropsFirst(1, emitted, t)
    BY <1>2, <2>3
  <2> HIDE DEF t
  <2>5. /\ InPlace(t) /\ Len(emitted) = Len(t) + 1 /\ Len(t) \in Nat
        /\ \A k \in 1..Len(t) : t[k] = emitted[k + 1] /\ k + 1 \in 2..Len(emitted) /\ (k + 1) - 1 = k
        /\ \A k \in 2..Len(t) : t[k - 1] = emitted[k]
    BY <1>1, <2>1, <2>4, RestInPlace
  <2>6. \A k \in 1..Len(t) : t[k].kind = "exited" => t[k].ok /\ (k > 1 => t[k - 1].kind = "result")
    BY <2>1, <2>5
  <2>7. t # <<>> => /\ 1 \in 1..Len(t) /\ t[1] = emitted[2]
                    /\ t[1].kind = "result" => e.kind \in {"started", "result"} /\ e.stage = t[1].stage
                    /\ t[1].kind = "exited" => e.kind = "result"
    <3> SUFFICES ASSUME t # <<>> PROVE
          /\ 1 \in 1..Len(t) /\ t[1] = emitted[2]
          /\ t[1].kind = "result" => e.kind \in {"started", "result"} /\ e.stage = t[1].stage
          /\ t[1].kind = "exited" => e.kind = "result"
      OBVIOUS
    <3>1. 1 \in 1..Len(t) /\ 2 \in 2..Len(emitted)
      BY <2>4, <2>5
    <3>2. t[1] = emitted[2]
      BY <2>5, <3>1
    <3> QED
      BY <2>1, <3>1, <3>2 DEF InPlace, e
  <2> QED
    BY <1>1, <2>1, <2>2, <2>3, <2>5, <2>6, <2>7 DEF CompleteIsAcceptable, t
<1> QED
  BY <1>1, <1>7, <1>8 DEF StreamGoesOn

LEMMA StreamStep ==
  ASSUME TypeOK, AgentIsCurrent, Progress, StreamGoesOn, StreamEnds, CompleteIsAcceptable,
         [Next]_vars
  PROVE  StreamGoesOn' /\ StreamEnds' /\ CompleteIsAcceptable'
<1>1. CASE AdvanceAfterStage
  BY <1>1, AdvanceStream
<1>2. CASE BeginStage
  BY <1>2, BeginStream
<1>3. CASE ObserveEvent
  BY <1>3, ObserveStream
<1>4. CASE \/ AssignHandle \/ CheckAuthority \/ Cancel \/ UNCHANGED vars
           \/ \E k \in Ids : Expire(k)
  <2>1. /\ UNCHANGED <<current, begun, finished, results, skipped, emitted, written,
                       invocation, seen, failures>>
        /\ baseline' \in {baseline, written}
        /\ stale' = stale /\ (expired' = expired \/ expired' # {})
    BY <1>4 DEF AssignHandle, CheckAuthority, Cancel, Expire, vars, session, world, outside,
                control
  <2>2. Known' = Known /\ Started' = Started
    BY <2>1 DEF Known, Started
  <2> QED
    BY <2>1, <2>2 DEF StreamGoesOn, StreamEnds, CompleteIsAcceptable, outside
<1>5. CASE AgentExits \/ \E k \in Ids : AgentWrites(k)
  <2>1. ~finished
    BY <1>5, StageFacts DEF AgentExits, AgentWrites, AgentIsCurrent
  <2>2. UNCHANGED <<current, begun, finished, emitted, failures>>
    BY <1>5 DEF AgentExits, AgentWrites, session, control
  <2>3. Started' = Started
    BY <2>2 DEF Started
  <2> QED
    BY <2>1, <2>2, <2>3 DEF StreamGoesOn, StreamEnds, CompleteIsAcceptable
<1> QED
  BY <1>1, <1>2, <1>3, <1>4, <1>5 DEF Next

-----------------------------------------------------------------------------
(* The theorems.                                                           *)

LEMMA Initially == Init => IInv /\ InOrder
<1> SUFFICES ASSUME Init PROVE IInv /\ InOrder
  OBVIOUS
<1>1. /\ 1 \in Ids /\ \A k \in Ids : k >= 1 /\ ~(k < 1)
      /\ results = [k \in Ids |-> "none"] /\ skipped = {}
      /\ current = 1 /\ handle = 1 /\ agent = 1 /\ invocation = 1 /\ cancelled = 0
      /\ emitted = <<>> /\ failures = {} /\ ~finished /\ ~begun
  BY StageFacts DEF Init
<1>2. TypeOK
  <2>1. emitted \in Seq(Event) /\ results \in [Ids -> Statuses \cup {"none"}]
    BY <1>1
  <2>2. exit \in [events : Emissions, ok : BOOLEAN]
    BY DEF Init, NoExit, Emissions
  <2> QED
    BY <1>1, <2>1, <2>2 DEF Init, TypeOK
<1>3. AgentIsCurrent /\ Progress /\ CancelledEnds /\ InOrder
  BY <1>1 DEF AgentIsCurrent, Progress, CancelledEnds, InOrder
<1>4. StreamGoesOn /\ StreamEnds /\ CompleteIsAcceptable
  BY <1>1 DEF StreamGoesOn, StreamEnds, CompleteIsAcceptable, InPlace
<1> QED
  BY <1>2, <1>3, <1>4 DEF IInv

LEMMA Inductive ==
  /\ IInv /\ [Next]_vars => IInv'
  /\ Chained /\ InOrder /\ IInv /\ [Next]_vars => InOrder'
BY TypeStep, ControlStep, StreamStep DEF IInv

THEOREM Invariance == Spec => []IInv
BY Initially, Inductive, PTL DEF Spec

\* Every variable has its type; the current stage is never behind the one whose
\* process the session can cancel (_LifecycleSession).
THEOREM TypeCorrect == Spec => []TypeOK
<1>1. IInv => TypeOK
  BY DEF IInv
<1> QED
  BY <1>1, Invariance, PTL

\* When the controller has seen the whole stream of an active attempt without a
\* failure, LifecycleRouter has settled every stage.
THEOREM SilenceMeansComplete == Spec => []SilentEndIsComplete
<1>1. IInv => SilentEndIsComplete
  BY DEF IInv, StreamEnds, SilentEndIsComplete
<1> QED
  BY <1>1, Invariance, PTL

\* _record_skill_result and the exit check accept a lifecycle that settled every
\* stage, unless a stage took a failure back, an artifact changed after it was
\* declared or an authority expired before its stage was observed.
THEOREM CompleteIsAccepted == Spec => []SettledLifecycleAccepted
<1>1. IInv => SettledLifecycleAccepted
  BY DEF IInv, CompleteIsAcceptable, SettledLifecycleAccepted, outside
<1> QED
  BY <1>1, Invariance, PTL

\* A lifecycle whose agent was cancelled starts no other, whatever the interleaving
\* of its stream thread with the cancellation.
THEOREM CancelledStays == Spec => []CancelledStopsThere
<1>1. IInv => CancelledStopsThere
  BY DEF IInv, CancelledEnds, CancelledStopsThere
<1> QED
  BY <1>1, Invariance, PTL

\* With a chain of stages, as DEFAULT_LIFECYCLE_STAGES is one, the router runs no
\* stage before the earlier ones are settled, except to diagnose a failure.
THEOREM ChainedStagesInOrder ==
  ASSUME Chained
  PROVE  Spec => []StagesInOrder
<1>1. Init => IInv /\ InOrder
  BY Initially
<1>2. (IInv /\ InOrder) /\ [Next]_vars => (IInv /\ InOrder)'
  BY Inductive
<1>3. IInv /\ InOrder => StagesInOrder
  <2> SUFFICES ASSUME IInv, InOrder, agent # 0, NEW j \in 1..(agent - 1)
               PROVE  j \in Known \/ (Stages[agent].runIf = "on_failure" /\ results[j] = "failed")
    BY DEF StagesInOrder
  <2>1. agent = current /\ ~finished /\ current \in Ids
    BY DEF IInv, AgentIsCurrent, TypeOK
  <2>2. j \in Ids /\ j < current
    BY <2>1, StageFacts
  <2> QED
    BY <2>1, <2>2 DEF InOrder, Diagnostic
<1> QED
  BY <1>1, <1>2, <1>3, PTL DEF Spec
=============================================================================
