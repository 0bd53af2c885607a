----------------------------- MODULE AcpProofs ------------------------------
(***************************************************************************)
(* Proof that the runs' sessions are kept apart, for any number of runs    *)
(* and threads reading the same pipe.  A request's id is fresh, so a       *)
(* request, its answer and the thread that waits for it belong together:   *)
(* what a thread takes for its answer is about its own run.  An answer is  *)
(* not dropped while one thread reads at a time, and once the process has  *)
(* ended every step uses up what is left to be done.                       *)
(***************************************************************************)
EXTENDS AcpTransport, SequenceTheorems, FiniteSetTheorems, TLAPS

\* No id is in use before it is given out.
IdsAreFresh ==
  /\ \A q \in todo : q.id =< ids
  /\ \A t \in Threads : Requesting(t) => wait[t].id =< ids
  /\ \A n \in 1..Len(out) : out[n].id =< ids
  /\ \A i \in Ids : i > ids => owner[i] = None

\* Requests with one id are one request, and it has no session yet.
TodoIsUnanswered ==
  /\ \A p, q \in todo : p.id = q.id => p = q
  /\ \A q \in todo : owner[q.id] = None
  /\ \A q \in todo, t \in Threads : Requesting(t) /\ wait[t].id = q.id => wait[t] = q

\* A session that answers a waiting thread works for the thread's run.
AnswersBelong ==
  \A t \in Threads : Requesting(t) /\ wait[t].op = "start" =>
    /\ owner[wait[t].id] \in {None, wait[t].run}
    /\ \A n \in 1..Len(out) :
         out[n].kind = "result" /\ out[n].id = wait[t].id => owner[wait[t].id] = wait[t].run

IInv == TypeOK /\ IdsAreFresh /\ TodoIsUnanswered /\ AnswersBelong /\ SessionsKeptApart

-----------------------------------------------------------------------------
\* A thread that waits for an answer waits for a request.
LEMMA WaitType ==
  ASSUME TypeOK, NEW t \in Threads, Requesting(t)
  PROVE  /\ wait[t] \in Request
         /\ wait[t].id \in Ids /\ wait[t].run \in Runs /\ wait[t].op \in {"start", "cancel"}
BY DEF TypeOK, Requesting, Request

\* Reading a line leaves lines that were there.
LEMMA TailLines ==
  ASSUME out \in Seq(Message), out' = out \/ (out # <<>> /\ out' = Tail(out))
  PROVE  /\ out' \in Seq(Message) /\ out \in Seq(Message)
         /\ \A n \in 1..Len(out') : \E k \in 1..Len(out) : out'[n] = out[k]
<1>1. CASE out' = out
  BY <1>1
<1>2. CASE out # <<>> /\ out' = Tail(out)
  <2>1. /\ Tail(out) \in Seq(Message) /\ Len(Tail(out)) = Len(out) - 1
        /\ \A n \in 1..Len(Tail(out)) : Tail(out)[n] = out[n + 1]
    BY <1>2, HeadTailProperties
  <2>2. Len(out) \in Nat
    OBVIOUS
  <2>3. \A n \in 1..Len(Tail(out)) : n + 1 \in 1..Len(out)
    BY <2>1, <2>2
  <2> QED
    BY <1>2, <2>1, <2>3
<1> QED
  BY <1>1, <1>2

\* Asking keeps the invariant: the new id occurs nowhere.
LEMMA AskStep ==
  ASSUME IInv, NEW t \in Threads, NEW op \in {"start", "cancel"}, NEW r \in Runs,
         Ask(t, op, r), UNCHANGED <<runs, agent>>,
         out' = out \/ (out # <<>> /\ out' = Tail(out))
  PROVE  IInv'
<1> DEFINE request == [op |-> op, id |-> ids + 1, run |-> r]
<1>1. /\ ids < MaxIds /\ ids' = ids + 1
      /\ todo' = todo \cup {request}
      /\ wait' = [wait EXCEPT ![t] = request]
  BY DEF Ask
<1>2. ids \in Nat /\ MaxIds \in Nat /\ ids + 1 \in Ids
  BY <1>1, AcpAssumption DEF IInv, TypeOK, Ids
<1>3. request \in Request /\ request.id = ids + 1 /\ request.run = r /\ request.op = op
  BY <1>2 DEF Request
<1> HIDE DEF request
<1>4. UNCHANGED <<handle, state, owner, emitted, alive>>
  BY DEF runs, agent
<1>5. wait \in [Threads -> Request \cup {Events, None}]
  BY DEF IInv, TypeOK
<1>6. wait'[t] = request /\ \A u \in Threads : u # t => wait'[u] = wait[u]
  BY <1>1, <1>5
<1>7. /\ out' \in Seq(Message) /\ out \in Seq(Message)
      /\ \A n \in 1..Len(out') : \E k \in 1..Len(out) : out'[n] = out[k]
  BY TailLines DEF IInv, TypeOK
<1>8. TypeOK'
  <2>1. wait' \in [Threads -> Request \cup {Events, None}]
    BY <1>1, <1>3, <1>5
  <2>4. Main \in Threads /\ request.op # Events.op
    BY <1>3 DEF Threads, Events
  <2>5. wait'[Main] # Events
    BY <1>3, <1>6, <2>4 DEF IInv, TypeOK
  <2>2. ids' \in 0..MaxIds
    BY <1>1, <1>2
  <2>3. todo' \subseteq Request
    BY <1>1, <1>3 DEF IInv, TypeOK
  <2> QED
    BY <1>4, <1>7, <2>1, <2>2, <2>3, <2>5 DEF IInv, TypeOK
<1>9. \A q \in todo : q.id \in Ids /\ q.id =< ids
  BY DEF IInv, TypeOK, IdsAreFresh, Request
<1>10. \A u \in Threads : Requesting(u) => wait[u].id \in Ids /\ wait[u].id =< ids
  BY WaitType DEF IInv, IdsAreFresh
<1>11. \A n \in 1..Len(out) : out[n].id \in Nat /\ out[n].id =< ids
  <2>1. \A n \in 1..Len(out) : out[n] \in Message
    BY <1>7
  <2> QED
    BY <2>1 DEF IInv, IdsAreFresh, Message, Ids
<1>12. owner[ids + 1] = None
  BY <1>2 DEF IInv, IdsAreFresh
<1>13. IdsAreFresh'
  <2>1. \A q \in todo' : q.id =< ids'
    BY <1>1, <1>2, <1>3, <1>9 DEF Ids
  <2>2. \A u \in Threads : Requesting(u)' => wait'[u].id =< ids'
    BY <1>1, <1>2, <1>3, <1>6, <1>10 DEF Requesting, Ids
  <2>3. ASSUME NEW n \in 1..Len(out') PROVE out'[n].id =< ids'
    <3>1. PICK k \in 1..Len(out) : out'[n] = out[k]
      BY <1>7
    <3>2. out[k].id \in Nat /\ out[k].id =< ids
      BY <1>11
    <3> QED
      BY <1>1, <1>2, <3>1, <3>2
  <2>4. \A i \in Ids : i > ids' => owner'[i] = None
    BY <1>1, <1>2, <1>4 DEF IInv, IdsAreFresh, Ids
  <2> QED
    BY <2>1, <2>2, <2>3, <2>4 DEF IdsAreFresh
<1>14. TodoIsUnanswered'
  <2>1. \A q \in todo : q.id # request.id
    BY <1>2, <1>3, <1>9 DEF Ids
  <2>2. \A u \in Threads : Requesting(u) => wait[u].id # request.id
    BY <1>2, <1>3, <1>10 DEF Ids
  <2>3. \A p, q \in todo' : p.id = q.id => p = q
    BY <1>1, <2>1 DEF IInv, TodoIsUnanswered
  <2>4. \A q \in todo' : owner'[q.id] = None
    BY <1>1, <1>3, <1>4, <1>12 DEF IInv, TodoIsUnanswered
  <2>5. \A q \in todo', u \in Threads : Requesting(u)' /\ wait'[u].id = q.id => wait'[u] = q
    BY <1>1, <1>6, <2>1, <2>2 DEF IInv, TodoIsUnanswered, Requesting
  <2> QED
    BY <2>3, <2>4, <2>5 DEF TodoIsUnanswered
<1>15. AnswersBelong'
  <2> SUFFICES ASSUME NEW u \in Threads, Requesting(u)', wait'[u].op = "start"
               PROVE  /\ owner[wait'[u].id] \in {None, wait'[u].run}
                      /\ \A n \in 1..Len(out') :
                           out'[n].kind = "result" /\ out'[n].id = wait'[u].id =>
                             owner[wait'[u].id] = wait'[u].run
    BY <1>4 DEF AnswersBelong
  <2>1. CASE u = t
    <3>1. \A n \in 1..Len(out') : out'[n].id # ids + 1
      BY <1>2, <1>7, <1>11
    <3> QED
      BY <1>3, <1>6, <1>12, <2>1, <3>1
  <2>2. CASE u # t
    BY <1>6, <1>7, <2>2 DEF IInv, AnswersBelong, Requesting
  <2> QED
    BY <2>1, <2>2
<1>16. SessionsKeptApart'
  BY <1>4 DEF IInv, SessionsKeptApart
<1> QED
  BY <1>8, <1>13, <1>14, <1>15, <1>16 DEF IInv

\* A thread that stops waiting, or waits for events, keeps the invariant; so does
\* a run that takes a session of its own.
LEMMA WaitLessStep ==
  ASSUME IInv, UNCHANGED <<ids, todo, agent>>,
         out' = out \/ (out # <<>> /\ out' = Tail(out)),
         NEW t \in Threads, NEW w \in {None, Events}, t = Main => w = None,
         wait' = wait \/ wait' = [wait EXCEPT ![t] = w],
         state' \in [Runs -> {"new", "active", "cancelled", "exited"}],
         NEW r \in Runs, NEW i \in Ids,
         handle' = handle \/ (handle' = [handle EXCEPT ![r] = i] /\ owner[i] = r)
  PROVE  IInv'
<1>1. UNCHANGED <<owner, emitted, alive>>
  BY DEF agent
<1>2. wait \in [Threads -> Request \cup {Events, None}] /\ handle \in [Runs -> 0..MaxIds]
  BY DEF IInv, TypeOK
<1>3. \A u \in Threads : Requesting(u)' => Requesting(u) /\ wait'[u] = wait[u]
  BY <1>2 DEF Requesting
<1>4. /\ out' \in Seq(Message) /\ out \in Seq(Message)
      /\ \A n \in 1..Len(out') : \E k \in 1..Len(out) : out'[n] = out[k]
  BY TailLines DEF IInv, TypeOK
<1>5. TypeOK'
  <2>1. wait' \in [Threads -> Request \cup {Events, None}]
    BY <1>2
  <2>3. wait'[Main] # Events
    <3>1. Main \in Threads /\ None # Events
      BY AcpAssumption DEF Threads
    <3> QED
      BY <1>2, <3>1 DEF IInv, TypeOK
  <2>2. handle' \in [Runs -> 0..MaxIds]
    <3>1. i \in 0..MaxIds
      BY AcpAssumption DEF Ids
    <3> QED
      BY <1>2, <3>1
  <2> QED
    BY <1>1, <1>4, <2>1, <2>2, <2>3 DEF IInv, TypeOK
<1>6. IdsAreFresh'
  BY <1>1, <1>3, <1>4 DEF IInv, IdsAreFresh
<1>7. TodoIsUnanswered'
  BY <1>1, <1>3 DEF IInv, TodoIsUnanswered
<1>8. AnswersBelong'
  BY <1>1, <1>3, <1>4 DEF IInv, AnswersBelong
<1>9. SessionsKeptApart'
  BY <1>1, <1>2 DEF IInv, SessionsKeptApart
<1> QED
  BY <1>5, <1>6, <1>7, <1>8, <1>9 DEF IInv

\* Raising ends the wait, and at most the run's exit is noted.
LEMMA RaisedStep ==
  ASSUME IInv, NEW t \in Threads, Raised(t), UNCHANGED <<ids, todo, agent>>,
         out' = out \/ (out # <<>> /\ out' = Tail(out)),
         NEW r \in Runs, NEW i \in Ids
  PROVE  IInv'
<1>1. wait' = [wait EXCEPT ![t] = None] /\ handle' = handle
  BY DEF Raised
<1>2. state' \in [Runs -> {"new", "active", "cancelled", "exited"}]
  BY DEF Raised, IInv, TypeOK
<1> QED
  BY <1>1, <1>2, WaitLessStep

\* The line a request reads as its answer.
LEMMA ReturnedStep ==
  ASSUME IInv, NEW t \in Threads, Requesting(t), out # <<>>, out' = Tail(out),
         Matches(Head(out), wait[t]), Head(out).kind # "error",
         Returned(t, Head(out)), UNCHANGED <<ids, todo, agent>>
  PROVE  IInv'
<1> DEFINE m == Head(out)
           r == wait[t].run
<1>1. wait[t].id \in Ids /\ r \in Runs /\ wait[t].op \in {"start", "cancel"}
  BY WaitType DEF IInv
<1>2. 1 \in 1..Len(out) /\ m = out[1] /\ m \in Message
  BY DEF IInv, TypeOK
<1>3. m.id = wait[t].id
  BY DEF Matches
<1>4. m.kind = "result"
  <2>1. m.id # 0
    BY <1>1, <1>3 DEF Ids
  <2> QED
    BY <1>2, <2>1 DEF Message
<1> HIDE DEF m
<1>5. CASE wait[t].op = "cancel"
  <2>1. /\ state' = [state EXCEPT ![r] = "cancelled"]
        /\ wait' = [wait EXCEPT ![t] = None]
        /\ handle' = handle
    BY <1>5 DEF Returned
  <2>2. state' \in [Runs -> {"new", "active", "cancelled", "exited"}]
    BY <2>1 DEF IInv, TypeOK
  <2> QED
    BY <1>1, <2>1, <2>2, WaitLessStep
<1>6. CASE wait[t].op = "start"
  <2>1. /\ handle' = [handle EXCEPT ![r] = wait[t].id]
        /\ state' = [state EXCEPT ![r] = IF t = Main THEN "active" ELSE @]
        /\ wait' = [wait EXCEPT ![t] = IF t = Main THEN None ELSE Events]
    BY <1>3, <1>6 DEF Returned, m
  <2>2. state' \in [Runs -> {"new", "active", "cancelled", "exited"}]
    BY <1>1, <2>1 DEF IInv, TypeOK
  <2>3. owner[wait[t].id] = r
    BY <1>2, <1>3, <1>4, <1>6 DEF IInv, AnswersBelong
  <2> DEFINE w == IF t = Main THEN None ELSE Events
  <2>4. w \in {None, Events} /\ wait' = [wait EXCEPT ![t] = w]
    BY <2>1
  <2> HIDE DEF w
  <2> QED
    BY <1>1, <2>1, <2>2, <2>3, <2>4, WaitLessStep
<1> QED
  BY <1>1, <1>5, <1>6

LEMMA ReadStep ==
  ASSUME IInv, NEW t \in Threads, Reading(t), NEW r \in Runs, NEW i \in Ids
  PROVE  IInv'
<1>1. CASE ReadEnd(t)
  <2>1. Raised(t) /\ UNCHANGED <<ids, todo, out, agent>>
    BY <1>1 DEF ReadEnd
  <2> QED
    BY <2>1, RaisedStep
<1>2. CASE Read(t)
  <2>1. wait[t] # None /\ out # <<>> /\ out' = Tail(out) /\ UNCHANGED agent
    BY <1>2 DEF Read
  <2>2. state \in [Runs -> {"new", "active", "cancelled", "exited"}]
    BY DEF IInv, TypeOK
  <2>3. CASE Requesting(t)
    <3>1. ReadForRequest(t, Head(out)) /\ UNCHANGED <<ids, todo>>
      BY <1>2, <2>3 DEF Read
    <3>2. CASE ~Matches(Head(out), wait[t])
      <4>1. UNCHANGED <<wait, handle, state>>
        BY <3>1, <3>2 DEF ReadForRequest, runs
      <4> QED
        BY <2>1, <2>2, <3>1, <4>1, WaitLessStep
    <3>3. CASE Matches(Head(out), wait[t]) /\ Head(out).kind = "error"
      <4>1. Raised(t)
        BY <3>1, <3>3 DEF ReadForRequest
      <4> QED
        BY <2>1, <3>1, <4>1, RaisedStep
    <3>4. CASE Matches(Head(out), wait[t]) /\ Head(out).kind # "error"
      <4>1. Returned(t, Head(out))
        BY <3>1, <3>4 DEF ReadForRequest
      <4> QED
        BY <2>1, <2>3, <3>1, <3>4, <4>1, ReturnedStep
    <3> QED
      BY <3>2, <3>3, <3>4
  <2>4. CASE ~Requesting(t)
    <3>1. ReadForEvents(t, Head(out))
      BY <1>2, <2>4 DEF Read
    <3>2. CASE Head(out).kind # "exit"
      <4>1. UNCHANGED <<ids, todo, wait, handle, state>>
        BY <3>1, <3>2 DEF ReadForEvents, runs
      <4> QED
        BY <2>1, <2>2, <4>1, WaitLessStep
    <3>3. CASE NextStage(t)
      <4>1. t \in Runs
        BY <2>1, <2>4 DEF IInv, TypeOK, Requesting, Threads
      <4>2. Ask(t, "start", t) /\ UNCHANGED runs
        BY <3>3 DEF NextStage
      <4> QED
        BY <2>1, <4>1, <4>2, AskStep
    <3>4. CASE Raised(t) /\ UNCHANGED <<ids, todo>>
      BY <2>1, <3>4, RaisedStep
    <3> QED
      BY <3>1, <3>2, <3>3, <3>4 DEF ReadForEvents
  <2> QED
    BY <2>3, <2>4
<1> QED
  BY <1>1, <1>2 DEF Reading

-----------------------------------------------------------------------------
(* The agent's steps.                                                      *)

\* A line is added that carries a used id; only a session may get its owner.
LEMMA LineStep ==
  ASSUME IInv, UNCHANGED <<ids, wait, handle, state>>,
         NEW m \in Message, m.id =< ids, out' = Append(out, m),
         todo' \subseteq todo, emitted' \in 0..MaxEvents, alive' \in BOOLEAN,
         \/ /\ owner' = owner
            /\ m.kind = "result" =>
                 \A t \in Threads : Requesting(t) /\ wait[t].id = m.id => wait[t].op # "start"
         \/ \E q \in todo : /\ m.id = q.id /\ owner' = [owner EXCEPT ![q.id] = q.run]
                            /\ todo' = todo \ {q}
  PROVE  IInv'
<1>1. /\ out \in Seq(Message) /\ Len(out) \in Nat
      /\ out' \in Seq(Message) /\ Len(out') = Len(out) + 1
      /\ \A n \in 1..Len(out) : out'[n] = out[n]
      /\ out'[Len(out) + 1] = m
  BY AppendProperties DEF IInv, TypeOK
<1>2. \A n \in 1..Len(out') : n \in 1..Len(out) \/ n = Len(out) + 1
  BY <1>1
<1>3. \A n \in 1..Len(out') : out'[n] = m \/ \E k \in 1..Len(out) : out'[n] = out[k]
  BY <1>1, <1>2
<1>4. owner \in [Ids -> Runs \cup {None}] /\ todo \subseteq Request
  BY DEF IInv, TypeOK
<1>5. \A t \in Threads : (Requesting(t)' <=> Requesting(t)) /\ wait'[t] = wait[t]
  BY DEF Requesting
<1>6. TypeOK'
  <2>1. owner' \in [Ids -> Runs \cup {None}]
    BY <1>4 DEF Request
  <2>2. todo' \subseteq Request
    BY <1>4
  <2> QED
    BY <1>1, <2>1, <2>2 DEF IInv, TypeOK
<1>7. CASE /\ owner' = owner
           /\ m.kind = "result" =>
                \A t \in Threads : Requesting(t) /\ wait[t].id = m.id => wait[t].op # "start"
  <2>1. IdsAreFresh'
    BY <1>3, <1>5, <1>7 DEF IInv, IdsAreFresh
  <2>2. TodoIsUnanswered'
    BY <1>5, <1>7 DEF IInv, TodoIsUnanswered
  <2>3. AnswersBelong'
    BY <1>3, <1>5, <1>7 DEF IInv, AnswersBelong
  <2>4. SessionsKeptApart'
    BY <1>7 DEF IInv, SessionsKeptApart
  <2> QED
    BY <1>6, <2>1, <2>2, <2>3, <2>4 DEF IInv
<1>8. CASE \E q \in todo : /\ m.id = q.id /\ owner' = [owner EXCEPT ![q.id] = q.run]
                           /\ todo' = todo \ {q}
  <2>1. PICK q \in todo : /\ m.id = q.id /\ owner' = [owner EXCEPT ![q.id] = q.run]
                          /\ todo' = todo \ {q}
    BY <1>8
  <2>2. q.id \in Ids /\ q.run \in Runs /\ owner[q.id] = None /\ q.id =< ids
    BY <1>4 DEF IInv, IdsAreFresh, TodoIsUnanswered, Request
  <2>3. owner'[q.id] = q.run /\ \A i \in Ids : i # q.id => owner'[i] = owner[i]
    BY <1>4, <2>1, <2>2
  <2>4. ids \in Nat
    BY DEF IInv, TypeOK
  <2>5. IdsAreFresh'
    <3>1. \A i \in Ids : i > ids => i # q.id
      BY <2>2, <2>4 DEF Ids
    <3> QED
      BY <1>3, <1>5, <2>1, <2>3, <3>1 DEF IInv, IdsAreFresh
  <2>6. TodoIsUnanswered'
    <3>1. \A p \in todo' : p \in todo /\ p.id # q.id
      BY <2>1 DEF IInv, TodoIsUnanswered
    <3>2. \A p \in todo' : p.id \in Ids
      BY <1>4, <3>1 DEF Request
    <3> QED
      BY <1>5, <2>3, <3>1, <3>2 DEF IInv, TodoIsUnanswered
  <2>7. AnswersBelong'
    <3> SUFFICES ASSUME NEW t \in Threads, Requesting(t), wait[t].op = "start"
                 PROVE  /\ owner'[wait[t].id] \in {None, wait[t].run}
                        /\ \A n \in 1..Len(out') :
                             out'[n].kind = "result" /\ out'[n].id = wait[t].id =>
                               owner'[wait[t].id] = wait[t].run
      BY <1>5 DEF AnswersBelong
    <3>1. CASE wait[t].id = q.id
      <4>1. wait[t] = q
        BY <3>1 DEF IInv, TodoIsUnanswered
      <4> QED
        BY <2>3, <4>1
    <3>2. CASE wait[t].id # q.id
      <4>1. wait[t].id \in Ids
        BY WaitType DEF IInv
      <4>2. owner'[wait[t].id] = owner[wait[t].id]
        BY <2>3, <3>2, <4>1
      <4> QED
        BY <1>3, <2>1, <3>2, <4>2 DEF IInv, AnswersBelong
    <3> QED
      BY <3>1, <3>2
  <2>8. SessionsKeptApart'
    <3>1. \A r \in Runs : handle[r] # 0 => handle[r] \in Ids /\ handle[r] # q.id
      <4>1. \A r \in Runs : handle[r] # 0 => handle[r] \in Ids
        BY AcpAssumption DEF IInv, TypeOK, Ids
      <4> QED
        BY <2>2, <4>1, AcpAssumption DEF IInv, SessionsKeptApart
    <3> QED
      BY <2>3, <3>1 DEF IInv, SessionsKeptApart
  <2> QED
    BY <1>6, <2>5, <2>6, <2>7, <2>8 DEF IInv
<1> QED
  BY <1>7, <1>8

LEMMA AgentStep ==
  ASSUME IInv, Answer \/ Notify \/ Die
  PROVE  IInv'
<1>1. ids \in Nat /\ todo \subseteq Request /\ emitted \in 0..MaxEvents
  BY DEF IInv, TypeOK
<1>2. CASE Answer
  <2>1. PICK q \in todo, kind \in {"result", "error"} :
          /\ todo' = todo \ {q}
          /\ out' = Append(out, [kind |-> kind, id |-> q.id])
          /\ owner' = IF kind = "result" /\ q.op = "start"
                        THEN [owner EXCEPT ![q.id] = q.run] ELSE owner
    BY <1>2 DEF Answer
  <2>2. UNCHANGED <<ids, wait, handle, state, emitted, alive>> /\ alive \in BOOLEAN
    BY <1>2 DEF Answer, runs, IInv, TypeOK
  <2> DEFINE m == [kind |-> kind, id |-> q.id]
  <2>3. q.id \in Ids /\ q.id =< ids
    BY <1>1 DEF IInv, IdsAreFresh, Request
  <2>4. m \in Message /\ m.id = q.id /\ m.kind = kind
    BY <2>3 DEF Message
  <2> HIDE DEF m
  <2>5. out' = Append(out, m)
    BY <2>1 DEF m
  <2>6. CASE kind = "result" /\ q.op = "start"
    <3>1. m.id = q.id /\ owner' = [owner EXCEPT ![q.id] = q.run] /\ todo' = todo \ {q}
      BY <2>1, <2>4, <2>6
    <3> QED
      BY <1>1, <2>1, <2>2, <2>3, <2>4, <2>5, <3>1, LineStep
  <2>7. CASE ~(kind = "result" /\ q.op = "start")
    <3>1. owner' = owner
      BY <2>1, <2>7
    <3>2. m.kind = "result" =>
            \A t \in Threads : Requesting(t) /\ wait[t].id = m.id => wait[t].op # "start"
      BY <2>4, <2>7 DEF IInv, TodoIsUnanswered
    <3> QED
      BY <1>1, <2>1, <2>2, <2>3, <2>4, <2>5, <3>1, <3>2, LineStep
  <2> QED
    BY <2>6, <2>7
<1>3. CASE Notify
  <2>1. PICK kind \in {"update", "exit"} : out' = Append(out, [kind |-> kind, id |-> 0])
    BY <1>3 DEF Notify
  <2>2. UNCHANGED <<ids, todo, wait, handle, state, owner, alive>> /\ alive \in BOOLEAN
    BY <1>3 DEF Notify, runs, IInv, TypeOK
  <2>3. emitted' \in 0..MaxEvents
    BY <1>1, <1>3, AcpAssumption DEF Notify
  <2> DEFINE m == [kind |-> kind, id |-> 0]
  <2>4. m \in Message /\ m.id =< ids /\ m.kind # "result"
    BY <1>1 DEF Message
  <2> HIDE DEF m
  <2>5. out' = Append(out, m)
    BY <2>1 DEF m
  <2> QED
    BY <2>2, <2>3, <2>4, <2>5, LineStep
<1>4. CASE Die
  BY <1>4 DEF Die, runs, IInv, TypeOK, IdsAreFresh, TodoIsUnanswered, AnswersBelong,
              SessionsKeptApart, Requesting
<1> QED
  BY <1>2, <1>3, <1>4

-----------------------------------------------------------------------------
(* The theorems.                                                           *)

LEMMA Initially == Init => IInv
<1> SUFFICES ASSUME Init PROVE IInv
  OBVIOUS
<1>1. /\ ids = 0 /\ todo = {} /\ out = <<>> /\ Len(out) = 0
      /\ wait = [t \in Threads |-> None]
      /\ handle = [r \in Runs |-> 0] /\ state = [r \in Runs |-> "new"]
      /\ owner = [i \in Ids |-> None] /\ emitted = 0 /\ alive = TRUE
  BY DEF Init
<1>2. \A t \in Threads : ~Requesting(t)
  BY <1>1 DEF Requesting
<1>3. wait[Main] # Events
  BY <1>1, AcpAssumption DEF Threads
<1>4. TypeOK
  BY <1>1, <1>3, AcpAssumption DEF TypeOK
<1>5. IdsAreFresh /\ TodoIsUnanswered /\ AnswersBelong
  BY <1>1, <1>2 DEF IdsAreFresh, TodoIsUnanswered, AnswersBelong
<1>6. SessionsKeptApart
  BY <1>1 DEF SessionsKeptApart
<1> QED
  BY <1>4, <1>5, <1>6 DEF IInv

LEMMA Inductive == IInv /\ [Next]_vars => IInv'
<1> SUFFICES ASSUME IInv, [Next]_vars PROVE IInv'
  OBVIOUS
<1>1. CASE \E r \in Runs : Start(r) \/ Cancel(r)
  <2>1. PICK r \in Runs : Start(r) \/ Cancel(r)
    BY <1>1
  <2>2. Main \in Threads
    BY DEF Threads
  <2>3. (Ask(Main, "start", r) \/ Ask(Main, "cancel", r)) /\ UNCHANGED <<out, runs, agent>>
    BY <2>1 DEF Start, Cancel
  <2> QED
    BY <2>2, <2>3, AskStep
<1>2. CASE \E r \in Runs : OpenStream(r)
  <2>1. PICK r \in Runs : OpenStream(r)
    BY <1>2
  <2>2. /\ r \in Threads /\ r # Main /\ wait' = [wait EXCEPT ![r] = Events]
        /\ UNCHANGED <<ids, todo, out, handle, state, agent>>
    BY <2>1, AcpAssumption DEF OpenStream, runs, Threads
  <2>3. state' \in [Runs -> {"new", "active", "cancelled", "exited"}] /\ 1 \in Ids
    BY <2>2, AcpAssumption DEF IInv, TypeOK, Ids
  <2> QED
    BY <2>2, <2>3, WaitLessStep
<1>3. CASE \E t \in Threads : Reading(t)
  <2>1. 1 \in Ids /\ Runs # {}
    BY AcpAssumption DEF Ids
  <2> QED
    BY <1>3, <2>1, ReadStep
<1>4. CASE Answer \/ Notify \/ Die
  BY <1>4, AgentStep
<1>5. CASE UNCHANGED vars
  BY <1>5 DEF vars, runs, agent, IInv, TypeOK, IdsAreFresh, TodoIsUnanswered, AnswersBelong,
              SessionsKeptApart, Requesting
<1> QED
  BY <1>1, <1>2, <1>3, <1>4, <1>5 DEF Next

LEMMA Invariant == Spec => []IInv
BY Initially, Inductive, PTL DEF Spec

\* However many threads start sessions and read each other's answers, a run's
\* handle is the session the agent opened for it.
THEOREM NoSessionIsMixedUp == Spec => []SessionsKeptApart
<1>1. IInv => SessionsKeptApart
  BY DEF IInv
<1> QED
  BY <1>1, Invariant, PTL

-----------------------------------------------------------------------------
(* A lone reader keeps its answer.                                         *)

\* At most one thread reads the pipe.
LoneReader == \A t, u \in Threads : wait[t] # None /\ wait[u] # None => t = u

\* The request a thread waits for is with the agent, or its answer is in the pipe.
AnswerIsUnderway(t) ==
  Requesting(t) => wait[t] \in todo \/ \E n \in DOMAIN out : out[n].id = wait[t].id

\* A line is read and it is not the one the thread waits for.
LEMMA TailKeepsLine ==
  ASSUME out \in Seq(Message), out # <<>>, NEW n \in DOMAIN out, out[n] # Head(out)
  PROVE  \E k \in DOMAIN Tail(out) : Tail(out)[k] = out[n]
<1>1. /\ Tail(out) \in Seq(Message) /\ Len(Tail(out)) = Len(out) - 1
      /\ \A k \in 1..Len(Tail(out)) : Tail(out)[k] = out[k + 1]
  BY HeadTailProperties
<1>2. n \in 1..Len(out) /\ n # 1 /\ Len(out) \in Nat
  OBVIOUS
<1>3. n - 1 \in 1..Len(Tail(out)) /\ n - 1 + 1 = n
  BY <1>1, <1>2
<1>4. DOMAIN Tail(out) = 1..Len(Tail(out))
  BY <1>1
<1>5. Tail(out)[n - 1] = out[n - 1 + 1]
  BY <1>1, <1>3
<1> QED
  BY <1>3, <1>4, <1>5

LEMMA LoneReadStep ==
  ASSUME IInv, LoneReader, NEW t \in Threads, Reading(t), NEW u \in Threads,
         AnswerIsUnderway(u), Requesting(u)'
  PROVE  AnswerIsUnderway(u)'
<1>1. /\ wait \in [Threads -> Request \cup {Events, None}] /\ out \in Seq(Message)
      /\ wait[t] # None
  BY DEF IInv, TypeOK, Reading, Read, ReadEnd
<1>2. wait' = [wait EXCEPT ![t] = wait'[t]]
  <2>1. CASE ReadEnd(t)
    BY <1>1, <2>1 DEF ReadEnd, Raised
  <2>2. CASE Read(t)
    BY <1>1, <2>2 DEF Read, ReadForRequest, ReadForEvents, Raised, Returned, NextStage, Ask
  <2> QED
    BY <2>1, <2>2 DEF Reading
<1>3. CASE u # t
  <2>1. wait'[u] = wait[u]
    BY <1>2, <1>3, <1>1
  <2>2. wait[u] # None
    BY <2>1 DEF Requesting
  <2> QED
    BY <1>1, <1>3, <2>2 DEF LoneReader
<1>4. CASE u = t /\ ReadEnd(t)
  BY <1>1, <1>4 DEF ReadEnd, Raised, Requesting
<1>5. CASE u = t /\ Read(t) /\ ~Requesting(t)
  <2>1. ReadForEvents(t, Head(out))
    BY <1>5 DEF Read
  <2>2. CASE NextStage(t)
    <3>1. wait'[t] \in todo'
      BY <1>1, <2>2 DEF NextStage, Ask
    <3> QED
      BY <1>5, <3>1 DEF AnswerIsUnderway
  <2>3. CASE ~NextStage(t)
    BY <1>1, <1>5, <2>1, <2>3 DEF ReadForEvents, Raised, Requesting
  <2> QED
    BY <2>2, <2>3
<1>6. CASE u = t /\ Read(t) /\ Requesting(t)
  <2>1. /\ ReadForRequest(t, Head(out)) /\ UNCHANGED todo
        /\ out # <<>> /\ out' = Tail(out)
    BY <1>6 DEF Read
  <2>2. ~Matches(Head(out), wait[t]) /\ wait' = wait
    BY <1>1, <1>6, <2>1 DEF ReadForRequest, Raised, Returned, Requesting
  <2>3. ASSUME NEW n \in DOMAIN out, out[n].id = wait[t].id
        PROVE  \E k \in DOMAIN out' : out'[k].id = wait[t].id
    <3>1. out[n] # Head(out)
      BY <2>2, <2>3 DEF Matches
    <3> QED
      BY <1>1, <2>1, <2>3, <3>1, TailKeepsLine
  <2> QED
    BY <1>6, <2>1, <2>2, <2>3 DEF AnswerIsUnderway
<1> QED
  BY <1>3, <1>4, <1>5, <1>6 DEF Reading

LEMMA AgentKeepsAnswers ==
  ASSUME IInv, Answer \/ Notify \/ Die, NEW u \in Threads, AnswerIsUnderway(u)
  PROVE  AnswerIsUnderway(u)'
<1>1. out \in Seq(Message) /\ wait' = wait /\ todo \subseteq Request
  BY DEF IInv, TypeOK, Answer, Notify, Die
<1>2. ASSUME NEW m, out' = Append(out, m)
      PROVE  /\ \A n \in DOMAIN out : n \in DOMAIN out' /\ out'[n] = out[n]
             /\ \E n \in DOMAIN out' : out'[n] = m
  <2>1. /\ Len(out) \in Nat /\ DOMAIN out = 1..Len(out) /\ DOMAIN out' = 1..(Len(out) + 1)
        /\ \A n \in 1..Len(out) : out'[n] = out[n]
        /\ out'[Len(out) + 1] = m
    BY <1>1, <1>2
  <2> QED
    BY <2>1
<1>3. CASE Answer
  <2>1. PICK request \in todo, kind \in {"result", "error"} :
          /\ todo' = todo \ {request}
          /\ out' = Append(out, [kind |-> kind, id |-> request.id])
    BY <1>3 DEF Answer
  <2>2. \A n \in DOMAIN out : n \in DOMAIN out' /\ out'[n] = out[n]
    BY <1>2, <2>1
  <2>3. \E n \in DOMAIN out' : out'[n].id = request.id
    BY <1>2, <2>1
  <2> QED
    BY <1>1, <2>1, <2>2, <2>3 DEF AnswerIsUnderway, Requesting
<1>4. CASE Notify
  <2>1. PICK kind \in {"update", "exit"} : out' = Append(out, [kind |-> kind, id |-> 0])
    BY <1>4 DEF Notify
  <2>2. \A n \in DOMAIN out : n \in DOMAIN out' /\ out'[n] = out[n]
    BY <1>2, <2>1
  <2> QED
    BY <1>1, <1>4, <2>2 DEF AnswerIsUnderway, Requesting, Notify
<1>5. CASE Die
  BY <1>5 DEF Die, AnswerIsUnderway, Requesting
<1> QED
  BY <1>3, <1>4, <1>5

\* As long as one thread reads at a time, the answer to its request is never dropped:
\* it is to come from the agent or still in the pipe (acp_runtime.py
\* StdioAcpTransport.request).  This is the safety part of LoneRequestReturns.
THEOREM LoneAnswerIsKept ==
  Spec => ([]LoneReader => [](\A t \in Threads : AnswerIsUnderway(t)))
<1> DEFINE Underway == \A t \in Threads : AnswerIsUnderway(t)
<1>1. Init => Underway
  BY DEF Init, AnswerIsUnderway, Requesting
<1>2. IInv /\ LoneReader /\ Underway /\ [Next]_vars => Underway'
  <2> SUFFICES ASSUME IInv, LoneReader, Underway, [Next]_vars,
                      NEW u \in Threads, Requesting(u)'
               PROVE  AnswerIsUnderway(u)'
    BY DEF AnswerIsUnderway
  <2>0. wait \in [Threads -> Request \cup {Events, None}] /\ AnswerIsUnderway(u)
    BY DEF IInv, TypeOK
  <2>1. CASE \E r \in Runs : Start(r) \/ Cancel(r)
    <3>1. /\ todo \subseteq todo' /\ out' = out /\ wait'[Main] \in todo'
          /\ \A t \in Threads : t # Main => wait'[t] = wait[t]
      BY <2>0, <2>1 DEF Start, Cancel, Ask, Threads
    <3> QED
      BY <2>0, <3>1 DEF AnswerIsUnderway, Requesting
  <2>2. CASE \E r \in Runs : OpenStream(r)
    <3>1. UNCHANGED <<todo, out>> /\ (wait'[u] = wait[u] \/ wait'[u] = Events)
      BY <2>0, <2>2 DEF OpenStream
    <3> QED
      BY <2>0, <3>1 DEF AnswerIsUnderway, Requesting
  <2>3. CASE \E t \in Threads : Reading(t)
    BY <2>0, <2>3, LoneReadStep
  <2>4. CASE Answer \/ Notify \/ Die
    BY <2>0, <2>4, AgentKeepsAnswers
  <2>5. CASE UNCHANGED vars
    BY <2>0, <2>5 DEF vars, AnswerIsUnderway, Requesting
  <2> QED
    BY <2>1, <2>2, <2>3, <2>4, <2>5 DEF Next
<1> QED
  BY <1>1, <1>2, Invariant, PTL DEF Spec

-----------------------------------------------------------------------------
(* After the end of the process everything comes to an end.                *)

\* Active runs whose stream is still to be opened, and the threads that read.
Unopened == {r \in Runs : state[r] = "active" /\ wait[r] = None}
Waiting == {t \in Threads : wait[t] # None}

\* What is left to be done without the agent, the most significant number first.
Remaining == <<MaxIds - ids, Len(out), Cardinality(Unopened), Cardinality(Waiting)>>

\* The lexicographic order, which is well-founded on natural numbers.
Shorter(d, e) ==
  \E k \in 1..4 : d[k] < e[k] /\ \A j \in 1..(k - 1) : d[j] = e[j]

LEMMA RemainingShorter ==
  ASSUME \/ MaxIds - ids' < MaxIds - ids
         \/ ids' = ids /\ Len(out') < Len(out)
         \/ UNCHANGED <<ids, out>> /\ Cardinality(Unopened') < Cardinality(Unopened)
         \/ /\ UNCHANGED <<ids, out>> /\ Unopened' = Unopened
            /\ Cardinality(Waiting') < Cardinality(Waiting)
  PROVE  Shorter(Remaining', Remaining)
<1> DEFINE d == Remaining'
           e == Remaining
<1>1. /\ d[1] = MaxIds - ids' /\ d[2] = Len(out') /\ d[3] = Cardinality(Unopened')
      /\ d[4] = Cardinality(Waiting')
      /\ e[1] = MaxIds - ids /\ e[2] = Len(out) /\ e[3] = Cardinality(Unopened)
      /\ e[4] = Cardinality(Waiting)
  BY DEF Remaining
<1> HIDE DEF d, e
<1>2. \/ d[1] < e[1]
      \/ d[1] = e[1] /\ d[2] < e[2]
      \/ d[1] = e[1] /\ d[2] = e[2] /\ d[3] < e[3]
      \/ d[1] = e[1] /\ d[2] = e[2] /\ d[3] = e[3] /\ d[4] < e[4]
  BY <1>1
<1>3. /\ 1 - 1 = 0 /\ 2 - 1 = 1 /\ 3 - 1 = 2 /\ 4 - 1 = 3
      /\ \A k \in 1..4 : \A j \in 1..(k - 1) : (j = 1 \/ j = 2 \/ j = 3) /\ j < k
  OBVIOUS
<1>4. Shorter(d, e)
  BY <1>2, <1>3 DEF Shorter
<1> QED
  BY <1>4 DEF d, e

\* A set that loses an element has fewer.
LEMMA FewerWithout ==
  ASSUME NEW S, IsFiniteSet(S), NEW x \in S
  PROVE  Cardinality(S \ {x}) < Cardinality(S)
<1>1. Cardinality(S \ {x}) = Cardinality(S) - 1 /\ Cardinality(S) \in Nat
  BY FS_RemoveElement, FS_CardinalityType
<1> QED
  BY <1>1

LEMMA FiniteParts ==
  ASSUME IsFiniteSet(Runs)
  PROVE  IsFiniteSet(Unopened) /\ IsFiniteSet(Waiting)
<1>1. IsFiniteSet(Threads)
  BY FS_AddElement DEF Threads
<1> QED
  BY <1>1, FS_Subset DEF Unopened, Waiting

LEMMA StepShortens ==
  ASSUME IsFiniteSet(Runs), IInv, Next, ~alive
  PROVE  ~alive' /\ Shorter(Remaining', Remaining)
<1>1. /\ ids \in Nat /\ MaxIds \in Nat /\ out \in Seq(Message) /\ Runs \subseteq Threads
      /\ wait \in [Threads -> Request \cup {Events, None}]
      /\ state \in [Runs -> {"new", "active", "cancelled", "exited"}]
  BY AcpAssumption DEF IInv, TypeOK, Threads
<1>2. IsFiniteSet(Unopened) /\ IsFiniteSet(Waiting)
  BY FiniteParts
<1>3. ASSUME NEW t \in Threads, NEW op, NEW r \in Runs, Ask(t, op, r)
      PROVE  Shorter(Remaining', Remaining)
  <2>1. ids' = ids + 1
    BY <1>3 DEF Ask
  <2>2. MaxIds - ids' < MaxIds - ids
    BY <1>1, <2>1
  <2> QED
    BY <2>2, RemainingShorter
<1>4. CASE \E r \in Runs : Start(r) \/ Cancel(r)
  BY <1>3, <1>4 DEF Start, Cancel, agent, Threads
<1>5. ASSUME NEW r \in Runs, OpenStream(r)
      PROVE  ~alive' /\ Shorter(Remaining', Remaining)
  <2>1. /\ state[r] = "active" /\ wait[r] = None
        /\ wait' = [wait EXCEPT ![r] = Events]
        /\ UNCHANGED <<ids, out, state, alive>>
    BY <1>5 DEF OpenStream, runs, agent
  <2>2. Events # None
    BY AcpAssumption
  <2>3. Unopened' = Unopened \ {r} /\ r \in Unopened
    BY <1>1, <2>1, <2>2 DEF Unopened
  <2>4. Cardinality(Unopened') < Cardinality(Unopened)
    BY <1>2, <2>3, FewerWithout
  <2> QED
    BY <2>1, <2>4, RemainingShorter
<1>6. ASSUME NEW t \in Threads, Read(t)
      PROVE  ~alive' /\ Shorter(Remaining', Remaining)
  <2>1. alive' = alive /\ out # <<>> /\ out' = Tail(out)
    BY <1>6 DEF Read, agent
  <2>2. Len(out') < Len(out)
    <3>1. Len(out') = Len(out) - 1 /\ Len(out) \in Nat
      BY <1>1, <2>1, HeadTailProperties
    <3> QED
      BY <3>1
  <2>3. ids' = ids \/ (t \in Runs /\ Ask(t, "start", t))
    <3>1. CASE Requesting(t)
      BY <1>6, <3>1 DEF Read
    <3>2. CASE ~Requesting(t)
      <4>1. wait[t] = Events /\ t \in Runs
        BY <1>1, <1>6, <3>2 DEF Read, Requesting, IInv, TypeOK, Threads
      <4> QED
        BY <1>6, <3>2, <4>1 DEF Read, ReadForEvents, NextStage
    <3> QED
      BY <3>1, <3>2
  <2> QED
    BY <1>3, <2>1, <2>2, <2>3, RemainingShorter
<1>7. ASSUME NEW t \in Threads, ReadEnd(t)
      PROVE  ~alive' /\ Shorter(Remaining', Remaining)
  <2>1. /\ wait[t] # None /\ wait' = [wait EXCEPT ![t] = None]
        /\ state' = IF t = Main \/ state[t] # "active" THEN state
                    ELSE [state EXCEPT ![t] = "exited"]
        /\ UNCHANGED <<ids, out, alive>>
    BY <1>7 DEF ReadEnd, Raised, agent
  <2>2. Waiting' = Waiting \ {t} /\ t \in Waiting
    BY <1>1, <2>1 DEF Waiting
  <2>3. Unopened' = Unopened
    <3>1. ASSUME NEW r \in Runs, r # t
          PROVE  state'[r] = state[r] /\ wait'[r] = wait[r]
      BY <1>1, <2>1, <3>1
    <3>2. t \in Runs => state'[t] # "active" /\ wait[t] # None
      BY <1>1, <2>1, AcpAssumption
    <3> QED
      BY <3>1, <3>2 DEF Unopened
  <2>4. Cardinality(Waiting') < Cardinality(Waiting)
    BY <1>2, <2>2, FewerWithout
  <2> QED
    BY <2>1, <2>3, <2>4, RemainingShorter
<1> QED
  BY <1>3, <1>4, <1>5, <1>6, <1>7 DEF Next, Reading, Answer, Notify, Die, Start, Cancel, agent

\* Once the process has ended, each step of the threads and of the supervisor brings
\* the system closer to its end: a line, a stream to be opened or a reading thread is
\* one less, or a request more is used up.  The order of the measure is well-founded,
\* so that finitely many steps are left; a thread that reads or an active run is one
\* more to come (acp_runtime.py, supervisor.py).  This is the safety part of
\* EndReachesEveryRun.
THEOREM EndComesCloser ==
  ASSUME IsFiniteSet(Runs)
  PROVE  Spec => /\ [](Remaining \in [1..4 -> Nat])
                 /\ [][~alive => ~alive' /\ Shorter(Remaining', Remaining)]_vars
<1>1. IInv => Remaining \in [1..4 -> Nat]
  <2> SUFFICES ASSUME IInv PROVE Remaining \in [1..4 -> Nat]
    OBVIOUS
  <2>1. MaxIds - ids \in Nat /\ Len(out) \in Nat
    BY AcpAssumption DEF IInv, TypeOK
  <2>2. Cardinality(Unopened) \in Nat /\ Cardinality(Waiting) \in Nat
    BY FiniteParts, FS_CardinalityType
  <2> QED
    BY <2>1, <2>2 DEF Remaining
<1>2. IInv /\ [Next]_vars => [~alive => ~alive' /\ Shorter(Remaining', Remaining)]_vars
  BY StepShortens
<1> QED
  BY <1>1, <1>2, Invariant, PTL DEF Spec
=============================================================================
