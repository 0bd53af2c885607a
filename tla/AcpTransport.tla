---------------------------- MODULE AcpTransport ----------------------------
(***************************************************************************)
(* One agent process behind StdioAcpTransport (src/mergewave/              *)
(* acp_runtime.py), shared by all runs: the supervisor's main thread asks  *)
(* it to start and cancel sessions, and each run has a stream thread that  *)
(* reads events and, between two stages of its lifecycle, starts the next  *)
(* session (lifecycle.py).  Answers and notifications come on one pipe,    *)
(* each line goes to whichever thread reads it, and the process may end at *)
(* any time.  A session is named by the request that started it.  Payloads *)
(* are left out; no reader looks at the session of a notification.         *)
(***************************************************************************)
EXTENDS Naturals, Sequences, FiniteSets

CONSTANTS
  Runs,       \* the runs, and their stream threads
  Main,       \* the supervisor's thread
  None,       \* waiting for nothing; no owner
  MaxIds,     \* bound: requests
  MaxEvents   \* bound: notifications

\* What a stream thread waits for.
Events == [op |-> "events"]

ASSUME AcpAssumption ==
  /\ Runs # {} /\ Main \notin Runs /\ None \notin Runs \cup {Events}
  /\ MaxIds \in Nat \ {0} /\ MaxEvents \in Nat

Threads == Runs \cup {Main}
Ids == 1..MaxIds

VARIABLES
  ids,     \* the last request id
  todo,    \* the requests the agent has not answered
  out,     \* the lines in the pipe
  wait,    \* thread -> what it reads the pipe for, or None
  handle,  \* run -> its session, 0 before it has one
  state,   \* run -> "new", "active", "cancelled" or "exited"
  owner,   \* the agent's sessions: id -> the run it works for, or None
  emitted, \* notifications so far
  alive    \* the agent process runs

runs == <<handle, state>>
agent == <<owner, emitted, alive>>
vars == <<ids, todo, out, wait, runs, agent>>

Request == [op : {"start", "cancel"}, id : Ids, run : Runs]
\* Notifications carry no id.
Message == [kind : {"result", "error"}, id : Ids] \cup [kind : {"update", "exit"}, id : {0}]

TypeOK ==
  /\ ids \in 0..MaxIds
  /\ todo \subseteq Request
  /\ out \in Seq(Message)
  /\ wait \in [Threads -> Request \cup {Events, None}] /\ wait[Main] # Events
  /\ handle \in [Runs -> 0..MaxIds]
  /\ state \in [Runs -> {"new", "active", "cancelled", "exited"}]
  /\ owner \in [Ids -> Runs \cup {None}]
  /\ emitted \in 0..MaxEvents /\ alive \in BOOLEAN

Init ==
  /\ ids = 0 /\ todo = {} /\ out = <<>>
  /\ wait = [t \in Threads |-> None]
  /\ handle = [r \in Runs |-> 0] /\ state = [r \in Runs |-> "new"]
  /\ owner = [i \in Ids |-> None] /\ emitted = 0 /\ alive = TRUE

Requesting(t) == wait[t] \notin {None, Events}

-----------------------------------------------------------------------------
(* Requests.                                                               *)

\* request(method): a fresh id is written, and the thread reads the pipe for it.
Ask(t, op, r) ==
  /\ ids < MaxIds
  /\ ids' = ids + 1
  /\ LET request == [op |-> op, id |-> ids + 1, run |-> r] IN
       /\ todo' = todo \cup {request}
       /\ wait' = [wait EXCEPT ![t] = request]

Start(r) ==
  /\ wait[Main] = None /\ state[r] = "new"
  /\ Ask(Main, "start", r)
  /\ UNCHANGED <<out, runs, agent>>

\* retry and cancel_from_wave cancel the session the run holds.
Cancel(r) ==
  /\ wait[Main] = None /\ state[r] \in {"active", "exited"}
  /\ Ask(Main, "cancel", r)
  /\ UNCHANGED <<out, runs, agent>>

\* run_once starts the stream of an active run.
OpenStream(r) ==
  /\ wait[Main] = None /\ state[r] = "active" /\ wait[r] = None
  /\ wait' = [wait EXCEPT ![r] = Events]
  /\ UNCHANGED <<ids, todo, out, runs, agent>>

-----------------------------------------------------------------------------
(* Reading the pipe.                                                       *)

Matches_AnyAnswer(m, request) == m.kind \in {"result", "error"}

Matches_NextId(m, request) == m.id = request.id + 1

\* Whether the line is what the request reads the pipe for.
Matches(m, request) == m.id = request.id

\* start returns a handle on the session; a stream thread goes on to its events.
Returned(t, m) ==
  LET request == wait[t]
      r == request.run
  IN IF request.op = "cancel"
       THEN /\ state' = [state EXCEPT ![r] = "cancelled"]
            /\ wait' = [wait EXCEPT ![t] = None]
            /\ UNCHANGED handle
       ELSE /\ handle' = [handle EXCEPT ![r] = m.id]
            /\ state' = [state EXCEPT ![r] = IF t = Main THEN "active" ELSE @]
            /\ wait' = [wait EXCEPT ![t] = IF t = Main THEN None ELSE Events]

\* A request that raises leaves the run as it is; in a stream thread, and when
\* the events end, the run has exited with status 1.
Raised(t) ==
  /\ wait' = [wait EXCEPT ![t] = None]
  /\ state' = IF t = Main \/ state[t] # "active" THEN state ELSE [state EXCEPT ![t] = "exited"]
  /\ UNCHANGED handle

\* Lines with another id, and all notifications, are dropped.
ReadForRequest(t, m) ==
  IF ~Matches(m, wait[t]) THEN UNCHANGED <<wait, runs>>
  ELSE IF m.kind = "error" THEN Raised(t) ELSE Returned(t, m)

\* The next stage's session is started by the stream thread.
NextStage(r) == Ask(r, "start", r) /\ UNCHANGED runs

\* Any run's exit ends the stage; the lifecycle goes on or is over.  Answers are
\* dropped, or yielded as an event without effect.
ReadForEvents(r, m) ==
  IF m.kind # "exit" THEN UNCHANGED <<ids, todo, wait, runs>>
  ELSE NextStage(r) \/ (Raised(r) /\ UNCHANGED <<ids, todo>>)

\* One line of the pipe, whoever reads it.
Read(t) ==
  /\ wait[t] # None /\ out # <<>>
  /\ out' = Tail(out)
  /\ IF Requesting(t)
       THEN ReadForRequest(t, Head(out)) /\ UNCHANGED <<ids, todo>>
       ELSE ReadForEvents(t, Head(out))
  /\ UNCHANGED agent

\* An empty line is taken for a message.
ReadEnd_Empty(t) ==
  /\ wait[t] # None /\ out = <<>> /\ ~alive
  /\ UNCHANGED vars

\* Once the process has ended and its pipe is empty, reading raises.
ReadEnd(t) ==
  /\ wait[t] # None /\ out = <<>> /\ ~alive
  /\ Raised(t)
  /\ UNCHANGED <<ids, todo, out, agent>>

-----------------------------------------------------------------------------
(* The agent process.                                                      *)

\* The agent answers a request; a session it starts works for the request's run.
Answer ==
  /\ alive
  /\ \E request \in todo, kind \in {"result", "error"} :
       /\ todo' = todo \ {request}
       /\ out' = Append(out, [kind |-> kind, id |-> request.id])
       /\ owner' = IF kind = "result" /\ request.op = "start"
                     THEN [owner EXCEPT ![request.id] = request.run] ELSE owner
  /\ UNCHANGED <<ids, wait, runs, emitted, alive>>

\* A session that works reports progress or its exit.
Notify ==
  /\ alive /\ emitted < MaxEvents
  /\ \E i \in Ids : owner[i] # None
  /\ emitted' = emitted + 1
  /\ \E kind \in {"update", "exit"} : out' = Append(out, [kind |-> kind, id |-> 0])
  /\ UNCHANGED <<ids, todo, wait, runs, owner, alive>>

Die ==
  /\ alive /\ alive' = FALSE
  /\ UNCHANGED <<ids, todo, out, wait, runs, owner, emitted>>

Reading(t) == Read(t) \/ ReadEnd(t)

Next ==
  \/ \E r \in Runs : Start(r) \/ Cancel(r) \/ OpenStream(r)
  \/ \E t \in Threads : Reading(t)
  \/ Answer \/ Notify \/ Die

\* A thread that can read reads, and the supervisor opens the streams of active
\* runs in every cycle.  Of the agent nothing is assumed.
Fairness ==
  /\ \A t \in Threads : WF_vars(Reading(t))
  /\ \A r \in Runs : WF_vars(OpenStream(r))

Spec == Init /\ [][Next]_vars /\ Fairness

-----------------------------------------------------------------------------
(* Properties.                                                             *)

\* A run holds a session the agent opened for it, although several threads start
\* sessions at once and read each other's answers: no run streams, continues or
\* cancels another run's agent (acp_runtime.py StdioAcpTransport.request).
SessionsKeptApart == \A r \in Runs : handle[r] # 0 => owner[handle[r]] = r

\* While no two threads read the pipe at once and the agent answers in the end, a
\* request returns or raises.  With a second reader it need not: the reader drops
\* the answer, and the request has no time-out.
LoneRequestReturns ==
  /\ [](Cardinality({t \in Threads : wait[t] # None}) =< 1)
  /\ []<>(todo = {})
  => \A t \in Threads : [](Requesting(t) => <>~Requesting(t))

\* The end of the process reaches everybody: no thread goes on reading, and no
\* run it had started remains active (supervisor.py _start_stream).
EndReachesEveryRun ==
  ~alive ~> /\ \A t \in Runs : wait[t] = None
            /\ \A r \in Runs : state[r] # "active"
=============================================================================
