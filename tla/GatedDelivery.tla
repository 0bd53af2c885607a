--------------------------- MODULE GatedDelivery ---------------------------
(***************************************************************************)
(* What MergeWave promises about scheduling, with no waves, observations   *)
(* or attempts: an item waits, is in flight on one base revision, and is   *)
(* settled for good; it starts only when everything it is blocked by is    *)
(* settled and, under wave_barrier, only when nothing else is in flight.   *)
(* MergeWaveSimulator is shown to implement this specification.            *)
(***************************************************************************)
CONSTANTS Items, BlockedBy, Completed, Policies, Revisions, NoRevision

VARIABLES
  policy,    \* the scheduling policy, fixed for the run
  status,    \* item -> "waiting", "inflight" or "settled"
  startedOn  \* item -> the base it is in flight on, NoRevision otherwise

vars == <<policy, status, startedOn>>

TypeOK ==
  /\ policy \in Policies
  /\ status \in [Items -> {"waiting", "inflight", "settled"}]
  /\ startedOn \in [Items -> Revisions \cup {NoRevision}]

Init ==
  /\ policy \in Policies
  /\ status = [i \in Items |-> IF i \in Completed THEN "settled" ELSE "waiting"]
  /\ startedOn = [i \in Items |-> NoRevision]

Startable ==
  {i \in Items : status[i] = "waiting" /\ \A j \in BlockedBy[i] : status[j] = "settled"}

\* A whole batch starts at once, all of it on one revision.
Start(batch, revision) ==
  /\ batch # {}
  /\ policy = "wave_barrier" => \A i \in Items : status[i] # "inflight"
  /\ status' = [i \in Items |-> IF i \in batch THEN "inflight" ELSE status[i]]
  /\ startedOn' = [i \in Items |-> IF i \in batch THEN revision ELSE startedOn[i]]
  /\ UNCHANGED policy

\* An item in flight is merged or cancelled (settled), or retried (waiting).
Leave(i, next) ==
  /\ status[i] = "inflight"
  /\ status' = [status EXCEPT ![i] = next]
  /\ startedOn' = [startedOn EXCEPT ![i] = NoRevision]
  /\ UNCHANGED policy

Next ==
  \/ \E batch \in SUBSET Startable, revision \in Revisions : Start(batch, revision)
  \/ \E i \in Items, next \in {"waiting", "settled"} : Leave(i, next)

Spec == Init /\ [][Next]_vars

\* No item is in flight ahead of an item it is blocked by, and under
\* wave_barrier everything in flight was started on the same revision.
OneFrontier ==
  \A i \in Items : status[i] = "inflight" =>
    /\ \A j \in BlockedBy[i] : status[j] = "settled"
    /\ policy = "wave_barrier" =>
         \A j \in Items : status[j] = "inflight" => startedOn[j] = startedOn[i]
=============================================================================
