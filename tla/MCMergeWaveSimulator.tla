------------------------ MODULE MCMergeWaveSimulator ------------------------
(***************************************************************************)
(* Instances of MergeWaveSimulator for TLC: two independent roots a and b  *)
(* and an item c blocked by a, with observations that tell the gate's      *)
(* outcomes apart and some that are not about the attempt in flight.       *)
(***************************************************************************)
EXTENDS MergeWaveSimulator, TLC

CONSTANTS a, b, c, r1, r2

Fork == (a :> {}) @@ (b :> {}) @@ (c :> {a})

Merged(w, r) ==
  [workspace |-> w, base |-> r, initialHead |-> r, prHead |-> "head",
   ciHead |-> "head", ciPending |-> FALSE, ciPassed |-> TRUE, linked |-> TRUE,
   ancestor |-> TRUE, changesOpen |-> FALSE, reviewersOk |-> TRUE,
   approvals |-> 1, merged |-> TRUE, inTarget |-> "yes", scopeOk |-> TRUE]

\* Merged deliveries of the first attempts, of a second one and on another base,
\* an unmerged one and one that failed CI.
Reported ==
  {Merged(<<a, 1>>, r1), Merged(<<b, 1>>, r1), Merged(<<b, 2>>, r1), Merged(<<c, 1>>, r2),
   Merged(<<b, 1>>, r2), [Merged(<<a, 1>>, r1) EXCEPT !.merged = FALSE],
   [Merged(<<b, 1>>, r1) EXCEPT !.ciPassed = FALSE]}
=============================================================================
