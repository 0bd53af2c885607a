---------------------------- MODULE MCScheduler ----------------------------
(***************************************************************************)
(* Instances of Scheduler for TLC: two roots a and b, an item c blocked by *)
(* a and by an item e that was completed before the run, and an item d     *)
(* that joins both branches.                                               *)
(***************************************************************************)
EXTENDS Scheduler, TLC

CONSTANTS a, b, c, d, e, r1, r2

Diamond == (a :> {}) @@ (b :> {}) @@ (c :> {a, e}) @@ (d :> {a, b}) @@ (e :> {})
=============================================================================
