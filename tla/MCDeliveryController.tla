------------------------ MODULE MCDeliveryController ------------------------
(***************************************************************************)
(* Instances of DeliveryController for TLC: two roots a and b, and an item *)
(* c blocked by a.                                                         *)
(***************************************************************************)
EXTENDS DeliveryController, TLC

CONSTANTS a, b, c

Fork  == (a :> {}) @@ (b :> {}) @@ (c :> {a})
Chain == (a :> {}) @@ (b :> {a})
=============================================================================
