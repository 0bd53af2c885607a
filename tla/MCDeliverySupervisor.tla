------------------------ MODULE MCDeliverySupervisor ------------------------
(***************************************************************************)
(* Instance of DeliverySupervisor for TLC.                                 *)
(***************************************************************************)
EXTENDS DeliverySupervisor, TLC

CONSTANT a
=============================================================================
