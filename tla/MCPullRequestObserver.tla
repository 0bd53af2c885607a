----------------------- MODULE MCPullRequestObserver -----------------------
(***************************************************************************)
(* Instances of PullRequestObserver for TLC.                               *)
(***************************************************************************)
EXTENDS PullRequestObserver, TLC

CONSTANT bob
=============================================================================
