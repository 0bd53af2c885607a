-------------------------- MODULE MCSkillLifecycle --------------------------
(***************************************************************************)
(* Instance of SkillLifecycle for TLC: the nine stages of                  *)
(* DEFAULT_LIFECYCLE_STAGES.                                               *)
(***************************************************************************)
EXTENDS SkillLifecycle, TLC

Stage(id, runIf, writes) == [id |-> id, runIf |-> runIf, writes |-> writes]

DefaultStages ==
  << Stage("intake", "always", FALSE),
     Stage("explore", "after_previous", FALSE),
     Stage("plan", "after_previous", FALSE),
     Stage("implement-test", "after_previous", TRUE),
     Stage("debug", "on_failure", FALSE),
     Stage("verify", "after_implementation", FALSE),
     Stage("review", "after_verify", FALSE),
     Stage("release", "after_review", FALSE),
     Stage("wrap-up", "after_release", FALSE) >>

ASSUME DefaultStagesAreChained == Chained
=============================================================================
