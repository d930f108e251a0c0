--------------------------------- MODULE Jobs ---------------------------------
(* The background tasks of the consumer pool (PopularityRefresher, LagPoller)  *)
(* and the operator's tools (DlqReplay, Evaluation, LoadTest, SeedScripts).    *)
(* They share no state with each other, so a behaviour follows one of them,    *)
(* next to whatever consumers and clicks it races with; job says which.        *)
EXTENDS PopularityRefresher, LagPoller, DlqReplay, Evaluation, LoadTest, SeedScripts

VARIABLE job

jobVars == <<job, refresherVars, lagVars, dlqVars, evalVars, loadVars, scriptVars>>

JobNames == {"refresher", "lag", "dlq", "evaluation", "loadtest", "scripts"}

JobsInit ==
  /\ job \in JobNames
  /\ RefresherInit /\ LagInit /\ LoadInit /\ ScriptsInit
  /\ IF job = "dlq" THEN DlqInit
     ELSE DlqInit /\ dlq = CHOOSE log \in DeadLetters : TRUE
  /\ IF job = "evaluation" THEN EvalInit
     ELSE EvalInit /\ recent = CHOOSE history \in EvalHistories : TRUE
  /\ job # "scripts" => db.index = "none"

Runs(name, steps, others) == job = name /\ steps /\ UNCHANGED <<job, others>>

JobsNext ==
  \/ Runs("refresher", RefresherNext, <<lagVars, dlqVars, evalVars, loadVars, scriptVars>>)
  \/ Runs("lag", LagNext, <<refresherVars, dlqVars, evalVars, loadVars, scriptVars>>)
  \/ Runs("dlq", DlqNext, <<refresherVars, lagVars, evalVars, loadVars, scriptVars>>)
  \/ Runs("evaluation", EvalNext, <<refresherVars, lagVars, dlqVars, loadVars, scriptVars>>)
  \/ Runs("loadtest", LoadNext, <<refresherVars, lagVars, dlqVars, evalVars, scriptVars>>)
  \/ Runs("scripts", ScriptsNext, <<refresherVars, lagVars, dlqVars, evalVars, loadVars>>)

JobsSpec == JobsInit /\ [][JobsNext]_jobVars

(* Only the refresher and the drain have something that must happen.  A        *)
(* refresher's task is scheduled as long as its pool is up (its restart is not *)
(* assumed), and a drain's loop goes on until it ends.  The steps of a job     *)
(* that does not run are not enabled.                                          *)
JobsFairSpec == JobsSpec /\ RefresherFairness /\ DlqFairness

--------------------------------------------------------------------------------
(* The variables of every job keep their types, and the counters their bounds. *)
JobsTypeOK ==
  RefresherTypeOK /\ LagTypeOK /\ DlqTypeOK /\ EvalTypeOK /\ LoadTypeOK /\ ScriptsTypeOK

(* What a job reports is so, with the reservations that each part states: the  *)
(* lag gauge, but for what moved between its two readings; exit code 0 of the  *)
(* evaluation, of the acceptance check, of the seeder, but for a run that      *)
(* ended between its commits, and of the click replayer.                       *)
ReportsHonest == LagHonest /\ EvalExitHonest /\ GateHonest /\ ScriptsHonest
================================================================================
