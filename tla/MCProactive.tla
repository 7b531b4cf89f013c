----------------------------- MODULE MCProactive -----------------------------
(***************************************************************************)
(* The proactive engine for TLC, without fairness: the pipeline of a fire, *)
(* what its fires are told of earlier ones, the catch-up of missed fires,  *)
(* the administration of schedules and the reload of their configuration.  *)
(* The parts share no state, so a behaviour runs one of them.              *)
(***************************************************************************)
EXTENDS JobExecutor, ScheduleAdmin, ConfigReload, MissedFires, ProactiveFeedback, TLC

CONSTANTS r1, r2, r3, j1, j2, c1, ta, tb

VARIABLE part

\* JobExecutor: a conditional and a silent job.
Mixed       == (j1 :> "conditional") @@ (j2 :> "silent")
NoFallback  == << >>
Perms       == Permutations(Runs)

\* ScheduleAdmin: a heartbeat the program seeds, and what editors ask for: the same
\* one, another under two names, both from one outside file, and a webhook.
Offer(kind, id, key, file) == [kind |-> kind, id |-> id, key |-> key, src |-> file]
Builtin == {Offer("heartbeat", "dreaming", "dreaming", "dreaming.md")}
AskedFor ==
  Builtin \cup
    {Offer("heartbeat", "h1", "n1", "ext"), Offer("heartbeat", "h1", "n2", "inline"),
     Offer("heartbeat", "dreaming", "dreaming", "ext"),
     Offer("webhook", "w1", "/p", "inline")}
\* A second heartbeat made from the prompt file of the first.
Sharing == Builtin \cup {Offer("heartbeat", "h1", "n1", "dreaming.md")}

\* MissedFires and ProactiveFeedback: one schedule of each kind and mode.
OneOfEach == ("h" :> "beat") @@ ("e" :> "every") @@ ("a" :> "at")
ModeOfEach == ("c" :> "conditional") @@ ("w" :> "always") @@ ("d" :> "silent")

allVars == <<part, vars, adminVars, cfgVars, fireVars, feedbackVars>>

ProactiveInit ==
  /\ part \in {"executor", "admin", "config", "missed", "feedback"}
  /\ Init /\ AdminInit /\ CfgInit /\ FiresInit /\ FeedbackInit
  /\ part # "missed" => lastRun = [j \in FireJobs |-> 0]

StepExecutor == part = "executor" /\ Next /\ UNCHANGED <<part, adminVars, cfgVars, fireVars, feedbackVars>>
StepAdmin    == part = "admin" /\ AdminNext /\ UNCHANGED <<part, vars, cfgVars, fireVars, feedbackVars>>
StepConfig   == part = "config" /\ CfgNext /\ UNCHANGED <<part, vars, adminVars, fireVars, feedbackVars>>
StepMissed   == part = "missed" /\ FiresNext /\ UNCHANGED <<part, vars, adminVars, cfgVars, feedbackVars>>
StepFeedback == part = "feedback" /\ FeedbackNext /\ UNCHANGED <<part, vars, adminVars, cfgVars, fireVars>>

ProactiveNext == StepExecutor \/ StepAdmin \/ StepConfig \/ StepMissed \/ StepFeedback

ProactiveSpec == ProactiveInit /\ [][ProactiveNext]_allVars
FeedbackSpec  == ProactiveInit /\ part = "feedback" /\ [][ProactiveNext]_allVars
PromptSpec    == ProactiveInit /\ part = "admin" /\ [][ProactiveNext]_allVars

-----------------------------------------------------------------------------
(* A missed schedule is caught up once: an "at" job runs at most once      *)
(* through boots, sweeps and catch-up, and a forced run of a recurring one *)
(* comes a full period after the last (engine.ts 910-970, cron-sweeper.ts).*)
CaughtUpOnce == AtRunsOnce /\ ForcedRunsSpaced

(* What the engine learns from its fires is true: no text goes out twice   *)
(* within the lookback, and a reply is credited to a fire of that job that *)
(* was delivered (executor.ts 560-640, learning-store.ts 1381-1500).       *)
FeedbackSound == NoRepeat /\ CreditIsEarned

(* A run sends at most one copy that its target acknowledged, and a lock   *)
(* on a job is held by a run of that job that is inside its try block      *)
(* (router.ts 57-100, executor.ts 379-790).                                *)
RunsSound == TypeOK /\ OneCopyPerRun /\ LockHasHolder
=============================================================================
