------------------------------- MODULE MCFires -------------------------------
(***************************************************************************)
(* What must go on happening in the proactive engine, for TLC: retries of  *)
(* failed deliveries, timers of cron jobs, beats of heartbeats.  A         *)
(* behaviour runs the executor, a pair of cron jobs or a pair of           *)
(* heartbeats, picked by `part`.                                           *)
(***************************************************************************)
EXTENDS JobExecutor, Schedules, TLC

CONSTANTS r1, r2, r3, j1, c1, ta, tb

VARIABLE part

Conditional == (j1 :> "conditional")
NoFallback  == << >>

\* A recurring cron job and a reminder, a recurring and a one-shot heartbeat.
MCKind == ("briefing" :> "every") @@ ("reminder" :> "at") @@ ("watch" :> "beat") @@ ("hello" :> "once")
MCSchedules == DOMAIN MCKind

PairOf(p) == CASE p = "cron"  -> {"briefing", "reminder"}
               [] p = "beats" -> {"watch", "hello"}
               [] OTHER       -> {}
Pair == PairOf(part)

allVars == <<part, vars, schedVars>>

FiresInit == part \in {"executor", "cron", "beats"} /\ Init /\ SchedInit

\* Schedules outside the pair are never created; heartbeats are run without crashes.
StepSchedules ==
  /\ part \in {"cron", "beats"} /\ SchedNext
  /\ \A s \in MCSchedules \ Pair : row'[s] = "absent" /\ when'[s] = when[s]
  /\ part = "beats" => schedCrashes' = 0
  /\ UNCHANGED <<part, vars>>

StepExecutor == part = "executor" /\ Next /\ UNCHANGED <<part, schedVars>>

FiresNext == StepExecutor \/ StepSchedules

\* SchedFairness for the schedules of the pair; the executor's Fairness asks nothing
\* of an executor at rest.
PairFairness ==
  \A s \in MCSchedules :
    /\ WF_schedVars(s \in Pair /\ TimerFires(s) /\ fly' # fly)
    /\ WF_schedVars(s \in Pair /\ FireEnds(s)) /\ WF_schedVars(s \in Pair /\ Beat(s))
    /\ WF_schedVars(s \in Pair /\ BeatEnds(s)) /\ WF_schedVars(s \in Pair /\ TimePasses(s))
    /\ WF_schedVars(s \in Pair /\ Register(s))

FiresSpec   == FiresInit /\ [][FiresNext]_allVars /\ Fairness /\ PairFairness
OverlapSpec == FiresInit /\ part = "executor" /\ [][FiresNext]_allVars

-----------------------------------------------------------------------------
(* Row, registration and timer agree: an enabled recurring schedule has a  *)
(* timer, a fire or a beat that will re-arm it, and the timers map names   *)
(* no timer that is gone (cron.ts, heartbeat.ts, engine.ts).               *)
TimersMatch == SchedTypeOK /\ EnabledIsServed /\ HeldIsArmed

(* A retry that falls due is tried, and what it sends differs from every   *)
(* text recorded as delivered when its run compared (retry-queue.ts,       *)
(* engine.ts 240-300, executor.ts 1040-1100).                              *)
RetriesSound == DueRetryTried /\ SimilarNeedsOverlap
=============================================================================
