------------------------------ MODULE MissedFires ------------------------------
(***************************************************************************)
(* Everything that can start a schedule's run in the proactive engine: its *)
(* own timer, the catch-up of missed fires at start-up, the cron health    *)
(* sweeper and a trigger by hand, with the executor's lock, which makes a  *)
(* fire that meets a running one a no-op, and the do-not-disturb window.   *)
(* The time of each run is what is at stake; what a run does is the subject*)
(* of JobExecutor, the rows and the boot of schedules that of Schedules.   *)
(*                                                                         *)
(* Kinds: "beat" a heartbeat, "every" an interval cron job, "at" a one-shot*)
(* cron job.  One unit of `now` is half a period.                          *)
(***************************************************************************)
EXTENDS Naturals, Sequences, FiniteSets

CONSTANTS
    FireJobs,       \* the schedules
    FireKind,       \* FireJobs -> {"beat", "every", "at"}
    Period,         \* interval and everyMs, in units
    Tolerance,      \* max(minGraceMs, 1.5 * period)
    AtTime,         \* atMs of the "at" jobs
    AtGrace,        \* PAST_DUE_AT_GRACE_MS
    MaxPerRestart,  \* maxPerRestart of the catch-up
    MaxNow,         \* bound: time
    MaxManual       \* bound: triggers by hand

ASSUME FiresAssumption ==
    /\ IsFiniteSet(FireJobs) /\ FireKind \in [FireJobs -> {"beat", "every", "at"}]
    /\ Period \in Nat \ {0} /\ Tolerance \in Nat /\ 2 * Tolerance >= 3 * Period
    /\ {AtTime, AtGrace, MaxPerRestart, MaxNow, MaxManual} \subseteq Nat

VARIABLES
    now,
    engineUp,   \* running
    jobsLive,   \* the jobs the triggers hold
    jobRows,    \* the rows, for the next start
    nextDue,    \* when a job's timer is due; 0: no timer armed
    lastRun,    \* jobState.lastRunAt, 0 when undefined
    busy,       \* per job, who started the run in flight, or "no"
    awaiting,   \* jobs whose timer callback awaits the run it started
    catchUp,    \* toFire: the missed fires still to come
    quiet,      \* do not disturb or quiet hours
    sweptAt,    \* when the sweeper last ran
    ranSelf,    \* runs of each one-shot not asked for by hand
    lastStart,  \* the last start: by whom, and how long after the run before
    manual
fireVars == <<now, engineUp, jobsLive, jobRows, nextDue, lastRun, busy, awaiting, catchUp, quiet, sweptAt, ranSelf, lastStart, manual>>

NoGap == MaxNow + Period + 1   \* no run before: longer than any gap
Cron(j) == FireKind[j] # "beat"

(* computeNextRunAtMs(), and a heartbeat's interval from registration. *)
DueAfter(j, t) ==
    CASE FireKind[j] = "beat" -> t + Period
      [] FireKind[j] = "every" -> (t \div Period + 1) * Period
      [] OTHER -> IF AtTime > t THEN AtTime ELSE 0

FiresInit ==
    /\ now = 1 /\ engineUp = FALSE /\ jobsLive = {} /\ jobRows = FireJobs
    /\ nextDue = [j \in FireJobs |-> 0] /\ lastRun \in {r \in [FireJobs -> {0, 1}] : \A j \in FireJobs : FireKind[j] = "at" => r[j] = 0}
    /\ busy = [j \in FireJobs |-> "no"] /\ awaiting = {} /\ catchUp = <<>> /\ quiet = FALSE
    /\ sweptAt = 0 /\ ranSelf = [j \in FireJobs |-> 0] /\ lastStart = <<"no", NoGap>> /\ manual = 0

(* Timers are prompt: the event loop runs one that is due before it lets     *)
(* another phase, or a later timer, in.                                      *)
TimerPending == \E j \in jobsLive : nextDue[j] > 0 /\ nextDue[j] <= now

--------------------------------------------------------------------------------
(* execute(): a held lock or do-not-disturb ends the fire at once.  A cron   *)
(* job suppressed that way still counts as run, a heartbeat returns before.  *)
NeverLocked(j) == FALSE
JobLocked(j) == busy[j] # "no"
Starting(J) == {j \in J : ~JobLocked(j) /\ ~quiet}
Starts(J, by) ==
    /\ busy' = [j \in FireJobs |-> IF j \in Starting(J) THEN by ELSE busy[j]]
    /\ lastRun' = [j \in FireJobs |-> IF j \in J /\ quiet /\ Cron(j) /\ ~JobLocked(j) THEN now ELSE lastRun[j]]
    /\ ranSelf' = [j \in FireJobs |-> IF j \in Starting(J) /\ by # "hand" /\ FireKind[j] = "at" THEN ranSelf[j] + 1 ELSE ranSelf[j]]
    /\ lastStart' = LET gaps == {now - lastRun[j] : j \in {k \in Starting(J) : lastRun[k] > 0 /\ FireKind[k] # "at"}}
                    IN <<by, IF gaps = {} THEN NoGap ELSE CHOOSE g \in gaps : \A h \in gaps : g <= h>>

(* After a timer's fire: rearm, or drop the finished one-shot. *)
TimerOver(J) ==
    /\ nextDue' = [j \in FireJobs |-> IF j \in J THEN DueAfter(j, now) ELSE nextDue[j]]
    /\ jobsLive' = jobsLive \ {j \in J : FireKind[j] = "at"}
    /\ jobRows' = jobRows \ {j \in J : FireKind[j] = "at"}
TimerFires(j) ==
    /\ engineUp /\ j \in jobsLive /\ nextDue[j] > 0 /\ nextDue[j] <= now
    /\ IF FireKind[j] # "beat" /\ j \in Starting({j})
       THEN /\ Starts({j}, "timer") /\ awaiting' = awaiting \cup {j}
            /\ nextDue' = [nextDue EXCEPT ![j] = 0] /\ UNCHANGED <<jobsLive, jobRows>>
       ELSE Starts({j}, "timer") /\ TimerOver({j}) /\ UNCHANGED awaiting
    /\ UNCHANGED <<now, engineUp, catchUp, quiet, sweptAt, manual>>
(* finalize() and finalizeError() both set lastRunAt. *)
RunEnds(j) ==
    /\ busy[j] # "no" /\ busy' = [busy EXCEPT ![j] = "no"] /\ lastRun' = [lastRun EXCEPT ![j] = now]
    /\ IF j \in awaiting /\ j \in jobsLive THEN TimerOver({j}) ELSE UNCHANGED <<nextDue, jobsLive, jobRows>>
    /\ awaiting' = awaiting \ {j}
    /\ UNCHANGED <<now, engineUp, catchUp, quiet, sweptAt, ranSelf, lastStart, manual>>

(* triggerHeartbeat(), triggerCronJob() and each dispatch of triggerAllSchedules(). *)
TriggersNow(j) ==
    /\ engineUp /\ j \in jobsLive /\ manual < MaxManual /\ manual' = manual + 1 /\ Starts({j}, "hand")
    /\ UNCHANGED <<now, engineUp, jobsLive, jobRows, nextDue, awaiting, catchUp, quiet, sweptAt>>

--------------------------------------------------------------------------------
(* The sweeper: inspectJob() on every cron job, force-fire the stale ones. *)
StaleByExpected(j) == now >= Period /\ lastRun[j] < (now \div Period) * Period
StaleJob(j) ==
    IF FireKind[j] = "at" THEN AtTime <= now /\ lastRun[j] < AtTime
    ELSE lastRun[j] > 0 /\ now - lastRun[j] > Tolerance
Sweeps ==
    /\ engineUp /\ ~TimerPending /\ sweptAt < now /\ sweptAt' = now
    /\ Starts({j \in jobsLive : Cron(j) /\ StaleJob(j)}, "sweep")
    /\ UNCHANGED <<now, engineUp, jobsLive, jobRows, nextDue, awaiting, catchUp, quiet, manual>>

(* start(): a one-shot past due within the grace fires at once, one beyond   *)
(* it is dropped with its row.  Then the catch-up of the overdue jobs, the   *)
(* least overdue first, up to the cap: a list made once and fired staggered. *)
Overdue(j) == FireKind[j] # "at" /\ lastRun[j] > 0 /\ 2 * (now - lastRun[j]) > 3 * Period
Planned(J) ==
    {s \in [1..Cardinality(J) -> J] :
        \A i, k \in 1..Cardinality(J) : i < k => s[i] # s[k] /\ lastRun[s[i]] >= lastRun[s[k]]}
Capped(s) == IF Len(s) > MaxPerRestart THEN SubSeq(s, 1, MaxPerRestart) ELSE s
EngineStarts ==
    /\ ~engineUp /\ engineUp' = TRUE
    /\ LET held == {j \in jobRows : FireKind[j] # "at" \/ AtTime + AtGrace >= now}
       IN /\ jobsLive' = held /\ jobRows' = held
          /\ nextDue' = [j \in FireJobs |-> IF j \notin held THEN 0
                                            ELSE IF DueAfter(j, now) = 0 THEN now ELSE DueAfter(j, now)]
    /\ \E s \in Planned({j \in jobRows : Overdue(j)}) : catchUp' = Capped(s)
    /\ UNCHANGED <<now, lastRun, busy, awaiting, quiet, sweptAt, ranSelf, lastStart, manual>>
CatchesUp ==
    /\ catchUp # <<>> /\ catchUp' = Tail(catchUp)
    /\ Starts({Head(catchUp)} \cap jobsLive, "catch")
    /\ UNCHANGED <<now, engineUp, jobsLive, jobRows, nextDue, awaiting, quiet, sweptAt, manual>>
FiresStop ==
    /\ engineUp /\ \A j \in FireJobs : busy[j] = "no"
    /\ engineUp' = FALSE /\ jobsLive' = {} /\ nextDue' = [j \in FireJobs |-> 0] /\ catchUp' = <<>>
    /\ UNCHANGED <<now, jobRows, lastRun, busy, awaiting, quiet, sweptAt, ranSelf, lastStart, manual>>

(* setDnd(), setQuietHoursUntil(), clearDnd() and the expiry of either. *)
DndChanges ==
    /\ quiet' = ~quiet
    /\ UNCHANGED <<now, engineUp, jobsLive, jobRows, nextDue, lastRun, busy, awaiting, catchUp, sweptAt, ranSelf, lastStart, manual>>
TimePassesBy ==
    /\ ~TimerPending /\ now < MaxNow /\ now' = now + 1
    /\ UNCHANGED <<engineUp, jobsLive, jobRows, nextDue, lastRun, busy, awaiting, catchUp, quiet, sweptAt, ranSelf, lastStart, manual>>

FiresNext ==
    \/ \E j \in FireJobs : TimerFires(j) \/ RunEnds(j) \/ TriggersNow(j)
    \/ Sweeps \/ EngineStarts \/ CatchesUp \/ FiresStop \/ DndChanges \/ TimePassesBy

--------------------------------------------------------------------------------
(* A one-shot runs by itself once, although the sweeper looks at a past-due  *)
(* one while its first run is still in flight and nothing says it has run    *)
(* (cron-sweeper.ts inspectJob, executor.ts executeImpl's lock).             *)
AtRunsOnce == \A j \in FireJobs : FireKind[j] = "at" => ranSelf[j] <= 1

(* The sweeper heals and does not double: a run it forces starts more than a *)
(* whole period after the run before it ended (cron-sweeper.ts, the          *)
(* reference is the last actual fire).                                       *)
ForcedRunsSpaced == lastStart[1] = "sweep" => lastStart[2] > Period

(* A caught-up fire is of a schedule that is still overdue (engine.ts        *)
(* catchupMissedFires: missed schedules whose lastRunAt is overdue).         *)
CaughtUpIsOverdue == lastStart[1] = "catch" => 2 * lastStart[2] > 3 * Period
=============================================================================
