------------------------------ MODULE Schedules ------------------------------
(***************************************************************************)
(* The schedules of the proactive engine: the rows of proactive.db, the    *)
(* live registrations and timers of CronTrigger and HeartbeatTrigger, the  *)
(* completed one-shots of StateStore and its lazy flush, the engine's      *)
(* operations on schedules, and restarts (src/gateway/src/proactive).      *)
(*                                                                         *)
(* A schedule is a recurring cron job ("every"), a cron job for one moment *)
(* ("at"), a recurring heartbeat ("beat") or a one-shot heartbeat ("once").*)
(* What a fire does is the executor's business (module JobExecutor);       *)
(* manual triggers, the sweeper and the startup catch-up only execute a    *)
(* job and touch nothing here.                                             *)
(***************************************************************************)
EXTENDS Naturals, Sequences, FiniteSets, Functions, SequenceFilter

CONSTANTS Schedules,
          Kind,        \* [Schedules -> {"every", "at", "beat", "once"}]
          MaxDone,     \* MAX_COMPLETED_ONESHOTS
          MaxTimers,   \* bound: timers and fires of one cron job at a time
          MaxOrphans,  \* bound: fires of removed heartbeats at a time
          MaxSchedCrashes,  \* bound: process deaths
          NoSched

ASSUME SchedulesAssumption ==
  /\ Kind \in [Schedules -> {"every", "at", "beat", "once"}]
  /\ MaxDone \in Nat \ {0} /\ MaxTimers \in Nat \ {0}
  /\ MaxOrphans \in Nat /\ MaxSchedCrashes \in Nat
  /\ NoSched \notin Schedules

VARIABLES
  up,       \* "up", "stopping" or "down"
  row,      \* [Schedules -> "absent", "on" or "off"]: proactive.db
  jobs,     \* CronTrigger.jobs
  armed,    \* [Schedules -> Nat]: pending setTimeouts of a cron job
  held,     \* the schedules with an entry in CronTrigger.timers
  fly,      \* [Schedules -> Nat]: scheduled cron fires in flight
  beats,    \* HeartbeatTrigger.entries
  firing,   \* the entries whose fire is in flight
  orphan,   \* [Schedules -> Nat]: fires in flight of removed entries
  done,     \* StateStore's completedOneshots, oldest first
  disk,     \* completedOneshots in proactive.json
  when,     \* [Schedules -> "future", "grace" or "late"]: atMs against now
  booting,  \* the rows CronTrigger.start has yet to register
  bootFire, \* the past-due job CronTrigger.start awaits, or None
  schedCrashes

cronVars == <<jobs, armed, held, fly>>
beatVars == <<beats, firing, orphan>>
liveVars == <<cronVars, beatVars, booting, bootFire>>
schedVars == <<liveVars, up, row, done, disk, when, schedCrashes>>

Cron    == {s \in Schedules : Kind[s] \in {"every", "at"}}
Beats   == Schedules \ Cron
Oneshot == {s \in Schedules : Kind[s] \in {"at", "once"}}

\* An "at" moment lies ahead, passed at most PAST_DUE_AT_GRACE_MS ago, or earlier.
Moments == {"future", "grace", "late"}

\* Types of the rows, the registrations, the timers and the fires.
SchedTypeOK ==
  /\ up \in {"up", "stopping", "down"}
  /\ row \in [Schedules -> {"absent", "on", "off"}]
  /\ jobs \subseteq Cron /\ held \subseteq Cron
  /\ \A s \in Schedules : armed[s] \in Nat /\ fly[s] \in Nat /\ armed[s] + fly[s] <= MaxTimers + 1
  /\ DOMAIN armed = Schedules /\ DOMAIN fly = Schedules
  /\ beats \subseteq Beats /\ firing \subseteq beats
  /\ orphan \in [Schedules -> 0..(MaxOrphans + 1)]
  /\ done \in Seq(Oneshot) /\ Len(done) <= MaxDone
  /\ disk \in Seq(Oneshot) /\ Len(disk) <= MaxDone
  /\ when \in [Schedules -> Moments]
  /\ booting \subseteq Cron /\ bootFire \in Cron \union {NoSched}
  /\ schedCrashes \in 0..MaxSchedCrashes

Zero == [s \in Schedules |-> 0]

SchedInit ==
  /\ up = "up" /\ row = [s \in Schedules |-> "absent"]
  /\ jobs = {} /\ armed = Zero /\ held = {} /\ fly = Zero
  /\ beats = {} /\ firing = {} /\ orphan = Zero
  /\ done = << >> /\ disk = << >>
  /\ when = [s \in Schedules |-> "future"]
  /\ booting = {} /\ bootFire = NoSched
  /\ schedCrashes = 0

-----------------------------------------------------------------------------
(***************************************************************************)
(* StateStore and the rows of proactive.db.                                *)
(***************************************************************************)

\* markOneshotCompleted: append, keep the last MaxDone.
MarkDone(s) ==
  IF s \in Range(done) THEN done
  ELSE LET all == Append(done, s)
       IN IF Len(all) > MaxDone THEN Tail(all) ELSE all

\* clearOneshotCompleted.
ClearDone(s) == Filter(done, Oneshot \ {s})

\* The ten-second flush timer.
Flush ==
  /\ up # "down" /\ disk # done
  /\ disk' = done
  /\ UNCHANGED <<liveVars, up, row, done, when, schedCrashes>>

\* The rows after an insert, which ignores an id that has a row; after an update of
\* the enabled flag; after a delete.
Inserted(s) == [row EXCEPT ![s] = IF @ = "absent" THEN "on" ELSE @]

SetEnabled(s, e) == [row EXCEPT ![s] = e]

Deleted(rw, s) == [rw EXCEPT ![s] = "absent"]

-----------------------------------------------------------------------------
(***************************************************************************)
(* CronTrigger.                                                            *)
(***************************************************************************)

\* removeJob clears the timer the map still holds.
Cleared(s) == IF s \in held THEN [armed EXCEPT ![s] = @ - 1] ELSE armed

\* Startup registers cron rows in one stretch of the event loop, broken only where
\* CronTrigger.start awaits a past-due fire: nothing else runs in between.
Idle == booting = {} \/ bootFire # NoSched

\* Bound on the timers and fires of one job; no operation is taken beyond it.
Room(s) == armed[s] + fly[s] < MaxTimers

\* scheduleNext for moment w, given the timers a, their map h, the jobs js and the
\* rows rw the caller leaves: arm a timer; or, for a past-due moment, fire within
\* the grace, else complete without a fire.
ScheduleNext(s, w, a, h, js, rw) ==
  \/ /\ w = "future"
     /\ armed' = [a EXCEPT ![s] = @ + 1]
     /\ held' = h \union {s}
     /\ jobs' = js /\ row' = rw
     /\ UNCHANGED <<fly, done>>
  \/ /\ w = "grace"
     /\ fly' = [fly EXCEPT ![s] = @ + 1]
     /\ armed' = a /\ held' = h
     /\ jobs' = js /\ row' = rw
     /\ UNCHANGED done
  \/ /\ w = "late"
     /\ done' = MarkDone(s)
     /\ jobs' = js \ {s} /\ row' = Deleted(rw, s)
     /\ armed' = a /\ held' = h
     /\ UNCHANGED fly

\* (mutant) The callback keeps the map's entry for the fired timer.
TimerFiresKeepsEntry(s) ==
  /\ up = "up" /\ Idle /\ armed[s] > 0
  /\ armed' = [armed EXCEPT ![s] = @ - 1]
  /\ fly' = [fly EXCEPT ![s] = @ + 1]
  /\ UNCHANGED <<jobs, held, beats, firing, orphan, booting, bootFire, up, row, done, disk,
                 when, schedCrashes>>

\* The timer callback: it drops the map's entry (whoever set it), re-arms when the
\* moment is beyond the 60 s clamp, and fires otherwise.
TimerFires(s) ==
  /\ up # "down" /\ Idle /\ armed[s] > 0
  /\ \/ /\ up = "stopping"
        /\ armed' = [armed EXCEPT ![s] = @ - 1]
        /\ held' = held \ {s}
        /\ UNCHANGED fly
     \/ /\ up = "up" /\ (Kind[s] = "every" \/ when[s] # "future")
        /\ armed' = [armed EXCEPT ![s] = @ - 1]
        /\ held' = held \ {s}
        /\ fly' = [fly EXCEPT ![s] = @ + 1]
     \/ /\ up = "up" /\ when[s] = "future"   \* beyond the 60 s clamp: armed again
        /\ held' = held \union {s}
        /\ UNCHANGED <<armed, fly>>
  /\ UNCHANGED <<jobs, beats, firing, orphan, booting, bootFire, up, row, done, disk, when, schedCrashes>>

\* (mutant) A fire that ends does not schedule the next one.
FireEndsNoRearm(s) ==
  /\ fly[s] > 0
  /\ disk' \in {disk, done}
  /\ bootFire' = IF bootFire = s THEN NoSched ELSE bootFire
  /\ fly' = [fly EXCEPT ![s] = @ - 1]
  /\ UNCHANGED <<jobs, armed, held, row, done, beats, firing, orphan, booting, up, when,
                 schedCrashes>>

\* (mutant) A fire that ends schedules the next one twice.
FireEndsRearmsTwice(s) ==
  /\ fly[s] > 0
  /\ fly' = [fly EXCEPT ![s] = @ - 1]
  /\ armed' = [armed EXCEPT ![s] = @ + 2]
  /\ held' = held \union {s}
  /\ UNCHANGED <<jobs, row, done, disk, beats, firing, orphan, booting, bootFire, up,
                 when, schedCrashes>>

\* (mutant) Startup is never told that the past-due fire it awaits has ended.
FireEndsHangsStart(s) ==
  /\ fly[s] > 0
  /\ fly' = [fly EXCEPT ![s] = @ - 1]
  /\ \/ /\ Kind[s] = "at"
        /\ done' = MarkDone(s)
        /\ jobs' = jobs \ {s}
        /\ row' = Deleted(row, s)
        /\ UNCHANGED <<armed, held>>
     \/ /\ Kind[s] = "every"
        /\ armed' = [armed EXCEPT ![s] = @ + 1]
        /\ held' = held \union {s}
        /\ UNCHANGED <<done, jobs, row>>
  /\ UNCHANGED <<beats, firing, orphan, booting, bootFire, up, disk, when, schedCrashes>>

\* A scheduled fire ends.  A delivery flushed the store before this point.  A
\* one-shot is marked complete, unregistered and its row deleted; another job is
\* scheduled again, whatever happened to it meanwhile.
FireEnds(s) ==
  /\ fly[s] > 0
  /\ disk' \in {disk, done}
  /\ bootFire' = IF bootFire = s THEN NoSched ELSE bootFire
  /\ fly' = [fly EXCEPT ![s] = @ - 1]
  /\ \/ /\ Kind[s] = "at"
        /\ done' = MarkDone(s)
        /\ jobs' = jobs \ {s}
        /\ row' = Deleted(row, s)
        /\ UNCHANGED <<armed, held>>
     \/ /\ Kind[s] = "every"
        /\ armed' = [armed EXCEPT ![s] = @ + 1]
        /\ held' = held \union {s}
        /\ UNCHANGED <<done, jobs, row>>
  /\ UNCHANGED <<beats, firing, orphan, booting, up, when, schedCrashes>>

-----------------------------------------------------------------------------
(***************************************************************************)
(* HeartbeatTrigger.                                                       *)
(***************************************************************************)

\* (mutant) A removed entry stays marked as firing.
UnregisteredFiring(s) ==
  /\ beats' = beats \ {s}
  /\ UNCHANGED <<firing, orphan>>

\* removeHeartbeat: the interval is cleared, a fire in flight goes on.
Unregistered(s) ==
  /\ beats' = beats \ {s}
  /\ firing' = firing \ {s}
  /\ orphan' = IF s \in firing THEN [orphan EXCEPT ![s] = @ + 1] ELSE orphan

\* registerOne: a completed one-shot is refused, another one fires at once.
RegisterOne(s) ==
  \/ /\ s \in Oneshot /\ s \in Range(done)
     /\ UNCHANGED <<beats, firing>>
  \/ /\ s \in Oneshot /\ s \notin Range(done)
     /\ beats' = beats \union {s} /\ firing' = firing \union {s}
  \/ /\ s \notin Oneshot
     /\ beats' = beats \union {s}
     /\ UNCHANGED firing

\* The interval fires; a tick during a fire is skipped.
Beat(s) ==
  /\ up = "up" /\ Idle /\ s \in beats \ firing /\ s \notin Oneshot
  /\ firing' = firing \union {s}
  /\ UNCHANGED <<jobs, armed, held, fly, beats, orphan, booting, bootFire, up, row, done,
                 disk, when, schedCrashes>>

\* fire (and fireOnce) ends, for a registered entry or a removed one.
BeatEnds(s) ==
  /\ \/ s \in firing /\ firing' = firing \ {s} /\ UNCHANGED orphan
     \/ orphan[s] > 0 /\ orphan' = [orphan EXCEPT ![s] = @ - 1] /\ UNCHANGED firing
  /\ done' = IF s \in Oneshot THEN MarkDone(s) ELSE done
  /\ disk' \in {disk, done}
  /\ UNCHANGED <<jobs, armed, held, fly, beats, booting, bootFire, up, row, when, schedCrashes>>

-----------------------------------------------------------------------------
(***************************************************************************)
(* The engine's operations.                                                *)
(***************************************************************************)

\* Operations of the management routes and the agent's tool.
Serving == up = "up" /\ Idle

\* addJob and addHeartbeat: a cron job gets a timer on top of any it has, a
\* heartbeat whose name is registered is refused.
GoLive(s, w, rw) ==
  \/ /\ s \in Cron /\ Room(s)
     /\ ScheduleNext(s, w, armed, held, jobs \union {s}, rw)
     /\ UNCHANGED beatVars
  \/ /\ s \in Beats
     /\ row' = rw
     /\ IF s \in beats THEN UNCHANGED <<beats, firing>> ELSE RegisterOne(s)
     /\ UNCHANGED <<cronVars, orphan, done>>

\* removeJob and removeHeartbeat.
GoQuiet(s) ==
  \/ /\ s \in Cron
     /\ jobs' = jobs \ {s} /\ armed' = Cleared(s) /\ held' = held \ {s}
     /\ UNCHANGED <<fly, beatVars>>
  \/ /\ s \in Beats /\ orphan[s] <= MaxOrphans
     /\ Unregistered(s)
     /\ UNCHANGED cronVars

\* addRuntimeHeartbeat: a schedule is persisted, then registered.
AddHeartbeat(s) ==
  /\ Serving /\ s \in Beats
  /\ GoLive(s, "future", Inserted(s))
  /\ UNCHANGED <<booting, bootFire, up, disk, when, schedCrashes>>

\* addRuntimeCronJob: an "at" job comes with a moment of its own (bound: while a
\* timer is armed, the moment stays the same).
AddCronJob(s, w) ==
  /\ Serving /\ s \in Cron
  /\ Kind[s] # "at" => w = "future"
  /\ w # when[s] => armed[s] = 0
  /\ GoLive(s, w, Inserted(s))
  /\ when' = [when EXCEPT ![s] = w]
  /\ UNCHANGED <<booting, bootFire, up, disk, schedCrashes>>

\* removeRuntimeSchedule: the row, the one-shot marker and the registration.
RemoveSchedule(s) ==
  /\ Serving /\ row[s] # "absent"
  /\ row' = Deleted(row, s)
  /\ done' = ClearDone(s)
  /\ GoQuiet(s)
  /\ UNCHANGED <<booting, bootFire, up, disk, when, schedCrashes>>

\* setRuntimeScheduleEnabled(id, false).
Disable(s) ==
  /\ Serving /\ row[s] # "absent"
  /\ row' = SetEnabled(s, "off")
  /\ GoQuiet(s)
  /\ UNCHANGED <<booting, bootFire, up, done, disk, when, schedCrashes>>

\* (mutant) Enabling writes the row only.
EnableRowOnly(s) ==
  /\ Serving /\ row[s] # "absent"
  /\ row' = [row EXCEPT ![s] = "on"]
  /\ UNCHANGED <<liveVars, up, done, disk, when, schedCrashes>>

\* setRuntimeScheduleEnabled(id, true).
Enable(s) ==
  /\ Serving /\ row[s] # "absent"
  /\ GoLive(s, when[s], SetEnabled(s, "on"))
  /\ UNCHANGED <<booting, bootFire, up, disk, when, schedCrashes>>

\* Unregister, then register again when the row is enabled.
Reregister(s, w) ==
  \/ /\ row[s] = "off"
     /\ GoQuiet(s)
     /\ UNCHANGED <<row, done>>
  \/ /\ row[s] = "on" /\ s \in Cron
     /\ Cleared(s)[s] + fly[s] < MaxTimers
     /\ ScheduleNext(s, w, Cleared(s), held \ {s}, jobs \union {s}, row)
     /\ UNCHANGED beatVars
  \/ /\ row[s] = "on" /\ s \in Beats /\ orphan[s] <= MaxOrphans
     /\ orphan' = IF s \in firing THEN [orphan EXCEPT ![s] = @ + 1] ELSE orphan
     /\ IF s \in Oneshot /\ s \in Range(done)
          THEN beats' = beats \ {s} /\ firing' = firing \ {s}
          ELSE /\ beats' = beats \union {s}
               /\ firing' = IF s \in Oneshot THEN firing \union {s} ELSE firing \ {s}
     /\ UNCHANGED <<cronVars, row, done>>

\* setRuntimeScheduleSkills.
SetSkills(s) ==
  /\ Serving
  /\ Reregister(s, when[s])
  /\ UNCHANGED <<booting, bootFire, up, disk, when, schedCrashes>>

\* replaceRuntimeSchedule: an update may bring a new moment, in the future.
Replace(s, w) ==
  /\ Serving
  /\ w \in {when[s], "future"}
  /\ w # when[s] => Cleared(s)[s] = 0
  /\ Reregister(s, w)
  /\ when' = [when EXCEPT ![s] = w]
  /\ UNCHANGED <<booting, bootFire, up, disk, schedCrashes>>

\* reloadSchedules, for one schedule: an enabled row nobody registered is added, a
\* registration without an enabled row removed.
Reload(s) ==
  /\ Serving
  /\ \/ row[s] = "on" /\ s \notin jobs \union beats /\ GoLive(s, when[s], row)
     \/ row[s] # "on" /\ s \in jobs \union beats /\ GoQuiet(s) /\ UNCHANGED <<row, done>>
  /\ UNCHANGED <<booting, bootFire, up, disk, when, schedCrashes>>

-----------------------------------------------------------------------------
(***************************************************************************)
(* Time, stops, crashes and starts.                                        *)
(***************************************************************************)

\* atMs passes, then the two minutes of grace.
TimePasses(s) ==
  /\ Kind[s] = "at" /\ when[s] # "late"
  /\ when' = [when EXCEPT ![s] = IF @ = "future" THEN "grace" ELSE "late"]
  /\ UNCHANGED <<liveVars, up, row, done, disk, schedCrashes>>

\* engine.stop: the triggers drop their registrations and the timers they hold.
Stop ==
  /\ Serving
  /\ up' = "stopping"
  /\ jobs' = {} /\ held' = {} /\ beats' = {}
  /\ armed' = [s \in Schedules |-> Cleared(s)[s]]
  /\ orphan' = [s \in Schedules |-> orphan[s] + (IF s \in firing THEN 1 ELSE 0)]
  /\ firing' = {}
  /\ \A s \in Schedules : orphan[s] <= MaxOrphans
  /\ UNCHANGED <<fly, booting, bootFire, row, done, disk, when, schedCrashes>>

Dead ==
  /\ up' = "down"
  /\ jobs' = {} /\ held' = {} /\ beats' = {} /\ firing' = {} /\ booting' = {}
  /\ armed' = Zero /\ fly' = Zero /\ orphan' = Zero /\ bootFire' = NoSched
  /\ UNCHANGED <<row, when>>

\* (mutant) The store stops without its last flush.
ExitUnflushed ==
  /\ up = "stopping"
  /\ Dead
  /\ UNCHANGED <<done, disk, schedCrashes>>

\* waitForInFlight ended or timed out: the store flushes and the process exits.
Exit ==
  /\ up = "stopping"
  /\ disk' = done
  /\ Dead
  /\ UNCHANGED <<done, schedCrashes>>

Crash ==
  /\ up # "down" /\ schedCrashes < MaxSchedCrashes
  /\ schedCrashes' = schedCrashes + 1
  /\ Dead
  /\ UNCHANGED <<done, disk>>

\* The next process loads proactive.json and the enabled rows; HeartbeatTrigger.start
\* registers its rows at once, CronTrigger.start takes them one by one.
Boot ==
  /\ up = "down"
  /\ up' = "up"
  /\ done' = disk
  /\ LET on == {s \in Schedules : row[s] = "on"}
     IN /\ booting' = on \intersect Cron
        /\ beats' = {s \in on \intersect Beats : ~(s \in Oneshot /\ s \in Range(disk))}
        /\ firing' = beats' \intersect Oneshot
  /\ UNCHANGED <<cronVars, orphan, bootFire, row, disk, when, schedCrashes>>

\* CronTrigger.start: the next row, once no past-due fire is awaited.  A stop does
\* not end the loop.
Register(s) ==
  /\ up # "down" /\ s \in booting /\ bootFire = NoSched
  /\ booting' = booting \ {s}
  /\ \/ /\ Kind[s] = "at" /\ s \in Range(done)
        /\ UNCHANGED <<cronVars, row, done, bootFire>>
     \/ /\ ~(Kind[s] = "at" /\ s \in Range(done))
        /\ ScheduleNext(s, when[s], armed, held, jobs \union {s}, row)
        /\ bootFire' = IF fly'[s] > fly[s] THEN s ELSE NoSched
  /\ UNCHANGED <<beatVars, up, disk, when, schedCrashes>>

Operation(s) ==
  \/ \E w \in Moments : Replace(s, w) \/ AddCronJob(s, w)
  \/ AddHeartbeat(s) \/ RemoveSchedule(s) \/ Disable(s) \/ Enable(s) \/ SetSkills(s)
  \/ Reload(s)

SchedNext ==
  \/ \E s \in Schedules :
       \/ Operation(s) \/ TimerFires(s) \/ FireEnds(s) \/ Beat(s) \/ BeatEnds(s)
       \/ TimePasses(s) \/ Register(s)
  \/ Flush \/ Stop \/ Exit \/ Crash \/ Boot

SchedSpec == SchedInit /\ [][SchedNext]_schedVars

\* Timers fire and fires end (an agent call carries a timeout); startup goes on;
\* time passes.
SchedFairness ==
  /\ \A s \in Schedules :
       /\ WF_schedVars(TimerFires(s) /\ fly' # fly) /\ WF_schedVars(FireEnds(s)) /\ WF_schedVars(Beat(s))
       /\ WF_schedVars(BeatEnds(s)) /\ WF_schedVars(TimePasses(s)) /\ WF_schedVars(Register(s))

SchedFairSpec == SchedSpec /\ SchedFairness

-----------------------------------------------------------------------------
(***************************************************************************)
(* Properties.                                                             *)
(***************************************************************************)

\* Whatever operations, fires and restarts interleave, an enabled recurring schedule
\* is never left without a timer, a fire that will arm one, or a turn in the startup
\* loop (cron.ts scheduleNext, the chain removeJob then addJob, heartbeat entries).
EnabledIsServed ==
  up = "up" => \A s \in Schedules \ Oneshot :
    row[s] = "on" => s \in beats \/ armed[s] + fly[s] > 0 \/ s \in booting

\* The timers map of CronTrigger never names a timer that is gone: the entry of a
\* fired timer was dropped, so removeJob clears a live one.
HeldIsArmed == \A s \in held : armed[s] > 0

\* A one-shot heartbeat whose fire is marked complete does not start again: not by a
\* disable and enable, a replacement, a reload, or a stop, exit and restart (with no
\* crash in between), until its schedule is removed.
CompletedNotRefired ==
  [][\A s \in Beats \intersect Oneshot :
       s \in Range(done) /\ schedCrashes = 0 => s \notin firing' \ firing]_schedVars

\* Under fairness an enabled recurring schedule fires again and again until it is
\* disabled, removed, or the process goes down.
KeepsFiring ==
  \A s \in Schedules \ Oneshot :
    []<>(fly[s] > 0 \/ s \in firing \/ row[s] # "on" \/ up # "up")
=============================================================================
