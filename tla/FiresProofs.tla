----------------------------- MODULE FiresProofs -----------------------------
(***************************************************************************)
(* Theorems about the schedules of the proactive engine (Schedules), for   *)
(* any schedules of any kinds, any operations on them and any restarts:    *)
(* rows, registrations and timers agree, and a completed one-shot stays    *)
(* completed.                                                              *)
(***************************************************************************)
EXTENDS MCFires, TLAPS

(* Only an "at" job has a moment that passes, only cron jobs have timers,  *)
(* only heartbeats orphans, and a row that startup has still to register   *)
(* has room for its timer: operations may arm some while startup awaits a  *)
(* fire.                                                                   *)
KindsOK ==
  /\ armed \in [Schedules -> Nat] /\ fly \in [Schedules -> Nat]
  /\ \A s \in Schedules : Kind[s] # "at" => when[s] = "future"
  /\ \A s \in Beats : armed[s] = 0 /\ fly[s] = 0
  /\ \A s \in Cron : orphan[s] = 0
  /\ \A s \in booting : armed[s] + fly[s] <= MaxTimers

(* A process that is down has no timers and no fires, and without a crash  *)
(* it has flushed what it knew.                                            *)
DownOK ==
  up = "down" =>
    /\ armed = Zero /\ fly = Zero /\ orphan = Zero /\ firing = {} /\ booting = {} /\ held = {}
    /\ schedCrashes = 0 => disk = done

(* The types, by trigger and store.                                        *)
CronTypeOK ==
  /\ jobs \subseteq Cron /\ held \subseteq Cron
  /\ \A s \in Schedules : armed[s] \in Nat /\ fly[s] \in Nat /\ armed[s] + fly[s] <= MaxTimers + 1
  /\ DOMAIN armed = Schedules /\ DOMAIN fly = Schedules
BeatTypeOK == beats \subseteq Beats /\ firing \subseteq beats /\ orphan \in [Schedules -> 0..(MaxOrphans + 1)]
DoneTypeOK ==
  /\ done \in Seq(Oneshot) /\ Len(done) <= MaxDone /\ disk \in Seq(Oneshot) /\ Len(disk) <= MaxDone
RestTypeOK ==
  /\ up \in {"up", "stopping", "down"} /\ row \in [Schedules -> {"absent", "on", "off"}]
  /\ when \in [Schedules -> Moments]
  /\ booting \subseteq Cron /\ bootFire \in Cron \union {NoSched}
  /\ schedCrashes \in 0..MaxSchedCrashes

SchedInv ==
  /\ CronTypeOK /\ BeatTypeOK /\ DoneTypeOK /\ RestTypeOK
  /\ KindsOK /\ EnabledIsServed /\ HeldIsArmed /\ DownOK

\* The parts of the type invariant make it up.
LEMMA TypeParts == CronTypeOK /\ BeatTypeOK /\ DoneTypeOK /\ RestTypeOK => SchedTypeOK
BY DEF SchedTypeOK, CronTypeOK, BeatTypeOK, DoneTypeOK, RestTypeOK

\* The kinds divide the schedules.
LEMMA KindFacts ==
  /\ Cron \subseteq Schedules /\ Beats \subseteq Schedules /\ Oneshot \subseteq Schedules
  /\ \A s \in Schedules : s \in Cron <=> s \notin Beats
  /\ \A s \in Cron : Kind[s] \in {"every", "at"} /\ (Kind[s] = "at" <=> s \in Oneshot)
  /\ \A s \in Schedules : Kind[s] = "every" \/ Kind[s] = "at" => s \in Cron
  /\ MaxDone \in Nat \ {0} /\ MaxTimers \in Nat \ {0} /\ MaxOrphans \in Nat /\ NoSched \notin Schedules
BY SchedulesAssumption DEF Cron, Beats, Oneshot

\* A completed one-shot is added to a list that stays one.
LEMMA MarkDoneType ==
  ASSUME DoneTypeOK, NEW s \in Oneshot
  PROVE  MarkDone(s) \in Seq(Oneshot) /\ Len(MarkDone(s)) <= MaxDone
<1>1. /\ Append(done, s) \in Seq(Oneshot) /\ Len(Append(done, s)) = Len(done) + 1
      /\ Tail(Append(done, s)) \in Seq(Oneshot) /\ Len(Tail(Append(done, s))) = Len(done)
  BY DEF DoneTypeOK
<1> QED  BY <1>1, KindFacts DEF MarkDone, DoneTypeOK

\* And a cleared one leaves a list.
LEMMA ClearDoneType ==
  ASSUME DoneTypeOK, NEW s
  PROVE  ClearDone(s) \in Seq(Oneshot) /\ Len(ClearDone(s)) <= MaxDone
<1>1. /\ ClearDone(s) \in Seq(Oneshot) /\ Len(ClearDone(s)) <= Len(done)
      /\ Len(done) \in Nat /\ Len(ClearDone(s)) \in Nat
  BY FilterKeeps DEF ClearDone, DoneTypeOK
<1> QED  BY <1>1, KindFacts DEF DoneTypeOK

\* Before the first operation nothing is scheduled.
LEMMA SchedStart == SchedInit => SchedInv
<1> SUFFICES ASSUME SchedInit PROVE SchedInv
  OBVIOUS
<1>1. CronTypeOK /\ BeatTypeOK /\ RestTypeOK
  BY KindFacts, SchedulesAssumption DEF SchedInit, CronTypeOK, BeatTypeOK, RestTypeOK, Zero, Moments
<1>2. DoneTypeOK
  BY KindFacts DEF SchedInit, DoneTypeOK
<1>3. KindsOK /\ EnabledIsServed /\ HeldIsArmed /\ DownOK
  BY KindFacts DEF SchedInit, KindsOK, EnabledIsServed, HeldIsArmed, DownOK, Zero
<1> QED  BY <1>1, <1>2, <1>3 DEF SchedInv

(* A step of one schedule while the process lives, outside the triggers... *)
Local(s) ==
  /\ up # "down" /\ UNCHANGED <<up, schedCrashes>>
  /\ row' \in [Schedules -> {"absent", "on", "off"}] /\ \A t \in Schedules \ {s} : row'[t] = row[t]
  /\ when' \in [Schedules -> Moments] /\ \A t \in Schedules : Kind[t] # "at" => when'[t] = "future"
  /\ booting' \in {booting, booting \ {s}} /\ bootFire' \in Cron \union {NoSched}
  /\ DoneTypeOK'

(* ... of a cron job: it moves its own timers and fires, leaves the map    *)
(* with no entry for a timer that is gone, and itself served if enabled... *)
CronMove(s) ==
  /\ s \in Cron /\ Local(s) /\ UNCHANGED beatVars
  /\ armed' \in [Schedules -> Nat] /\ fly' \in [Schedules -> Nat]
  /\ \A t \in Schedules \ {s} : armed'[t] = armed[t] /\ fly'[t] = fly[t]
  /\ jobs' \subseteq jobs \union {s} /\ held' \subseteq held \union {s}
  /\ s \in held' => armed'[s] > 0
  /\ armed'[s] + fly'[s] <= MaxTimers + 1
  /\ s \in booting' => armed'[s] + fly'[s] <= MaxTimers
  /\ row'[s] = "on" /\ up = "up" /\ s \notin Oneshot => armed'[s] + fly'[s] > 0 \/ s \in booting'

(* ... and of a heartbeat.                                                 *)
BeatMove(s) ==
  /\ s \in Beats /\ Local(s) /\ UNCHANGED <<cronVars, booting>>
  /\ BeatTypeOK' /\ beats' \ {s} = beats \ {s}
  /\ \A t \in Schedules \ {s} : orphan'[t] = orphan[t]
  /\ row'[s] = "on" /\ up = "up" /\ s \notin Oneshot => s \in beats'

\* A step of a cron job keeps the invariant.
LEMMA CronMoveKeeps ==
  ASSUME SchedInv, NEW s \in Schedules, CronMove(s)
  PROVE  SchedInv'
<1>1. CronTypeOK'
  <2>1. \A t \in Schedules : armed'[t] \in Nat /\ fly'[t] \in Nat /\ armed'[t] + fly'[t] <= MaxTimers + 1
    BY DEF CronMove, CronTypeOK, SchedInv
  <2> QED  BY <2>1 DEF CronMove, CronTypeOK, SchedInv
<1>2. BeatTypeOK' /\ DoneTypeOK' /\ RestTypeOK'
  BY DEF CronMove, Local, BeatTypeOK, RestTypeOK, SchedInv, beatVars
<1>3. KindsOK'
  <2>1. booting' \subseteq booting /\ booting \subseteq Schedules
    BY KindFacts DEF CronMove, Local, SchedInv, RestTypeOK
  <2>2. \A t \in booting' : armed'[t] + fly'[t] <= MaxTimers
    BY <2>1 DEF CronMove, KindsOK, SchedInv
  <2>3. \A t \in Beats : armed'[t] = 0 /\ fly'[t] = 0
    BY KindFacts DEF CronMove, KindsOK, SchedInv
  <2> QED  BY <2>2, <2>3 DEF CronMove, Local, KindsOK, SchedInv, beatVars
<1>4. EnabledIsServed'
  <2> SUFFICES ASSUME up' = "up", NEW t \in Schedules \ Oneshot, row'[t] = "on"
               PROVE  t \in beats' \/ armed'[t] + fly'[t] > 0 \/ t \in booting'
    BY DEF EnabledIsServed
  <2>1. CASE t = s
    BY <2>1 DEF CronMove, Local
  <2>2. CASE t # s
    <3>1. /\ up = "up" /\ row[t] = "on" /\ (t \in booting => t \in booting')
          /\ beats' = beats /\ armed'[t] = armed[t] /\ fly'[t] = fly[t]
      BY <2>2 DEF CronMove, Local, beatVars
    <3> QED  BY <3>1 DEF EnabledIsServed, SchedInv
  <2> QED  BY <2>1, <2>2
<1>5. HeldIsArmed'
  BY KindFacts DEF CronMove, HeldIsArmed, CronTypeOK, SchedInv
<1>6. DownOK'
  BY DEF CronMove, Local, DownOK
<1> QED  BY <1>1, <1>2, <1>3, <1>4, <1>5, <1>6 DEF SchedInv

\* A step of a heartbeat keeps it, too.
LEMMA BeatMoveKeeps ==
  ASSUME SchedInv, NEW s \in Schedules, BeatMove(s)
  PROVE  SchedInv'
<1>1. CronTypeOK' /\ BeatTypeOK' /\ DoneTypeOK' /\ RestTypeOK'
  BY DEF BeatMove, Local, CronTypeOK, RestTypeOK, SchedInv, cronVars
<1>2. KindsOK' /\ HeldIsArmed' /\ DownOK'
  BY KindFacts DEF BeatMove, Local, KindsOK, HeldIsArmed, DownOK, SchedInv, cronVars
<1>3. EnabledIsServed'
  <2> SUFFICES ASSUME up' = "up", NEW t \in Schedules \ Oneshot, row'[t] = "on"
               PROVE  t \in beats' \/ armed'[t] + fly'[t] > 0 \/ t \in booting'
    BY DEF EnabledIsServed
  <2>1. CASE t = s
    BY <2>1 DEF BeatMove, Local
  <2>2. CASE t # s
    <3>1. /\ up = "up" /\ row[t] = "on" /\ booting' = booting /\ (t \in beats => t \in beats')
          /\ armed' = armed /\ fly' = fly
      BY <2>2 DEF BeatMove, Local, cronVars
    <3> QED  BY <3>1 DEF EnabledIsServed, SchedInv
  <2> QED  BY <2>1, <2>2
<1> QED  BY <1>1, <1>2, <1>3 DEF SchedInv

\* The timer callback moves a timer to a fire.
LEMMA TimerKeeps ==
  ASSUME SchedInv, NEW s \in Schedules, TimerFires(s)
  PROVE  SchedInv'
<1>0. s \in Cron
  BY KindFacts DEF SchedInv, TimerFires, KindsOK
<1>1. Local(s) /\ UNCHANGED <<jobs, beatVars, row, booting>>
  BY DEF TimerFires, Local, SchedInv, RestTypeOK, DoneTypeOK, KindsOK, beatVars
<1>2. /\ armed' \in [Schedules -> Nat] /\ fly' \in [Schedules -> Nat]
      /\ \A t \in Schedules \ {s} : armed'[t] = armed[t] /\ fly'[t] = fly[t]
      /\ armed'[s] + fly'[s] <= armed[s] + fly[s]
      /\ up = "up" => armed'[s] + fly'[s] = armed[s] + fly[s]
  BY <1>0 DEF TimerFires, KindsOK, SchedInv
<1>3. held' \subseteq held \union {s} /\ (s \in held' => armed'[s] > 0)
  BY DEF TimerFires
<1>4. /\ armed[s] + fly[s] <= MaxTimers + 1 /\ (s \in booting => armed[s] + fly[s] <= MaxTimers)
      /\ row[s] = "on" /\ up = "up" /\ s \notin Oneshot => armed[s] + fly[s] > 0 \/ s \in booting
  BY <1>0, KindFacts DEF CronTypeOK, BeatTypeOK, KindsOK, EnabledIsServed, SchedInv
<1>5. CronMove(s)
  BY <1>0, <1>1, <1>2, <1>3, <1>4, KindFacts DEF CronMove, KindsOK, SchedInv
<1> QED  BY <1>5, CronMoveKeeps

\* A fire that ends completes a one-shot and arms the timer of another job.
LEMMA FireEndsKeeps ==
  ASSUME SchedInv, NEW s \in Schedules, FireEnds(s)
  PROVE  SchedInv'
<1>0. s \in Cron /\ up # "down" /\ (Kind[s] = "at" => s \in Oneshot)
  BY KindFacts DEF SchedInv, FireEnds, DownOK, Zero
<1>1. Local(s) /\ UNCHANGED <<beatVars, booting>>
  <2>1. DoneTypeOK'
    BY <1>0, MarkDoneType DEF FireEnds, DoneTypeOK, SchedInv
  <2>2. row' \in [Schedules -> {"absent", "on", "off"}] /\ \A t \in Schedules \ {s} : row'[t] = row[t]
    BY DEF FireEnds, Deleted, RestTypeOK, SchedInv
  <2> QED  BY <1>0, <2>1, <2>2 DEF FireEnds, Local, SchedInv, RestTypeOK, KindsOK, beatVars
<1>2. /\ armed' \in [Schedules -> Nat] /\ fly' \in [Schedules -> Nat]
      /\ \A t \in Schedules \ {s} : armed'[t] = armed[t] /\ fly'[t] = fly[t]
      /\ armed'[s] + fly'[s] <= armed[s] + fly[s]
      /\ s \in held' => armed'[s] > 0
      /\ row'[s] = "on" => armed'[s] + fly'[s] > 0
  BY <1>0 DEF FireEnds, KindsOK, HeldIsArmed, SchedInv, Deleted, RestTypeOK
<1>3. jobs' \subseteq jobs \union {s} /\ held' \subseteq held \union {s}
  BY DEF FireEnds
<1>4. armed[s] + fly[s] <= MaxTimers + 1 /\ (s \in booting => armed[s] + fly[s] <= MaxTimers)
  BY DEF CronTypeOK, KindsOK, SchedInv
<1>5. CronMove(s)
  BY <1>0, <1>1, <1>2, <1>3, <1>4, KindFacts DEF CronMove, KindsOK, SchedInv
<1> QED  BY <1>5, CronMoveKeeps

\* scheduleNext: a timer, a fire, or a completed one-shot.
LEMMA ScheduleNextMoves ==
  ASSUME SchedInv, NEW s \in Cron, NEW w \in Moments, Kind[s] # "at" => w = "future",
         NEW a \in [Schedules -> Nat], \A t \in Schedules \ {s} : a[t] = armed[t],
         NEW h, h \subseteq held, s \in h => a[s] > 0,
         NEW rw \in [Schedules -> {"absent", "on", "off"}], \A t \in Schedules \ {s} : rw[t] = row[t],
         ScheduleNext(s, w, a, h, jobs \union {s}, rw), disk' = disk
  PROVE  /\ armed' \in [Schedules -> Nat] /\ fly' \in [Schedules -> Nat]
         /\ \A t \in Schedules \ {s} : armed'[t] = armed[t] /\ fly'[t] = fly[t]
         /\ jobs' \subseteq jobs \union {s} /\ held' \subseteq held \union {s}
         /\ s \in held' => armed'[s] > 0
         /\ armed'[s] + fly'[s] <= a[s] + fly[s] + 1
         /\ row'[s] = "on" => armed'[s] + fly'[s] > 0
         /\ row' \in [Schedules -> {"absent", "on", "off"}] /\ \A t \in Schedules \ {s} : row'[t] = row[t]
         /\ DoneTypeOK'
<1>0. s \in Schedules /\ fly \in [Schedules -> Nat] /\ DoneTypeOK
  BY KindFacts DEF KindsOK, SchedInv
<1>1. CASE w = "future"
  <2>1. /\ armed' = [a EXCEPT ![s] = @ + 1] /\ held' = h \union {s} /\ jobs' = jobs \union {s}
        /\ row' = rw /\ UNCHANGED <<fly, done>>
    BY <1>1 DEF ScheduleNext
  <2> QED  BY <1>0, <2>1 DEF DoneTypeOK
<1>2. CASE w = "grace"
  <2>1. /\ fly' = [fly EXCEPT ![s] = @ + 1] /\ armed' = a /\ held' = h /\ jobs' = jobs \union {s}
        /\ row' = rw /\ UNCHANGED done
    BY <1>2 DEF ScheduleNext
  <2> QED  BY <1>0, <2>1 DEF DoneTypeOK
<1>3. CASE w = "late"
  <2>1. /\ done' = MarkDone(s) /\ jobs' = (jobs \union {s}) \ {s} /\ row' = Deleted(rw, s)
        /\ armed' = a /\ held' = h /\ UNCHANGED fly
    BY <1>3 DEF ScheduleNext
  <2>2. DoneTypeOK'
    BY <1>0, <1>3, <2>1, MarkDoneType, KindFacts DEF DoneTypeOK
  <2>3. row' \in [Schedules -> {"absent", "on", "off"}] /\ row'[s] = "absent" /\ \A t \in Schedules \ {s} : row'[t] = row[t]
    BY <1>0, <2>1 DEF Deleted
  <2> QED  BY <1>0, <2>1, <2>2, <2>3
<1> QED  BY <1>1, <1>2, <1>3 DEF Moments

\* removeJob takes the timer the map holds, if there is one.
LEMMA ClearedType ==
  ASSUME SchedInv, NEW s \in Schedules
  PROVE  /\ Cleared(s) \in [Schedules -> Nat] /\ \A t \in Schedules \ {s} : Cleared(s)[t] = armed[t]
         /\ Cleared(s)[s] <= armed[s]
         /\ s \in held => Cleared(s)[s] = armed[s] - 1
  BY DEF Cleared, SchedInv, KindsOK, HeldIsArmed

\* What an operation leaves as it is, and what it may bring: a moment of an "at" job.
OperationFrame(s) ==
  /\ up = "up" /\ UNCHANGED <<booting, bootFire, up, disk, schedCrashes>>
  /\ when' \in [Schedules -> Moments] /\ \A t \in Schedules : Kind[t] # "at" => when'[t] = "future"

\* A schedule that is registered gets a timer, a fire or an entry.
LEMMA GoLiveKeeps ==
  ASSUME SchedInv, NEW s \in Schedules, NEW w \in Moments, s \in Cron /\ Kind[s] # "at" => w = "future",
         NEW rw \in [Schedules -> {"absent", "on", "off"}], \A t \in Schedules \ {s} : rw[t] = row[t],
         GoLive(s, w, rw), OperationFrame(s)
  PROVE  SchedInv'
<1>1. CASE s \in Cron
  <2>1. Room(s) /\ ScheduleNext(s, w, armed, held, jobs \union {s}, rw) /\ UNCHANGED beatVars
    BY <1>1, KindFacts DEF GoLive
  <2>2. /\ armed \in [Schedules -> Nat] /\ fly \in [Schedules -> Nat] /\ (s \in held => armed[s] > 0)
        /\ disk' = disk
    BY DEF SchedInv, KindsOK, HeldIsArmed, OperationFrame
  <2>3. /\ armed' \in [Schedules -> Nat] /\ fly' \in [Schedules -> Nat]
        /\ \A t \in Schedules \ {s} : armed'[t] = armed[t] /\ fly'[t] = fly[t]
        /\ jobs' \subseteq jobs \union {s} /\ held' \subseteq held \union {s}
        /\ s \in held' => armed'[s] > 0
        /\ armed'[s] + fly'[s] <= armed[s] + fly[s] + 1
        /\ row'[s] = "on" => armed'[s] + fly'[s] > 0
        /\ row' \in [Schedules -> {"absent", "on", "off"}] /\ \A t \in Schedules \ {s} : row'[t] = row[t]
        /\ DoneTypeOK'
    BY <1>1, <2>1, <2>2, ScheduleNextMoves
  <2>4. Local(s)
    BY <2>3 DEF Local, OperationFrame, SchedInv, RestTypeOK
  <2>5. armed'[s] + fly'[s] <= MaxTimers
    BY <2>1, <2>2, <2>3, KindFacts DEF Room
  <2>6. CronMove(s)
    BY <1>1, <2>1, <2>3, <2>4, <2>5, KindFacts DEF CronMove
  <2> QED  BY <2>6, CronMoveKeeps
<1>2. CASE s \in Beats
  <2>1. /\ row' = rw /\ UNCHANGED <<cronVars, orphan, done>>
        /\ IF s \in beats THEN UNCHANGED <<beats, firing>> ELSE RegisterOne(s)
    BY <1>2, KindFacts DEF GoLive
  <2>2. /\ BeatTypeOK' /\ beats' \ {s} = beats \ {s} /\ (s \notin Oneshot => s \in beats')
        /\ \A t \in Schedules \ {s} : orphan'[t] = orphan[t]
    BY <1>2, <2>1 DEF RegisterOne, BeatTypeOK, SchedInv
  <2>3. Local(s) /\ UNCHANGED <<cronVars, booting>>
    BY <2>1 DEF Local, OperationFrame, SchedInv, RestTypeOK, DoneTypeOK
  <2>4. BeatMove(s)
    BY <1>2, <2>2, <2>3 DEF BeatMove
  <2> QED  BY <2>4, BeatMoveKeeps
<1> QED  BY <1>1, <1>2, KindFacts

\* One that is unregistered keeps no entry in the map; its row is not enabled.
LEMMA GoQuietKeeps ==
  ASSUME SchedInv, NEW s \in Schedules, GoQuiet(s), OperationFrame(s), DoneTypeOK', row'[s] # "on",
         row' \in [Schedules -> {"absent", "on", "off"}], \A t \in Schedules \ {s} : row'[t] = row[t]
  PROVE  SchedInv'
<1>0. Local(s) /\ UNCHANGED booting
  BY DEF Local, OperationFrame, SchedInv, RestTypeOK
<1>1. CASE s \in Cron
  <2>1. jobs' = jobs \ {s} /\ armed' = Cleared(s) /\ held' = held \ {s} /\ UNCHANGED <<fly, beatVars>>
    BY <1>1, KindFacts DEF GoQuiet
  <2>2. /\ armed \in [Schedules -> Nat] /\ fly \in [Schedules -> Nat]
        /\ armed[s] + fly[s] <= MaxTimers + 1 /\ (s \in booting => armed[s] + fly[s] <= MaxTimers)
    BY DEF SchedInv, KindsOK, CronTypeOK
  <2>3. CronMove(s)
    BY <1>0, <1>1, <2>1, <2>2, ClearedType, KindFacts DEF CronMove
  <2> QED  BY <2>3, CronMoveKeeps
<1>2. CASE s \in Beats
  <2>1. orphan[s] <= MaxOrphans /\ Unregistered(s) /\ UNCHANGED cronVars
    BY <1>2, KindFacts DEF GoQuiet
  <2>2. /\ BeatTypeOK' /\ beats' \ {s} = beats \ {s}
        /\ \A t \in Schedules \ {s} : orphan'[t] = orphan[t]
    BY <2>1, KindFacts DEF Unregistered, BeatTypeOK, SchedInv
  <2>3. BeatMove(s)
    BY <1>0, <1>2, <2>1, <2>2 DEF BeatMove
  <2> QED  BY <2>3, BeatMoveKeeps
<1> QED  BY <1>1, <1>2, KindFacts

\* One that is replaced loses the timer the map holds and gets a new one.
LEMMA ReregisterKeeps ==
  ASSUME SchedInv, NEW s \in Schedules, NEW w \in Moments, s \in Cron /\ Kind[s] # "at" => w = "future",
         Reregister(s, w), OperationFrame(s)
  PROVE  SchedInv'
<1>0. row \in [Schedules -> {"absent", "on", "off"}] /\ disk' = disk
  BY DEF SchedInv, RestTypeOK, OperationFrame
<1>1. CASE row[s] = "off"
  <2>1. GoQuiet(s) /\ UNCHANGED <<row, done>>
    BY <1>1 DEF Reregister
  <2>2. DoneTypeOK'
    BY <1>0, <2>1 DEF DoneTypeOK, SchedInv
  <2> QED  BY <1>0, <1>1, <2>1, <2>2, GoQuietKeeps
<1>2. CASE row[s] = "on" /\ s \in Cron
  <2>1. /\ Cleared(s)[s] + fly[s] < MaxTimers /\ UNCHANGED beatVars
        /\ ScheduleNext(s, w, Cleared(s), held \ {s}, jobs \union {s}, row)
    BY <1>2, KindFacts DEF Reregister
  <2>2. /\ fly \in [Schedules -> Nat] /\ Cleared(s) \in [Schedules -> Nat]
        /\ \A t \in Schedules \ {s} : Cleared(s)[t] = armed[t]
    BY ClearedType DEF SchedInv, KindsOK
  <2>3. /\ armed' \in [Schedules -> Nat] /\ fly' \in [Schedules -> Nat]
        /\ \A t \in Schedules \ {s} : armed'[t] = armed[t] /\ fly'[t] = fly[t]
        /\ jobs' \subseteq jobs \union {s} /\ held' \subseteq held \union {s}
        /\ s \in held' => armed'[s] > 0
        /\ armed'[s] + fly'[s] <= Cleared(s)[s] + fly[s] + 1
        /\ row'[s] = "on" => armed'[s] + fly'[s] > 0
        /\ row' \in [Schedules -> {"absent", "on", "off"}] /\ \A t \in Schedules \ {s} : row'[t] = row[t]
        /\ DoneTypeOK'
    <3>1. held \ {s} \subseteq held /\ s \notin held \ {s}
      OBVIOUS
    <3> QED  BY <1>0, <1>2, <2>1, <2>2, <3>1, ScheduleNextMoves
  <2>4. Local(s)
    BY <2>3 DEF Local, OperationFrame, SchedInv, RestTypeOK
  <2>5. armed'[s] + fly'[s] <= MaxTimers
    BY <2>1, <2>2, <2>3, KindFacts
  <2>6. CronMove(s)
    BY <1>2, <2>1, <2>3, <2>4, <2>5, KindFacts DEF CronMove
  <2> QED  BY <2>6, CronMoveKeeps
<1>3. CASE row[s] = "on" /\ s \in Beats
  <2>1. /\ orphan[s] <= MaxOrphans /\ UNCHANGED <<cronVars, row, done>>
        /\ orphan' = IF s \in firing THEN [orphan EXCEPT ![s] = @ + 1] ELSE orphan
        /\ IF s \in Oneshot /\ s \in Range(done)
             THEN beats' = beats \ {s} /\ firing' = firing \ {s}
             ELSE /\ beats' = beats \union {s}
                  /\ firing' = IF s \in Oneshot THEN firing \union {s} ELSE firing \ {s}
    BY <1>3, KindFacts DEF Reregister
  <2>2. /\ BeatTypeOK' /\ beats' \ {s} = beats \ {s} /\ (s \notin Oneshot => s \in beats')
        /\ \A t \in Schedules \ {s} : orphan'[t] = orphan[t]
    BY <1>3, <2>1, KindFacts DEF BeatTypeOK, SchedInv
  <2>3. Local(s) /\ UNCHANGED <<cronVars, booting>>
    BY <2>1 DEF Local, OperationFrame, SchedInv, RestTypeOK, DoneTypeOK
  <2>4. BeatMove(s)
    BY <1>3, <2>2, <2>3 DEF BeatMove
  <2> QED  BY <2>4, BeatMoveKeeps
<1> QED  BY <1>1, <1>2, <1>3, KindFacts DEF Reregister

\* The engine's operations keep the invariant.
LEMMA OperationKeeps ==
  ASSUME SchedInv, NEW s \in Schedules, Operation(s)
  PROVE  SchedInv'
<1>0. /\ row \in [Schedules -> {"absent", "on", "off"}] /\ when \in [Schedules -> Moments]
      /\ \A t \in Schedules : Kind[t] # "at" => when[t] = "future"
      /\ "future" \in Moments /\ when[s] \in Moments
  BY DEF SchedInv, RestTypeOK, KindsOK, Moments
<1>1. /\ Inserted(s) \in [Schedules -> {"absent", "on", "off"}]
      /\ \A t \in Schedules \ {s} : Inserted(s)[t] = row[t]
      /\ SetEnabled(s, "on") \in [Schedules -> {"absent", "on", "off"}]
      /\ \A t \in Schedules \ {s} : SetEnabled(s, "on")[t] = row[t]
      /\ SetEnabled(s, "off") \in [Schedules -> {"absent", "on", "off"}] /\ SetEnabled(s, "off")[s] = "off"
      /\ \A t \in Schedules \ {s} : SetEnabled(s, "off")[t] = row[t]
      /\ Deleted(row, s) \in [Schedules -> {"absent", "on", "off"}] /\ Deleted(row, s)[s] = "absent"
      /\ \A t \in Schedules \ {s} : Deleted(row, s)[t] = row[t]
  BY <1>0 DEF Inserted, SetEnabled, Deleted
<1>2. ASSUME NEW w \in Moments, AddCronJob(s, w) PROVE SchedInv'
  <2>1. OperationFrame(s) /\ GoLive(s, w, Inserted(s)) /\ (Kind[s] # "at" => w = "future")
    BY <1>0, <1>2 DEF AddCronJob, Serving, OperationFrame
  <2> QED  BY <1>1, <2>1, GoLiveKeeps
<1>3. ASSUME NEW w \in Moments, Replace(s, w) PROVE SchedInv'
  <2>1. OperationFrame(s) /\ Reregister(s, w) /\ (Kind[s] # "at" => w = "future")
    BY <1>0, <1>3 DEF Replace, Serving, OperationFrame
  <2> QED  BY <2>1, ReregisterKeeps
<1>4. CASE AddHeartbeat(s)
  <2>1. OperationFrame(s) /\ GoLive(s, "future", Inserted(s))
    BY <1>0, <1>4 DEF AddHeartbeat, Serving, OperationFrame
  <2> QED  BY <1>0, <1>1, <2>1, GoLiveKeeps
<1>5. CASE RemoveSchedule(s)
  <2>1. OperationFrame(s) /\ GoQuiet(s) /\ row' = Deleted(row, s) /\ done' = ClearDone(s) /\ disk' = disk
    BY <1>0, <1>5 DEF RemoveSchedule, Serving, OperationFrame
  <2>2. DoneTypeOK'
    BY <2>1, ClearDoneType DEF DoneTypeOK, SchedInv
  <2> QED  BY <1>1, <2>1, <2>2, GoQuietKeeps
<1>6. CASE Disable(s)
  <2>1. OperationFrame(s) /\ GoQuiet(s) /\ row' = SetEnabled(s, "off") /\ DoneTypeOK'
    BY <1>0, <1>6 DEF Disable, Serving, OperationFrame, DoneTypeOK, SchedInv
  <2> QED  BY <1>1, <2>1, GoQuietKeeps
<1>7. CASE Enable(s)
  <2>1. OperationFrame(s) /\ GoLive(s, when[s], SetEnabled(s, "on"))
    BY <1>0, <1>7 DEF Enable, Serving, OperationFrame
  <2> QED  BY <1>0, <1>1, <2>1, GoLiveKeeps
<1>8. CASE SetSkills(s)
  <2>1. OperationFrame(s) /\ Reregister(s, when[s])
    BY <1>0, <1>8 DEF SetSkills, Serving, OperationFrame
  <2> QED  BY <1>0, <2>1, ReregisterKeeps
<1>9. CASE Reload(s)
  <2>1. OperationFrame(s)
    BY <1>0, <1>9 DEF Reload, Serving, OperationFrame
  <2>2. CASE GoLive(s, when[s], row)
    BY <1>0, <2>1, <2>2, GoLiveKeeps
  <2>3. CASE row[s] # "on" /\ GoQuiet(s) /\ UNCHANGED <<row, done>>
    <3>1. DoneTypeOK'
      BY <2>1, <2>3 DEF DoneTypeOK, SchedInv, OperationFrame
    <3> QED  BY <1>0, <2>1, <2>3, <3>1, GoQuietKeeps
  <2> QED  BY <1>9, <2>2, <2>3 DEF Reload
<1> QED  BY <1>2, <1>3, <1>4, <1>5, <1>6, <1>7, <1>8, <1>9 DEF Operation

\* Startup registers a row that has room for its timer, and leaves its list.
LEMMA RegisterKeeps ==
  ASSUME SchedInv, NEW s \in Schedules, Register(s)
  PROVE  SchedInv'
<1>0. /\ up # "down" /\ s \in booting /\ s \in Cron /\ booting' = booting \ {s}
      /\ UNCHANGED <<beatVars, up, disk, when, schedCrashes>>
  BY DEF Register, SchedInv, RestTypeOK
<1>1. /\ armed \in [Schedules -> Nat] /\ fly \in [Schedules -> Nat] /\ armed[s] + fly[s] <= MaxTimers
      /\ row \in [Schedules -> {"absent", "on", "off"}] /\ when \in [Schedules -> Moments]
      /\ (\A t \in Schedules : Kind[t] # "at" => when[t] = "future") /\ (s \in held => armed[s] > 0)
  BY <1>0 DEF SchedInv, KindsOK, RestTypeOK, HeldIsArmed
<1>2. CASE Kind[s] = "at" /\ s \in Range(done) /\ UNCHANGED <<cronVars, row, done, bootFire>>
  <2>1. Local(s) /\ s \in Oneshot
    BY <1>0, <1>1, <1>2, KindFacts DEF Local, SchedInv, RestTypeOK, DoneTypeOK
  <2>2. CronMove(s)
    BY <1>0, <1>1, <1>2, <2>1, KindFacts DEF CronMove, cronVars
  <2> QED  BY <2>2, CronMoveKeeps
<1>3. CASE /\ ScheduleNext(s, when[s], armed, held, jobs \union {s}, row)
           /\ bootFire' = IF fly'[s] > fly[s] THEN s ELSE NoSched
  <2>1. when[s] \in Moments /\ (Kind[s] # "at" => when[s] = "future")
    BY <1>1
  <2>2. /\ armed' \in [Schedules -> Nat] /\ fly' \in [Schedules -> Nat]
        /\ \A t \in Schedules \ {s} : armed'[t] = armed[t] /\ fly'[t] = fly[t]
        /\ jobs' \subseteq jobs \union {s} /\ held' \subseteq held \union {s}
        /\ s \in held' => armed'[s] > 0
        /\ armed'[s] + fly'[s] <= armed[s] + fly[s] + 1
        /\ row'[s] = "on" => armed'[s] + fly'[s] > 0
        /\ row' \in [Schedules -> {"absent", "on", "off"}] /\ \A t \in Schedules \ {s} : row'[t] = row[t]
        /\ DoneTypeOK'
    BY <1>0, <1>1, <1>3, <2>1, ScheduleNextMoves
  <2>3. Local(s)
    BY <1>0, <1>1, <1>3, <2>2 DEF Local, SchedInv, RestTypeOK
  <2>4. armed'[s] + fly'[s] <= MaxTimers + 1 /\ s \notin booting'
    BY <1>0, <1>1, <2>2, KindFacts
  <2>5. CronMove(s)
    BY <1>0, <2>2, <2>3, <2>4 DEF CronMove
  <2> QED  BY <2>5, CronMoveKeeps
<1> QED  BY <1>2, <1>3 DEF Register

\* Beats begin and end.
LEMMA BeatKeeps ==
  ASSUME SchedInv, NEW s \in Schedules, Beat(s) \/ BeatEnds(s)
  PROVE  SchedInv'
<1>1. /\ s \in Beats /\ up # "down" /\ UNCHANGED <<cronVars, beats, booting, bootFire, up, row, when, schedCrashes>>
  <2>1. CASE Beat(s)
    BY <2>1 DEF Beat, cronVars, SchedInv, BeatTypeOK
  <2>2. CASE BeatEnds(s)
    <3>1. s \in firing \/ orphan[s] > 0
      BY <2>2 DEF BeatEnds
    <3>2. s \in Beats /\ up # "down"
      BY <3>1, KindFacts DEF SchedInv, BeatTypeOK, KindsOK, DownOK, Zero
    <3> QED  BY <2>2, <3>2 DEF BeatEnds, cronVars
  <2> QED  BY <2>1, <2>2
<1>2. BeatTypeOK' /\ \A t \in Schedules \ {s} : orphan'[t] = orphan[t]
  <2>1. CASE Beat(s)
    BY <2>1 DEF Beat, SchedInv, BeatTypeOK
  <2>2. CASE BeatEnds(s)
    BY <2>2, KindFacts DEF BeatEnds, SchedInv, BeatTypeOK
  <2> QED  BY <2>1, <2>2
<1>3. DoneTypeOK'
  BY MarkDoneType DEF Beat, BeatEnds, SchedInv, DoneTypeOK
<1>4. /\ row \in [Schedules -> {"absent", "on", "off"}] /\ when \in [Schedules -> Moments]
      /\ (\A t \in Schedules : Kind[t] # "at" => when[t] = "future") /\ bootFire \in Cron \union {NoSched}
  BY DEF SchedInv, KindsOK, RestTypeOK
<1>5. Local(s)
  BY <1>1, <1>3, <1>4 DEF Local
<1>6. row[s] = "on" /\ up = "up" /\ s \notin Oneshot => s \in beats
  <2>1. armed[s] = 0 /\ fly[s] = 0 /\ s \notin booting
    BY <1>1, KindFacts DEF SchedInv, KindsOK, RestTypeOK
  <2> QED  BY <2>1 DEF SchedInv, EnabledIsServed
<1>7. BeatMove(s)
  BY <1>1, <1>2, <1>5, <1>6 DEF BeatMove
<1> QED  BY <1>7, BeatMoveKeeps

\* The clock and the flush timer touch no registration.
LEMMA WorldKeeps ==
  ASSUME SchedInv, (\E s \in Schedules : TimePasses(s)) \/ Flush \/ UNCHANGED schedVars
  PROVE  SchedInv'
<1>1. UNCHANGED <<jobs, armed, held, fly, beats, firing, orphan, booting, bootFire, up, row, done, schedCrashes>>
  BY DEF TimePasses, Flush, schedVars, liveVars, cronVars, beatVars
<1>2. /\ when' \in [Schedules -> Moments] /\ \A t \in Schedules : Kind[t] # "at" => when'[t] = "future"
  BY DEF TimePasses, Flush, schedVars, SchedInv, RestTypeOK, KindsOK, Moments
<1>3. disk' \in {disk, done} /\ (up = "down" => disk' = disk)
  BY DEF TimePasses, Flush, schedVars
<1>4. CronTypeOK' /\ BeatTypeOK' /\ DoneTypeOK' /\ RestTypeOK'
  BY <1>1, <1>2, <1>3 DEF SchedInv, CronTypeOK, BeatTypeOK, DoneTypeOK, RestTypeOK
<1>5. KindsOK' /\ EnabledIsServed' /\ HeldIsArmed' /\ DownOK'
  BY <1>1, <1>2, <1>3 DEF SchedInv, KindsOK, EnabledIsServed, HeldIsArmed, DownOK
<1> QED  BY <1>4, <1>5 DEF SchedInv

\* A stop drops the registrations and the timers the map holds.
LEMMA StopKeeps ==
  ASSUME SchedInv, Stop
  PROVE  SchedInv'
<1>0. /\ up' = "stopping" /\ jobs' = {} /\ held' = {} /\ beats' = {} /\ firing' = {}
      /\ UNCHANGED <<fly, booting, bootFire, row, done, disk, when, schedCrashes>>
  BY DEF Stop
<1>1. /\ armed' \in [Schedules -> Nat] /\ fly' \in [Schedules -> Nat]
      /\ \A s \in Schedules : armed'[s] <= armed[s] /\ armed[s] \in Nat /\ fly[s] \in Nat
  BY <1>0, ClearedType DEF Stop, SchedInv, KindsOK
<1>2. CronTypeOK'
  BY <1>0, <1>1, KindFacts DEF SchedInv, CronTypeOK
<1>3. BeatTypeOK'
  BY <1>0, KindFacts DEF Stop, SchedInv, BeatTypeOK
<1>4. DoneTypeOK' /\ RestTypeOK'
  BY <1>0 DEF SchedInv, DoneTypeOK, RestTypeOK
<1>5. KindsOK'
  <2>1. booting \subseteq Schedules /\ booting' = booting
    BY <1>0, KindFacts DEF SchedInv, RestTypeOK
  <2>2. \A s \in booting : armed'[s] + fly'[s] <= MaxTimers
    BY <1>0, <1>1, <2>1, KindFacts DEF SchedInv, KindsOK
  <2>3. \A s \in Beats : armed'[s] = 0 /\ fly'[s] = 0
    BY <1>0, <1>1, KindFacts DEF SchedInv, KindsOK
  <2>4. \A s \in Cron : orphan'[s] = 0
    BY KindFacts DEF Stop, SchedInv, KindsOK, BeatTypeOK
  <2> QED  BY <1>0, <1>1, <2>1, <2>2, <2>3, <2>4 DEF SchedInv, KindsOK
<1>6. EnabledIsServed' /\ HeldIsArmed' /\ DownOK'
  BY <1>0 DEF EnabledIsServed, HeldIsArmed, DownOK
<1> QED  BY <1>2, <1>3, <1>4, <1>5, <1>6 DEF SchedInv

\* A process that ends takes its timers along, and a clean one flushes.
LEMMA EndKeeps ==
  ASSUME SchedInv, Exit \/ Crash
  PROVE  SchedInv'
<1>0. /\ up' = "down" /\ UNCHANGED <<row, when, done>>
      /\ jobs' = {} /\ held' = {} /\ beats' = {} /\ firing' = {} /\ booting' = {}
      /\ armed' = Zero /\ fly' = Zero /\ orphan' = Zero /\ bootFire' = NoSched
  BY DEF Exit, Crash, Dead
<1>1. /\ disk' \in {disk, done} /\ schedCrashes' \in 0..MaxSchedCrashes
      /\ schedCrashes' = 0 => disk' = done'
  BY SchedulesAssumption DEF Exit, Crash, Dead, SchedInv, RestTypeOK
<1>2. Zero \in [Schedules -> {0}]
  BY DEF Zero
<1>3. CronTypeOK' /\ BeatTypeOK'
  BY <1>0, <1>2, KindFacts DEF CronTypeOK, BeatTypeOK
<1>4. DoneTypeOK' /\ RestTypeOK'
  BY <1>0, <1>1 DEF SchedInv, DoneTypeOK, RestTypeOK
<1>5. KindsOK' /\ EnabledIsServed' /\ HeldIsArmed' /\ DownOK'
  BY <1>0, <1>1, <1>2, KindFacts DEF SchedInv, KindsOK, EnabledIsServed, HeldIsArmed, DownOK
<1> QED  BY <1>3, <1>4, <1>5 DEF SchedInv

\* The next process has every enabled row among its heartbeats or on its startup list.
LEMMA BootKeeps ==
  ASSUME SchedInv, Boot
  PROVE  SchedInv'
<1>0. /\ up' = "up" /\ done' = disk /\ UNCHANGED <<jobs, armed, held, fly, orphan, bootFire, row, disk, when, schedCrashes>>
      /\ armed = Zero /\ fly = Zero
      /\ booting' = {s \in Schedules : row[s] = "on"} \intersect Cron
      /\ beats' = {s \in {t \in Schedules : row[t] = "on"} \intersect Beats : ~(s \in Oneshot /\ s \in Range(disk))}
      /\ firing' = beats' \intersect Oneshot
  BY DEF Boot, SchedInv, DownOK, cronVars
<1>1. \A s \in Schedules : armed[s] = 0 /\ fly[s] = 0
  BY <1>0 DEF Zero
<1>2. CronTypeOK' /\ BeatTypeOK' /\ DoneTypeOK' /\ RestTypeOK'
  BY <1>0, KindFacts DEF SchedInv, CronTypeOK, BeatTypeOK, DoneTypeOK, RestTypeOK
<1>3. KindsOK' /\ EnabledIsServed' /\ HeldIsArmed' /\ DownOK'
  BY <1>0, <1>1, KindFacts DEF SchedInv, KindsOK, EnabledIsServed, HeldIsArmed, DownOK
<1> QED  BY <1>2, <1>3 DEF SchedInv

\* Every step keeps the invariant.
LEMMA SchedStep == SchedInv /\ [SchedNext]_schedVars => SchedInv'
<1> SUFFICES ASSUME SchedInv, [SchedNext]_schedVars PROVE SchedInv'
  OBVIOUS
<1> QED  BY OperationKeeps, TimerKeeps, FireEndsKeeps, RegisterKeeps, BeatKeeps, WorldKeeps, StopKeeps, EndKeeps,
            BootKeeps DEF SchedNext

(* For any schedules of any kinds, whatever operations, fires, stops,      *)
(* crashes and restarts interleave, an enabled recurring schedule has a    *)
(* timer, a fire that will arm one, an entry or a turn in the startup      *)
(* loop, and the timers map names no timer that is gone (cron.ts           *)
(* scheduleNext and removeJob, heartbeat.ts, engine.ts).                   *)
THEOREM TimersAgree == FiresSpec => []TimersMatch
<1>1. FiresInit => SchedInv
  BY SchedStart DEF FiresInit
<1>2. SchedInv /\ [FiresNext]_allVars => SchedInv'
  <2>1. [FiresNext]_allVars => [SchedNext]_schedVars
    BY DEF FiresNext, StepExecutor, StepSchedules, allVars
  <2> QED  BY <2>1, SchedStep
<1>3. SchedInv => TimersMatch
  BY TypeParts DEF SchedInv, TimersMatch
<1> QED  BY <1>1, <1>2, <1>3, PTL DEF FiresSpec

\* A one-shot heartbeat that is marked complete starts in no step, unless a crash lost the mark.
LEMMA DoneNotStarted ==
  ASSUME SchedInv, SchedNext, NEW s \in Beats \intersect Oneshot, s \in Range(done), schedCrashes = 0
  PROVE  s \notin firing' \ firing
<1>1. ASSUME NEW t \in Schedules, Operation(t) PROVE s \notin firing' \ firing
  <2>1. ASSUME NEW w, NEW rw, GoLive(t, w, rw) PROVE s \notin firing' \ firing
    BY <2>1 DEF GoLive, RegisterOne, beatVars
  <2>2. ASSUME GoQuiet(t) PROVE s \notin firing' \ firing
    BY <2>2 DEF GoQuiet, Unregistered, beatVars
  <2>3. ASSUME NEW w, Reregister(t, w) PROVE s \notin firing' \ firing
    BY <2>2, <2>3 DEF Reregister, beatVars
  <2> QED  BY <1>1, <2>1, <2>2, <2>3
           DEF Operation, Replace, AddCronJob, AddHeartbeat, RemoveSchedule, Disable, Enable, SetSkills, Reload
<1>2. ASSUME NEW t \in Schedules, TimerFires(t) \/ FireEnds(t) \/ Beat(t) \/ BeatEnds(t) \/ TimePasses(t) \/ Register(t)
      PROVE  s \notin firing' \ firing
  BY <1>2 DEF TimerFires, FireEnds, Beat, BeatEnds, TimePasses, Register, liveVars, beatVars
<1>3. CASE Flush \/ Stop \/ Exit \/ Crash
  BY <1>3 DEF Flush, Stop, Exit, Crash, Dead, liveVars, beatVars
<1>4. CASE Boot
  <2>1. disk = done
    BY <1>4 DEF Boot, SchedInv, DownOK
  <2> QED  BY <1>4, <2>1 DEF Boot
<1> QED  BY <1>1, <1>2, <1>3, <1>4 DEF SchedNext

(* A one-shot heartbeat marked complete does not start again, through any  *)
(* disabling, replacing, reloading, stop and restart, until its schedule   *)
(* is removed; only a crash can lose the mark (heartbeat.ts registerOne,   *)
(* state/store.ts markOneshotCompleted and flush).                         *)
THEOREM DoneStaysDone == FiresSpec => CompletedNotRefired
<1>1. FiresInit => SchedInv
  BY SchedStart DEF FiresInit
<1>2. [FiresNext]_allVars => [SchedNext]_schedVars
  BY DEF FiresNext, StepExecutor, StepSchedules, allVars
<1>3. SchedInv /\ [FiresNext]_allVars => SchedInv'
  BY <1>2, SchedStep
<1>4. SchedInv /\ [FiresNext]_allVars =>
        [\A s \in Beats \intersect Oneshot :
           s \in Range(done) /\ schedCrashes = 0 => s \notin firing' \ firing]_schedVars
  BY <1>2, DoneNotStarted
<1> QED  BY <1>1, <1>3, <1>4, PTL DEF FiresSpec, CompletedNotRefired
=============================================================================
