----------------------------- MODULE JobExecutor -----------------------------
(***************************************************************************)
(* The proactive pipeline: JobExecutor, the job states of StateStore it    *)
(* locks with, the RetryQueue, the engine's retry loop and ChannelRouter   *)
(* (src/gateway/src/proactive).  An execution of a job is a run.  A step   *)
(* is what happens between two real waits (the agent, a script, the        *)
(* embedder, a channel send); the awaits of functions that do no I/O       *)
(* complete inside a step.                                                 *)
(*                                                                         *)
(* StateStore keeps the OBJECT a run stores, getJobState hands out a copy, *)
(* and setJobState replaces the object, so the model has one object per    *)
(* run (obj) and a reference per job (cur).  executeImpl returns           *)
(* executeNoAgent, executeSilent, executeConditional and deliverResponse   *)
(* without awaiting them, so its finally block releases the lock as soon   *)
(* as they reach their first await.                                        *)
(***************************************************************************)
EXTENDS Naturals, Sequences, FiniteSets, SequencesExt, SequenceFilter

CONSTANTS Runs,          \* executions, each used at most once
          Jobs,          \* job ids
          JobMode,       \* [Jobs -> {"always", "conditional", "silent"}]
          Scripted,      \* the jobs with noAgent and a script
          Contents,      \* texts, up to embedding similarity
          Unembedded,    \* the runs for which embed() may throw
          Targets,       \* pairs of a channel and a peer
          Target,        \* the jobs' delivery target
          Fallbacks,     \* its fallbacks, in order
          Default,       \* the engine's default target, or None
          MaxAttempts,   \* RETRY_MAX_ATTEMPTS
          MaxQueue,      \* MAX_QUEUE_SIZE
          MaxCrashes,    \* bound: process deaths explored
          None

ASSUME ExecutorAssumption ==
  /\ JobMode \in [Jobs -> {"always", "conditional", "silent"}]
  /\ Scripted \subseteq Jobs /\ Unembedded \subseteq Runs
  /\ Target \in Targets /\ Default \in Targets \union {None}
  /\ Fallbacks \in Seq(Targets)
  /\ MaxAttempts \in Nat \ {0} /\ MaxQueue \in Nat \ {0} /\ MaxCrashes \in Nat
  /\ None \notin Runs \union Jobs \union Contents \union Targets

VARIABLES
  pc,       \* [Runs -> Phases]: where each execution is
  job,      \* [Runs -> Jobs or None]: the job it executes
  src,      \* [Runs -> Runs or None]: the retry task it executes, if any
  text,     \* [Runs -> Contents or None]: what it wants to send
  emb,      \* the runs whose text was embedded
  hop,      \* [Runs -> Nat]: the entry of Route being tried
  got,      \* [Runs -> Seq(Targets)]: where its text arrived
  unacked,  \* [Runs -> Nat]: arrivals the channel reported as errors
  result,   \* [Runs -> the action executeImpl returned]
  obj,      \* [Runs -> lock part of the run's jobState object]
  cur,      \* [Jobs -> Runs or None]: whose object StateStore.jobs holds
  old,      \* the runs that locked more than STALE_LOCK_MS ago
  dnd,      \* do-not-disturb or quiet hours in force
  dedup,    \* texts with an embedding in proactive_deliveries
  queue,    \* RetryQueue.tasks
  loop,     \* the retry loop: due tasks left in this tick, run it awaits
  dropped,  \* tasks the queue evicted at capacity or as older than 24 h
  crashes

runVars  == <<pc, job, src, text, emb, hop, got, unacked, result>>
lockVars == <<obj, cur, old>>
vars     == <<runVars, lockVars, dnd, dedup, queue, loop, dropped, crashes>>

Phases  == {"idle", "gate", "agent", "quiet", "script", "embed", "send", "sent",
            "done"}
Active  == Phases \ {"idle", "done"}
Holding == {"gate", "agent"}    \* the phases executeImpl's try block awaits in
Results == {"none", "skipped", "suppressed", "error", "delivered", "killed"}

Unlocked  == [locked |-> FALSE, since |-> None]
Stored(j) == IF cur[j] = None THEN Unlocked ELSE obj[cur[j]]

Ids(q) == {q[i].id : i \in DOMAIN q}

RunTypeOK ==
  /\ pc \in [Runs -> Phases]
  /\ job \in [Runs -> Jobs \union {None}]
  /\ src \in [Runs -> Runs \union {None}]
  /\ text \in [Runs -> Contents \union {None}]
  /\ hop \in [Runs -> Nat] /\ unacked \in [Runs -> Nat]
  /\ got \in [Runs -> Seq(Targets)]
  /\ result \in [Runs -> Results]

LockTypeOK ==
  /\ obj \in [Runs -> [locked : BOOLEAN, since : Runs \union {None}]]
  /\ cur \in [Jobs -> Runs \union {None}]

QueueTypeOK ==
  /\ queue \in Seq([id : Runs, job : Jobs, attempts : Nat, due : BOOLEAN])
  /\ loop \in [due : Seq(Runs), run : Runs \union {None}]

StoreTypeOK ==
  /\ emb \subseteq Runs /\ old \subseteq Runs /\ dropped \subseteq Runs
  /\ dnd \in BOOLEAN /\ dedup \subseteq Contents
  /\ crashes \in Nat

\* Types of the runs, the job states, the retry queue and its loop, and the rest.
TypeOK == RunTypeOK /\ LockTypeOK /\ QueueTypeOK /\ StoreTypeOK

Init ==
  /\ pc = [r \in Runs |-> "idle"]
  /\ job = [r \in Runs |-> None] /\ src = [r \in Runs |-> None]
  /\ text = [r \in Runs |-> None] /\ emb = {}
  /\ hop = [r \in Runs |-> 0] /\ got = [r \in Runs |-> << >>]
  /\ unacked = [r \in Runs |-> 0] /\ result = [r \in Runs |-> "none"]
  /\ obj = [r \in Runs |-> Unlocked] /\ cur = [j \in Jobs |-> None] /\ old = {}
  /\ dnd = FALSE /\ dedup = {} /\ queue = << >>
  /\ loop = [due |-> << >>, run |-> None]
  /\ dropped = {} /\ crashes = 0

-----------------------------------------------------------------------------
(***************************************************************************)
(* The lock.                                                               *)
(***************************************************************************)

\* StateStore.setJobState: the store now holds this run's object.
SetJobState(r, j, o) ==
  /\ obj' = [obj EXCEPT ![r] = o]
  /\ cur' = [cur EXCEPT ![j] = r]

\* The stored flag is set and younger than STALE_LOCK_MS.
Busy(j) == Stored(j).locked /\ Stored(j).since \notin old

\* The finally block of executeImpl.
Release(r) == SetJobState(r, job[r], Unlocked)

\* Mutation: a failed run is recorded but its lock is left set.
ErrorKeepsLock(r, res) ==
  /\ pc' = [pc EXCEPT ![r] = "done"]
  /\ result' = [result EXCEPT ![r] = res]
  /\ IF res = "error" THEN UNCHANGED <<obj, cur>> ELSE Release(r)

\* finalize and finalizeError store the run's object; inside the try block the
\* finally block then clears the lock, after it the object is already cleared.
Finish(r, res) ==
  /\ pc' = [pc EXCEPT ![r] = "done"]
  /\ result' = [result EXCEPT ![r] = res]
  /\ Release(r)

\* execute -> executeImpl up to its first real wait.  t is the retry task it
\* executes (None for a trigger); a retried job carries no script.
Execute(r, j, t) ==
  /\ pc[r] = "idle"
  /\ job' = [job EXCEPT ![r] = j]
  /\ src' = [src EXCEPT ![r] = t]
  /\ \/ /\ Busy(j)
        /\ pc' = [pc EXCEPT ![r] = "done"]
        /\ result' = [result EXCEPT ![r] = "skipped"]
        /\ UNCHANGED <<obj, cur>>
     \/ /\ ~Busy(j)
        /\ dnd /\ JobMode[j] # "silent"
        /\ pc' = [pc EXCEPT ![r] = "done"]
        /\ result' = [result EXCEPT ![r] = "suppressed"]
        /\ SetJobState(r, j, Unlocked)
     \/ /\ ~Busy(j)
        /\ ~(dnd /\ JobMode[j] # "silent")
        /\ j \in Scripted /\ t = None
        /\ pc' = [pc EXCEPT ![r] = "script"]
        /\ SetJobState(r, j, Unlocked)
        /\ UNCHANGED result
     \/ /\ ~Busy(j)
        /\ ~(dnd /\ JobMode[j] # "silent")
        /\ ~(j \in Scripted /\ t = None)
        /\ pc' = [pc EXCEPT ![r] = "gate"]
        /\ SetJobState(r, j, [locked |-> TRUE, since |-> r])
        /\ UNCHANGED result
  /\ UNCHANGED <<text, emb, hop, got, unacked, old, dnd, dedup, dropped, crashes>>

\* A trigger (timer, manual, catch-up or sweep) executes the job.
Fire(r, j) ==
  /\ Execute(r, j, None)
  /\ UNCHANGED <<queue, loop>>

-----------------------------------------------------------------------------
(***************************************************************************)
(* The body of a run.                                                      *)
(***************************************************************************)

\* Cooldown, the pre-check script and the injection scan decide whether the
\* agent is called; executeSilent is returned unawaited.
Gate(r) ==
  /\ pc[r] = "gate"
  /\ \/ Finish(r, "suppressed")
     \/ /\ JobMode[job[r]] = "silent"
        /\ pc' = [pc EXCEPT ![r] = "quiet"]
        /\ Release(r)
        /\ UNCHANGED result
     \/ /\ JobMode[job[r]] # "silent"
        /\ pc' = [pc EXCEPT ![r] = "agent"]
        /\ UNCHANGED <<obj, cur, result>>
  /\ UNCHANGED <<job, src, text, emb, hop, got, unacked, old, dnd, dedup, queue, loop,
                 dropped, crashes>>

\* deliverResponse begins with a text; it is returned unawaited.
DeliverResponse(r) ==
  /\ \E c \in Contents : text' = [text EXCEPT ![r] = c]
  /\ pc' = [pc EXCEPT ![r] = "embed"]
  /\ Release(r)
  /\ UNCHANGED result

\* executeConditional: silence (deliver false, a placeholder, an unreadable reply)
\* or a text.  A job of mode always has the same two outcomes.
ExecuteConditional(r) == (Finish(r, "suppressed") /\ UNCHANGED text) \/ DeliverResponse(r)

\* The agent call of executeImpl ends: it threw, or it answered (no words and the
\* silent sentinel are silence).
Answer(r) ==
  /\ pc[r] = "agent"
  /\ (Finish(r, "error") /\ UNCHANGED text) \/ ExecuteConditional(r)
  /\ UNCHANGED <<job, src, emb, hop, got, unacked, old, dnd, dedup, queue, loop,
                 dropped, crashes>>

\* executeNoAgent: the script could not be started, printed nothing, or its output
\* (or an alert that it failed) is to be delivered.
ExecuteNoAgent(r) ==
  /\ pc[r] = "script"
  /\ \/ \E res \in {"error", "suppressed"} : Finish(r, res) /\ UNCHANGED text
     \/ DeliverResponse(r)
  /\ UNCHANGED <<job, src, emb, hop, got, unacked, old, dnd, dedup, queue, loop,
                 dropped, crashes>>

\* executeSilent: the agent ran for its side effects only.
QuietAnswer(r) ==
  /\ pc[r] = "quiet"
  /\ \E res \in {"error", "suppressed"} : Finish(r, res)
  /\ UNCHANGED <<job, src, text, emb, hop, got, unacked, old, dnd, dedup, queue, loop,
                 dropped, crashes>>

Similar(r) == text[r] \in dedup /\ JobMode[job[r]] # "always"

\* deliverResponse up to the send: embed, and compare unless the mode is always.
Embed(r) ==
  /\ pc[r] = "embed"
  /\ \/ /\ Similar(r)
        /\ Finish(r, "suppressed")
        /\ emb' = emb \union {r}
        /\ UNCHANGED hop
     \/ /\ ~Similar(r)
        /\ emb' = emb \union {r}
        /\ pc' = [pc EXCEPT ![r] = "send"]
        /\ hop' = [hop EXCEPT ![r] = 1]
        /\ UNCHANGED <<obj, cur, result>>
     \/ /\ r \in Unembedded
        /\ pc' = [pc EXCEPT ![r] = "send"]
        /\ hop' = [hop EXCEPT ![r] = 1]
        /\ UNCHANGED <<emb, obj, cur, result>>
  /\ UNCHANGED <<job, src, text, got, unacked, old, dnd, dedup, queue, loop, dropped,
                 crashes>>

\* ChannelRouter.deliver: the target, its fallbacks, then the engine default
\* unless it is the target.
Route == <<Target>> \o Fallbacks
         \o (IF Default # None /\ Default # Target THEN <<Default>> ELSE << >>)

\* The channel took the text.
Accept(r) ==
  /\ pc[r] = "send"
  /\ got' = [got EXCEPT ![r] = Append(@, Route[hop[r]])]
  /\ pc' = [pc EXCEPT ![r] = "sent"]
  /\ UNCHANGED <<job, src, text, emb, hop, unacked, result, lockVars, dnd, dedup, queue,
                 loop, dropped, crashes>>

\* Mutation: the router carries on to the next target after a send that worked.
SendOkWalksOn(r) ==
  /\ pc[r] = "sent"
  /\ IF hop[r] < Len(Route)
       THEN /\ hop' = [hop EXCEPT ![r] = @ + 1]
            /\ pc' = [pc EXCEPT ![r] = "send"]
            /\ UNCHANGED <<dedup, result, obj, cur>>
       ELSE /\ dedup' = IF r \in emb THEN dedup \union {text[r]} ELSE dedup
            /\ Finish(r, "delivered")
            /\ UNCHANGED hop
  /\ UNCHANGED <<job, src, text, emb, got, unacked, old, dnd, queue, loop, dropped,
                 crashes>>

\* Mutation: the delivery is recorded without its embedding.
SendOkForgets(r) ==
  /\ pc[r] = "sent"
  /\ Finish(r, "delivered")
  /\ UNCHANGED <<job, src, text, emb, hop, got, unacked, old, dnd, dedup, queue, loop,
                 dropped, crashes>>

\* sendMessage resolved: addDelivery, recordDelivery, flushNow, finalize.
SendOk(r) ==
  /\ pc[r] = "sent"
  /\ dedup' = IF r \in emb THEN dedup \union {text[r]} ELSE dedup
  /\ Finish(r, "delivered")
  /\ UNCHANGED <<job, src, text, emb, hop, got, unacked, old, dnd, queue, loop, dropped,
                 crashes>>

\* Mutation: the retry task is queued without its job.
EnqueueJobless(r) ==
  /\ queue' = Append(queue, [id |-> r, job |-> None, attempts |-> 0, due |-> FALSE])
  /\ UNCHANGED dropped

\* RetryQueue.add: the oldest task makes room for a new one.
Enqueue(r) ==
  LET full == Len(queue) >= MaxQueue
      task == [id |-> r, job |-> job[r], attempts |-> 0, due |-> FALSE]
  IN /\ queue' = Append(IF full THEN Tail(queue) ELSE queue, task)
     /\ dropped' = IF full THEN dropped \union {Head(queue).id} ELSE dropped

\* The channel was not connected, or sendMessage rejected (perhaps after the
\* text had arrived): the next entry of Route, or the retry queue.
SendError(r) ==
  /\ pc[r] \in {"send", "sent"}
  /\ unacked' = [unacked EXCEPT ![r] = @ + (IF pc[r] = "sent" THEN 1 ELSE 0)]
  /\ \/ /\ hop[r] < Len(Route)
        /\ hop' = [hop EXCEPT ![r] = @ + 1]
        /\ pc' = [pc EXCEPT ![r] = "send"]
        /\ UNCHANGED <<obj, cur, result, queue, dropped>>
     \/ /\ hop[r] = Len(Route)
        /\ Enqueue(r)
        /\ Finish(r, "error")
        /\ UNCHANGED hop
  /\ UNCHANGED <<job, src, text, emb, got, old, dnd, dedup, loop, crashes>>

RunStep(r) ==
  Gate(r) \/ Answer(r) \/ ExecuteNoAgent(r) \/ QuietAnswer(r) \/ Embed(r) \/ Accept(r)
    \/ SendOk(r) \/ SendError(r)

-----------------------------------------------------------------------------
(***************************************************************************)
(* The retry loop.                                                         *)
(***************************************************************************)

\* getDueRetries at the start of a tick; the tick reschedules itself at its end.
RetryTick ==
  LET due == Filter(queue, {t \in Range(queue) : t.due /\ t.attempts < MaxAttempts})
  IN /\ loop.due = << >>
     /\ due # << >>
     /\ loop' = [loop EXCEPT !.due = [i \in DOMAIN due |-> due[i].id]]
     /\ UNCHANGED <<runVars, lockVars, dnd, dedup, queue, dropped, crashes>>

\* Execute the next due task (tick holds the task object even if it was evicted).
RetryNext(r) ==
  /\ loop.due # << >> /\ loop.run = None
  /\ Execute(r, job[Head(loop.due)], Head(loop.due))
  /\ loop' = [loop EXCEPT !.run = r]
  /\ UNCHANGED queue

\* recordAttempt: anything but a delivery is a failed attempt.
Attempted(t) == [t EXCEPT !.attempts = @ + 1, !.due = FALSE]

\* Mutation: the attempt limit is off by one.
GivesUpEarly(t, ok) == ok \/ t.attempts + 2 >= MaxAttempts

GivesUp(t, ok) == ok \/ t.attempts + 1 >= MaxAttempts

\* Mutation: an error in a tick ends the loop for good.
RecordAttemptStops ==
  /\ loop.run # None
  /\ pc[loop.run] = "done"
  /\ result[loop.run] # "error"
  /\ loop' = [due |-> Tail(loop.due), run |-> None]
  /\ queue' = Filter(queue, {t \in Range(queue) : t.id # Head(loop.due)})
  /\ UNCHANGED <<runVars, lockVars, dnd, dedup, dropped, crashes>>

RecordAttempt ==
  LET id == Head(loop.due)
      ok == result[loop.run] = "delivered"
      kept == Filter(queue, {t \in Range(queue) : ~(t.id = id /\ GivesUp(t, ok))})
  IN /\ loop.run # None
     /\ pc[loop.run] = "done"
     /\ queue' = [i \in DOMAIN kept |->
                    IF kept[i].id = id THEN Attempted(kept[i]) ELSE kept[i]]
     /\ loop' = [due |-> Tail(loop.due), run |-> None]
     /\ UNCHANGED <<runVars, lockVars, dnd, dedup, dropped, crashes>>

-----------------------------------------------------------------------------
(***************************************************************************)
(* The environment.                                                        *)
(***************************************************************************)

\* A task's back-off elapses.
TaskDue(i) ==
  /\ ~queue[i].due
  /\ queue' = [queue EXCEPT ![i].due = TRUE]
  /\ UNCHANGED <<runVars, lockVars, dnd, dedup, loop, dropped, crashes>>

\* A run stays in the try block for more than STALE_LOCK_MS.
LockAges(r) ==
  /\ pc[r] \in Holding /\ r \notin old
  /\ old' = old \union {r}
  /\ UNCHANGED <<runVars, obj, cur, dnd, dedup, queue, loop, dropped, crashes>>

\* /dnd, quiet hours, and their expiry.
ToggleDnd ==
  /\ dnd' = ~dnd
  /\ UNCHANGED <<runVars, lockVars, dedup, queue, loop, dropped, crashes>>

\* The process dies and boots: StateStore clears the lock flags, RetryQueue.load
\* drops tasks older than 24 h and keeps the rest.
CrashAndBoot ==
  /\ crashes < MaxCrashes
  /\ crashes' = crashes + 1
  /\ result' = [r \in Runs |-> IF pc[r] \in Active THEN "killed" ELSE result[r]]
  /\ pc' = [r \in Runs |-> IF pc[r] \in Active THEN "done" ELSE pc[r]]
  /\ obj' = [r \in Runs |-> Unlocked]
  /\ old' = {}
  /\ \E stale \in SUBSET Ids(queue) :
       /\ queue' = Filter(queue, {t \in Range(queue) : t.id \notin stale})
       /\ dropped' = dropped \union stale
  /\ loop' = [due |-> << >>, run |-> None]
  /\ UNCHANGED <<job, src, text, emb, hop, got, unacked, cur, dnd, dedup>>

Next ==
  \/ \E r \in Runs, j \in Jobs : Fire(r, j)
  \/ \E r \in Runs : RunStep(r) \/ RetryNext(r) \/ LockAges(r)
  \/ RetryTick \/ RecordAttempt
  \/ \E i \in DOMAIN queue : TaskDue(i)
  \/ ToggleDnd \/ CrashAndBoot

Spec == Init /\ [][Next]_vars

\* The agent, scripts, the embedder and the channels answer, and the retry loop's
\* timer fires.
Fairness ==
  /\ \A r \in Runs : WF_vars(RunStep(r))
  /\ WF_vars(RetryTick) /\ WF_vars(RecordAttempt)
  /\ WF_vars(\E r \in Runs : RetryNext(r))

FairSpec == Spec /\ Fairness

-----------------------------------------------------------------------------
(***************************************************************************)
(* Correctness.                                                            *)
(***************************************************************************)

\* A locked job has a holder: the isExecuting flag StateStore holds is that of a
\* run still inside executeImpl's try block, whose finally block will clear it.
\* So no order of overlapping runs, failures, reclaimed locks, crashes and boots
\* leaves a job locked with nobody to unlock it.
LockHasHolder ==
  \A j \in Jobs : Stored(j).locked =>
    /\ cur[j] # None
    /\ job[cur[j]] = j /\ pc[cur[j]] \in Holding

\* One delivery reaches its user once: walking the target, the fallbacks and the
\* default, ChannelRouter.deliver goes on only from a send that was reported as
\* failed, so extra copies need a send that arrived and was reported as failed.
OneCopyPerRun ==
  \A r \in Runs : Len(got[r]) <= 1 + unacked[r]

\* A text whose every send failed is not forgotten: its task waits in the retry
\* queue (across restarts), or a retry of it delivered, or MaxAttempts retries of
\* it ran to their end, or the queue dropped it at capacity or after 24 hours.
FailureNotForgotten ==
  \A r \in Runs : result[r] = "error" /\ text[r] # None /\ r \notin dropped =>
    \/ r \in Ids(queue)
    \/ \E s \in Runs : src[s] = r /\ result[s] = "delivered"
    \/ Cardinality({s \in Runs : src[s] = r /\ pc[s] = "done" /\ result[s] # "killed"})
         >= MaxAttempts

\* A message delivered in conditional mode and recorded is compared against: a
\* later similar text of a conditional job is not sent unless its comparison was
\* made before the record, so both runs were in flight together, or the embedder
\* failed for one of them, or the process died between the send and the record.
SimilarNeedsOverlap ==
  [][\A r \in Runs :
       (/\ pc[r] = "embed" /\ pc'[r] = "send" /\ r \in emb'
        /\ JobMode[job[r]] = "conditional")
         => \A s \in Runs : result[s] = "delivered" /\ s \in emb => text[s] # text[r]]_vars

\* A due task is tried: the retry loop, one task at a time and waiting for each
\* execution, reaches every task whose back-off elapsed (or the bound on Runs is
\* reached, or the task leaves the queue).
DueRetryTried ==
  \A t \in Runs :
    (\E i \in DOMAIN queue : queue[i].id = t /\ queue[i].due)
      ~> (\/ ~\E i \in DOMAIN queue : queue[i].id = t /\ queue[i].due
          \/ \A r \in Runs : pc[r] # "idle")

\* What the log line and the test "skips a fire when the prior fire is still
\* executing" say: two runs of one job are never under way together, unless the
\* lock of one was reclaimed as stale.
OneRunPerJob ==
  \A r, s \in Runs : (/\ r # s /\ job[r] = job[s]
                      /\ pc[r] \in Active /\ pc[s] \in Active)
                        => {r, s} \intersect old # {}
=============================================================================
