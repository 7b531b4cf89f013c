---------------------------- MODULE ChannelWorker ----------------------------
(***************************************************************************)
(* One ChannelWorker of the gateway: the per-conversation loop that takes  *)
(* user messages from its MessageQueue and background events from its      *)
(* EventQueue and runs at most one agent turn at a time                    *)
(* (src/src/gateway/src/core/channel-worker.ts, message-queue.ts,          *)
(* event-queue.ts, global-message-queue.ts).                               *)
(*                                                                         *)
(* The program is a single Node.js thread.  The loop runs from one await   *)
(* to the next without interruption, and everything else (an inbound       *)
(* message, a timer, a finished task, stop()) happens while it is parked   *)
(* at an await.  "top" is the head of the while loop: a point the loop     *)
(* leaves again before any other callback runs, so every action of the     *)
(* environment is guarded by Parked.                                       *)
(***************************************************************************)
EXTENDS Naturals, Sequences, FiniteSets, Functions

CONSTANTS
  Messages,             \* inbound user messages, each dispatched once
  Tasks,                \* background tasks a turn may spawn
  Hooks,                \* external webhook deliveries (injectEvent)
  MAX_PENDING,          \* cap of the mid-turn buffer
  MAX_QUEUED_MESSAGES,  \* cap of MessageQueue.buffer
  MAX_QUEUED_EVENTS,    \* cap of EventQueue.queue
  MaxProgress,          \* bound on the progress reports of one task
  SupportsReactions,    \* channel capability 'reactions'
  SupportsTyping,       \* channel capability 'typing'
  HasDecisionModel,     \* structuredOutputModel is configured
  ForwardsTaskEvents    \* the channel implements forwardTaskEvent, which may throw

ASSUME CapAssumption ==
  /\ MAX_PENDING \in Nat \ {0}
  /\ MAX_QUEUED_MESSAGES \in Nat \ {0}
  /\ MAX_QUEUED_EVENTS \in Nat \ {0}
  /\ MaxProgress \in Nat

ASSUME CapabilityAssumption ==
  /\ SupportsReactions \in BOOLEAN
  /\ SupportsTyping \in BOOLEAN
  /\ HasDecisionModel \in BOOLEAN
  /\ ForwardsTaskEvents \in BOOLEAN

VARIABLES
  running,        \* the worker's `running` flag
  loop,           \* where loop() is parked
  turnActive,     \* the flag dispatch() tests
  currentAbort,   \* AbortController of the turn: "none", "live" or "aborted"
  turnTimer,      \* the timer of rejectAfterTimeout is armed
  contact,        \* currentPeer / lastMessageId: "none", "peer" or "message"
  pending,        \* messages that arrived during the turn
  buffer,         \* MessageQueue.buffer
  waiter,         \* MessageQueue.waiter: "none", "live" (raced by the loop) or "stale"
  coalesceTimer,  \* MessageQueue.coalesceTimer is armed
  events,         \* EventQueue.queue
  pendingIds,     \* pendingGlobalIds
  queuedIds,      \* queuedGlobalIds
  globalQueue,    \* ids of this thread in the global message queue
  commands,       \* slash commands being dispatched
  taskMarks,      \* keys of taskMessageIds
  typing,         \* the typing loop's interval is set
  stopping,       \* progress of stop()
  evicted,        \* the router has dropped this worker from its map
  recentlyActive, \* lastActiveAt lies within IDLE_TTL_MS (it starts at 0)
  tasks,          \* state of each background task
  progress,       \* progress reports made so far by each task
  hooks,          \* webhook deliveries already injected
  accepted,       \* history: messages the worker took charge of
  given,          \* history: messages handed to the agent, in order
  discarded,      \* history: messages rejected by a full queue or cleared by stop()
  woken           \* history: tasks and hooks whose result started a turn

loopVars  == <<running, loop, turnActive, currentAbort, turnTimer, contact>>
queueVars == <<pending, buffer, waiter, coalesceTimer, events>>
idVars    == <<pendingIds, queuedIds, globalQueue>>
taskVars  == <<taskMarks, typing, tasks, progress, hooks, woken>>
endVars   == <<stopping, evicted>>
histVars  == <<accepted, given, discarded>>
vars == <<loopVars, queueVars, idVars, commands, taskVars, endVars,
          recentlyActive, histVars>>

-----------------------------------------------------------------------------
LoopStates == {"top", "waiting", "turn", "refresh", "decide", "backoff", "exited"}
EventTypes == {"start", "progress", "error", "always", "silent", "conditional"}
Event == [task : Tasks \cup Hooks, type : EventTypes]

(* A global-queue id: enqueueGlobal draws a fresh id on every call, and a  *)
(* message draws at most one from each of the two lists.                   *)
GlobalId == Messages \X {"pending", "queued"}
IdsOf(s, list) == [i \in DOMAIN s |-> <<s[i], list>>]

Parked == loop # "top"
IsIdle == /\ ~turnActive
          /\ pending = << >>
          /\ buffer = << >>
          /\ taskMarks = {}

Init ==
  /\ running = TRUE /\ loop = "top"
  /\ turnActive = FALSE /\ currentAbort = "none" /\ turnTimer = FALSE
  /\ contact \in {"none", "peer"}
  /\ pending = << >> /\ buffer = << >> /\ events = << >>
  /\ waiter = "none" /\ coalesceTimer = FALSE
  /\ pendingIds = << >> /\ queuedIds = << >> /\ globalQueue = {}
  /\ commands = {}
  /\ taskMarks = {} /\ typing = FALSE
  /\ stopping = "no" /\ evicted = FALSE /\ recentlyActive = FALSE
  /\ tasks = [t \in Tasks |-> "new"] /\ progress = [t \in Tasks |-> 0] /\ hooks = {}
  /\ accepted = {} /\ given = << >> /\ discarded = {} /\ woken = {}

-----------------------------------------------------------------------------
(* Inbound messages.                                                       *)

(* Mutant of Enqueue: the accepted message is not mirrored.                *)
EnqueueUnmirrored(m) ==
  IF Len(buffer) >= MAX_QUEUED_MESSAGES
  THEN /\ discarded' = discarded \cup {m}
       /\ UNCHANGED <<buffer, coalesceTimer, queuedIds, globalQueue, accepted>>
  ELSE /\ buffer' = Append(buffer, m)
       /\ coalesceTimer' = (coalesceTimer \/ waiter # "none")
       /\ accepted' = accepted \cup {m}
       /\ UNCHANGED <<queuedIds, globalQueue, discarded>>

(* MessageQueue.enqueue: an accepted message (re)arms the coalesce timer   *)
(* when somebody waits on the queue; the caller mirrors it in the global   *)
(* queue only if it was accepted.                                          *)
Enqueue(m) ==
  IF Len(buffer) >= MAX_QUEUED_MESSAGES
  THEN /\ discarded' = discarded \cup {m}
       /\ UNCHANGED <<buffer, coalesceTimer, queuedIds, globalQueue, accepted>>
  ELSE /\ buffer' = Append(buffer, m)
       /\ coalesceTimer' = (coalesceTimer \/ waiter # "none")
       /\ queuedIds' = Append(queuedIds, <<m, "queued">>)
       /\ globalQueue' = globalQueue \cup {<<m, "queued">>}
       /\ accepted' = accepted \cup {m}
       /\ UNCHANGED discarded

(* Mutant of Park: the cap is tested after the push.                       *)
ParkOffByOne(m) ==
  IF Len(pending) > MAX_PENDING
  THEN /\ discarded' = discarded \cup {m}
       /\ UNCHANGED <<pending, pendingIds, globalQueue, accepted>>
  ELSE /\ pending' = Append(pending, m)
       /\ pendingIds' = Append(pendingIds, <<m, "pending">>)
       /\ globalQueue' = globalQueue \cup {<<m, "pending">>}
       /\ accepted' = accepted \cup {m}
       /\ UNCHANGED discarded

(* The mid-turn branch of dispatch(): park the message in `pending`.       *)
Park(m) ==
  IF Len(pending) >= MAX_PENDING
  THEN /\ discarded' = discarded \cup {m}
       /\ UNCHANGED <<pending, pendingIds, globalQueue, accepted>>
  ELSE /\ pending' = Append(pending, m)
       /\ pendingIds' = Append(pendingIds, <<m, "pending">>)
       /\ globalQueue' = globalQueue \cup {<<m, "pending">>}
       /\ accepted' = accepted \cup {m}
       /\ UNCHANGED discarded

Accept(m) ==
  /\ contact' = "message"
  /\ \/ /\ turnActive
        /\ Park(m)
        /\ UNCHANGED <<buffer, coalesceTimer, queuedIds>>
     \/ /\ ~turnActive
        /\ Enqueue(m)
        /\ UNCHANGED <<pending, pendingIds>>
  /\ UNCHANGED <<running, loop, turnActive, currentAbort, turnTimer, waiter,
                 events, taskVars, endVars, given>>

Unseen(m) == m \notin accepted \cup discarded \cup commands

Dispatch(m) ==
  /\ Parked /\ ~evicted /\ Unseen(m)
  /\ recentlyActive' = TRUE
  /\ Accept(m)
  /\ UNCHANGED commands

(* A stop word aborts the running turn; its abort listener disarms the     *)
(* turn's timeout.                                                         *)
DispatchAbort ==
  /\ Parked /\ ~evicted
  /\ currentAbort # "none"
  /\ recentlyActive' = TRUE
  /\ currentAbort' = "aborted" /\ turnTimer' = FALSE
  /\ UNCHANGED <<running, loop, turnActive, contact, queueVars, idVars,
                 commands, taskVars, endVars, histVars>>

(* A slash command is awaited outside the loop; when it is unknown, or     *)
(* asks for forwardToAgent, its text is accepted at that later moment.     *)
DispatchCommand(m) ==
  /\ Parked /\ ~evicted /\ Unseen(m)
  /\ recentlyActive' = TRUE
  /\ commands' = commands \cup {m}
  /\ UNCHANGED <<loopVars, queueVars, idVars, taskVars, endVars, histVars>>

CommandForwards(m) ==
  /\ Parked /\ m \in commands
  /\ commands' = commands \ {m}
  /\ Accept(m)
  /\ UNCHANGED recentlyActive

CommandReplies(m) ==
  /\ Parked /\ m \in commands
  /\ commands' = commands \ {m}
  /\ discarded' = discarded \cup {m}
  /\ UNCHANGED <<loopVars, queueVars, idVars, taskVars, endVars, recentlyActive, accepted, given>>

-----------------------------------------------------------------------------
(* Background events.                                                      *)

(* Mutants of Push: the waiting loop is not notified; only a waiting loop  *)
(* gets the event.                                                         *)
PushWithoutNotify(e) ==
  /\ events' = Append(IF Len(events) >= MAX_QUEUED_EVENTS THEN Tail(events) ELSE events, e)
  /\ UNCHANGED <<loop, waiter>>

PushToWaiterOnly(e) ==
  IF loop = "waiting"
  THEN loop' = "top" /\ waiter' = "stale" /\ events' = <<e>>
  ELSE UNCHANGED <<events, loop, waiter>>

(* EventQueue.push drops the oldest event when full and wakes the loop if  *)
(* it waits.  The MessageQueue waiter the loop was racing is left behind.  *)
Push(e) ==
  /\ events' = Append(IF Len(events) >= MAX_QUEUED_EVENTS THEN Tail(events) ELSE events, e)
  /\ IF loop = "waiting"
     THEN loop' = "top" /\ waiter' = "stale"
     ELSE UNCHANGED <<loop, waiter>>

InjectEvent(h, type) ==
  /\ Parked /\ ~evicted
  /\ h \notin hooks
  /\ hooks' = hooks \cup {h}
  /\ Push([task |-> h, type |-> type])
  /\ UNCHANGED <<running, turnActive, currentAbort, turnTimer, contact, pending,
                 buffer, coalesceTimer, idVars, commands, taskMarks, typing,
                 tasks, progress, woken, endVars, recentlyActive, histVars>>

(* A turn spawns a detached task, which outlives the turn and reports to   *)
(* the event queue captured when it was spawned.                           *)
SpawnTask(t) ==
  /\ loop = "turn" /\ currentAbort = "live"
  /\ tasks[t] = "new"
  /\ tasks' = [tasks EXCEPT ![t] = "running"]
  /\ Push([task |-> t, type |-> "start"])
  /\ UNCHANGED <<running, turnActive, currentAbort, turnTimer, contact, pending,
                 buffer, coalesceTimer, idVars, commands, taskMarks, typing,
                 progress, hooks, woken, endVars, recentlyActive, histVars>>

TaskReports(t, type) ==
  /\ Parked
  /\ tasks[t] = "running"
  /\ \/ /\ type = "progress" /\ progress[t] < MaxProgress
        /\ progress' = [progress EXCEPT ![t] = @ + 1]
        /\ UNCHANGED tasks
     \/ /\ type # "progress"
        /\ tasks' = [tasks EXCEPT ![t] = "done"]
        /\ UNCHANGED progress
  /\ Push([task |-> t, type |-> type])
  /\ UNCHANGED <<running, turnActive, currentAbort, turnTimer, contact, pending,
                 buffer, coalesceTimer, idVars, commands, taskMarks, typing,
                 hooks, woken, endVars, recentlyActive, histVars>>

-----------------------------------------------------------------------------
(* The loop.                                                               *)

StartTurn ==
  /\ loop' = "turn"
  /\ turnActive' = TRUE /\ currentAbort' = "live" /\ turnTimer' = TRUE

(* The loop takes a batch from the queue: its ids leave the front of       *)
(* queuedGlobalIds and one turn runs over the coalesced text.              *)
TakeBatch ==
  LET consumed == SubSeq(queuedIds, 1, Len(buffer))
  IN /\ buffer' = << >>
     /\ queuedIds' = SubSeq(queuedIds, Len(buffer) + 1, Len(queuedIds))
     /\ globalQueue' = globalQueue \ Range(consumed)
     /\ given' = given \o buffer
     /\ StartTurn

LoopExits ==
  /\ loop = "top" /\ ~running
  /\ loop' = "exited"
  /\ UNCHANGED <<running, turnActive, currentAbort, turnTimer, contact, queueVars,
                 idVars, commands, taskVars, endVars, recentlyActive, histVars>>

(* dequeue() with a non-empty buffer resolves at once and touches neither  *)
(* the waiter nor the timer an earlier round left behind.                  *)
LoopTakesBatch ==
  /\ loop = "top" /\ running
  /\ events = << >> /\ buffer # << >>
  /\ TakeBatch
  /\ UNCHANGED <<running, contact, pending, waiter, coalesceTimer, events, pendingIds,
                 commands, taskVars, endVars, recentlyActive, accepted, discarded>>

(* dequeue() with an empty buffer installs a new waiter, and the loop      *)
(* parks on the race of that waiter, the next event and stop().            *)
LoopWaits ==
  /\ loop = "top" /\ running
  /\ events = << >> /\ buffer = << >>
  /\ loop' = "waiting" /\ waiter' = "live"
  /\ UNCHANGED <<running, turnActive, currentAbort, turnTimer, contact, pending,
                 buffer, coalesceTimer, events, idVars, commands, taskVars,
                 endVars, recentlyActive, histVars>>

(* waitForEvent(5_000) times out: the race ends, the waiter is orphaned.   *)
WaitTimesOut ==
  /\ loop = "waiting"
  /\ loop' = "top" /\ waiter' = "stale"
  /\ UNCHANGED <<running, turnActive, currentAbort, turnTimer, contact, pending,
                 buffer, coalesceTimer, events, idVars, commands, taskVars,
                 endVars, recentlyActive, histVars>>

(* The coalesce timer flushes the buffer into whichever waiter is set.  If *)
(* that waiter lost its race the batch goes nowhere.                       *)
CoalesceFires ==
  /\ Parked /\ coalesceTimer
  /\ coalesceTimer' = FALSE
  /\ \/ /\ waiter = "live" /\ buffer # << >>
        /\ TakeBatch
     \/ /\ waiter = "live" /\ buffer = << >>
        /\ loop' = "top"
        /\ UNCHANGED <<buffer, queuedIds, globalQueue, given, turnActive,
                       currentAbort, turnTimer>>
     \/ /\ waiter # "live"
        /\ buffer' = IF waiter = "stale" THEN << >> ELSE buffer
        /\ UNCHANGED <<loop, queuedIds, globalQueue, given, turnActive,
                       currentAbort, turnTimer>>
  /\ waiter' = "none"
  /\ UNCHANGED <<running, contact, pending, events, pendingIds, commands,
                 taskVars, endVars, recentlyActive, accepted, discarded>>

(* beginTaskPresence / endTaskPresence.                                    *)
BeginPresence(t) ==
  /\ taskMarks' = IF SupportsReactions /\ contact = "message"
                  THEN taskMarks \cup {t} ELSE taskMarks
  /\ typing' = (typing \/ SupportsTyping)

(* Mutant of EndPresence: the typing loop is never stopped.                *)
EndPresenceKeepsTyping(t) == taskMarks' = taskMarks \ {t} /\ UNCHANGED typing

EndPresence(t) ==
  /\ taskMarks' = taskMarks \ {t}
  /\ typing' = (typing /\ taskMarks' # {})

(* forwardTaskEvent returns and handleEvent goes on, or it throws into the *)
(* loop's catch, which backs off: whatever was still to be done is lost.   *)
NoTurn == UNCHANGED <<turnActive, currentAbort, turnTimer, woken>>
ForwardThrows == ForwardsTaskEvents /\ loop' = "backoff" /\ NoTurn

(* handleEvent: without a peer the event is dropped; a start only marks    *)
(* presence; progress awaits a typing refresh; a result or an error wakes  *)
(* the agent, is only recorded ("silent"), or is put to a decision model   *)
(* outside any turn ("conditional").                                       *)
HandleEvent(e) ==
  \/ /\ contact = "none"
     /\ loop' = "top" /\ NoTurn
     /\ UNCHANGED <<taskMarks, typing>>
  \/ /\ contact # "none" /\ e.type = "start"
     /\ BeginPresence(e.task)
     /\ (loop' = "top" /\ NoTurn) \/ ForwardThrows
  \/ /\ contact # "none" /\ e.type = "progress"
     /\ \/ loop' = (IF SupportsTyping THEN "refresh" ELSE "top") /\ NoTurn
        \/ ~SupportsTyping /\ ForwardThrows
     /\ UNCHANGED <<taskMarks, typing>>
  \/ /\ contact # "none" /\ e.type = "silent"
     /\ EndPresence(e.task)
     /\ (loop' = "top" /\ NoTurn) \/ ForwardThrows
  \/ /\ contact # "none" /\ e.type = "conditional"
     /\ EndPresence(e.task)
     /\ \/ loop' = (IF HasDecisionModel THEN "decide" ELSE "top") /\ NoTurn
        \/ ForwardThrows
  \/ /\ contact # "none" /\ e.type \in {"error", "always"}
     /\ EndPresence(e.task)
     /\ \/ StartTurn /\ woken' = woken \cup {e.task}
        \/ ForwardThrows

LoopTakesEvent ==
  /\ loop = "top" /\ running
  /\ events # << >>
  /\ events' = Tail(events)
  /\ HandleEvent(Head(events))
  /\ UNCHANGED <<running, contact, pending, buffer, waiter, coalesceTimer, idVars,
                 commands, tasks, progress, hooks, endVars, recentlyActive, histVars>>

(* Mutant of RefreshEnds: handling the event returns from the loop.        *)
RefreshLeavesLoop ==
  /\ loop = "refresh"
  /\ loop' = "exited"
  /\ UNCHANGED <<running, turnActive, currentAbort, turnTimer, contact, queueVars,
                 idVars, commands, taskVars, endVars, recentlyActive, histVars>>

(* The awaited typing refresh ends; forwardTaskEvent follows it.           *)
RefreshEnds ==
  /\ loop = "refresh"
  /\ \/ loop' = "top"
     \/ ForwardsTaskEvents /\ loop' = (IF running THEN "backoff" ELSE "exited")
  /\ UNCHANGED <<running, turnActive, currentAbort, turnTimer, contact, queueVars,
                 idVars, commands, taskVars, endVars, recentlyActive, histVars>>

(* The webhook decision call, and the reply it may send, end.              *)
DecisionEnds ==
  /\ loop = "decide"
  /\ loop' = "top"
  /\ UNCHANGED <<running, turnActive, currentAbort, turnTimer, contact, queueVars,
                 idVars, commands, taskVars, endVars, recentlyActive, histVars>>

BackoffEnds ==
  /\ loop = "backoff"
  /\ loop' = "top"
  /\ UNCHANGED <<running, turnActive, currentAbort, turnTimer, contact, queueVars,
                 idVars, commands, taskVars, endVars, recentlyActive, histVars>>

-----------------------------------------------------------------------------
(* The turn.                                                               *)

(* Mutant of DrainPending: the pending list is copied, not spliced.        *)
DrainPendingCopies ==
  /\ loop = "turn" /\ currentAbort = "live"
  /\ pending # << >> /\ Len(given) < Cardinality(Messages)
  /\ given' = given \o pending
  /\ UNCHANGED <<loopVars, queueVars, idVars,
                 commands, taskVars, endVars, recentlyActive, accepted, discarded>>

(* The agent runtime takes over what arrived mid-turn (drainPending).      *)
DrainPending ==
  /\ loop = "turn" /\ currentAbort = "live"
  /\ pending # << >>
  /\ globalQueue' = globalQueue \ Range(pendingIds)
  /\ pendingIds' = << >>
  /\ given' = given \o pending
  /\ pending' = << >>
  /\ UNCHANGED <<loopVars, buffer, waiter, coalesceTimer, events, queuedIds,
                 commands, taskVars, endVars, recentlyActive, accepted, discarded>>

TurnTimesOut ==
  /\ loop = "turn" /\ turnTimer
  /\ turnTimer' = FALSE /\ currentAbort' = "aborted"
  /\ UNCHANGED <<running, loop, turnActive, contact, queueVars, idVars, commands,
                 taskVars, endVars, recentlyActive, histVars>>

(* Mutants of EndTurn: what arrived mid-turn is dropped, or left behind.   *)
EndTurnDropsPending ==
  /\ loop = "turn" /\ loop' = "top"
  /\ turnActive' = FALSE /\ currentAbort' = "none" /\ turnTimer' = FALSE
  /\ pending' = << >>
  /\ UNCHANGED <<running, contact, buffer, coalesceTimer, waiter, events, idVars, commands,
                 taskVars, endVars, recentlyActive, histVars>>

EndTurnKeepsPending ==
  /\ loop = "turn" /\ loop' = "top"
  /\ turnActive' = FALSE /\ currentAbort' = "none" /\ turnTimer' = FALSE
  /\ UNCHANGED <<running, contact, queueVars, idVars, commands,
                 taskVars, endVars, recentlyActive, histVars>>

(* The finally block: clear the turn's state, then move what is still      *)
(* pending to the message queue, as far as it fits.                        *)
EndTurn ==
  LET room  == MAX_QUEUED_MESSAGES - Len(buffer)
      moved == IF Len(pending) <= room THEN pending ELSE SubSeq(pending, 1, room)
  IN /\ loop = "turn"
     /\ loop' = "top"
     /\ turnActive' = FALSE /\ currentAbort' = "none" /\ turnTimer' = FALSE
     /\ pending' = << >>
     /\ buffer' = buffer \o moved
     /\ coalesceTimer' = (coalesceTimer \/ (moved # << >> /\ waiter # "none"))
     /\ queuedIds' = queuedIds \o IdsOf(moved, "queued")
     /\ globalQueue' = globalQueue \cup Range(IdsOf(moved, "queued"))
     /\ discarded' = discarded \cup (Range(pending) \ Range(moved))
     /\ UNCHANGED <<running, contact, waiter, events, pendingIds, commands,
                    taskVars, endVars, recentlyActive, accepted, given>>

-----------------------------------------------------------------------------
(* stop().                                                                 *)

(* Mutant of ClearAll: the turn that outlived the drain is not aborted.    *)
ClearAllUnaborted ==
  /\ stopping' = "cleared"
  /\ UNCHANGED currentAbort
  /\ turnTimer' = FALSE
  /\ loop' = IF loop = "waiting" THEN "top" ELSE loop
  /\ discarded' = discarded \cup Range(pending) \cup Range(buffer)
  /\ pending' = << >> /\ buffer' = << >> /\ events' = << >>
  /\ waiter' = "none" /\ coalesceTimer' = FALSE
  /\ globalQueue' = globalQueue \ (Range(pendingIds) \cup Range(queuedIds))
  /\ pendingIds' = << >> /\ queuedIds' = << >>
  /\ taskMarks' = {} /\ typing' = FALSE
  /\ UNCHANGED <<turnActive, contact, commands, tasks, progress, hooks, woken, accepted, given>>

(* What stop() does once it no longer waits for the turn: abort, clear     *)
(* both queues (which settles a waiting race), forget ids and presence.    *)
ClearAll ==
  /\ stopping' = "cleared"
  /\ currentAbort' = IF currentAbort = "none" THEN "none" ELSE "aborted"
  /\ turnTimer' = FALSE
  /\ loop' = IF loop = "waiting" THEN "top" ELSE loop
  /\ discarded' = discarded \cup Range(pending) \cup Range(buffer)
  /\ pending' = << >> /\ buffer' = << >> /\ events' = << >>
  /\ waiter' = "none" /\ coalesceTimer' = FALSE
  /\ globalQueue' = globalQueue \ (Range(pendingIds) \cup Range(queuedIds))
  /\ pendingIds' = << >> /\ queuedIds' = << >>
  /\ taskMarks' = {} /\ typing' = FALSE
  /\ UNCHANGED <<turnActive, contact, commands, tasks, progress, hooks, woken, accepted, given>>

(* Mutant of StopBegins: the running flag is not cleared.                  *)
StopKeepsRunning ==
  /\ stopping = "no"
  /\ UNCHANGED running
  /\ \/ /\ turnActive
        /\ stopping' = "draining"
        /\ UNCHANGED <<loop, turnActive, currentAbort, turnTimer, contact, queueVars,
                       idVars, commands, taskVars, histVars>>
     \/ ~turnActive /\ ClearAll

StopBegins ==
  /\ stopping = "no"
  /\ running' = FALSE
  /\ \/ /\ turnActive
        /\ stopping' = "draining"
        /\ UNCHANGED <<loop, turnActive, currentAbort, turnTimer, contact, queueVars,
                       idVars, commands, taskVars, histVars>>
     \/ ~turnActive /\ ClearAll

(* stopAll(): the worker stays in the router's map while it stops.         *)
Stop == Parked /\ StopBegins /\ UNCHANGED <<evicted, recentlyActive>>

(* sweepIdleWorkers(): an idle worker is stopped and dropped from the map. *)
Sweep ==
  /\ Parked /\ ~evicted
  /\ ~recentlyActive /\ IsIdle
  /\ StopBegins
  /\ evicted' = TRUE
  /\ UNCHANGED recentlyActive

IdleTtlElapses ==
  /\ Parked /\ recentlyActive
  /\ recentlyActive' = FALSE
  /\ UNCHANGED <<loopVars, queueVars, idVars, commands, taskVars, endVars, histVars>>

(* The drain ends with the loop or after DRAIN_TIMEOUT_MS.                 *)
StopClears ==
  /\ Parked /\ stopping = "draining"
  /\ ClearAll
  /\ UNCHANGED <<running, evicted, recentlyActive>>

(* stop() resolves with the loop or after STOP_TIMEOUT_MS.                 *)
StopReturns ==
  /\ Parked /\ stopping = "cleared"
  /\ stopping' = "stopped"
  /\ UNCHANGED <<loopVars, queueVars, idVars, commands, taskVars, evicted,
                 recentlyActive, histVars>>

-----------------------------------------------------------------------------
Loop ==
  \/ LoopExits \/ LoopTakesBatch \/ LoopWaits \/ LoopTakesEvent

Inbound ==
  \/ \E m \in Messages : \/ Dispatch(m)
                         \/ DispatchCommand(m)
                         \/ CommandForwards(m)
                         \/ CommandReplies(m)
  \/ DispatchAbort

Background ==
  \/ \E h \in Hooks, type \in {"always", "silent", "conditional"} : InjectEvent(h, type)
  \/ \E t \in Tasks : SpawnTask(t)
  \/ \E t \in Tasks, type \in {"progress", "error", "always"} : TaskReports(t, type)

Timers ==
  \/ WaitTimesOut \/ CoalesceFires \/ RefreshEnds \/ DecisionEnds \/ BackoffEnds

Turn ==
  \/ DrainPending \/ TurnTimesOut \/ EndTurn

Stopping ==
  \/ Stop \/ IdleTtlElapses \/ Sweep \/ StopClears \/ StopReturns

Next == Loop \/ Inbound \/ Background \/ Timers \/ Turn \/ Stopping

(* The event loop of Node.js runs every ready continuation and every due   *)
(* timer; a turn ends because rejectAfterTimeout settles its race.  Users, *)
(* webhooks and background tasks promise nothing.                          *)
Fairness ==
  /\ WF_vars(Loop)
  /\ WF_vars(WaitTimesOut) /\ WF_vars(CoalesceFires)
  /\ WF_vars(RefreshEnds) /\ WF_vars(DecisionEnds) /\ WF_vars(BackoffEnds)
  /\ WF_vars(EndTurn)
  /\ WF_vars(StopClears) /\ WF_vars(StopReturns)

Spec == Init /\ [][Next]_vars
FairSpec == Spec /\ Fairness
-----------------------------------------------------------------------------
(* Properties.                                                             *)

LoopTypeOK ==
  /\ running \in BOOLEAN /\ loop \in LoopStates
  /\ turnActive \in BOOLEAN /\ turnTimer \in BOOLEAN
  /\ currentAbort \in {"none", "live", "aborted"}
  /\ contact \in {"none", "peer", "message"}

QueueTypeOK ==
  /\ pending \in Seq(Messages) /\ Len(pending) <= MAX_PENDING
  /\ buffer \in Seq(Messages) /\ Len(buffer) <= MAX_QUEUED_MESSAGES
  /\ events \in Seq(Event) /\ Len(events) <= MAX_QUEUED_EVENTS
  /\ waiter \in {"none", "live", "stale"} /\ coalesceTimer \in BOOLEAN

IdTypeOK ==
  /\ pendingIds \in Seq(GlobalId) /\ queuedIds \in Seq(GlobalId)
  /\ globalQueue \subseteq GlobalId

TaskTypeOK ==
  /\ taskMarks \subseteq Tasks \cup Hooks /\ typing \in BOOLEAN
  /\ tasks \in [Tasks -> {"new", "running", "done"}]
  /\ progress \in [Tasks -> 0..MaxProgress]
  /\ hooks \subseteq Hooks /\ woken \subseteq Tasks \cup Hooks

EndTypeOK ==
  /\ stopping \in {"no", "draining", "cleared", "stopped"}
  /\ evicted \in BOOLEAN /\ recentlyActive \in BOOLEAN

HistTypeOK ==
  /\ commands \subseteq Messages
  /\ accepted \subseteq Messages /\ discarded \subseteq Messages
  /\ given \in Seq(Messages)

(* Every variable has its type, and no queue ever exceeds its cap.         *)
TypeOK ==
  /\ LoopTypeOK /\ QueueTypeOK /\ IdTypeOK
  /\ TaskTypeOK /\ EndTypeOK /\ HistTypeOK

(* The flags dispatch() and isIdle read agree with where the loop really   *)
(* is: turnActive and currentAbort are set exactly while a turn runs, so a *)
(* message is parked only when some turn will end and move it on.          *)
TurnFlags ==
  /\ turnActive <=> loop = "turn"
  /\ currentAbort # "none" <=> turnActive
  /\ turnTimer => currentAbort = "live"

(* A parked loop always has a way back: while it waits, its own waiter is  *)
(* the one installed in the message queue, no event is queued, and if      *)
(* messages are buffered the coalesce timer that will hand them over is    *)
(* armed.  Nothing sits in a queue whose consumer sleeps.                  *)
NoLostWakeup ==
  loop = "waiting" =>
    /\ waiter = "live"
    /\ events = << >>
    /\ buffer # << >> => coalesceTimer

(* Conversely a live waiter belongs to a waiting loop, and the coalesce    *)
(* timer is never armed without a waiter to flush into.                    *)
WaiterOwned ==
  /\ waiter = "live" => loop = "waiting"
  /\ coalesceTimer => waiter # "none"

(* A message is in one place at most: the agent never sees one twice, not  *)
(* even when it moves from `pending` to the queue at the end of a turn.    *)
DeliveredOnce == IsInjective(given \o buffer \o pending)

(* Every message that still waits is visible in the global queue: the ids  *)
(* that the next splice(0, batch.length) and stop() will remove include    *)
(* the ids of what is buffered, in the same order.                         *)
MirrorCovers ==
  /\ Len(buffer) <= Len(queuedIds) /\ Len(pending) <= Len(pendingIds)
  /\ \A i \in DOMAIN buffer :
       queuedIds[Len(queuedIds) - Len(buffer) + i] = <<buffer[i], "queued">>
  /\ \A i \in DOMAIN pending :
       pendingIds[Len(pendingIds) - Len(pending) + i] = <<pending[i], "pending">>
  /\ Range(queuedIds) \cup Range(pendingIds) \subseteq globalQueue

(* A presence mark (and with it the worker's immunity to the sweep) has a  *)
(* cause: its task is running or its final event is still to be handled.   *)
(* Holds as long as an overflow of the event queue does not drop the final *)
(* event, as on instances with one event more recent than it at most.      *)
PresenceHasCause ==
  /\ \A t \in taskMarks :
       \/ t \in Tasks /\ tasks[t] = "running"
       \/ \E i \in DOMAIN events : events[i].task = t /\ events[i].type # "start"
  /\ typing => \E t \in Tasks :
       \/ tasks[t] = "running"
       \/ \E i \in DOMAIN events : events[i].task = t /\ events[i].type # "start"

Vanished == accepted \ (Range(pending) \cup Range(buffer) \cup Range(given) \cup discarded)

(* The only step at which an accepted message can disappear is a coalesce  *)
(* flush into a waiter the loop no longer races: no other path of the loop,*)
(* of a turn's end or of stop() loses one silently.                        *)
LossOnlyThroughOrphanedWaiter ==
  [][Vanished' # Vanished => waiter = "stale" /\ coalesceTimer /\ ~coalesceTimer']_vars

(* MessageQueue.enqueue returned true: the message reaches a turn or is    *)
(* accounted for.                                                          *)
AcceptedNotLost == Vanished = {}

(* A buffered message does not wait for ever while the worker runs.        *)
QueueDrains == (running /\ buffer # << >>) ~> (buffer = << >> \/ ~running)

(* Nor does one that arrived mid-turn.                                     *)
PendingDrains == pending # << >> ~> pending = << >>

(* A finished task wakes the agent, unless the worker is stopped first.    *)
ResultWakesAgent ==
  \A t \in Tasks : (tasks[t] = "done") ~> (t \in woken \/ ~running)

(* Once stop() is called it returns and the loop exits, whatever the loop  *)
(* was doing.                                                              *)
StopEndsLoop == stopping # "no" ~> (stopping = "stopped" /\ loop = "exited")

-----------------------------------------------------------------------------
(* The worker seen as an Inbox: both lists are what waits, a message       *)
(* flushed into an orphaned waiter is gone.                                *)
Mailbox == INSTANCE Inbox WITH
  Letters <- Messages,
  waiting <- Range(pending) \cup Range(buffer),
  handed  <- Range(given),
  gone    <- discarded \cup Vanished,
  turn    <- turnActive,
  life    <- IF stopping = "no" THEN "open"
             ELSE IF stopping = "draining" THEN "closing" ELSE "closed"

(* The worker with its two lists, its coalescing timer, waiters, races and *)
(* timeouts implements the Inbox: no message is handed to the agent twice, *)
(* no turn begins after stop(), and nothing reaches a turn that outlives   *)
(* the drain (channel-worker.ts dispatch, loop, drainPending, stop).       *)
ImplementsInbox == Mailbox!Spec
=============================================================================
