------------------------------- MODULE Shutdown -------------------------------
(***************************************************************************)
(* Stopping the daemon: shutdown() of main.ts, BaseGateway.stop() with     *)
(* the gateway's onBeforeStop and onStop, the workers' stop() under        *)
(* MessageRouter.stopAll(), and the team's teardown that closes the shared *)
(* store, while turns, fires, background runs, webhooks and chat sockets   *)
(* go on around it.                                                        *)
(***************************************************************************)
EXTENDS Naturals, Sequences, FiniteSets

CONSTANTS
    Chans,        \* channels that are connected when the signal comes
    Turns,        \* turns; each belongs to a thread of its own
    TurnOn,       \* the channel a turn answers on
    MaxSignals    \* bound: signals received

ASSUME ShutdownAssumption == TurnOn \in [Turns -> Chans]

(* The awaits of shutdown(), in their order.                               *)
StopOrder == <<"notice", "channels", "engine", "workers", "webhooks", "management", "flush", "store", "exit">>

VARIABLES
    stage,    \* 0 before the signal, else the step of StopOrder that runs
    signals,
    ran,      \* how often each step was begun
    hook,     \* the gateway.shutdown hook: "idle", "running", "sent", "late" or "failed"
    online,   \* channels still connected
    draining, \* router.stopAll: turns it waits for, and whether it aborted them
    turn,     \* each turn: "none", "running", "aborted", "done"; stray: begun after stopAll
    reply,    \* each turn's reply: "none", "shipped" or "lost"
    fires,    \* a fire is in flight in the engine
    chatOpen, \* a chat socket is connected
    pidFile
stopVars == <<stage, signals, ran, hook, online, draining, turn, reply, fires, chatOpen, pidFile>>

At(s) == stage # 0 /\ StopOrder[stage] = s
Past(s) == \E i \in 1..stage : i < stage /\ StopOrder[i] = s
Step == stage' = stage + 1 /\ ran' = [ran EXCEPT ![stage + 1] = @ + 1]

StopInit ==
    /\ stage = 0 /\ signals = 0 /\ ran = [i \in DOMAIN StopOrder |-> 0]
    /\ hook = "idle" /\ online = Chans /\ draining = [who |-> {}, phase |-> "no"]
    /\ turn \in [Turns -> {[at |-> "none", stray |-> FALSE], [at |-> "running", stray |-> FALSE]}]
    /\ reply = [t \in Turns |-> "none"] /\ fires \in BOOLEAN /\ chatOpen \in BOOLEAN /\ pidFile = TRUE

(* SIGINT, SIGTERM or a fatal error: the first one runs the shutdown.      *)
EverySignal(n) == TRUE
FirstSignal(n) == n = 0
SignalArrives ==
    /\ signals < MaxSignals /\ signals' = signals + 1 /\ ~At("exit")
    /\ IF FirstSignal(signals)
       THEN /\ stage' = 1 /\ ran' = [ran EXCEPT ![1] = @ + 1] /\ hook' = "running"
       ELSE UNCHANGED <<stage, ran, hook>>
    /\ UNCHANGED <<online, draining, turn, reply, fires, chatOpen, pidFile>>

(* onBeforeStop: the hook tells the last peer, or three seconds pass.      *)
HookSends(c) ==
    /\ hook = "running" /\ hook' = IF c \in online THEN "sent" ELSE "late"
    /\ UNCHANGED <<stage, signals, ran, online, draining, turn, reply, fires, chatOpen, pidFile>>
NoticeUncapped == hook # "running"
NoticeOverWhen == TRUE
NoticeOver ==
    /\ At("notice") /\ NoticeOverWhen /\ Step
    /\ UNCHANGED <<signals, hook, online, draining, turn, reply, fires, chatOpen, pidFile>>

(* stop(): the channels one by one; an error does not end the loop.        *)
ChannelStops(c) ==
    /\ At("channels") /\ c \in online /\ online' = online \ {c}
    /\ UNCHANGED <<stage, signals, ran, hook, draining, turn, reply, fires, chatOpen, pidFile>>
ChannelsStopped ==
    /\ At("channels") /\ online = {} /\ Step
    /\ UNCHANGED <<signals, hook, online, draining, turn, reply, fires, chatOpen, pidFile>>

(* onStop: the engine waits for its fires, ten seconds at most.            *)
EngineStopped ==
    /\ At("engine") /\ Step
    /\ UNCHANGED <<signals, hook, online, draining, turn, reply, fires, chatOpen, pidFile>>
FireEnds ==
    /\ fires /\ fires' = FALSE
    /\ UNCHANGED <<stage, signals, ran, hook, online, draining, turn, reply, chatOpen, pidFile>>

(* stopAll(): the workers of this moment drain, are aborted, and get a     *)
(* little longer; then their threads are forgotten whatever they do.       *)
Running == {t \in Turns : turn[t].at \in {"running", "aborted"}}
StopAll ==
    /\ At("workers") /\ draining.phase = "no"
    /\ draining' = [who |-> {t \in Turns : turn[t].at = "running"}, phase |-> "draining"]
    /\ UNCHANGED <<stage, signals, ran, hook, online, turn, reply, fires, chatOpen, pidFile>>
AbortsNone(who) == turn
Aborts(who) == [t \in Turns |-> IF t \in who /\ turn[t].at = "running" THEN [turn[t] EXCEPT !.at = "aborted"] ELSE turn[t]]
DrainOver ==
    /\ draining.phase = "draining" /\ draining' = [draining EXCEPT !.phase = "aborting"]
    /\ turn' = Aborts(draining.who)
    /\ UNCHANGED <<stage, signals, ran, hook, online, reply, fires, chatOpen, pidFile>>
WorkersStopped ==
    /\ draining.phase = "aborting" /\ draining' = [who |-> {}, phase |-> "over"] /\ Step
    /\ UNCHANGED <<signals, hook, online, turn, reply, fires, chatOpen, pidFile>>

(* A message: over a channel that is connected, or over the webhook server *)
(* (which also serves channels already disconnected) until it stops.  The  *)
(* router starts a worker for it as long as there is a router.             *)
MessageArrives(t) ==
    /\ turn[t].at = "none" /\ ~Past("workers")
    /\ turn' = [turn EXCEPT ![t] = [at |-> "running", stray |-> draining.phase # "no"]]
    /\ UNCHANGED <<stage, signals, ran, hook, online, draining, reply, fires, chatOpen, pidFile>>

(* The end of a turn sends its reply, on a channel that may be gone.       *)
TurnEndsNow(t) ==
    /\ turn[t].at \in {"running", "aborted"} /\ ~Past("store")
    /\ turn' = [turn EXCEPT ![t].at = "done"]
    /\ reply' = [reply EXCEPT ![t] = IF turn[t].at = "running" /\ TurnOn[t] \in online THEN "shipped" ELSE "lost"]
    /\ UNCHANGED <<stage, signals, ran, hook, online, draining, fires, chatOpen, pidFile>>

WebhooksStopped ==
    /\ At("webhooks") /\ Step
    /\ UNCHANGED <<signals, hook, online, draining, turn, reply, fires, chatOpen, pidFile>>

(* ManagementServer.stop(): server.close() waits for every connection, the *)
(* chat sockets included, and nobody closes those.                         *)
ChatCloses ==
    /\ chatOpen /\ chatOpen' = FALSE
    /\ UNCHANGED <<stage, signals, ran, hook, online, draining, turn, reply, fires, pidFile>>
ManagementStopped ==
    /\ At("management") /\ ~chatOpen /\ Step
    /\ UNCHANGED <<signals, hook, online, draining, turn, reply, fires, chatOpen, pidFile>>

(* teardown(): flush the threads, close checkpoints and MCP, close the     *)
(* store; then the pid file goes and the process ends.                     *)
ThreadsFlushed ==
    /\ At("flush") /\ Step
    /\ UNCHANGED <<signals, hook, online, draining, turn, reply, fires, chatOpen, pidFile>>
StoreCloses ==
    /\ At("store") /\ Step /\ pidFile' = FALSE
    /\ UNCHANGED <<signals, hook, online, draining, turn, reply, fires, chatOpen>>

StopNext ==
    \/ SignalArrives \/ NoticeOver \/ ChannelsStopped \/ EngineStopped \/ FireEnds \/ StopAll \/ DrainOver \/ WorkersStopped
    \/ WebhooksStopped \/ ChatCloses \/ ManagementStopped \/ ThreadsFlushed \/ StoreCloses
    \/ \E c \in Chans : HookSends(c) \/ ChannelStops(c)
    \/ \E t \in Turns : MessageArrives(t) \/ TurnEndsNow(t)
(* Every await of the shutdown is bounded by a timer or by a call that     *)
(* returns; turns, the hook and chat users owe it nothing.                 *)
StopFairness ==
    /\ WF_stopVars(NoticeOver) /\ WF_stopVars(ChannelsStopped) /\ WF_stopVars(EngineStopped) /\ WF_stopVars(StopAll)
    /\ WF_stopVars(DrainOver) /\ WF_stopVars(WorkersStopped) /\ WF_stopVars(WebhooksStopped) /\ WF_stopVars(ManagementStopped)
    /\ WF_stopVars(ThreadsFlushed) /\ WF_stopVars(StoreCloses) /\ \A c \in Chans : WF_stopVars(ChannelStops(c))
-----------------------------------------------------------------------------
(* However many signals come, each step of the shutdown runs once          *)
(* (main.ts shuttingDown, 99-102).                                         *)
StepsOnce == \A i \in DOMAIN ran : ran[i] <= 1

(* When the threads are flushed, every turn the router knew of when it     *)
(* stopped has ended or been aborted (MessageRouter.stopAll 149-159,       *)
(* ChannelWorker.stop 445-476); a turn that a webhook began meanwhile is   *)
(* the only one still running.                                             *)
OnlyStraysRun == Past("workers") => \A t \in Turns : turn[t].at = "running" => turn[t].stray

(* A shutdown ends, whatever the hook, the turns and the fires do, unless  *)
(* a chat socket stays connected (ManagementServer.stop 126-130).          *)
ShutdownEnds == (stage # 0) ~> (At("exit") \/ chatOpen)

(* "Wait DRAIN_TIMEOUT_MS for an in-flight turn to ship its reply before   *)
(* aborting" (channel-worker.ts:449): a turn that stop() waits for and     *)
(* that ends within the wait has shipped its reply.                        *)
DrainShipsReply == draining.phase = "draining" => \A t \in draining.who : turn[t].at = "done" => reply[t] = "shipped"
=============================================================================
