# Flopsy: a TLA+ verification

Flopsy is a personal assistant that runs as one Node.js daemon.  Messages from
chat platforms, webhooks and timers reach an LLM agent, and the agent's replies
go back to the platforms.  This directory holds TLA+ modules translated from the
source, TLC configurations that check them on small instances, and TLAPS proofs.
Paths below are relative to the repository's root; `core/` stands for
`src/gateway/src/core/`, `channels/` for `src/gateway/src/channels/`, `proactive/` for
`src/gateway/src/proactive/`, `team/` for `src/team/src/`, `cli/` for `src/cli/src/`,
`vault/` for `src/vault/src/`, `gateway.ts` for `src/gateway/src/gateway.ts` and
`app/src/main.ts` for `src/app/src/main.ts`.

1. [The system](#1-the-system)
2. [Modules and the code they model](#2-modules-and-the-code-they-model)
3. [Runs](#3-runs)
4. [Bounds](#4-bounds)
5. [Fairness](#5-fairness)
6. [Proofs](#6-proofs)
7. [Divergences between the texts and the code](#7-divergences-between-the-texts-and-the-code)
8. [What is not modelled](#8-what-is-not-modelled)
9. [Plan](#9-plan)

## 1. The system

The daemon is one process with one thread; beside it run the CLI's commands, the
vault's proxy and the MCP servers, each a process of its own.  Concurrency inside a
process is that of an event loop: a function runs without interruption up to an `await`
that really waits (a network call, a timer, an agent call), and anything may happen
before it continues.  Every module uses that grain: **one action is what the code does
between two real waits**.  Processes meet in files and SQLite tables, and a step of one
is a read, a write, a rename or a statement.

| Component | State it keeps | Operations | What is hard about it |
|---|---|---|---|
| Channel worker (`core/channel-worker.ts`, `message-queue.ts`, `event-queue.ts`, `global-message-queue.ts`) | a message queue with one waiter and a coalesce timer, an event queue, the mid-turn buffer `pending`, mirror ids in a global queue, turn flags and the abort controller, presence marks, the typing loop | `dispatch`, `injectEvent`, the loop, `runAgentTurn`, task events, `stop` | the loop races a waiter, an event and a timeout and leaves the loser installed; commands are awaited outside the loop; caps at every queue; `stop` against a running turn |
| Turn delivery (`runAgentTurn`) | preview message, edit in flight, retry, flood breaker, trailing timer | chunk, tool status, preview send and edit, final write, timeout, abort, error | every channel call may fail or settle late; the final write races preview edits |
| Gateway and router (`core/base-gateway.ts`, `core/message-router.ts`, `gateway.ts`, `app/src/main.ts`) | dedup map, connected adapters, routing key → worker, stop phase | inbound message, route, sweep, stop | platforms repeat messages; eviction without waiting; messages that arrive during the stop |
| Webhook receiver (`core/base-webhook.ts`, `core/webhook-router.ts`) | two duplicate caches, route table | request, route changes, expiry | two caches with different ids, sizes and lifetimes |
| Rate limiter (`core/security.ts`) | per client: request times, block end, connections | request, connection, cleanup, eviction | window and block boundaries, cleanups between requests |
| Proactive pipeline (`proactive/pipeline/executor.ts`, `state/retry-queue.ts`, `delivery/router.ts`, `engine.ts`) | job states with a lock, retry queue, delivered texts | execute, deliver, retry, boot | the lock is released at an un-awaited return; copies of the job state overwrite each other; sends that arrive and report failure; crashes |
| Proactive schedules (`proactive/triggers/*.ts`, `engine.ts`, `state/store.ts`, `state/dedup-store.ts`) | rows on disk, live registrations, timers, one-shot markers in memory and on disk | add, remove, enable, disable, replace, reload, fire, stop, boot | three copies of the truth (row, registration, timer), operations during a fire, crash before a flush |
| Proactive feedback (`executor.ts`, `team/harness/storage/learning-store.ts`) | decision rows, delivered texts with embeddings, reported ids, engagement | gate, deliver, credit a reply, cool down, prune | what is compared, recorded and credited is spread over a fire's waits |
| Health monitor, cron sweeper, catch-up (`proactive/health/*.ts`, `engine.ts`) | back-off and restart counts, last runs | check, reconnect, sweep, catch up | several parties start the same job or link |
| Channel adapters (`channels/*`) | a link and its timer, slots, pending interactions and requests, pairing codes, poll position | connect, send, receive, sweep, pair | late events of old links, timers against answers, caps |
| Terminal chat and management server (`cli/ui`, `cli/ops/chat-command.ts`, `src/gateway/src/management`, `channels/chat`) | sockets, one session per peer, the input buffer, the screen | type, paste, send, reconnect, stream | both ends learn of a lost socket in their own time |
| Team handler (`team/handler.ts`, `team/handler/*`) | thread pool, sessions, checkpoints, resume flags | turn, `/new`, `/compact`, `/branch`, extraction | commands act on the session of a running turn |
| Agent factory, hooks (`team/factory.ts`, `team/harness`) | prompt caches, per-run nudges and guards | build, tool call, evict | three caches with different ages feed one prompt |
| Background tasks and delegation (`team/tools`, `team/state`, `team/acp`) | registry, rows, abort signals, agent slots | spawn, delegate, hand off, cancel, time out | timeout, cancel and result race to settle one task |
| Goals (`team/harness/goals`) | goal row, judges in flight | set, pause, judge | a verdict comes back to a row that has changed |
| Skills and memory (`team/harness/review`, `team/memory`, `cli/ops/skill-command.ts`) | skill trees, lessons, usage records; entry file, lock file, index | write, append, curate, drain; remember, ingest | read, await, write back; stale lock files |
| MCP clients, browser and notes servers (`team/mcp`, `src/mcp-servers`) | children, clients, promise of tools; sessions, pages, markers; notes | connect, reload, close; tool calls | children hang and die; calls interleave at awaits |
| Vault (`vault/`, `cli/ops/vault-command.ts`) | wrapped key, secrets, rules, tokens; pid file, state file, certificate | init, put, mint, tunnel, start, stop | commands derive a key for long and then write |
| Credentials and device logins (`cli/auth`, `src/gateway/src/auth`, `team/auth`) | credential file, lock file, pollers | refresh, log in, revoke, poll | tokens rotate; holders die between exchange and save |
| Configuration (`src/gateway/src/config-reload.ts`, `cli/ops/*-command.ts`) | the file, a temporary file, running settings | edit, rename, poll, apply | editors share one temporary name; edits during a reload |

How they interact: an adapter calls `handleInbound` of the gateway, which
deduplicates, sends an acknowledgement reaction (a network call) and gives the
message to the router, which finds or creates the worker of the routing key.
The worker runs turns one at a time through the team handler and delivers the
reply through the adapter.  Background tasks report to the worker's event queue;
the webhook receiver injects into the same queue.  The proactive engine executes
jobs on its own, without a worker, and delivers through the adapters.  The goal
loop routes continuation messages straight to the router.  A turn runs in a thread of the
pool, with an agent the factory built from files and tools; its tools delegate tasks,
edit schedules, skills and memory, and call MCP servers.  CLI commands and slash commands
change the same rows and files.

What makes the parts correct:

* worker: a message it accepted reaches a turn exactly once; a sleeping loop can
  always be woken; what waits is mirrored; finished tasks wake the agent; `stop`
  ends.
* turn delivery: the user gets the reply once, or hears that it failed.
* gateway: a repeated message is handled once; one worker at a time writes to a
  thread; no message is lost in an evicted worker; a signal ends the daemon.
* webhooks: a repeated delivery wakes the agent once.
* rate limiter: never more than the limit in any window; a block lasts.
* pipeline: no job stays locked; a failed delivery is retried or accounted for;
  one copy per acknowledged delivery; a recorded text is not sent again.
* schedules: an enabled schedule keeps firing; a completed one-shot does not; a missed
  fire is made up for once; live registrations are what the rows say.
* adapters: one live link each, a lost one is retried, calls end, chunks keep their order.
* terminal: what is typed arrives once and in order, streams end, pastes expand.
* team: turns are counted on the entry they run in, a session's history is not
  overwritten by a command about another, a goal is done by its own verdict, tasks end
  with one outcome that is recorded before it is told.
* stores: what a user or an agent put into memory, skills or notes stays; secrets stay
  readable and in scope; a rotated token is not used twice.
* MCP, browser, vault: the tables name what is there, and every wait ends.

The hazards of this code, each at its line and with the properties that bear on
it, are the `hazards` of `PROJECT.json`.

## 2. Modules and the code they model

`PROJECT.json` maps every definition to its lines.  Definitions that a comment or their
name shows to be a variant of the operation below them (a dropped guard, a missing reset)
are mutations, used to see that the properties notice them; no specification uses them.

**The path of a message.**

* `ChannelWorker`: `loop` says where `loop()` is parked: asleep in the race (`waiting`), in
  a turn, in a typing refresh, a webhook decision, or a back-off.  `top` is the head of the
  loop, which nothing else can interleave with.  `waiter` distinguishes a waiter the loop
  races (`live`) from one it has abandoned (`stale`), which is what `Promise.race` leaves
  behind.  Actions: `Dispatch`, `DispatchCommand` and its two endings, `DispatchAbort`,
  `InjectEvent`, `SpawnTask`, `TaskReports`, the loop's steps, the coalesce timer, the
  five-second timeout, the turn and its timeout, `Stop` (begin, clear, return), the router's
  `Sweep`.  `accepted`, `given`, `discarded`, `woken` are history.
* `Inbox`: the abstract specification of a worker, without queues, timers and waiters:
  letters wait, are handed over at most once in turns that do not overlap, may be lost, and
  a closed inbox hands over nothing.  `ChannelWorker` declares `Mailbox == INSTANCE Inbox
  WITH ...`, and `ImplementsInbox` is that specification as a property.
* `TurnDelivery`: one turn.  Texts are counts of deltas; each channel call is a pair of steps
  (start, land).  `EditErrors` lists the ways an edit may fail; the channel may or may not
  support deletion.  It assumes that an aborted graph emits no further text chunks.  The second
  half of the module is the thinking message of the turn (`Lane...`), edited in place and taken
  away with the answer within its 1.5 s of grace.
* `Gateway`: inbound messages, routing and shutdown around workers that are an inbox and a
  turn.  `Synthetic` messages are goal continuations.
* `Shutdown`: the stop of the daemon step by step, with several signals, turns, fires and
  strays that start while it waits.

**Ingress and adapters.**

* `WebhookIngress`: a request after its body is read, in one step; two caches, their expiry,
  the route table and the existence of a target worker.
* `RateLimiter`: `checkRequest`, connections, cleanup and eviction over an explicit clock.
* `ChannelLink`: the connection of an adapter: reconnect timer, login commands, health
  monitor, and links that report their end late.
* `AdapterCalls`: the parts of the adapters with waits of their own: Telegram's chain of send
  slots, Discord's deferred interactions and their sweep, Signal's requests named by a
  millisecond.
* `ChannelMessages`: what each adapter makes of a platform event and of an outbound message,
  as operators applied to every small event; who may write (access settings, pairing codes under
  a cap and a lifetime); and iMessage's poll position.

**Terminal.**

* `WebChat`: sockets of one peer, the session they share, reconnects, streams.
* `ChatInput`: the input editor with history, kill ring, undo and pastes; the buffer is a
  sequence of tokens, a placeholder is two of them.
* `ChatScreen`: what a turn leaves on the screen and in the scrollback.

**Proactive engine.**

* `JobExecutor`: executions (runs), the lock, deliveries, the retry queue and its loop,
  do-not-disturb, crash and boot.  The store keeps the *object* a run stored, so there is one
  object per run (`obj`) and a reference per job (`cur`): that is what makes overwritten locks
  visible.  Texts are equal when their embeddings are similar.
* `Schedules`: four kinds of schedules; rows, registrations, timers, the timers map, fires in
  flight, markers in memory and on disk, the startup loop.  `armed` counts pending timers and
  `held` says whether the map names one: they differ when a callback deletes an entry it did
  not set.
* `ScheduleAdmin`: the editors of schedules (tool, management routes, commands) and their
  prompt files, whose copy is awaited.
* `MissedFires`: everything that starts a job: timer, catch-up, sweeper, manual trigger.
* `ProactiveFeedback`: what a fire records and later fires read: decisions, deliveries,
  suppressions, replies, cool-down, pruning.
* `ConfigReload`: editors of the configuration file and the reloader.

**Team.**

* `TeamThreads`: sessions, the pool, checkpoints, resume flags, recaps, and the commands that
  change them during a turn.
* `AgentRun`: what an agent is built with (cached files, tool lists, prompt sections), and the
  interceptors around its calls (loop guard, nudges, failure rows, eviction).
* `BackgroundTasks`: registries, rows, abort signals, slots of coding agents.
* `Goals`: goal rows and judges in flight.
* `Skills`, `Memory`: the life of one skill name on disk; the entry file, its lock file and
  the index behind it.
* `Connectors`: the children of MCP servers and the promise of their tools; the pollers of
  device logins.
* `BrowserSessions`, `NotesVault`: the browser server's sessions, pages and markers; the notes
  server's read-await-write calls.
* `Credentials`: the credential file, its lock and everyone who spends the refresh token.
* `VaultStore`, `VaultServer`: keys, secrets, rules, tokens and tunnels; the proxy daemon as
  its pid, state and certificate files show it.

**For TLC.**  `MCChannelWorker` instantiates one module.  `MCLive`, `MCProactive`, `MCFires`,
`MCChannels`, `MCAgents` and `MCStores` check several modules in one run.  Where their parts
share no state, a variable `part`, picked in the initial state, says which part the behaviour
runs: the others keep their initial values, so the states add up instead of multiplying, and
no behaviour of a part is lost.  Fairness is stated per part, or asks nothing of a part that
is at rest.  The properties these modules define are conjunctions of properties of the parts,
each stated and explained in the module it belongs to, and each of those modules carries a
mutation for its own property beside the operation it breaks.

**For TLAPS.**  `LiveProofs`, `ProactiveProofs`, `FiresProofs`, `ChannelsProofs`, `StoresProofs`,
`IngressProofs` and `AgentsProofs` (section 6).  `SequenceFilter` defines `Filter`, which is `Array.filter` as a fold
the provers can reason about, and holds its theorems; `RateLimiter`, `TeamThreads`,
`JobExecutor`, `Schedules` and `ScheduleAdmin` use it.

## 3. Runs

| Run | Distinct states | Checks |
|---|---|---|
| `worker` | 300,593 | `TypeOK`, `NoLostWakeup`, `DeliveredOnce`, `OutsideTrue`, `LossOnlyThroughOrphanedWaiter`, `ImplementsInbox` |
| `live` | 399,983 | `TurnSound`, `RoutingSound`, `WorkerProgress`, `StopEndsLoop`, `TurnCompletes`, `DaemonProgress` |
| `proactive` | 1,903,577 | `FailureNotForgotten`, `RunsSound`, `LiveMatchesRows`, `PromptKept`, `HotSettles`, `CaughtUpOnce`, `FeedbackSound` |
| `fires` | 506,580 | `TimersMatch`, `RetriesSound`, `KeepsFiring`, `CompletedNotRefired` |
| `channels` | 199,960 | `AdaptersSound`, `ChatSound`, `ShutdownSound`, `AdaptersProgress`, `ChatProgress`, `ShutdownEnds` |
| `agents` | 116,837 | `TasksSound`, `ToolsSound`, `AgentsProgress` |
| `stores` | 919,716 | `InjectedOnce`, `IngressSound`, `MessagesSound`, `ConversationSound`, `EntryKept`, `AgentRunSound`, `SecretsSound`, `NothingForgotten` |
| `worker_loss`, `fires_overlap`, `drain_ships`, `skill_archived`, `memory_index` | | `AcceptedNotLost`, `OneRunPerJob`, `DrainShipsReply`, `HandAuthoredStays`, `IndexInSync`, each violated |

What they show:

* `worker`: caps hold; a sleeping loop owns the waiter, has no event queued and has a timer
  armed for buffered messages; nothing is handed over twice; what waits is mirrored and a
  presence mark has a cause (`OutsideTrue`); an accepted message can only vanish when the
  coalesce timer resolves an abandoned waiter; and the worker implements `Inbox`.
* `live`: `TurnSound` is one reply or a failure the user hears of, no edit in flight after the
  breaker opened, one reasoning message that goes with the answer.  `RoutingSound` is one
  dispatch per message, one writer per thread, nothing left in an evicted worker.  The
  progress properties: queues and mid-turn buffers drain, a task's result wakes the agent, a
  stopped loop ends, a turn ends and starts no preview edit after the agent returned, an
  accepted message is handled, a signal ends the daemon.
* `proactive`: locks have holders and an acknowledged delivery is one copy (`RunsSound`);
  failures are queued or accounted for; what is live is what the rows say, with their prompts;
  when no reload is due the running log level and toggles are the file's; an "at" job runs by
  itself once and runs the sweeper forces keep their distance (`CaughtUpOnce`); a similar text is not delivered twice in the window
  and a reply is credited to a message the user got (`FeedbackSound`).
* `fires`: an enabled schedule always has a timer, a fire or a place in the startup loop, and the
  timers map names no timer that is gone (`TimersMatch`) and keeps
  firing; due retries are tried and similar texts need overlapping runs (`RetriesSound`); a
  completed one-shot stays done over clean restarts.
* `channels`: one live link, a restart cap, chunks in order, one edit per interaction
  (`AdaptersSound`); typed messages in order, own pastes expand (`ChatSound`); each stop step
  runs once and only a turn that began meanwhile outlives the drain (`ShutdownSound`); retries, sends, interactions,
  streams, paste mode and the shutdown end.
* `agents`: delegation chains without loops, one outcome per task recorded before it is told,
  stops that reach below, slots that match (`TasksSound`); listed clients are up, active pages
  exist, a serving vault is tracked and trusted (`ToolsSound`); tasks, promises of tools,
  markers and pollers end.
* `stores`: one wake per webhook event; windows, blocks, caps and poll positions
  (`IngressSound`); conversions keep what was typed, requests settle, text is shown once
  (`MessagesSound`); session pointers, resume flags, pool, turn counts and goal verdicts
  (`ConversationSound`); memory entries kept; prompts as fresh as their caches allow and naming
  tools the agent has, loops cut, eviction leaving nothing (`AgentRunSound`); secrets readable
  and in scope, tokens rotated safely (`SecretsSound`); history, skills, rejections, pairing
  codes and notes not dropped unasked (`NothingForgotten`).

The five violated properties state what a comment, a test or a document says; `PROJECT.json`
quotes them under `findings`.  Some of the passing properties state the strongest thing that
*is* true where the promise is not: `LossOnlyThroughOrphanedWaiter` (beside
`AcceptedNotLost`), `SimilarNeedsOverlap`, `NoEditStartsLate`, `FailureNotForgotten`,
`OnlyStraysRun` (beside `DrainShipsReply`).

## 4. Bounds

* `worker`: three messages with a mid-turn buffer of one and a queue of two, so both caps
  overflow; one task with one progress report, one webhook, an event queue of two.  Messages
  are symmetric.
* `live`: the same worker with two messages and queues of one; two text deltas, enough for a
  preview to be sent and to be stale while an edit is in flight; two strikes open the breaker;
  three batches of thinking; two conversations on two channels, the first with two messages
  and a goal continuation, a dedup map of one entry and three workers, so that a key has two
  in succession.
* `proactive`: three runs of two jobs (a fire, an overlapping fire and a retry), two attempts,
  a queue of one, so that a second failure finds it full, one crash; two editors of three kinds of settings; three schedules, one of
  each kind, over five half-periods with one restart's worth of catch-up; three fires over
  three days with a cool-down of two.  Runs are symmetric.
* `fires`: one job with three runs of which one has no embedding; a recurring and a one-shot
  of both kinds, at most two timers or fires per job, one crash; a marker list that does not
  overflow.
* `channels`: two kinds of adapter with three links, two attempts and two restarts per hour;
  two sends over four slots with one dropped call; two interactions with room for one; three
  sockets and two typed messages; two turns on two channels and two signals; five key presses
  in a buffer of four tokens.
* `agents`: two workers, two tasks, a depth of two and one slot; one server with two
  overlapping operations; two calls on one browser session with two pages and a marker; two
  connect calls and a CLI login; three processes for the vault.
* `stores`: a delivery that wakes the agent, one that is filtered and one that is malformed, with
  caches of one and three attempts, so that another delivery evicts the first between two of its
  attempts; two clients of one address with room to track one, a window of two ticks, a block of
  three, a clock of six: a request at, before and after each edge; two senders, three codes, room
  for one; two peers over three sessions with a pool of one; two goals, three turns, a budget of
  two; one lesson and two versions of a skill; two memory calls with a crash on one entry; one
  secret, two hosts, one rule, one token, one tunnel, one operator with two passwords; two refresh
  tokens issued, one login; two workers and one edit per file; two calls on one note.

Every bound that is not a constant of the code is commented as a bound where it is declared.
Some constants choose a circumstance instead: `OneRpcPerMs`, `SendMidTurn`, `RunsOverlap`,
`OneAtATime`, `NoteReadFails`, `CertMadeAlone`, `EndsSeenInOrder`, `FreshIds`, `BootEdits`,
`ExtractorKnows`, `HooksSlow`, `Settings`.  Section 7 says what the other choice shows.
Deadlock is not checked: each of these systems may rest (a stopped worker, all runs used up).

## 5. Fairness

Weak fairness, on the following only:

* timers fire (coalesce, five-second timeout, turn timeout, trailing edit, cron, heartbeat,
  retry loop, reconnect, slot release, sweep of interactions, connect timeout, end of paste
  mode): the event loop guarantees it;
* a channel call settles, with success or failure: the SDKs' calls have network timeouts;
* an agent turn ends: the worker arms a turn timeout (`channel-worker.ts:1039`), and a
  proactive agent call carries a timeout signal (`proactive/agent-bridge.ts:129`); that the
  runtime honours an abort is assumed;
* a loop that can take a step takes it, and settled promises run their continuations.

No fairness is assumed of users, platforms, operators, signals, sweeps by the router, crashes
or MCP children, which need never answer.

## 6. Proofs

Each theorem below is checked by TLAPS for every value of the constants, under the named
assumptions of the modules (`ASSUME` in the module that declares the constant; TLC evaluates them
on every run).  Where a theorem has a hypothesis of its own, the circumstance it excludes is one
in which the code does not keep the promise, and section 7 says how.  A theorem about one part of
a composed run is proved of the part's own next-state relation and then lifted: a step of the
composition is a step of the part or leaves its variables alone.

| Module | Theorem | States |
|---|---|---|
| `LiveProofs` | `TypeCorrect`, `WakeupNeverLost` | `Spec => []TypeOK`, `Spec => []NoLostWakeup` |
| | `DeliversOnce` | `Spec => []DeliveredOnce` |
| | `LosesOnlyToOrphan` | `Spec => LossOnlyThroughOrphanedWaiter` |
| | `InboxImplemented` | `Spec => ImplementsInbox`, the refinement of `Inbox` |
| | `MirrorHolds` | `Spec => []MirrorCovers`, one half of `OutsideTrue` |
| | `OutsideIsTrue` | `Spec => []OutsideTrue`, while no overflow drops a task's final event |
| | `TurnIsSound`, `RoutingIsSound` | `LiveSpec => []TurnSound`, `LiveSpec => []RoutingSound` |
| | `DaemonIsSound`, `NoLateEdit` | `GatewaySpec => []RoutingSound`, `DeliverySpec => NoEditStartsLate` |
| `ProactiveProofs` | `FailuresRemembered`, `RunsAreSound` | `ProactiveSpec => []FailureNotForgotten`, `... => []RunsSound` |
| | `HotPathsSettle` | `ProactiveSpec => []HotSettles`, if `MaxReloads = 1` |
| | `MissedCaughtUpOnce` | `ProactiveSpec => []CaughtUpOnce` |
| | `FeedbackIsSound` | `ProactiveSpec => []FeedbackSound`, if `OneAtATime` |
| | `LiveIsRows` | `ProactiveSpec => []LiveMatchesRows`, if `OnlyCreatesEarly` |
| | `PromptsStay` | `ProactiveSpec => []PromptKept`, if `OwnPrompts` |
| | `RepeatsNeedOverlap` | `Spec => SimilarNeedsOverlap` (`JobExecutor`), the safety half of `RetriesSound` |
| `FiresProofs` | `TimersAgree`, `DoneStaysDone` | `FiresSpec => []TimersMatch`, `FiresSpec => CompletedNotRefired` |
| `ChannelsProofs` | `ShutdownIsSound` | `ChannelsSpec => []ShutdownSound` |
| | `AdaptersKeepToOne` | `ChannelsSpec => []` of `OneLiveLink`, `RestartCap`, `ChunksInOrder`, `EditedOnce` |
| | `AdaptersAreSound` | `ChannelsSpec => []AdaptersSound`, if `OneRpcPerMs` |
| | `PastesExpand` | `ChannelsSpec => []OwnPastesExpand` |
| | `ChatIsSound` | `ChannelsSpec => []ChatSound`, if `EndsSeenInOrder` |
| `StoresProofs` | `WakesOnce` | `Spec => []InjectedOnce` (`WebhookIngress`) |
| | `EntriesStay` | `StoresSpec => []EntryKept`, if `LockSafe` |
| | `SecretsAreSound` | `StoresSpec => []SecretsSound`, if `OneOperator` and `ChildrenOnlyUnrotated` |
| | `ConversationIsSound` | `StoresSpec => []ConversationSound` |
| | `NothingIsForgotten` | `StoresSpec => NothingForgotten`, if `~NoteReadFails` |
| `IngressProofs` | `IngressIsBounded` | `StoresSpec => []IngressSound`, if `BlockOutlastsWindow` |
| | `MessagesAreSound` | `StoresSpec => []MessagesSound`, if `NoMidTurnSends` |
| | `AgentRunsAreSound` | `StoresSpec => []AgentRunSound`, if `~RunsOverlap` |
| `AgentsProofs` | `TasksAreSound` | `AgentsSpec => []TasksSound` |
| | `ToolsAreSound` | `AgentsSpec => []ToolsSound`, if `CertMadeAlone` |
| `SequenceFilter` | `FilterKeeps`, `FilterTail` | what `Array.filter` returns, for lists of every length |

**The worker.**  `NoLostWakeup` is not inductive: that the coalesce timer is armed for a buffered
message follows from the presence of a waiter at the time of the enqueue, and that the loop owns
that waiter follows from where it is parked.  The invariant is

    WakeupInv == TypeOK /\ TurnFlags /\ WaiterOwned /\ NoLostWakeup

`TurnFlags` ties `turnActive`, the abort controller and the timer to the loop being in a turn;
`WaiterOwned` says a live waiter means a sleeping loop.  What happens to a message is
`MessageInv == WakeupInv /\ StopFlags /\ Apart`: the places a message can be in (pending, buffer,
given, discarded) are disjoint and free of repetitions.  Every action is first shown to be one of
nine kinds of move of messages (`MessageStep`), and the three theorems about messages are proved of
the moves, so that the case analysis over the actions is done once.  The refinement maps initial
states to initial states and every kind of move to a step of `Inbox` or a stutter.  The mirror
needs that `queuedIds` may be longer than the buffer, with the buffer's ids at its end.
That what is shown has a cause is `PresenceInv`: a mark, the typing interval and a start event
that still waits each have a task that runs or whose final event comes later in the queue.
Assumptions: `CapAssumption` (caps are positive), `CapabilityAssumption` (capabilities are
Booleans).

**Turn and daemon.**  `DeliveryInv` adds to `BreakerHolds` what each await of `runAgentTurn` knows
of the outcome (`OutcomeAtPhase`) and that a turn about to end has already done what is asked of
one that has ended (`EndAccounted`).  `LaneInv` says which message the reasoning lane holds at each
of its stages.  `GatewayInv` adds that an id which is being acknowledged is in the dedup map or was
let go by it (`DedupCovers`), and that the router's map leads to the worker that has the work of a
key (`MapCurrent`): one writer per thread, and nothing left in an evicted worker, both rest on the
second.

**Pipeline.**  `ExecutorInv` relates a run's phase to its fields (`RunsOK`), the stored object to
a run of the same job (`StoreOK`), a queued task's attempts to the number of failed runs recorded
for it (`AllCovered`, a cardinality of a finite set), and the retry loop's list to the run it
awaits (`LoopOK`).  With these `FailureNotForgotten` survives crashes, reclaimed locks and a full
queue.  `Recalled`, beside it, says what a run that has compared its text knows of the store of
embedded texts, so that a repetition needs a run that was delivering at the time.

**Shutdown and adapters.**  `StopInv`: the steps before the present one were begun once, the later
ones not at all, and a turn that runs is drained or began after the workers were stopped
(`TurnsKnown`).  `LinkInv`: only the current link lives, unless a socket was made after
`disconnect()` (`OnlyCurrent`), which rests on a connect between its awaits having let go of the
old one.  Telegram's slots are a chain of promises: `TgInv` says that slots are taken in order,
that the chain names the last slot not released, and that a waiting slot has only released ones
between itself and the one it waits for, on its own connection; a slot that may send then has
only released ones before it.  `DiscordInv`: an interaction not yet pending for good has no edit.
`RpcInv`: names are one's own, so the entry under a name is that of the send that waits for it.

**Terminal.**  `ChatInv`: without a one-shot send the terminal has one socket not closed at both
ends (`OneSocket`), and what was received, what is on its way and what waits for a connection are
each in the order typed and follow one another (`TuiInOrder`).  `InputInv` is about every place
text can be in, the line, the history, the kill ring and the undo stack, which hold arbitrary
lists of tokens: each is of `GoodTok`, whose placeholders, if made since the last message, stand
for the paste at their number.  Each edit is shown to make its lists from members of `GoodTok`;
a new paste enlarges the set, a sent message empties its condition.

**Timers.**  `SchedInv` of `FiresProofs` adds to the two halves of `TimersMatch`: only an "at"
job's moment passes, only cron jobs have timers and only heartbeats orphans; a row being started
has room for its timer, because operations may arm timers while the startup loop awaits a
fire; and a process that is down has no timers and no fires and, unless it crashed, has flushed its
marks.  Every action is first shown to be one of the moves a cron job or a heartbeat can make
(`CronMove`, `BeatMove`), and both theorems are proved of the moves.

**Schedules and their editors.**  `AdminInv` has an invariant for edits in flight (what an editor
will write after its await is a row of the kind its id has), one for creations queued before the
engine is up, and one for what is live.  `LiveIsRows` assumes `OnlyCreatesEarly`: creations use
fresh ids, and only creations come before the engine is up.  `PromptInv` says the file each row
names exists; `PromptsStay` assumes `OwnPrompts`: two schedules are not made from one file of the
prompt directory, which is shared and not copied, and nothing is removed before the engine is up.
`AdminAssumption`: an id has one kind, built-ins are heartbeats with a seeded or inline prompt.

**Fires, feedback, reload.**  `FiresInv`: a one-shot has not run by itself, or its run is in flight
and its timer's callback awaits it, or it is gone; and while it is held its timer is due no later
than its hour (`OneShotOK`).  `FeedbackInv`: what was heard within the window is still in the store
(`StoredOK`, through pruning), and a message past the gate repeats nothing heard before
(`GatedOK`), which is true because fires do not overlap.  `ConfigInv`: without a reload the gateway
runs with what the reloader holds, a reload has still to apply what differs from its own copy, and
a file that is not the one last read is on its way.

**Stores.**  `IngressInv` adds `CachesRemember`: an event injected once is in the router's cache or
was let go by it, and its request id, when attempts share one, likewise in the server's.  `MemInv`:
one call at a time is inside the lock, a lock is old only when its maker is dead, and what a call
will write lacks only what the request names and what the unlocked extraction added meanwhile
(`WritesWhatItRead`).  `KeysInv`: the wrapped key is the one secrets are sealed with, through
password changes; `ScopesInv`: a tunnel forwards what its token allows.  `CredInv`: the token in
the file, and the one each refresh read, is valid or its loss is known, except while the answer
that replaces it is on its way to the file; the lock keeps two exchanges apart.  `ThreadsInv`: rows
are used in order, a peer's pointer names its own open row, flags and counts agree with the pool's
entries.  `GoalsInv`: a verdict that is out is about the goal of its row or about one that was
overtaken (`JudgesKnow`).

**What agents start.**  `TasksInv` adds to the parts of `TasksSound` that ids are given out in
order (`InOrder`; that `nextId`, a count of what was given, is fresh follows by cardinality), that a
task in flight or settled has not been told of (`LifeOK`), that a settled task's row is settled
(`RowsOK`), and that links are closed (`LinksOK`): a task is linked to all its caller is linked to,
which is why an abort of one signal reaches every depth in one step.  Every action is a begin, an
abort, an end, a change of stage or a restart.  `McpInv` and `BrowserInv` are inductive as they
stand, with types; that the page made active is one of the pages left rests on `LeastNumber`.
`ServerInv`: while a certificate is being made there is none anywhere, and there is one maker.

**Ingress.**  `LimiterInv`: the kept requests are the tail of the history of allowed ones, and
requests `maxRequests` apart are a window apart; that a filter by age returns that tail is
`FilterTail`.  `InboundInv`: a pairing request past the cap's check still has room (`RoomKept`),
and every row a poll has passed was seen (`PollPassed`).  `ScreenInv`: the visible screen is the
tail of what was committed, and preview and turn text are disjoint from it.

**Nothing forgotten.**  `KeptInv` is `ThreadsInv` with three more.  `SkillsInv`: a lesson being
appended was not on the list of rejections its writer read (`PenSound`), and a skill's idle count,
which the curator goes by, is at most the days nobody read it.  `CodesInv`: between the count and
the insert of `requestCode` the sender has no code that is still good.  `NotesInv`: no other writer
is at work on the note of an undisturbed call, what the note held is in the note or in what the
call has read (`NoteHeld`), and the file it opened is still the note (`NoteOpen`).  With them every
step keeps checkpoints (`HistoryStays`), skills (`SkillsStay`), rejections (`RejectedMove`) and
codes (`CodesStay`).

**The run of an agent.**  `PromptInv`: an entry of a cache is within its age limit and the edit
after the one it holds came after the entry was made, so what was taken from it was in force less
than the limit ago; this needs the age limits to be positive (`MemberBounds`).  `BuiltInv`: the
text for conversations comes to main agents and to a fire that found none of its own.  That the
tools sent and the tools loaded on demand are the named ones and the dynamic one, in order and
without repetition, for every cap, is `NothingSpilled`, from `FilterDistinct` and `JoinedKeeps`.
`LoopInv`: what the run's last calls through the guard were, the guard's window ends with
(`LoopOK`), which survives blocked calls and the cut to the window.  `HookInv`: the run that goes on
is the one the interceptor knows.

**Induction over data.**  The library's induction theorems take an operator, which the provers
cannot instantiate.  `SequenceFilter` derives induction over a *set* of naturals from the
least-number principle (`LeastNumber`, from `WFMin`; `SetInduction`) and uses it to show that the
recursive function inside `Filter` exists, what it returns and that it repeats nothing its input
does not.

**Hypotheses.**  `MaxReloads = 1`: two overlapping reloads may leave old settings.  `OneAtATime`:
overlapping fires may send one text twice.  `CertMadeAlone`: two processes that make the
first root certificate at once leave two.  `~NoteReadFails`: an append that cannot read a note
that is there overwrites it.  `LockSafe`: the lock does not age under a living
holder, and with crashes at most two calls compete.  `OneOperator`: two overlapping `vault init`
may each make a key.  `ChildrenOnlyUnrotated`: the MCP child takes no lock, so with a provider that
rotates tokens it may spend one twice.  `BlockOutlastsWindow`: `security.ts` fixes the block at
five minutes while the window is configurable.  `NoMidTurnSends`: a message sent during a turn may be shown
twice.  `~RunsOverlap`: a run that starts beside another takes over the
interceptor's `agentId`, and the first one stays in the tracker.  `OneRpcPerMs`: two sends of one millisecond share a name.
`EndsSeenInOrder`: while the daemon has not seen a socket end, what was sent on it may arrive after
what the next one brings.  `OnlyCreatesEarly`, `OwnPrompts`: above.  These are conditions on
constants, and the configuration of the run that checks the same property satisfies each.
`OutsideIsTrue` has a hypothesis on the behaviour instead, `[][~DropsFinal]_vars`: the full event
queue drops its oldest entry, and where that is a task's final event its mark stays.  In the run
no event dropped is a final one: one task with one report, and room for two events.

**What stays with TLC.**  Liveness under fairness (`WorkerProgress`, `StopEndsLoop`,
`TurnCompletes`, `DaemonProgress`, `KeepsFiring`, `AdaptersProgress`, `ChatProgress`,
`ShutdownEnds`, `AgentsProgress`), which is out of the prover's reach.  The other half of
`RetriesSound` (`DueRetryTried`) is liveness too.  Every invariant of the passing runs is stated by a
theorem.

## 7. Divergences between the texts and the code

Five are runs of their own (`worker_loss`, `fires_overlap`, `drain_ships`,
`skill_archived`, `memory_index`).  The others were met
while modelling.  The models contain the behaviour; none of the checked properties
claims the contrary.

*Worker and turn.*

* `core/channel-worker.ts:1357`: `drainPendingToQueue` mirrors the moved messages
  under new ids and leaves their ids in `pendingGlobalIds`; line 301 speaks of
  avoiding "phantom ids".
* `core/channel-worker.ts:239`: `isIdle` sees a background task only through its
  presence mark, so a worker without marks is evicted while its task runs;
  `core/message-router.ts:72` says "Evict workers idle ≥IDLE_TTL_MS with no
  in-flight state".
* `core/channel-worker.ts:456`: `stop` aborts a turn after `DRAIN_TIMEOUT_MS`;
  `docs/architecture.md:142` says "in-flight turns finish".
* `core/channel-worker.ts:1063`: the end of a turn does not await a preview edit in
  flight, which may land after the final edit; line 1057 says "the final write below
  must not be overwritten".
* `core/channel-worker.ts:918`: a chunk that passes the gates while a flush is in
  flight clears the trailing timer and is not flushed; line 651 says the timer
  "guards buffered text if the stream goes silent".

*Gateway and webhooks.*

* `gateway.ts:1308`: `route` awaits the acknowledgement reaction, so messages of one
  peer may swap; `docs/channels.md:113` says "per-peer ordering is preserved".
* `core/base-gateway.ts:353`: adapters are closed before the workers are drained;
  the diagram at `docs/gateway.md:64` has the opposite order.
* `core/message-router.ts:156`: a message routed while `stopAll` waits starts a worker
  that nothing stops; `app/src/main.ts:107` says the stop "drains channel workers".
* `app/src/main.ts:100`: a second signal is ignored; `docs/gateway.md:72` says it
  "forces immediate exit".
* `core/webhook-router.ts:133`: a delivery is recorded before its target is looked up,
  so a redelivery after "no-target" is a duplicate; line 168 advises to send a message
  "before redelivering".
* `core/security.ts:117-121`: the block lasts a fixed five minutes while the window is
  configurable (`src/shared/src/config/schema.ts:222`); lines 155-158 forget a client's requests
  when its block ends, so with a window longer than the block a client may exceed the limit
  within one window (`WindowBound`).

*Proactive engine.*

* `proactive/pipeline/executor.ts:1087`: the retry of a no-agent job calls the agent;
  line 413 says "the script IS the job".
* `proactive/pipeline/executor.ts:414`: a silent job with a script delivers its output;
  `docs/proactive.md:89` says of silent "nothing is delivered".
* `proactive/engine.ts:257`: a retry that fails to deliver queues a new task with fresh
  attempts; `state/retry-queue.ts:38` counts on "10min × 3 attempts".
* `proactive/delivery/router.ts:61`: a default that is also a fallback is tried twice;
  line 57 says "don't double-send on the same channel + peer pair".
* `proactive/pipeline/executor.ts:1061`: two runs that compare before either is recorded
  both send; `docs/proactive.md:107` says "Suppressed if similarity ≥ 0.88".
* `proactive/triggers/cron.ts:164`: a fire in flight re-arms a job that was removed or
  disabled; `docs/proactive.md:219` says a change is hot-registered.
* `proactive/engine.ts:460`: creating over the id of a disabled row registers it live and
  leaves the row disabled; line 457 says "Persist first".
* `proactive/engine.ts:715`: replacing a job while it fires leaves two timers; line 708
  says "concurrent fires can't see partial state".
* `proactive/triggers/heartbeat.ts:259`: a crash before the flush forgets a one-shot's
  marker; `docs/proactive.md:126` says "a restart never re-fires a one-shot".
* `proactive/state/store.ts:350`: the cap drops markers of rows that still exist; line 343
  says a schedule that is gone "will never be looked up again".
* `proactive/triggers/cron.ts:42`: an "at" job re-created under the id of a completed one
  is skipped by the next start; `engine.ts:620` handles that on the removal path only.
* `docs/proactive.md:147` says "Missed ticks during downtime are NOT replayed";
  `engine.ts:911` (`catchupMissedFires`) replays them.


*Adapters, terminal and shutdown.*

* `core/base-gateway.ts:354` disconnects adapters before the drain (run `drain_ships`).
* `src/gateway/src/proactive/health/monitor.ts:28`: the back-off the comments call exponential
  does not grow, and the monitor restarts channels that were disconnected on purpose.
* `channels/signal/channel.ts:182`: two sends of one millisecond share a name; with
  `OneRpcPerMs = FALSE` one of them never settles (`RpcSettles`).
* Some adapters lose the text of a reply when its attachment is refused, although they log
  "skipping attachment" (`TextSurvivesAttachment`).
* `core/event-queue.ts:19-20`: the full queue drops its oldest event without looking at its type;
  with `MAX_QUEUED_EVENTS = 1` a task's mark outlives the task (`PresenceHasCause`).
* `cli/ops/chat-command.ts`: a message the lost socket still carries is received after one that
  was typed later and sent on the next socket, with `EndsSeenInOrder = FALSE` (`InboundInOrder`).
* `channels/chat/channel.ts:107-109` says the peer's registration is never evicted; a socket
  that closes may leave the user's other socket open and unregistered (`OpenIsRegistered`).
* `cli/ui/input/input-handler.ts:63` promises that placeholders are expanded on consume; the
  pastes are cleared then (lines 405-406), so one that comes back from the history or the undo
  stack is not expanded, or to another paste (`PlaceholdersExpand`, `InputSpec`).
* `cli/ui/chat-tui.ts:498-501`: a notice in the middle of a turn may not be written
  (`NoticesShown`); a message sent in a turn may show its text twice (`ShownOnce` with
  `SendMidTurn`).
* `core/channel-worker.ts:1182-1204` cannot be reached; a reasoning message stays up after a
  timeout, a failure or a silent reply.

*Proactive engine, continued.*

* `proactive/pipeline/executor.ts:451`: a job may be put in cooldown without a decision of its agent
  not to deliver (`CooldownCountsDecisions`, `FeedbackSpec`); `executor.ts:971` records what a fire reports
  before it is delivered; `executor.ts:430-437` cuts to a limit before it filters.
* `docs/proactive.md:107`: with overlapping fires (`OneAtATime = FALSE`) `NoRepeat` fails.
* `proactive/engine.ts:910` may catch up a job that has run meanwhile and is no longer overdue
  (`CaughtUpIsOverdue`); the sweeper and the catch-up skip a job that never ran, against
  `engine.ts:211`.
* `src/shared/src/utils/prompt-files.ts:30-33` against lines 48-52 and `engine.ts:631`: two
  schedules may share a prompt file, which the removal of one deletes (`PromptKept` under
  `Sharing`).
* `cli/ops/config-command.ts:167`: with two reloads in flight (`MaxReloads = 2`) the running
  settings may end behind the file (`HotSettles`).
* `engine.ts:453-477`, `:536`, `:672` and `team/tools/manage-schedule.ts:227`: a check and the
  write it is for are separated by an await.

*Team and stores.*

* `team/memory/file-provider.ts:96-98`: two calls that both find the lock of a dead holder stale
  both delete it, and the second may delete the lock the first has made meanwhile; two calls are
  then inside and one may drop the other's entry (`EntryKept` with three calls and a crash).
* `team/handler/extraction-runner.ts:124` and the curator archive hand-authored skills (run
  `skill_archived`); `team/memory/plugins/vector-plugin.ts:102` keeps replaced texts (run
  `memory_index`).
* `team/handler/goal-lifecycle.ts`: commands name a goal by the routing key, turns by the thread
  id; unless the resolver fails the two differ and no judge is asked (`GoalIsDriven`).
* `team/handler/thread-pool.ts:104-108`: the entry just created may be the victim at the cap
  (`TurnKeepsEntry`).  A `/new` during a turn makes the turn count on the new session.
* `team/factory.ts:1010-1080`: the cache of skill owners has no key, so the agent built first
  decides what all see (`OwnersComplete`); `factory.ts:1385` names `delegate_task` to fires that
  do not have it; the compactor registry is keyed by agent name (`factory.ts:170`, `:607`).
* `team/state/task-registry.ts:54-63` against `learning-store.ts:1550`: a fresh registry starts
  at t1 again and its row overwrites the older task's (`RowOutcomeIsOwners`).  Messages pushed by
  `notify_teammate` are never drained.
* `team/harness/hooks/harness-interceptor.ts:205`: with overlapping runs an evicted thread may
  leave an agent that the tracker shows as running (`EvictionLeavesNothing`, `RunsOverlap = TRUE`).
* `team/harness/review/skill-writer.ts:160-196`: a writer that read a skill while a rejected lesson
  stood in it writes the lesson back even when it began after the verdict (`RejectedStaysOut` allows
  for it; three lessons in a row show it).
* `gateway.ts:1069-1073` against `team/handler/mcp-lifecycle.ts:173-200`: a server that is
  disabled stays connected (`ToggleApplies`, `McpOnly`).
* `src/mcp-servers/browser.ts:1451`: a second snapshot numbers from 1 and leaves older refs in the
  page, so a ref names two elements (`RefNamesOne`, `BrowserOnly`, `MaxElements = 2`).
* `src/mcp-servers/obsidian.ts:311-316`: any read error counts as "does not exist" and the note is
  overwritten (`NoteTextKept` with `NoteReadFails = TRUE`); overlapping appends lose one.
* `cli/auth/refresh-lock.ts:1-3` against `src/mcp-servers/shared/spotify-auth.ts:89-135`: the child
  takes no lock, so a rotating provider may see a token twice (`RotationSafe` with a rotating
  provider and a child in `Settings`).
* `team/tools/connect-service.ts:112`: two calls may leave two pollers (`OnePoller`).
* `cli/ops/vault-command.ts:1391`: `vault run` goes by the state file, so it may launch a program
  with the ports of a server that is not running (`RunFindsServer`).
* `src/vault/src/store/ca-store.ts:13-33` reads the certificate, generates a key when there is
  none, and writes it: two processes that do this at once make two, and `vault-ca.pem` may hold
  the one the daemon does not sign with (`CaTrusted` with `CertMadeAlone = FALSE`).
* Token usage is recorded under the session's thread and read under the routing key
  (`team/handler.ts`, about lines 1033 and 1110), and the query by peer matches prefixes.

Each property named in this section is defined in its module; the single-part specifications
`FeedbackSpec`, `PromptSpec`, `Sharing`, `InputSpec`, `StopSpec`, `McpOnly`, `BrowserOnly`,
`SkillsOnly`, `MemoryOnly` and `OverlapSpec` of the MC modules check one of them alone.

## 8. What is not modelled

* The component `PROJECT.json` lists as `not_modelled`: gateway hooks (user scripts on events),
  prompt text (texts of prompts and reports) and text helpers (pure string functions).
* Of the MCP servers, the browser, the notes and the Spotify login are modelled; the others
  forward one call to a web service and keep no state.
* Inside the modelled parts: the wording of prompts and messages, logging, metrics and counters;
  the parsing of schedules and replies; address and signature checks of webhooks (a request that
  fails them changes nothing); cryptography of the vault (a sealed secret is a number and the key
  it was sealed with); similarity search (texts are equal or not); status pages and read-only
  commands of the CLI; the database migrations.

## 9. Plan

1. *(done)* `ChannelWorker` and `WebhookIngress` with their theorems; `TurnDelivery`; `Gateway`;
   `RateLimiter`; `JobExecutor`; `Schedules`.
2. *(done)* The modules of section 2 beyond these, the abstract `Inbox` and its refinement.
3. *(done)* Theorems for every value of the constants: the properties of the worker and its
   refinement, of a turn and the daemon, of the proactive engine and its timers, of the webhook
   receiver, the limiter, the messages, the conversations, memory and secrets, of delegated tasks
   and tools, of what nothing may forget and of an agent's run (section 6).
4. *(done)* Theorems about the shutdown, the adapters, the terminal, and what the worker shows.
5. Compositions: the rate limiter in front of the webhook receiver, the sweeper over `Schedules`,
   background tasks with the worker's event queue.
6. The registry of gateway hooks with its timeouts.
