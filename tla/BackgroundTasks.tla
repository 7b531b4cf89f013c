-------------------------- MODULE BackgroundTasks --------------------------
(***************************************************************************)
(* Delegated work of one gateway process: the per-thread TaskRegistry, the *)
(* tools that put tasks into it (spawn_background_task, delegate_task,     *)
(* handoff_task, code_agent), the abort signals that link a task to its    *)
(* caller, and the background_tasks table that outlives the process.       *)
(*                                                                         *)
(* A registry belongs to one cached thread entry, so an evicted thread or  *)
(* a restart brings a fresh registry whose counters start again at 1.  A   *)
(* task is named <<registry, letter, number>>; its row in the table is     *)
(* keyed by letter and number alone ("t1"), as in the code.                *)
(***************************************************************************)
EXTENDS Naturals, Sequences, FiniteSets, Functions

CONSTANTS
  Registries,       \* registries that may come to exist, one per thread entry
  TeamWorkers,      \* names of the allowed workers
  MaxTask,          \* bound: teammate tasks per registry
  MaxJob,           \* bound: code_agent jobs per registry
  MaxDepth,         \* MAX_DELEGATION_DEPTH
  MaxConcurrent,    \* MAX_CONCURRENT coding agents
  WorkersDelegate,  \* TRUE when a worker's turn is handed the sub-agent factory
  NoTask

ASSUME DelegationBounds ==
  /\ MaxTask \in Nat /\ MaxJob \in Nat /\ MaxDepth \in Nat
  /\ MaxConcurrent \in Nat /\ WorkersDelegate \in BOOLEAN

TaskIds == (Registries \X {"t"} \X (1..MaxTask)) \cup (Registries \X {"j"} \X (1..MaxJob))
ASSUME NoTaskIsNoTask == NoTask \notin TaskIds

VARIABLES
  registry,   \* registry -> "free", "live", "evicted" or "lost"
  tasks,      \* task id -> its record and where its run stands
  taskRows,   \* number -> row of background_tasks under the id "t<number>"
  outcomes,   \* task id -> task_complete and task_error events pushed for it
  mail,       \* registry -> workers with messages queued by notify_teammate
  acpActive   \* coding agents counted by the ACP session manager

taskVars == <<registry, tasks, taskRows, outcomes, mail, acpActive>>

Terminal == {"completed", "failed", "killed"}
Blank == [kind |-> "none", chain |-> <<>>, linked |-> {}, status |-> "none",
          abort |-> "no", run |-> "over"]
Ended(t, run, status) == [Blank EXCEPT !.kind = tasks[t].kind, !.run = run, !.status = status]
InFlight(t) == tasks[t].run \in {"called", "working"}
RowKey(t) == t[3]

TasksInit ==
  /\ registry = [g \in Registries |-> "free"]
  /\ tasks = [t \in TaskIds |-> Blank]
  /\ taskRows = [n \in 1..MaxTask |-> [status |-> "absent", owner |-> NoTask, by |-> NoTask]]
  /\ outcomes = [t \in TaskIds |-> 0]
  /\ mail = [g \in Registries |-> {}]
  /\ acpActive = 0

-----------------------------------------------------------------------------
(* nextId: counters only grow, so an id is not reused within its registry. *)
NextId(g, letter) ==
  <<g, letter, 1 + Cardinality({t \in TaskIds : t[1] = g /\ t[2] = letter
                                                /\ tasks[t].kind # "none"})>>

(* The agents that may call a delegation tool: the main agent of a live    *)
(* thread, written NoTask, and the workers at work in that registry.       *)
CallersIn(g) ==
  (IF registry[g] = "live" THEN {NoTask} ELSE {}) \cup
  (IF WorkersDelegate THEN {t \in TaskIds : t[1] = g /\ t[2] = "t" /\ tasks[t].run = "working"}
                      ELSE {})
ChainOf(c) == IF c = NoTask THEN <<>> ELSE tasks[c].chain

AdmitsLoops(c, w) == Len(ChainOf(c)) < MaxDepth
Admits(c, w) == Len(ChainOf(c)) < MaxDepth /\ w \notin Range(ChainOf(c))

(* createTeammateTask, register and toRunning, all in one synchronous step *)
Started(kind, c, w, linked, aborted) ==
  [Blank EXCEPT !.kind = kind, !.chain = Append(ChainOf(c), w), !.linked = linked,
                !.status = "running", !.run = "called",
                !.abort = IF aborted THEN "stop" ELSE "no"]

(* INSERT into background_tasks: a duplicate primary key throws and is     *)
(* logged by both callers, so the row already there stays as it is.        *)
InsertRow(t, status) ==
  IF taskRows[RowKey(t)].status = "absent"
    THEN [taskRows EXCEPT ![RowKey(t)] =
            [status |-> status, owner |-> t, by |-> IF status = "running" THEN NoTask ELSE t]]
    ELSE taskRows

(* getOrCreateThread builds the registry with the thread entry *)
NewThreadEntry(g) ==
  /\ registry[g] = "free"
  /\ registry' = [registry EXCEPT ![g] = "live"]
  /\ UNCHANGED <<tasks, taskRows, outcomes, mail, acpActive>>

(* The pool forgets the entry; its detached tasks keep their registry. *)
ForgetThreadEntry(g) ==
  /\ registry[g] = "live"
  /\ registry' = [registry EXCEPT ![g] = "evicted"]
  /\ UNCHANGED <<tasks, taskRows, outcomes, mail, acpActive>>

(* spawn_background_task: detached, so no link to the caller's signal *)
Spawn(g, c, w) ==
  LET t == NextId(g, "t") IN
  /\ c \in CallersIn(g) /\ Admits(c, w) /\ t \in TaskIds
  /\ tasks' = [tasks EXCEPT ![t] = Started("spawn", c, w, {}, FALSE)]
  /\ taskRows' = InsertRow(t, "running")
  /\ UNCHANGED <<registry, outcomes, mail, acpActive>>

(* linkSignal: the callers whose abort reaches the new task, and whether   *)
(* the caller's signal is aborted already                                  *)
LinkedTo(c) == IF c = NoTask THEN {} ELSE {c} \cup tasks[c].linked
NeverAbortedAlready(c) == FALSE
AbortedAlready(c) == c # NoTask /\ tasks[c].abort # "no"

(* delegate_task and handoff_task block the caller and follow its signal;  *)
(* only a worker has the hand-off tool.                                    *)
Delegate(g, c, w, kind) ==
  LET t == NextId(g, "t") IN
  /\ c \in CallersIn(g) /\ Admits(c, w) /\ t \in TaskIds
  /\ kind = "handoff" => c # NoTask
  /\ tasks' = [tasks EXCEPT ![t] = Started(kind, c, w, LinkedTo(c), AbortedAlready(c))]
  /\ UNCHANGED <<registry, taskRows, outcomes, mail, acpActive>>

(* code_agent: a background job in one of the ACP slots, with no row *)
CodeAgent(g) ==
  LET t == NextId(g, "j") IN
  /\ registry[g] = "live" /\ t \in TaskIds
  /\ acpActive < MaxConcurrent
  /\ acpActive' = acpActive + 1
  /\ tasks' = [tasks EXCEPT ![t] = [Blank EXCEPT !.kind = "code", !.status = "running",
                                                 !.run = "called"]]
  /\ UNCHANGED <<registry, taskRows, outcomes, mail>>

-----------------------------------------------------------------------------
(* Abort of a whole controller reaches every linked task still running. *)
AbortWith(S, why) ==
  [t \in TaskIds |-> IF InFlight(t) /\ tasks[t].abort = "no" /\ (t \in S \/ tasks[t].linked \cap S # {})
                       THEN [tasks[t] EXCEPT !.abort = why] ELSE tasks[t]]

NoSpawnTimeout(t) ==
  /\ InFlight(t) /\ tasks[t].abort = "no" /\ tasks[t].kind # "spawn"
  /\ tasks' = AbortWith({t}, "timeout")
  /\ UNCHANGED <<registry, taskRows, outcomes, mail, acpActive>>
TaskTimeout(t) ==
  /\ InFlight(t) /\ tasks[t].abort = "no"
  /\ tasks' = AbortWith({t}, "timeout")
  /\ UNCHANGED <<registry, taskRows, outcomes, mail, acpActive>>

(* The main agent's turn is stopped: its signal is the parent of the tasks *)
(* it delegated to, and theirs of the ones below.                          *)
TurnStopped(g) ==
  LET S == {t \in TaskIds : t[1] = g /\ tasks[t].kind = "delegate" /\ tasks[t].linked = {}} IN
  /\ \E t \in S : InFlight(t) /\ tasks[t].abort = "no"
  /\ tasks' = AbortWith(S, "stop")
  /\ UNCHANGED <<registry, taskRows, outcomes, mail, acpActive>>

(* The runner builds the worker, then drains what was queued for it and    *)
(* starts its turn.                                                        *)
RunnerStarts(t) ==
  /\ tasks[t].run = "called"
  /\ tasks' = [tasks EXCEPT ![t].run = "working"]
  /\ mail' = IF t[2] = "j" THEN mail
             ELSE [mail EXCEPT ![t[1]] = @ \ {tasks[t].chain[Len(tasks[t].chain)]}]
  /\ UNCHANGED <<registry, taskRows, outcomes, acpActive>>

OutcomeOf(t, ok) ==
  IF ok THEN "completed"
  ELSE IF tasks[t].abort # "no" /\ tasks[t].kind # "code" THEN "killed" ELSE "failed"

(* A run returns only when the calls it blocks on have returned; it throws *)
(* under a blocked call only when its own signal is aborted.               *)
MayEnd(t, ok) ==
  /\ InFlight(t) /\ (ok => tasks[t].run = "working")
  /\ (\E u \in TaskIds : InFlight(u) /\ t \in tasks[u].linked) => ~ok /\ tasks[t].abort # "no"

(* A spawned run returns or throws: the registry record and the row are    *)
(* settled before the event is pushed.  The UPDATE goes by the id alone.   *)
SpawnReportsFirst(t, ok) ==
  /\ tasks[t].kind = "spawn" /\ MayEnd(t, ok)
  /\ tasks' = [tasks EXCEPT ![t] = Ended(t, "settled", OutcomeOf(t, ok))]
  /\ outcomes' = [outcomes EXCEPT ![t] = @ + 1]
  /\ UNCHANGED <<registry, taskRows, mail, acpActive>>
SpawnSettles(t, ok) ==
  /\ tasks[t].kind = "spawn" /\ MayEnd(t, ok)
  /\ tasks' = [tasks EXCEPT ![t] = Ended(t, "settled", OutcomeOf(t, ok))]
  /\ taskRows' = [taskRows EXCEPT ![RowKey(t)].status = OutcomeOf(t, ok), ![RowKey(t)].by = t]
  /\ UNCHANGED <<registry, outcomes, mail, acpActive>>

SpawnReports(t) ==
  /\ tasks[t].run = "settled"
  /\ tasks' = [tasks EXCEPT ![t].run = "over"]
  /\ outcomes' = [outcomes EXCEPT ![t] = @ + 1]
  /\ UNCHANGED <<registry, taskRows, mail, acpActive>>

(* A delegated run ends inside the caller's turn; a failed hand-off leaves *)
(* no row.                                                                 *)
DelegateEnds(t, ok) ==
  /\ tasks[t].kind \in {"delegate", "handoff"} /\ MayEnd(t, ok)
  /\ tasks' = [tasks EXCEPT ![t] = Ended(t, "over", OutcomeOf(t, ok))]
  /\ taskRows' = IF ok \/ tasks[t].kind = "delegate" THEN InsertRow(t, OutcomeOf(t, ok))
                                                     ELSE taskRows
  /\ UNCHANGED <<registry, outcomes, mail, acpActive>>

(* A coding agent's child process ends, is killed or fails; the slot goes  *)
(* back in the finally block.                                              *)
CodeEndsKeepingSlot(t, ok) ==
  /\ tasks[t].kind = "code" /\ MayEnd(t, ok)
  /\ tasks' = [tasks EXCEPT ![t] = Ended(t, "over", OutcomeOf(t, ok))]
  /\ outcomes' = [outcomes EXCEPT ![t] = @ + 1]
  /\ acpActive' = IF ok THEN acpActive - 1 ELSE acpActive
  /\ UNCHANGED <<registry, taskRows, mail>>
CodeEnds(t, ok) ==
  /\ tasks[t].kind = "code" /\ MayEnd(t, ok)
  /\ tasks' = [tasks EXCEPT ![t] = Ended(t, "over", OutcomeOf(t, ok))]
  /\ outcomes' = [outcomes EXCEPT ![t] = @ + 1]
  /\ acpActive' = IF acpActive > 0 THEN acpActive - 1 ELSE 0
  /\ UNCHANGED <<registry, taskRows, mail>>

(* evictTerminal at the end of a turn drops the ended tasks that are old   *)
(* enough.                                                                 *)
EvictTerminal(g, t) ==
  /\ registry[g] = "live" /\ t[1] = g /\ tasks[t].status \in Terminal
  /\ tasks' = [tasks EXCEPT ![t].status = "evicted"]
  /\ UNCHANGED <<registry, taskRows, outcomes, mail, acpActive>>

(* notify_teammate, called by a worker of the same registry.  A message    *)
(* for a worker with an active task goes to that record's pendingMessages, *)
(* which nothing reads; otherwise it waits for the worker's next task.     *)
ActiveTeammate(g, w) ==
  \E t \in TaskIds : /\ t[1] = g /\ tasks[t].status = "running" /\ tasks[t].kind # "code"
                     /\ tasks[t].chain[Len(tasks[t].chain)] = w
NotifyTeammate(g, w) ==
  /\ \E t \in TaskIds : t[1] = g /\ t[2] = "t" /\ tasks[t].run = "working"
  /\ ~ActiveTeammate(g, w)
  /\ mail' = [mail EXCEPT ![g] = @ \cup {w}]
  /\ UNCHANGED <<registry, tasks, taskRows, outcomes, acpActive>>

(* The process dies and boots: registries and runs are gone, rows stay,    *)
(* and the boot sweep marks the running rows that are a day old.           *)
Restart(old) ==
  /\ \E g \in Registries : registry[g] = "live"
  /\ old \subseteq {n \in 1..MaxTask : taskRows[n].status = "running"}
  /\ registry' = [g \in Registries |-> IF registry[g] = "free" THEN "free" ELSE "lost"]
  /\ tasks' = [t \in TaskIds |-> Ended(t, "over", "lost")]
  /\ taskRows' = [n \in 1..MaxTask |-> IF n \in old THEN [taskRows[n] EXCEPT !.status = "killed"]
                                       ELSE taskRows[n]]
  /\ acpActive' = 0 /\ mail' = [g \in Registries |-> {}]
  /\ UNCHANGED outcomes

TasksNext ==
  \/ \E g \in Registries : \/ NewThreadEntry(g) \/ ForgetThreadEntry(g)
                           \/ CodeAgent(g) \/ TurnStopped(g)
                           \/ \E w \in TeamWorkers : NotifyTeammate(g, w)
                           \/ \E t \in TaskIds : EvictTerminal(g, t)
                           \/ \E w \in TeamWorkers, c \in TaskIds \cup {NoTask} :
                                \/ Spawn(g, c, w)
                                \/ \E k \in {"delegate", "handoff"} : Delegate(g, c, w, k)
  \/ \E t \in TaskIds : \/ TaskTimeout(t) \/ RunnerStarts(t) \/ SpawnReports(t)
                        \/ \E ok \in BOOLEAN : \/ DelegateEnds(t, ok) \/ CodeEnds(t, ok)
                                               \/ SpawnSettles(t, ok)
  \/ \E old \in SUBSET (1..MaxTask) : Restart(old)

(* Timers fire, a runner honours its aborted signal, and what follows an   *)
(* end in the same function is reached.                                    *)
RunnerEnds(t) == \E ok \in BOOLEAN : SpawnSettles(t, ok) \/ DelegateEnds(t, ok) \/ CodeEnds(t, ok)
TasksFairness ==
  \A t \in TaskIds : /\ WF_taskVars(TaskTimeout(t))
                     /\ WF_taskVars(tasks[t].abort # "no" /\ RunnerEnds(t))
                     /\ WF_taskVars(SpawnReports(t))

-----------------------------------------------------------------------------
(* Every admitted task stands at the end of a chain without a loop, no     *)
(* deeper than the limit: what delegation can cost is bounded although     *)
(* workers delegate to each other.                                         *)
ChainSound ==
  \A t \in TaskIds : LET ch == tasks[t].chain IN
    Len(ch) <= MaxDepth /\ \A i, j \in DOMAIN ch : ch[i] = ch[j] => i = j

(* The leader hears at most once of the end of a detached task, and never  *)
(* while the registry still shows it running.                              *)
OneOutcomeEvent ==
  \A t \in TaskIds : /\ outcomes[t] <= 1
                     /\ outcomes[t] = 1 => tasks[t].status \in Terminal \cup {"evicted", "lost"}

(* A task's own row is settled before its news is out, so that a crash in  *)
(* between cannot leave a reported task running in the table.              *)
RowSettledBeforeNews ==
  \A t \in TaskIds : (t[2] = "t" /\ outcomes[t] = 1
                      /\ taskRows[RowKey(t)].owner = t) => taskRows[RowKey(t)].status # "running"

(* A stop reaches the whole tree: no delegated run goes on unaborted below *)
(* a caller whose signal is aborted, one delegated after the stop included. *)
StopReachesBelow ==
  \A t \in TaskIds : (InFlight(t) /\ \E c \in tasks[t].linked : tasks[c].abort # "no")
                       => tasks[t].abort # "no"

(* The slot counter is the number of coding agents running: a slot lost on *)
(* an error path would in the end refuse every coding agent.               *)
SlotsMatchAgents ==
  acpActive = Cardinality({t \in TaskIds : tasks[t].kind = "code" /\ InFlight(t)})

(* Every run ends: by itself, by its ceiling, or with the process. *)
RunsEnd == \A t \in TaskIds : InFlight(t) ~> ~InFlight(t)

(* recordBackgroundTask counts on unique ids: the outcome in a row is that *)
(* of the task the row was made for.                                       *)
RowOutcomeIsOwners ==
  \A n \in 1..MaxTask : taskRows[n].by # NoTask => taskRows[n].by = taskRows[n].owner
=============================================================================
