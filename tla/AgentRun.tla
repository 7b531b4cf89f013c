------------------------------- MODULE AgentRun -------------------------------
(***************************************************************************)
(* A run of a team agent: the member it is built from, and in the second   *)
(* half of the module the interceptors around its calls.                   *)
(*                                                                         *)
(* What an agent is built with: createTeamMember and buildSystemPrompt of  *)
(* src/src/team/src/factory.ts, called by getOrCreateThread, by the        *)
(* sub-agent factory and by invokeStateless of handler.ts.                 *)
(*                                                                         *)
(* A prompt is made from files that are read through three caches, each    *)
(* with its own age limit: role texts, the skills a worker owns, and the   *)
(* list of workers' outputs.  A file is the number of its last edit and    *)
(* whether it is there; a file that cannot be read counts as absent, as in *)
(* the code.  Tools are their names, a prompt is what was read for it and  *)
(* the tools it tells the agent to call.                                   *)
(***************************************************************************)
EXTENDS Naturals, Sequences, FiniteSets, SequencesExt, SequenceFilter

CONSTANTS
  RosterNames,     \* workers of the team
  RoleTTL,         \* ROLE_DELTA_TTL_MS, in ticks
  OutputsTTL,      \* WORKER_OUTPUTS_TTL_MS
  OwnersTTL,       \* SKILL_OWNERSHIP_TTL_MS
  ToolCap,         \* OPENAI_TOOLS_HARD_CAP
  MaxMemberTime,   \* bound: ticks
  MaxFileEdits     \* bound: edits of the workspace

ASSUME MemberBounds ==
  {RoleTTL, OutputsTTL, OwnersTTL} \subseteq Nat \ {0} /\ {ToolCap, MaxMemberTime} \subseteq Nat

RoleFiles == {"custom", "main", "proactive", "worker"}
MemberFiles == RoleFiles \cup {"outputs", "skills"}
MaxAge == [k \in MemberFiles |-> IF k = "outputs" THEN OutputsTTL
                                 ELSE IF k = "skills" THEN OwnersTTL ELSE RoleTTL]
NotCached == [at |-> 0, v |-> 0, there |-> FALSE, names |-> {}, cached |-> FALSE]
NotBuilt  == [kind |-> "none", at |-> 0, read |-> <<>>, role |-> "none", team |-> FALSE,
              mcp |-> FALSE, skills |-> 0, owners |-> {}]

VARIABLES
  memberNow,   \* the clock
  promptPath,  \* the agents are configured with a prompt file of their own
  memberFiles, \* the workspace: [v, there] by file
  replaced,    \* history: when an edit was replaced, by file and edit
  promptCache, \* roleDeltaCache, workerOutputsCache, skillOwnershipCache
  built,       \* the member built last
  outputsSeen  \* the outputs a turn was last shown: [at, v]

memberVars == <<memberNow, promptPath, memberFiles, replaced, promptCache, built, outputsSeen>>

MembersInit ==
  /\ memberNow = 0 /\ promptPath \in BOOLEAN
  /\ memberFiles = [k \in MemberFiles |-> [v |-> 0, there |-> k # "custom"]]
  /\ replaced = [k \in MemberFiles |-> <<>>]
  /\ promptCache = [k \in MemberFiles |-> NotCached]
  /\ built = NotBuilt /\ outputsSeen = [at |-> 0, v |-> 0]

-----------------------------------------------------------------------------
(* The world: time passes, files are written, replaced and removed.        *)

(* Mutant of CacheAged: a cached entry is good for ever.                        *)
CacheNeverAged(k) == FALSE

(* An entry past its age limit is as good as none: the next read replaces  *)
(* it without a look at it.                                                *)
CacheAged(k) == memberNow + 1 - promptCache[k].at >= MaxAge[k]
MemberTick ==
  /\ memberNow < MaxMemberTime
  /\ memberNow' = memberNow + 1
  /\ promptCache' = [k \in MemberFiles |-> IF CacheAged(k) THEN NotCached ELSE promptCache[k]]
  /\ UNCHANGED <<promptPath, memberFiles, replaced, built, outputsSeen>>

EditsMade == FoldFunction(+, 0, [k \in MemberFiles |-> memberFiles[k].v])
FileEdited(k, there) ==
  /\ memberFiles' = [memberFiles EXCEPT ![k] = [v |-> @.v + 1, there |-> there]]
  /\ replaced' = [replaced EXCEPT ![k] = Append(@, memberNow)]
  /\ UNCHANGED <<memberNow, promptPath, promptCache, built, outputsSeen>>

-----------------------------------------------------------------------------
(* Tools.                                                                  *)

UniversalTools == <<"time", "memory">>
DeclaredTools  == <<"time", "execute_code">>
PreloadedMcp   == <<"mcp1", "mcp2", "mcp3">>
DynamicMcp     == <<"mcp4">>
MainControl ==
  <<"send_message", "send_poll", "ask_user", "react", "spawn_background_task", "delegate_task",
    "search_conversation_history", "connect_service", "skill_manage", "manage_schedule", "plan",
    "code_agent">>
WorkerControl ==
  <<"delegate_task", "spawn_background_task", "handoff_task", "notify_teammate", "skill_manage",
    "plan">>
PROACTIVE_DISABLED_CONTROL_TOOLS ==
  {"delegate_task", "spawn_background_task", "ask_user", "react", "send_poll", "manage_schedule",
   "send_message", "plan", "code_agent"}

(* How a member is asked for: by a conversation, by a proactive fire of    *)
(* its own or on a thread, and by a delegation.                            *)
MemberKinds == {"main", "fire", "fireOnThread", "worker", "research"}
IsMain(kind) == kind \in {"main", "fire", "fireOnThread"}
IsProactive(kind) == kind \in {"fire", "fireOnThread"}

ControlTools(kind) ==
  CASE kind = "fire" -> Filter(MainControl, ToSet(MainControl) \ PROACTIVE_DISABLED_CONTROL_TOOLS)
    [] kind \in {"main", "fireOnThread"} -> MainControl
    [] OTHER -> WorkerControl

(* A name keeps the place of its first tool; no list names a tool twice.   *)
Joined(s, t) == s \o Filter(t, ToSet(t) \ ToSet(s))
ToolNames(kind, mcp) ==
  Joined(Joined(Joined(UniversalTools, DeclaredTools), mcp), ControlTools(kind))

(* Mutant of DynamicTools: what exceeds the cap is dropped.                *)
DynamicUnspilled(kind, mcp) == DynamicMcp

(* The first ToolCap tools are sent with every call; the rest joins the    *)
(* tools that are loaded on demand.                                        *)
StaticTools(kind, mcp) ==
  IF kind = "research" THEN <<>>
  ELSE LET named == ToolNames(kind, mcp)
       IN SubSeq(named, 1, IF Len(named) < ToolCap THEN Len(named) ELSE ToolCap)
DynamicTools(kind, mcp) ==
  IF kind = "research" THEN <<>>
  ELSE LET named == ToolNames(kind, mcp)
           loaded == SubSeq(named, ToolCap + 1, Len(named)) \o DynamicMcp
       IN Filter(loaded, ToSet(loaded) \ ToSet(StaticTools(kind, mcp)))

ToolsOf ==
  [kind \in MemberKinds |-> [preloads \in BOOLEAN |->
     LET mcp == IF preloads THEN PreloadedMcp ELSE <<>>
     IN [static |-> StaticTools(kind, mcp), dynamic |-> DynamicTools(kind, mcp)]]]

-----------------------------------------------------------------------------
(* Reading through a cache.                                                *)

FreshIn(k) == promptCache[k].cached

ReadThrough(k, names) ==
  IF FreshIn(k) THEN promptCache[k]
  ELSE [at |-> memberNow, v |-> memberFiles[k].v, there |-> memberFiles[k].there,
        names |-> IF memberFiles[k].there THEN names ELSE {}, cached |-> TRUE]

(* Mutant of RoleOrder: a fire takes the text of a conversation.           *)
RoleOrderOfMain(kind) ==
  (IF promptPath THEN <<"custom">> ELSE <<>>) \o (IF IsMain(kind) THEN <<"main">> ELSE <<"worker">>)

(* The texts that are tried in turn; the first that is there is taken.     *)
RoleOrder(kind) ==
  (IF promptPath /\ ~IsProactive(kind) /\ kind # "research" THEN <<"custom">> ELSE <<>>)
  \o CASE IsProactive(kind) -> <<"proactive", "main">>
       [] kind = "main" -> <<"main">>
       [] OTHER -> <<"worker">>

RoleTried(kind) ==
  LET order == RoleOrder(kind)
      found == {i \in DOMAIN order : ReadThrough(order[i], {}).there}
  IN IF found = {} THEN order ELSE SubSeq(order, 1, CHOOSE i \in found : \A j \in found : i <= j)
RoleTaken(kind) ==
  LET last == Last(RoleTried(kind)) IN IF ReadThrough(last, {}).there THEN last ELSE "none"

(* Who else is on the team, for the one that is built.                     *)
Roster(kind, self) ==
  CASE kind \in {"fire", "research"} -> {}
    [] kind = "worker" -> RosterNames \ {self}
    [] OTHER -> RosterNames

(* The tools the fixed part of a prompt tells the agent to call: in the    *)
(* sections of AGENTS.md whose gate is open, in the blocks of a main agent *)
(* and of a worker, in the table of the team, and in the text for          *)
(* conversations.                                                          *)
Delegation == {"delegate_task", "spawn_background_task"}
AgentsMdGates ==
  {{"memory"}, {"connect_service"}, {"execute_code"}, Delegation, {"manage_schedule"},
   Delegation \cup {"execute_code"}, {"skill_manage"}, {"write_todos"}}
OpenSections(has) == UNION {g \in AgentsMdGates : g \cap has # {}}
MainBlocks(has) == {"memory", "time", "execute_code"} \cap has
WorkerBlocks(has) ==
  (IF Delegation \cap has # {} THEN Delegation ELSE {}) \cup ({"execute_code", "skill_manage"} \cap has)
ToldTools(kind, has, team, role) ==
  (IF kind = "main" THEN OpenSections(has) ELSE {})
  \cup (IF IsMain(kind) THEN MainBlocks(has) ELSE {})
  \cup (IF kind = "worker" THEN WorkerBlocks(has) ELSE {})
  \cup (IF team THEN Delegation ELSE {})
  \cup (IF role = "main" THEN Delegation \cup {"ask_user"} ELSE {})

(* loadSkillOwnership and loadWorkerOutputs: a directory that cannot be    *)
(* listed gives an empty answer, which is not kept.                        *)
Lists(k) == ~FreshIn(k) /\ memberFiles[k].there
SkillOwners(roster, listed) ==
  IF roster # {} /\ listed THEN ReadThrough("skills", roster)
  ELSE [NotCached EXCEPT !.v = memberFiles["skills"].v]
WorkerOutputs == ReadThrough("outputs", {})

(* createTeamMember.  The owners of skills are read for a team only.       *)
Build(kind, self, preloads, listed) ==
  LET tried  == ToSet(RoleTried(kind))
      roster == Roster(kind, self)
      owners == SkillOwners(roster, listed)
  IN /\ listed \/ (roster # {} /\ Lists("skills"))
     /\ promptCache' = [k \in MemberFiles |->
                          IF k \in tried THEN ReadThrough(k, {})
                          ELSE IF k = "skills" /\ owners.cached THEN owners ELSE promptCache[k]]
     /\ built' = [kind |-> kind, at |-> memberNow, role |-> RoleTaken(kind),
                  read |-> [k \in tried |-> ReadThrough(k, {}).v],
                  team |-> roster # {}, mcp |-> preloads,
                  skills |-> owners.v, owners |-> owners.names]
     /\ UNCHANGED <<memberNow, promptPath, memberFiles, replaced, outputsSeen>>

(* The prompt's last part is made on every turn of a main agent; it lists  *)
(* the workers' outputs.                                                   *)
PromptTurn(listed) ==
  /\ listed \/ Lists("outputs")
  /\ IF listed
     THEN /\ promptCache' = [promptCache EXCEPT !["outputs"] = WorkerOutputs]
          /\ outputsSeen' = [at |-> memberNow, v |-> WorkerOutputs.v]
     ELSE UNCHANGED <<promptCache, outputsSeen>>
  /\ UNCHANGED <<memberNow, promptPath, memberFiles, replaced, built>>

MembersNext ==
  \/ MemberTick
  \/ EditsMade < MaxFileEdits /\ \E k \in MemberFiles, there \in BOOLEAN : FileEdited(k, there)
  \/ \E preloads \in BOOLEAN, listed \in BOOLEAN :
       \/ \E kind \in MemberKinds \ {"worker"} : Build(kind, "main", preloads, listed)
       \/ \E self \in RosterNames : Build("worker", self, preloads, listed)
  \/ \E listed \in BOOLEAN : PromptTurn(listed)

-----------------------------------------------------------------------------
(* An edit of a file that was read for a prompt made at time t was still   *)
(* in force less than the age limit before t.                              *)
InForce(k, v, t) == v < memberFiles[k].v => replaced[k][v + 1] + MaxAge[k] > t

(* No prompt is older than its caches allow: every text that was taken,    *)
(* every text that was skipped because it was missing, the owners of       *)
(* skills and the outputs shown on a turn stood so within their age limit, *)
(* whichever member filled the cache (loadRoleDelta, loadCustomPromptFile, *)
(* loadSkillOwnership, loadWorkerOutputs).                                 *)
PromptFresh ==
  /\ \A k \in DOMAIN built.read : InForce(k, built.read[k], built.at)
  /\ InForce("skills", built.skills, built.at)
  /\ InForce("outputs", outputsSeen.v, outputsSeen.at)

\* The kinds of members whose tools have a name each.
NamedApart ==
  {m \in MemberKinds \X BOOLEAN :
     LET tools == ToolsOf[m[1]][m[2]] IN IsInjective(tools.static \o tools.dynamic)}

(* The fixed part of a prompt speaks of no tool the member is not offered, *)
(* at once or on demand, however many tools its servers add and whatever   *)
(* is stripped for a fire; the exception is a fire that was lent the text  *)
(* for conversations because its own is missing.  No name is offered twice *)
(* and the cap holds (createTeamMember, buildSystemPrompt).                *)
PromptMatchesTools ==
  built # NotBuilt =>
    LET tools == ToolsOf[built.kind][built.mcp]
        lent == built.kind = "fire" /\ built.role = "main" /\ "proactive" \in DOMAIN built.read
    IN /\ lent \/ ToldTools(built.kind, ToSet(tools.static), built.team, built.role)
                    \subseteq ToSet(tools.static \o tools.dynamic)
       /\ <<built.kind, built.mcp>> \in NamedApart /\ Len(tools.static) <= ToolCap

(* The main agent is told of every worker that owns a skill, the only way  *)
(* it can learn of those skills (factory.ts loadSkillOwnership).  It is    *)
(* not: the cache keeps the answer for whichever roster asked first, and a *)
(* worker asks for its peers only.                                         *)
OwnersComplete == built.kind = "main" => built.owners \in {{}, RosterNames}

-----------------------------------------------------------------------------
(***************************************************************************)
(* The interceptors of one team agent: the harness interceptor with the    *)
(* agent-state tracker and the tool-failure rows, the loop guard on tool   *)
(* calls, and the two nudges.  One interceptor object serves every run of  *)
(* its agent; the loop guard and the nudges keep their state in the run's  *)
(* own store.                                                              *)
(***************************************************************************)
CONSTANTS
    HookRuns,       \* runs of the agent
    HookTools,      \* tool calls, one for each name and arguments
    LoopThreshold,  \* toolLoopDedup threshold
    LoopWindow,     \* toolLoopDedup window, at least the threshold
    ReflectAt,      \* reflectionNudge threshold
    LearnAt,        \* userLearningNudge fireOnCall
    RunsOverlap,    \* whether a run may start before the last one ended
    MaxHookCalls    \* bound: tool calls and model calls of a run

ASSUME HooksAssumption == LoopThreshold \in Nat \ {0, 1} /\ LoopWindow \in Nat /\ LoopWindow >= LoopThreshold

VARIABLES
    hookRun,    \* per run, "no", "on" or "over"
    agentId,    \* the interceptor's agentId: the last run that started, or 0
    trackedRuns,    \* the tracker's states, by the run that created them
    recent,     \* the loop guard's entries, per run
    executed,   \* the tool calls that were let through, per run
    inCall,     \* tool calls under way, per run
    quirks,     \* tool_failures: tools with a recorded failure
    reflect,    \* reflection nudge: [count, fired, consumed]
    learn,      \* user-learning nudge: [calls, fired]
    modelCalls,
    threadGone  \* the thread was evicted
hookVars == <<hookRun, agentId, trackedRuns, recent, executed, inCall, quirks, reflect, learn, modelCalls, threadGone>>

HooksInit ==
    /\ hookRun = [r \in HookRuns |-> "no"] /\ agentId = 0 /\ trackedRuns = [r \in HookRuns |-> "none"]
    /\ recent = [r \in HookRuns |-> <<>>] /\ executed = [r \in HookRuns |-> <<>>]
    /\ inCall = [r \in HookRuns |-> {}] /\ quirks = {}
    /\ reflect = [r \in HookRuns |-> [count |-> 0, fired |-> FALSE, consumed |-> FALSE]]
    /\ learn = [r \in HookRuns |-> [calls |-> 0, fired |-> FALSE]]
    /\ modelCalls = [r \in HookRuns |-> 0] /\ threadGone = FALSE

-----------------------------------------------------------------------------
(* onAgentStart(): a fresh agentId over the old one, and a tracker entry     *)
(* with its one-second interval.                                             *)
StartTracking(r) == [trackedRuns EXCEPT ![r] = "running"]
RunStarts(r) ==
    /\ hookRun[r] = "no" /\ ~threadGone
    /\ RunsOverlap \/ \A q \in HookRuns : hookRun[q] # "on"
    /\ hookRun' = [hookRun EXCEPT ![r] = "on"] /\ agentId' = r /\ trackedRuns' = StartTracking(r)
    /\ UNCHANGED <<recent, executed, inCall, quirks, reflect, learn, modelCalls, threadGone>>

(* The two beforeModelCall() nudges, each once in a run. *)
ReflectionTold(r) == [reflect EXCEPT ![r].consumed = @ \/ reflect[r].fired]
LearningTold(r) ==
    IF learn[r].fired THEN learn
    ELSE [learn EXCEPT ![r] = [calls |-> @.calls + 1, fired |-> @.calls + 1 >= LearnAt]]
ModelCalled(r) ==
    /\ hookRun[r] = "on" /\ modelCalls[r] < MaxHookCalls /\ modelCalls' = [modelCalls EXCEPT ![r] = @ + 1]
    /\ reflect' = ReflectionTold(r) /\ learn' = LearningTold(r)
    /\ UNCHANGED <<hookRun, agentId, trackedRuns, recent, executed, inCall, quirks, threadGone>>

(* beforeToolCall() of the loop guard: the call is noted, blocked or not. *)
Consecutive(s, t) ==
    1 + Cardinality({i \in 1..Len(s) : \A k \in i..Len(s) : s[k] = t})
WindowOf(s) == IF Len(s) > LoopWindow THEN SubSeq(s, Len(s) - LoopWindow + 1, Len(s)) ELSE s
BlockForgets(r, t) ==
    IF Consecutive(recent[r], t) >= LoopThreshold THEN <<>> ELSE WindowOf(Append(recent[r], t))
Noted(r, t) == WindowOf(Append(recent[r], t))
ToolCalled(r, t) ==
    /\ hookRun[r] = "on" /\ t \notin inCall[r] /\ Len(executed[r]) < MaxHookCalls
    /\ recent' = [recent EXCEPT ![r] = Noted(r, t)]
    /\ IF Consecutive(recent[r], t) >= LoopThreshold
       THEN UNCHANGED <<executed, inCall>>
       ELSE /\ executed' = [executed EXCEPT ![r] = Append(@, t)]
            /\ inCall' = [inCall EXCEPT ![r] = @ \cup {t}]
    /\ UNCHANGED <<hookRun, agentId, trackedRuns, quirks, reflect, learn, modelCalls, threadGone>>

(* afterToolCall(): a failure is counted against the tool, a success clears  *)
(* what was; the reflection nudge counts.  The tools node then marks the     *)
(* agent the interceptor knows of as busy.                                   *)
RecordToolFailure(t) == quirks \cup {t}
ClearToolFailures(t) == quirks \ {t}
ReflectionCounts(r) ==
    [reflect EXCEPT ![r].count = @ + 1, ![r].fired = @ \/ reflect[r].count + 1 = ReflectAt]
ToolReturns(r, t, ok) ==
    /\ t \in inCall[r] /\ inCall' = [inCall EXCEPT ![r] = @ \ {t}]
    /\ quirks' = IF ok THEN ClearToolFailures(t) ELSE RecordToolFailure(t)
    /\ reflect' = ReflectionCounts(r)
    /\ UNCHANGED <<hookRun, agentId, trackedRuns, recent, executed, learn, modelCalls, threadGone>>
UpdateActivity(r) ==
    /\ hookRun[r] = "on" /\ inCall[r] = {} /\ executed[r] # <<>>
    /\ trackedRuns' = [q \in HookRuns |-> IF q = agentId /\ trackedRuns[q] # "none" THEN "busy" ELSE trackedRuns[q]]
    /\ UNCHANGED <<hookRun, agentId, recent, executed, inCall, quirks, reflect, learn, modelCalls, threadGone>>

(* onAgentEnd(): finishTracking() of the agentId of the moment. *)
FinishOnlyRunning(q) == IF q = agentId /\ trackedRuns[q] = "running" THEN "completed" ELSE trackedRuns[q]
Finish(q) == IF q = agentId /\ trackedRuns[q] # "none" THEN "completed" ELSE trackedRuns[q]
RunFinishes(r) ==
    /\ hookRun[r] = "on" /\ inCall[r] = {} /\ hookRun' = [hookRun EXCEPT ![r] = "over"]
    /\ trackedRuns' = [q \in HookRuns |-> Finish(q)]
    /\ UNCHANGED <<agentId, recent, executed, inCall, quirks, reflect, learn, modelCalls, threadGone>>

(* cleanup() of the tracker, and flush() of an evicted thread. *)
CleanupRuns ==
    /\ \E q \in HookRuns : trackedRuns[q] = "completed"
    /\ trackedRuns' = [q \in HookRuns |-> IF trackedRuns[q] = "completed" THEN "none" ELSE trackedRuns[q]]
    /\ UNCHANGED <<hookRun, agentId, recent, executed, inCall, quirks, reflect, learn, modelCalls, threadGone>>
FlushHooks ==
    /\ ~threadGone /\ \A q \in HookRuns : hookRun[q] # "on"
    /\ threadGone' = TRUE /\ trackedRuns' = [q \in HookRuns |-> IF q = agentId THEN "none" ELSE trackedRuns[q]]
    /\ UNCHANGED <<hookRun, agentId, recent, executed, inCall, quirks, reflect, learn, modelCalls>>

HooksNext ==
    \/ \E r \in HookRuns : RunStarts(r) \/ ModelCalled(r) \/ UpdateActivity(r) \/ RunFinishes(r)
    \/ \E r \in HookRuns, t \in HookTools : ToolCalled(r, t) \/ \E ok \in BOOLEAN : ToolReturns(r, t, ok)
    \/ CleanupRuns \/ FlushHooks

-----------------------------------------------------------------------------
(* A model in a loop is stopped: no run gets the same call through the guard *)
(* LoopThreshold times in a row, however often it retries the blocked call   *)
(* (tool-loop-dedup.ts beforeToolCall).                                      *)
LoopBounded ==
    \A r \in HookRuns : \A i \in 1..Len(executed[r]) :
        Consecutive(SubSeq(executed[r], 1, i - 1), executed[r][i]) < LoopThreshold

(* An evicted thread leaves no agent that is still "running" in the tracker, *)
(* with an interval that nothing clears (harness-interceptor.ts flush,       *)
(* agent-state.ts cleanup, which keeps running agents).                      *)
EvictionLeavesNothing ==
    threadGone => \A q \in HookRuns : trackedRuns[q] \notin {"running", "busy"}
=============================================================================
