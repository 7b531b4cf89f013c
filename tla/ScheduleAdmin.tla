----------------------------- MODULE ScheduleAdmin -----------------------------
(***************************************************************************)
(* Who edits the schedules: the manage_schedule tool of a chat turn, the   *)
(* management server's routes (the `flopsy cron` and `flopsy heartbeat`    *)
(* commands post to them), and the slash commands' facade, all ending in   *)
(* the engine's operations on the rows of the schedule table and on the    *)
(* live registrations (gateway/src/proactive/engine.ts).  A row is known   *)
(* by its id; a live heartbeat by its name, a cron job by its id and a     *)
(* webhook route by its path: `key` below.  A schedule's prompt is inline, *)
(* or a file of the workspace: a copy named after the schedule, or, when   *)
(* the given path already lies in the prompt directory, that file itself.  *)
(*                                                                         *)
(* Copying a prompt file is awaited, so a create or an update of one       *)
(* editor interleaves with everything another does.  The unlink of a       *)
(* removed schedule's prompt is handed to the file system at once and is   *)
(* part of the removal.  What fires do is the subject of Schedules.        *)
(***************************************************************************)
EXTENDS Naturals, Sequences, FiniteSets, SequencesExt, SequenceFilter

CONSTANTS
    Offers,      \* what editors ask for: [kind, id, key, src]
    SkillNames,  \* skills that can be bound to a schedule
    Canonical,   \* sources that lie in the prompt directory
    Seeded,      \* canonical prompts that a start of the gateway restores
    System,      \* the built-in heartbeats, ensured at every start
    FreshIds,    \* creations use ids that no row and no built-in has
    BootEdits,   \* edits that can reach the engine before its triggers start
    MaxStarts    \* starts of the gateway

\* Names and paths are kept apart: two rows with one live key are not considered, nor
\* an id of two kinds (the generated ones name theirs).  The built-ins' prompts are
\* among those a start restores.
ASSUME AdminAssumption ==
    /\ \A o \in Offers : o.kind \in {"heartbeat", "cron", "webhook"}
    /\ \A o, p \in Offers : o.kind = p.kind /\ o.key = p.key => o.id = p.id
    /\ \A o, p \in Offers : o.id = p.id => o.kind = p.kind
    /\ \A o \in Offers : o.kind = "cron" => o.key = o.id
    /\ System \subseteq Offers /\ Seeded \subseteq Canonical
    /\ \A o \in System : o.kind = "heartbeat" /\ o.src \in Seeded \cup {"inline"}

VARIABLES
    schedRows,   \* proactive_runtime_schedules: id -> row
    schedLive,   \* the registrations: <<kind, key>> -> what was registered
    prompts,     \* files in the prompt directory
    engineAt,    \* "down", "loading" (no triggers yet), "cron" (cron starting) or "up"
    queued,      \* pendingRegistrations
    agentEdit,   \* a manage_schedule call awaiting its copy, or NoEdit
    cliEdit,     \* a request or a CLI skill edit under way, or NoEdit
    starts
adminVars == <<schedRows, schedLive, prompts, engineAt, queued, agentEdit, cliEdit, starts>>

SchedIds == {o.id : o \in Offers}
NoRow == [kind |-> "none"]
NoEdit == [op |-> "none"]
Place(r) == <<r.kind, r.key>>

\* copyPromptFile: the file a source becomes, and whether that needs a copy.
Copies(src) == src # "inline" /\ src \notin Canonical
CopyNamedBySource(o) == <<o.kind, o.src, "">>
CopyName(o) == <<o.kind, o.src, IF Copies(o.src) THEN o.id ELSE "">>
Landed(o) == IF Copies(o.src) THEN prompts \cup {CopyName(o)} ELSE prompts

\* Files as the workspace has them: no schedule's copy.
Originals(sources) == {<<k, c, "">> : k \in {"heartbeat", "cron"}, c \in sources}

\* The row a create writes, and the registration made of a row.
NewRow(o) == [kind |-> o.kind, id |-> o.id, key |-> o.key, file |-> CopyName(o), skills |-> {}, on |-> TRUE]
Entry(r) == [kind |-> r.kind, id |-> r.id, key |-> r.key, file |-> r.file, skills |-> r.skills]
RowOf(i) == schedRows[i]
HasRow(i) == schedRows[i] # NoRow

AdminInit ==
    /\ schedRows = [i \in SchedIds |-> NoRow] /\ schedLive = {} /\ queued = <<>>
    /\ prompts = Originals(Canonical) /\ engineAt = "down" /\ starts = 0
    /\ agentEdit = NoEdit /\ cliEdit = NoEdit

--------------------------------------------------------------------------------
(* The live side.  Heartbeats and cron jobs have their trigger, webhooks the *)
(* router, each from its own moment of the start.                            *)
Served(kind) ==
    CASE kind = "heartbeat" -> engineAt \in {"cron", "up"}
      [] kind = "cron" -> engineAt \in {"cron", "up"}
      [] OTHER -> engineAt = "up"
At(live, place) == {e \in live : Place(e) = place}
Without(live, place) == live \ At(live, place)

\* addHeartbeat keeps the entry a name has; addJob and addRuntimeRoute replace it.
Registered(live, e) ==
    IF e.kind = "heartbeat" /\ At(live, Place(e)) # {} THEN live
    ELSE Without(live, Place(e)) \cup {e}
Register(r) ==
    IF Served(r.kind)
    THEN schedLive' = Registered(schedLive, Entry(r)) /\ UNCHANGED queued
    ELSE queued' = Append(queued, Entry(r)) /\ UNCHANGED schedLive

\* loadRuntimeHeartbeats, loadRuntimeCronJobs, loadRuntimeWebhooks.
EnabledOf(rows, kinds) == {rows[i] : i \in {j \in SchedIds : rows[j] # NoRow /\ rows[j].on /\ rows[j].kind \in kinds}}

\* HeartbeatTrigger.start and CronTrigger.start, and a reload: the rows not live yet.
Unregistered(live, rows) == {Entry(r) : r \in {q \in rows : At(live, Place(q)) = {}}}

\* flushPendingRegistrations: registered in the order of the queue, so of one place the
\* first heartbeat stays, unless one is live, and the last cron job or route.
Stays(live, k, drained) ==
    LET rivals == {j \in drained \ {k} : Place(queued[j]) = Place(queued[k])}
    IN IF queued[k].kind = "heartbeat"
       THEN At(live, Place(queued[k])) = {} /\ \A j \in rivals : k < j
       ELSE \A j \in rivals : j < k
FlushOf(live, kinds) ==
    LET drained == {k \in DOMAIN queued : queued[k].kind \in kinds}
        stay == {queued[k] : k \in {j \in drained : Stays(live, j, drained)}}
    IN {e \in live : \A f \in stay : Place(f) # Place(e)} \cup stay
Unflushed(kinds) == Filter(queued, {e \in Range(queued) : e.kind \notin kinds})

--------------------------------------------------------------------------------
(* The gateway starts: the workspace is seeded and the engine made, its      *)
(* state loads, the built-in heartbeats are ensured and the triggers take    *)
(* the enabled rows, then the router gets the webhooks.                      *)
EngineLoads ==
    /\ engineAt = "down" /\ starts < MaxStarts
    /\ engineAt' = "loading" /\ starts' = starts + 1
    /\ prompts' = prompts \cup Originals(Seeded)
    /\ UNCHANGED <<schedRows, schedLive, queued, agentEdit, cliEdit>>
WithSystem == [i \in SchedIds |-> IF \E o \in System : o.id = i /\ ~HasRow(i)
                                  THEN NewRow(CHOOSE o \in System : o.id = i) ELSE RowOf(i)]
TriggersStart ==
    /\ engineAt = "loading" /\ engineAt' = "cron"
    /\ schedRows' = WithSystem
    /\ schedLive' = FlushOf(Unregistered({}, EnabledOf(WithSystem, {"heartbeat", "cron"})), {"heartbeat"})
    /\ queued' = Unflushed({"heartbeat"})
    /\ UNCHANGED <<prompts, agentEdit, cliEdit, starts>>
RouterWired ==
    /\ engineAt = "cron" /\ engineAt' = "up"
    /\ LET live == FlushOf(schedLive, {"cron", "webhook"})
           routes == {Entry(r) : r \in EnabledOf(schedRows, {"webhook"})}
       IN schedLive' = {e \in live : \A w \in routes : Place(w) # Place(e)} \cup routes
    /\ queued' = <<>>
    /\ UNCHANGED <<schedRows, prompts, agentEdit, cliEdit, starts>>
EngineStops ==
    /\ engineAt # "down" /\ engineAt' = "down"
    /\ schedLive' = {} /\ queued' = <<>> /\ agentEdit' = NoEdit
    /\ cliEdit' = IF cliEdit.op = "skills" THEN cliEdit ELSE NoEdit
    /\ UNCHANGED <<schedRows, prompts, starts>>

--------------------------------------------------------------------------------
(* Creating: the prompt is copied, the row inserted unless its id has one,   *)
(* and the schedule registered, or queued where its trigger is not there.    *)
Reached(op) == engineAt = "up" \/ (engineAt # "down" /\ op \in BootEdits)
SourceThere(o) == o.src \in Canonical => CopyName(o) \in prompts
IdFree(i) ==
    /\ ~HasRow(i) /\ \A b \in System : b.id # i
    /\ \A e \in {agentEdit, cliEdit} : e.op = "create" => e.offer.id # i
InsertOrIgnore(r) == IF HasRow(r.id) THEN schedRows ELSE [schedRows EXCEPT ![r.id] = r]
Creates(o) ==
    /\ prompts' = Landed(o)
    /\ schedRows' = InsertOrIgnore(NewRow(o))
    /\ Register(NewRow(o))
Asked(o) == Reached("create") /\ o \in Offers /\ SourceThere(o) /\ (FreshIds => IdFree(o.id))
CreateAtOnce(o) ==
    /\ Asked(o) /\ ~Copies(o.src) /\ Creates(o)
    /\ UNCHANGED <<engineAt, agentEdit, cliEdit, starts>>
CreateBegins(o) ==
    /\ Asked(o) /\ Copies(o.src)
    /\ \/ agentEdit = NoEdit /\ agentEdit' = [op |-> "create", offer |-> o] /\ UNCHANGED cliEdit
       \/ cliEdit = NoEdit /\ cliEdit' = [op |-> "create", offer |-> o] /\ UNCHANGED agentEdit
    /\ UNCHANGED <<schedRows, schedLive, prompts, engineAt, queued, starts>>
Answered(e) ==
    \/ agentEdit = e /\ agentEdit' = NoEdit /\ UNCHANGED cliEdit
    \/ cliEdit = e /\ cliEdit' = NoEdit /\ UNCHANGED agentEdit
CopyLands ==
    \E e \in {agentEdit, cliEdit} :
        /\ e.op = "create" /\ Creates(e.offer) /\ Answered(e)
        /\ UNCHANGED <<engineAt, starts>>
CopyFails ==
    \E e \in {agentEdit, cliEdit} :
        /\ e.op \in {"create", "update"} /\ Answered(e)
        /\ UNCHANGED <<schedRows, schedLive, prompts, engineAt, queued, starts>>

--------------------------------------------------------------------------------
(* replaceRuntimeSchedule, from the tool's update: the row as read before    *)
(* the copy, patched; the name the row has now leaves, the new one enters.   *)
ReplacedUnder(r, next) == IF next.on THEN Registered(schedLive, Entry(next)) ELSE schedLive
Replaced(r, next) ==
    LET left == Without(schedLive, Place(r))
    IN IF next.on THEN Registered(left, Entry(next)) ELSE left
Replaces(o, read) ==
    IF HasRow(o.id)
    THEN LET r == RowOf(o.id)
             next == [read EXCEPT !.key = IF r.kind = "heartbeat" THEN o.key ELSE @,
                                  !.file = CopyName(o), !.on = r.on]
         IN /\ schedRows' = [schedRows EXCEPT ![o.id] = next]
            /\ schedLive' = IF Served(r.kind) THEN Replaced(r, next) ELSE schedLive
    ELSE UNCHANGED <<schedRows, schedLive>>
UpdateAsked(o) ==
    /\ Reached("update") /\ agentEdit = NoEdit /\ HasRow(o.id)
    /\ RowOf(o.id).kind # "webhook" /\ SourceThere(o)
UpdateAtOnce(o) ==
    /\ UpdateAsked(o) /\ ~Copies(o.src) /\ Replaces(o, RowOf(o.id))
    /\ UNCHANGED <<prompts, engineAt, queued, agentEdit, cliEdit, starts>>
UpdateBegins(o) ==
    /\ UpdateAsked(o) /\ Copies(o.src)
    /\ agentEdit' = [op |-> "update", offer |-> o, read |-> RowOf(o.id)]
    /\ UNCHANGED <<schedRows, schedLive, prompts, engineAt, queued, cliEdit, starts>>
UpdateLands ==
    /\ agentEdit.op = "update" /\ agentEdit' = NoEdit
    /\ prompts' = Landed(agentEdit.offer)
    /\ Replaces(agentEdit.offer, agentEdit.read)
    /\ UNCHANGED <<engineAt, queued, cliEdit, starts>>

--------------------------------------------------------------------------------
(* Removing, pausing and resuming.                                           *)
RemoveSchedule(i) ==
    /\ Reached("remove") /\ HasRow(i)
    /\ schedRows' = [schedRows EXCEPT ![i] = NoRow]
    /\ prompts' = prompts \ {RowOf(i).file}
    /\ schedLive' = IF Served(RowOf(i).kind) THEN Without(schedLive, Place(RowOf(i))) ELSE schedLive
    /\ UNCHANGED <<engineAt, queued, agentEdit, cliEdit, starts>>
\* A webhook's row is parsed as a cron job, in vain: its route stays as it is.
SetScheduleEnabled(i, on) ==
    /\ Reached("enable") /\ HasRow(i) /\ RowOf(i).on # on
    /\ schedRows' = [schedRows EXCEPT ![i].on = on]
    /\ schedLive' = IF RowOf(i).kind = "webhook" \/ ~Served(RowOf(i).kind) THEN schedLive
                    ELSE IF on THEN Registered(schedLive, Entry(RowOf(i)))
                    ELSE Without(schedLive, Place(RowOf(i)))
    /\ UNCHANGED <<prompts, engineAt, queued, agentEdit, cliEdit, starts>>

--------------------------------------------------------------------------------
(* Skills.  A slash command reads and writes in one go; the CLI reads the    *)
(* table itself, then posts the whole list.                                  *)
SkillsSet(i, skills) ==
    LET next == [RowOf(i) EXCEPT !.skills = skills]
    IN /\ schedRows' = [schedRows EXCEPT ![i] = next]
       /\ schedLive' = IF Served(next.kind) THEN Replaced(RowOf(i), next) ELSE schedLive
Bindable(i) == HasRow(i) /\ RowOf(i).kind # "webhook"
Toggled(i, s) == IF s \in RowOf(i).skills THEN RowOf(i).skills \ {s} ELSE RowOf(i).skills \cup {s}
SlashSkill(i, s) ==
    /\ Reached("skills") /\ Bindable(i) /\ SkillsSet(i, Toggled(i, s))
    /\ UNCHANGED <<prompts, engineAt, queued, agentEdit, cliEdit, starts>>
CliReadsSkills(i, s) ==
    /\ cliEdit = NoEdit /\ Bindable(i)
    /\ cliEdit' = [op |-> "skills", id |-> i, skills |-> Toggled(i, s)]
    /\ UNCHANGED <<schedRows, schedLive, prompts, engineAt, queued, agentEdit, starts>>
CliPostsSkills ==
    /\ cliEdit.op = "skills" /\ cliEdit' = NoEdit
    /\ IF Reached("skills") /\ Bindable(cliEdit.id) THEN SkillsSet(cliEdit.id, cliEdit.skills)
       ELSE UNCHANGED <<schedRows, schedLive>>
    /\ UNCHANGED <<prompts, engineAt, queued, agentEdit, starts>>

--------------------------------------------------------------------------------
(* reloadSchedules registers the enabled rows that are not live, by name or  *)
(* id, and drops what has no enabled row.                                    *)
ReloadSchedules ==
    /\ engineAt = "up"
    /\ LET rows == EnabledOf(schedRows, {"heartbeat", "cron"})
           kept == {e \in schedLive : e.kind = "webhook" \/ \E r \in rows : Place(r) = Place(e)}
       IN schedLive' = kept \cup Unregistered(kept, rows)
    /\ UNCHANGED <<schedRows, prompts, engineAt, queued, agentEdit, cliEdit, starts>>

AdminNext ==
    \/ EngineLoads \/ TriggersStart \/ RouterWired \/ EngineStops
    \/ \E o \in Offers : CreateAtOnce(o) \/ CreateBegins(o) \/ UpdateAtOnce(o) \/ UpdateBegins(o)
    \/ CopyLands \/ CopyFails \/ UpdateLands
    \/ \E i \in SchedIds : \/ RemoveSchedule(i)
                           \/ \E on \in BOOLEAN : SetScheduleEnabled(i, on)
                           \/ \E s \in SkillNames : SlashSkill(i, s) \/ CliReadsSkills(i, s)
    \/ CliPostsSkills \/ ReloadSchedules
AdminSpec == AdminInit /\ [][AdminNext]_adminVars

--------------------------------------------------------------------------------
(* Once the engine is up, the heartbeats and cron jobs that run are exactly  *)
(* the enabled rows, each with the prompt and skills its row has, and every  *)
(* runtime webhook route is that of a row: however creates, updates with a   *)
(* copy in flight, renames, skill edits and restarts interleave              *)
(* (the operations of engine.ts on runtime schedules).                       *)
LiveMatchesRows ==
    engineAt = "up" =>
        /\ {e \in schedLive : e.kind # "webhook"} = {Entry(r) : r \in EnabledOf(schedRows, {"heartbeat", "cron"})}
        /\ \A e \in schedLive : HasRow(e.id) /\ e = Entry(RowOf(e.id))

(* A schedule's prompt is there when it fires: the file a row names is not   *)
(* deleted with another schedule (prompt-files.ts, "each schedule has a      *)
(* unique file, so delete-on-remove is unambiguous").                        *)
PromptKept ==
    engineAt # "down" => \A i \in SchedIds : HasRow(i) /\ RowOf(i).file[2] # "inline" => RowOf(i).file \in prompts

================================================================================
