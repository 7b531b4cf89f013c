--------------------------------- MODULE Skills ---------------------------------
(***************************************************************************)
(* The life of one skill name on disk (team/src/harness/review,            *)
(* team/src/tools/skill-manage.ts, handler/extraction-runner.ts,           *)
(* gateway/src/commands/handlers/skills.ts, cli/src/ops/skill-command.ts). *)
(* Its directory may stand in the active, the optional and the proposed    *)
(* tree, flat or under a category; its lessons are bullets of SKILL.md;    *)
(* its usage record carries the curator's verdict and, for the gate skill, *)
(* the trial of the last lessons.  Four parties change them: the agent's   *)
(* skill_manage tool, the extraction that runs when a session closes, the  *)
(* user's slash commands and the user's terminal.  The tool and the        *)
(* extraction read a file, await, and write it back.                       *)
(***************************************************************************)
EXTENDS Naturals, Sequences, FiniteSets, SequenceFilter

CONSTANTS
    Lessons,       \* bullets that are ever learned
    MaxWork,       \* bound: versions authored and lessons learned, together
    MaxLessonLines,\* MAX_LESSONS_PER_SKILL
    StaleAfter,    \* STALE_AFTER_DAYS, in ticks of the day clock
    ArchiveAfter,  \* ARCHIVE_AFTER_DAYS
    ExtractorKnows \* the extractor proposes no name that is active already

ASSUME SkillBounds == {MaxLessonLines, ArchiveAfter} \subseteq Nat

VARIABLES
    trees,    \* tree -> the skill directories of this name: content id, layout, author
    bullets,  \* "## Lessons Learned" of the active file, oldest first
    usage,    \* the record in .skill-state.json
    pens,     \* the write each of the two asynchronous writers is in the middle of
    stage,    \* where the extraction stands
    signals,  \* skill-proposals.jsonl
    evalOf,   \* the directory `proposed promote` moved to active for its second run
    authored, \* how many versions were authored and lessons learned; the id of the last version
    dropped,  \* history: what the last step's command deleted
    unread,   \* history: days since the agent last read the skill
    swept     \* history: what the curator archived last: the directories, and for how long unread
skillVars == <<trees, bullets, usage, pens, stage, signals, evalOf, authored, dropped, unread, swept>>

Trees == {"active", "optional", "proposed"}
Layouts == {"flat", "grouped"}
Writers == {"tool", "extract"}
NoLesson == "none"
PenIdle == [doing |-> "none", tree |-> "active", c |-> [id |-> 0, lay |-> "flat", by |-> "agent"],
         base |-> <<>>, add |-> NoLesson, saw |-> {}]
NoContent == PenIdle.c
Unrecorded == [at |-> "none", pinned |-> FALSE, agent |-> FALSE, idle |-> 0, trial |-> NoLesson, rejected |-> {}]

SkillsInit ==
    /\ trees \in {[t \in Trees |-> IF t = "active" THEN own ELSE {}] : own \in {{}, {[NoContent EXCEPT !.by = "hand"]}}}
    /\ bullets = <<>> /\ usage = Unrecorded /\ pens = [p \in Writers |-> PenIdle]
    /\ stage = "idle" /\ signals = {} /\ evalOf = NoContent /\ authored = 0 /\ dropped = {}
    /\ unread = 0 /\ swept = {}

--------------------------------------------------------------------------------
(* The usage record: a record that is missing is made, and its age counts   *)
(* from then.                                                               *)
Recorded == IF usage.at = "none" THEN [Unrecorded EXCEPT !.at = "active"] ELSE usage
Patched == [Recorded EXCEPT !.at = IF @ = "stale" THEN "active" ELSE @]
AgentMade == [Recorded EXCEPT !.agent = TRUE, !.at = "active"]
ViewedLate == Patched

Viewed == [Patched EXCEPT !.idle = 0]
(* The agent reads the skill; an archived one is not in its catalog.        *)
SkillRead ==
    /\ trees["active"] # {} /\ usage.at # "archived"
    /\ usage' = Viewed /\ unread' = 0
    /\ UNCHANGED <<trees, bullets, pens, stage, signals, evalOf, authored, swept>>
(* skill_manage archive, pin and unpin. *)
ToolSets(rec) ==
    /\ pens["tool"] = PenIdle
    /\ rec \in {[Recorded EXCEPT !.at = "archived"]} \cup {[Recorded EXCEPT !.pinned = b] : b \in BOOLEAN}
    /\ usage' = rec
    /\ UNCHANGED <<trees, bullets, pens, stage, signals, evalOf, authored, unread, swept>>
DayPasses ==
    /\ usage.at # "none" /\ usage.idle < ArchiveAfter
    /\ usage' = [usage EXCEPT !.idle = @ + 1] /\ unread' = unread + 1
    /\ UNCHANGED <<trees, bullets, pens, stage, signals, evalOf, authored, swept>>

--------------------------------------------------------------------------------
(* writeSkillFile: refuses a name that stands anywhere in the tree, then    *)
(* awaits mkdir, write and rename.                                          *)
NextContent(lay, by) == [id |-> authored + 1, lay |-> lay, by |-> by]
WriteBegins(p, t, lay) ==
    /\ pens[p] = PenIdle /\ authored < MaxWork
    /\ trees[t] = {}
    /\ pens' = [pens EXCEPT ![p] = [PenIdle EXCEPT !.doing = "write", !.tree = t, !.c = NextContent(lay, "agent")]]
    /\ authored' = authored + 1
    /\ UNCHANGED <<trees, bullets, usage, signals, evalOf, unread, swept>>
Beside(t, c) == {d \in trees[t] : d.lay # c.lay} \cup {c}
WriteEnds(p) ==
    /\ pens[p].doing = "write"
    /\ trees' = [trees EXCEPT ![pens[p].tree] = Beside(pens[p].tree, pens[p].c)]
    /\ bullets' = IF pens[p].tree = "active" THEN <<>> ELSE bullets
    /\ pens' = [pens EXCEPT ![p] = PenIdle]
    /\ UNCHANGED <<signals, evalOf, authored, unread, swept>>

(* skill_manage create: what needs review goes to the proposed tree.        *)
ToolCreates(t, lay) == t \in {"active", "proposed"} /\ WriteBegins("tool", t, lay) /\ UNCHANGED stage
ToolCreated ==
    /\ WriteEnds("tool")
    /\ usage' = IF pens["tool"].tree = "active" THEN AgentMade ELSE usage
    /\ UNCHANGED stage

--------------------------------------------------------------------------------
(* appendLessonsToSkill: the rejected lessons are filtered, the file is     *)
(* read and, after an await, written with each lesson once, the newest      *)
(* MAX_LESSONS_PER_SKILL of them.                                           *)
FreshAll(l) == TRUE
Fresh(l) == l \notin usage.rejected
Without(base, l) == Filter(base, Lessons \ {l})
Merged(base, l) ==
    LET all == Append(Without(base, l), l)
    IN IF Len(all) > MaxLessonLines THEN SubSeq(all, Len(all) - MaxLessonLines + 1, Len(all)) ELSE all
AppendBegins(p, l) ==
    /\ pens[p] = PenIdle /\ authored < MaxWork /\ authored' = authored + 1
    /\ Fresh(l) /\ trees["active"] # {}
    /\ pens' = [pens EXCEPT ![p] = [PenIdle EXCEPT !.doing = "append", !.base = bullets, !.add = l, !.saw = usage.rejected]]
    /\ UNCHANGED <<trees, bullets, usage, evalOf, unread, swept>>
(* The rename fails when the directory is gone. *)
AppendEnds(p, rec) ==
    /\ pens[p].doing = "append"
    /\ IF trees["active"] = {} THEN UNCHANGED <<bullets, usage>>
       ELSE bullets' = Merged(pens[p].base, pens[p].add) /\ usage' = rec
    /\ pens' = [pens EXCEPT ![p] = PenIdle]
    /\ UNCHANGED <<trees, stage, evalOf, authored, unread, swept>>
(* The tool starts a trial of what it added to the gate skill, unless one   *)
(* runs or the lesson was rejected while the file was written.              *)
Tried(l) == [Patched EXCEPT !.trial = IF @ = NoLesson /\ Fresh(l) THEN l ELSE @]
ToolAppends(l) == AppendBegins("tool", l) /\ UNCHANGED <<stage, signals>>
ToolAppended == AppendEnds("tool", Tried(pens["tool"].add)) /\ UNCHANGED signals
(* patchSkillFile by the tool: find a bullet, replace it by nothing. *)
ToolPatches(l) ==
    /\ pens["tool"] = PenIdle /\ trees["active"] # {} /\ \E i \in DOMAIN bullets : bullets[i] = l
    /\ pens' = [pens EXCEPT !["tool"] = [PenIdle EXCEPT !.doing = "patch", !.base = bullets, !.add = l, !.saw = usage.rejected]]
    /\ UNCHANGED <<trees, bullets, usage, stage, signals, evalOf, authored, unread, swept>>
ToolPatched ==
    /\ pens["tool"].doing = "patch"
    /\ IF trees["active"] = {} THEN UNCHANGED <<bullets, usage>>
       ELSE bullets' = Without(pens["tool"].base, pens["tool"].add) /\ usage' = Patched
    /\ pens' = [pens EXCEPT !["tool"] = PenIdle]
    /\ UNCHANGED <<trees, stage, signals, evalOf, authored, unread, swept>>

--------------------------------------------------------------------------------
(* runSessionExtraction: the proposal, the lessons, the curator, the        *)
(* validation of the trial, and the drain of the detected signals.          *)
ExtractProposes(t, lay) ==
    /\ stage = "idle" /\ t \in {"active", "proposed"}
    /\ ExtractorKnows => trees["active"] = {}
    /\ WriteBegins("extract", t, lay) /\ stage' = "proposed"
(* Whichever tree it wrote, the record is marked.                           *)
ExtractProposed ==
    /\ stage = "proposed" /\ WriteEnds("extract")
    /\ usage' = AgentMade
    /\ stage' = "lessons"
ExtractStarts ==
    /\ stage = "idle" /\ stage' = "lessons"
    /\ UNCHANGED <<trees, bullets, usage, pens, signals, evalOf, authored, unread, swept>>
ExtractAppends(l) == stage = "lessons" /\ AppendBegins("extract", l) /\ stage' = "lessons" /\ UNCHANGED signals
ExtractAppended == stage = "lessons" /\ AppendEnds("extract", Patched) /\ UNCHANGED signals

(* The curator looks only at directories directly under skills/.            *)
Curable == usage.agent /\ ~usage.pinned /\ \E c \in trees["active"] : c.lay = "flat"
CuratedState ==
    CASE Curable /\ usage.at = "stale" /\ usage.idle >= ArchiveAfter -> "archived"
      [] Curable /\ usage.at = "active" /\ usage.idle >= StaleAfter -> "stale"
      [] OTHER -> usage.at
Curates ==
    /\ stage = "lessons" /\ pens["extract"] = PenIdle
    /\ usage' = [usage EXCEPT !.at = CuratedState]
    /\ swept' = IF CuratedState = "archived" /\ usage.at # "archived"
                THEN {[dirs |-> trees["active"], unread |-> unread]} ELSE {}
    /\ stage' = "validate"
    /\ UNCHANGED <<trees, bullets, pens, signals, evalOf, authored, unread>>
(* validatePendingEdits: too young, or it did not hurt, or it is reverted.  *)
TrialStays(rec) ==
    /\ stage = "validate" /\ pens["extract"] = PenIdle
    /\ rec \in {usage, [usage EXCEPT !.trial = NoLesson]}
    /\ usage' = rec /\ stage' = "drain"
    /\ UNCHANGED <<trees, bullets, pens, signals, evalOf, authored, unread, swept>>
TrialReverts ==
    /\ stage = "validate" /\ pens["extract"] = PenIdle /\ usage.trial # NoLesson
    /\ pens' = [pens EXCEPT !["extract"] = [PenIdle EXCEPT !.doing = "revert", !.base = bullets, !.add = usage.trial]]
    /\ UNCHANGED <<trees, bullets, usage, stage, signals, evalOf, authored, unread, swept>>
(* A bullet that is not found is reported and rejected all the same.        *)
TrialReverted ==
    /\ pens["extract"].doing = "revert"
    /\ bullets' = IF trees["active"] = {} \/ Without(pens["extract"].base, pens["extract"].add) = pens["extract"].base
                  THEN bullets ELSE Without(pens["extract"].base, pens["extract"].add)
    /\ usage' = [usage EXCEPT !.rejected = @ \cup {pens["extract"].add}, !.trial = NoLesson]
    /\ pens' = [pens EXCEPT !["extract"] = PenIdle] /\ stage' = "drain"
    /\ UNCHANGED <<trees, signals, evalOf, authored, unread, swept>>

(* The signal detector's interceptor appends to the JSONL file; the drain   *)
(* reads it, applies each signal, then renames the whole file away.         *)
SignalFound(l) ==
    /\ l \notin signals /\ authored < MaxWork /\ authored' = authored + 1
    /\ signals' = signals \cup {l}
    /\ UNCHANGED <<trees, bullets, usage, pens, stage, evalOf, unread, swept>>
DrainAppends(l) == stage = "drain" /\ l \in signals /\ AppendBegins("extract", l) /\ stage' = "drained" /\ UNCHANGED signals
DrainAppended == stage = "drained" /\ AppendEnds("extract", usage) /\ UNCHANGED signals
DrainCreates ==
    /\ stage = "drain" /\ signals # {} /\ WriteBegins("extract", "proposed", "flat") /\ stage' = "creating"
DrainCreated == stage = "creating" /\ WriteEnds("extract") /\ stage' = "drained" /\ UNCHANGED usage
DrainEnds ==
    /\ stage \in {"drain", "drained"} /\ pens["extract"] = PenIdle
    /\ signals' = {} /\ stage' = "idle"
    /\ UNCHANGED <<trees, bullets, usage, pens, evalOf, authored, unread, swept>>

--------------------------------------------------------------------------------
(* The user: flopsy skill install from the optional tree (a copy) or from a *)
(* path or URL, refused when the name is active anywhere.                   *)
InstallAlways == TRUE
FoundIn(t) == trees[t] # {}   \* findSkillPath: in either layout
InstallAllowed == ~FoundIn("active")
Installs(c) ==
    /\ InstallAllowed
    /\ c \in trees["optional"] \cup {NextContent(l, "hand") : l \in IF authored < MaxWork THEN Layouts ELSE {}}
    /\ trees' = [trees EXCEPT !["active"] = Beside("active", c)]
    /\ authored' = IF c.id > authored THEN c.id ELSE authored
    /\ bullets' = <<>>
    /\ UNCHANGED <<usage, pens, stage, signals, evalOf, unread, swept>>
(* flopsy skill uninstall: to the optional tree; deleted with --purge or    *)
(* when a copy stands there.                                                *)
Uninstalls(c, purge) ==
    /\ c \in trees["active"]
    /\ LET stays == ~purge /\ \A d \in trees["optional"] : d.lay # c.lay
       IN /\ trees' = [trees EXCEPT !["active"] = @ \ {c}, !["optional"] = IF stays THEN @ \cup {c} ELSE @]
          /\ dropped' = IF stays THEN {} ELSE {c}
    /\ bullets' = <<>>
    /\ UNCHANGED <<usage, pens, stage, signals, evalOf, authored, unread, swept>>
(* /skills approve, and `skill proposed accept`, which finds flat ones only. *)
Approves(c) ==
    /\ c \in trees["proposed"] /\ trees["active"] = {}
    /\ trees' = [trees EXCEPT !["proposed"] = @ \ {c}, !["active"] = {c}]
    /\ bullets' = <<>>
    /\ UNCHANGED <<usage, pens, stage, signals, evalOf, authored, unread, swept>>
Rejects(c) ==
    /\ c \in trees["proposed"]
    /\ trees' = [trees EXCEPT !["proposed"] = @ \ {c}]
    /\ dropped' = {c}
    /\ UNCHANGED <<bullets, usage, pens, stage, signals, evalOf, authored, unread, swept>>
(* `skill proposed promote`: a flat proposal is moved to active for the     *)
(* second run of its evals, unless that very directory is there.            *)
EvalBegins(c) ==
    /\ evalOf = NoContent /\ c \in trees["proposed"] /\ c.lay = "flat"
    /\ \A d \in trees["active"] : d.lay # c.lay
    /\ trees' = [trees EXCEPT !["proposed"] = @ \ {c}, !["active"] = @ \cup {c}]
    /\ evalOf' = c
    /\ UNCHANGED <<bullets, usage, pens, stage, signals, authored, unread, swept>>
(* It stays, or is moved back; the rename fails onto a directory that has   *)
(* appeared meanwhile, and moves whatever now stands at the active path.    *)
Reverted(there) ==
    IF there = {} \/ \E d \in trees["proposed"] : d.lay = evalOf.lay THEN trees
    ELSE [trees EXCEPT !["active"] = @ \ there, !["proposed"] = @ \cup there]
(* A run of the evals is the set of assertions that pass; the skill stays   *)
(* when no assertion that passed without it fails with it and enough more   *)
(* pass.  The first run is over before EvalBegins.                          *)
EvalRuns == SUBSET (1..2)
Promotes(without, with, threshold) ==
    without \subseteq with /\ Cardinality(with) >= Cardinality(without) + threshold
EvalVerdicts == {Promotes(a, b, t) : a \in EvalRuns, b \in EvalRuns, t \in 0..2}
EvalEnds(passes) ==
    /\ evalOf # NoContent
    /\ trees' = IF passes THEN trees ELSE Reverted({d \in trees["active"] : d.lay = evalOf.lay})
    /\ evalOf' = NoContent
    /\ UNCHANGED <<bullets, usage, pens, stage, signals, authored, unread, swept>>

\* The steps by which the user deletes nothing.
DeletesNothing ==
    \/ SkillRead \/ DayPasses
    \/ \E r \in [at : {"active", "stale", "archived"}, pinned : BOOLEAN, agent : {Recorded.agent}, idle : {Recorded.idle},
                 trial : {Recorded.trial}, rejected : {Recorded.rejected}] : ToolSets(r)
    \/ \E t \in Trees, lay \in Layouts : ToolCreates(t, lay) \/ ExtractProposes(t, lay)
    \/ ToolCreated \/ ToolAppended \/ ToolPatched \/ ExtractProposed \/ ExtractStarts \/ ExtractAppended \/ Curates
    \/ \E l \in Lessons : ToolAppends(l) \/ ToolPatches(l) \/ ExtractAppends(l) \/ SignalFound(l) \/ DrainAppends(l)
    \/ \E b \in BOOLEAN : TrialStays(IF b THEN [usage EXCEPT !.trial = NoLesson] ELSE usage)
    \/ TrialReverts \/ TrialReverted \/ DrainAppended \/ DrainCreates \/ DrainCreated \/ DrainEnds
    \/ \E lay \in Layouts : Installs(NextContent(lay, "hand"))
    \/ \E c \in trees["optional"] : Installs(c)
    \/ \E c \in trees["proposed"] : Approves(c) \/ EvalBegins(c)
    \/ \E b \in EvalVerdicts : EvalEnds(b)
SkillsNext ==
    \/ DeletesNothing /\ dropped' = {}
    \/ \E c \in trees["active"], b \in BOOLEAN : Uninstalls(c, b)
    \/ \E c \in trees["proposed"] : Rejects(c)

--------------------------------------------------------------------------------
Held == trees["active"] \cup trees["optional"] \cup trees["proposed"]

(* No skill the user has vanishes except by a command that deletes it: a    *)
(* directory leaves the disk only for a writer that had found the name free *)
(* before that directory was made.                                          *)
SkillKept ==
    [][\A c \in Held \ Held' : c \in dropped' \/ \E p \in Writers : pens[p].doing = "write" /\ pens[p].c.lay = c.lay]_skillVars

InFile(l) == \E i \in DOMAIN bullets : bullets[i] = l

(* A lesson whose trial hurt engagement does not come back once it is out,  *)
(* except from a writer that had read the list of rejections before the     *)
(* verdict or the file while the lesson stood in it (skill-lessons.ts,      *)
(* skill-writer.ts).                                                        *)
RejectedStaysOut ==
    [][\A l \in usage.rejected : ~InFile(l) /\ InFile(l)' =>
          \E p \in Writers :
            /\ pens[p].doing # "none" /\ pens'[p] = PenIdle
            /\ l \notin pens[p].saw \/ \E i \in DOMAIN pens[p].base : pens[p].base[i] = l]_skillVars

(* The curator archives only what nobody has read for the whole period.     *)
ArchivedUnread == \A s \in swept : s.unread >= ArchiveAfter

(* What the curator sweeps into the archive was written by the agent:       *)
(* docs/skills.md:73, "hand-authored skills are never auto-archived".  It   *)
(* is not so: a proposal that is written beside a hand-authored skill of    *)
(* the same name marks the name as agent-created, and the curator goes by   *)
(* the name alone (extraction-runner.ts:118-124, skill-curator.ts:98-121).  *)
HandAuthoredStays == \A s \in swept : \E c \in s.dirs : c.by = "agent"
================================================================================
