----------------------------- MODULE ConfigReload -----------------------------
(***************************************************************************)
(* flopsy.json5 while the gateway runs: the CLI commands that edit it by   *)
(* reading the whole file, changing one path and renaming a temporary file *)
(* over it (config, channel, team, model and personality commands), hand   *)
(* edits that may not parse, and the gateway's ConfigReloader, which polls *)
(* the file, debounces, diffs what it loads against its current config and *)
(* runs a handler for every changed path that has a hot rule.              *)
(*                                                                         *)
(* A configuration gives each path 0 or 1.  The paths stand for the kinds  *)
(* of rule: "level" (logging), "channel" (channels.*.enabled), "job" (a    *)
(* schedule's toggle) and "port" (restart required).  The reload of MCP    *)
(* servers is the subject of Connectors.                                   *)
(***************************************************************************)
EXTENDS Naturals, FiniteSets

CONSTANTS
    Editors,     \* CLI processes editing the file
    CfgPaths,    \* the paths considered, a subset of the four kinds
    MaxReloads,  \* reloads in flight at a time
    MaxCfgEdits  \* edits begun, hand edits included

VARIABLES
    cfgFile,     \* flopsy.json5: a configuration, or Torn
    cfgTmp,      \* flopsy.json5.tmp, or Absent
    editor,      \* each editor: where it is and the configuration it is about to write
    unseen,      \* the file was modified since watchFile's last poll
    debounce,    \* a reload is scheduled
    current,     \* ConfigReloader.current
    reloads,     \* doReload calls awaiting a handler
    applied,     \* what the gateway runs with, per path
    cfgEdits
cfgVars == <<cfgFile, cfgTmp, editor, unseen, debounce, current, reloads, applied, cfgEdits>>

Configs == [CfgPaths -> {0, 1}]
Torn == [torn |-> TRUE]
Absent == [absent |-> TRUE]
EditorIdle == [at |-> "idle"]

CfgInit ==
    /\ cfgFile = [p \in CfgPaths |-> 1] /\ cfgTmp = Absent
    /\ editor = [e \in Editors |-> EditorIdle]
    /\ unseen = FALSE /\ debounce = FALSE /\ current = cfgFile
    /\ reloads = {} /\ applied = cfgFile /\ cfgEdits = 0

--------------------------------------------------------------------------------
(* An editor: read and parse the file, change one path, write the temporary  *)
(* file (torn until the write is done), rename it over the file.  Every      *)
(* command uses the same temporary name.                                     *)
SetByPath(config, p) == [config EXCEPT ![p] = 1 - @]
EditorReads(e, p) ==
    /\ editor[e] = EditorIdle /\ cfgEdits < MaxCfgEdits /\ cfgFile # Torn
    /\ editor' = [editor EXCEPT ![e] = [at |-> "read", cfg |-> SetByPath(cfgFile, p)]]
    /\ cfgEdits' = cfgEdits + 1
    /\ UNCHANGED <<cfgFile, cfgTmp, unseen, debounce, current, reloads, applied>>
EditorOpensTmp(e) ==
    /\ editor[e].at = "read"
    /\ editor' = [editor EXCEPT ![e].at = "open"] /\ cfgTmp' = Torn
    /\ UNCHANGED <<cfgFile, unseen, debounce, current, reloads, applied, cfgEdits>>
EditorFillsTmp(e) ==
    /\ editor[e].at = "open"
    /\ editor' = [editor EXCEPT ![e].at = "full"]
    /\ cfgTmp' = IF cfgTmp = Absent THEN Absent ELSE editor[e].cfg
    /\ IF cfgTmp = Absent THEN cfgFile' = editor[e].cfg /\ unseen' = TRUE ELSE UNCHANGED <<cfgFile, unseen>>
    /\ UNCHANGED <<debounce, current, reloads, applied, cfgEdits>>
\* A rename that finds no temporary file ends the command with an error.
EditorRenames(e) ==
    /\ editor[e].at = "full"
    /\ editor' = [editor EXCEPT ![e] = EditorIdle] /\ cfgTmp' = Absent
    /\ IF cfgTmp = Absent THEN UNCHANGED <<cfgFile, unseen>> ELSE cfgFile' = cfgTmp /\ unseen' = TRUE
    /\ UNCHANGED <<debounce, current, reloads, applied, cfgEdits>>
\* `config edit`: $EDITOR writes in place what the user typed, valid or not.
HandEdits(c) ==
    /\ cfgEdits < MaxCfgEdits /\ cfgFile # c
    /\ cfgFile' = c /\ unseen' = TRUE /\ cfgEdits' = cfgEdits + 1
    /\ UNCHANGED <<cfgTmp, editor, debounce, current, reloads, applied>>

--------------------------------------------------------------------------------
(* The reloader.                                                             *)
WatchPolls ==
    /\ unseen /\ unseen' = FALSE /\ debounce' = TRUE
    /\ UNCHANGED <<cfgFile, cfgTmp, editor, current, reloads, applied, cfgEdits>>

\* loadConfig after clearConfigCache: the file, not the cached configuration.
LoadedCached == current
Loaded == cfgFile
RuleMode(p) == IF p = "port" THEN "restart" ELSE "hot"
Changed(old, new) == {p \in CfgPaths : old[p] # new[p]}
HotPlan(old, new) == {p \in Changed(old, new) : RuleMode(p) = "hot"}

\* The debounced timer: a file that does not load leaves everything as it is, and
\* one without a hot change is taken at once.
DebouncedReload ==
    /\ debounce /\ Cardinality(reloads) < MaxReloads
    /\ debounce' = FALSE
    /\ LET next == Loaded
       IN \/ next = Torn /\ UNCHANGED <<current, reloads>>
          \/ /\ next # Torn /\ HotPlan(current, next) = {}
             /\ current' = next /\ UNCHANGED reloads
          \/ /\ next # Torn /\ HotPlan(current, next) # {}
             /\ reloads' = reloads \cup {[next |-> next, todo |-> HotPlan(current, next)]}
             /\ UNCHANGED current
    /\ UNCHANGED <<cfgFile, cfgTmp, editor, unseen, applied, cfgEdits>>

\* The handlers: logging and schedule toggles take the new value; a channel is only
\* ever disconnected.
AppliedBy(p, next) ==
    [applied EXCEPT ![p] = IF p = "channel" /\ next[p] = 1 THEN @ ELSE next[p]]
\* One handler has run; a handler's failure is logged and the next one runs.
HandlerDone(r, p) ==
    /\ p \in r.todo
    /\ \/ applied' = AppliedBy(p, r.next)
       \/ p = "channel" /\ UNCHANGED applied
    /\ IF r.todo = {p}
       THEN reloads' = reloads \ {r} /\ current' = r.next
       ELSE reloads' = (reloads \ {r}) \cup {[r EXCEPT !.todo = @ \ {p}]} /\ UNCHANGED current
    /\ UNCHANGED <<cfgFile, cfgTmp, editor, unseen, debounce, cfgEdits>>

\* `flopsy gateway restart`.
Restarts ==
    /\ cfgFile # Torn /\ (applied # cfgFile \/ reloads # {})
    /\ applied' = cfgFile /\ current' = cfgFile /\ unseen' = FALSE
    /\ debounce' = FALSE /\ reloads' = {}
    /\ UNCHANGED <<cfgFile, cfgTmp, editor, cfgEdits>>

CfgNext ==
    \/ \E e \in Editors : \/ \E p \in CfgPaths : EditorReads(e, p)
                          \/ EditorOpensTmp(e) \/ EditorFillsTmp(e) \/ EditorRenames(e)
    \/ \E c \in Configs \cup {Torn} : HandEdits(c)
    \/ WatchPolls \/ DebouncedReload \/ Restarts
    \/ \E r \in reloads : \E p \in r.todo : HandlerDone(r, p)
CfgSpec == CfgInit /\ [][CfgNext]_cfgVars

--------------------------------------------------------------------------------
(* Hot paths are applied live: once the file's last change was seen and no   *)
(* reload is due or under way, the gateway runs with the file's log level    *)
(* and schedule toggles, whatever edits, torn files and restarts came before *)
(* (config-reload.ts, doReload; config-command.ts, "hot = applied live").    *)
HotSettles ==
    cfgFile # Torn /\ ~unseen /\ ~debounce /\ reloads = {} =>
        \A p \in CfgPaths \cap {"level", "job"} : applied[p] = cfgFile[p]

================================================================================
