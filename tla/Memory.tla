--------------------------------- MODULE Memory ---------------------------------
(***************************************************************************)
(* The file memory of the team (team/src/memory): one of the two entry     *)
(* files, the `memory` tool that edits it under a lock file, the facts a   *)
(* session's extraction ingests without the lock, and the index the        *)
(* plugins keep behind the file and smart_remember edits directly.  The    *)
(* lock is a file made with O_EXCL; a waiter that finds it older than      *)
(* LOCK_STALE_MS deletes it; the holder calls the plugins before it lets   *)
(* go, and then deletes whatever lock file is there.                       *)
(***************************************************************************)
EXTENDS Naturals, FiniteSets

CONSTANTS
    MemCalls,    \* calls of the memory tool, in any turn or process
    MemKeys,     \* keys of "Key: Value" entries
    MemVals,     \* values
    MaxEntries,  \* the character limit, counted in entries
    HooksSlow,   \* the plugins' calls may take longer than LOCK_STALE_MS
    IngestRuns,  \* a session is extracted meanwhile
    SmartWrites, \* the agent uses smart_remember
    MemCrash     \* the process may die once

VARIABLES
    file,     \* the entries of MEMORY.md
    index,    \* the contents of the plugin's index
    lockFile, \* the call whose lock file exists, or NoCall
    oldLock,  \* that file is older than LOCK_STALE_MS
    memCalls, \* each call: where it is, what it was asked, what it will write
    ingest,   \* the extraction's ingest(): where it is and what it will write
    lost,     \* history: entries of tool calls that another tool call's write took, unnamed
    clobbered,\* history: entries lost between a tool call and the ingest
    unindexed \* history: a plugin failed
memVars == <<file, index, lockFile, oldLock, memCalls, ingest, lost, clobbered, unindexed>>

NoCall == "nobody"
ASSUME MemAssumption == NoCall \notin MemCalls
FreeForm == "free"
Entries == (MemKeys \cup {FreeForm}) \X MemVals
Ask(op, k, new, old) == [op |-> op, key |-> k, new |-> new, old |-> old]
NoEntry == <<FreeForm, 0>>
NoAsk == Ask("none", FreeForm, NoEntry, NoEntry)
Asks ==
    (UNION {{Ask("add", FreeForm, e, NoEntry), Ask("remove", FreeForm, NoEntry, e)} : e \in Entries})
    \cup {Ask("upsert", k, e, NoEntry) : k \in MemKeys, e \in Entries}
    \cup {Ask("replace", FreeForm, e, old) : e \in Entries, old \in Entries}

MemInit ==
    /\ file = {} /\ index = {} /\ lockFile = NoCall /\ oldLock = FALSE
    /\ memCalls = [c \in MemCalls |-> [at |-> "idle", ask |-> NoAsk, to |-> {}]]
    /\ ingest = [at |-> "idle", to |-> {}]
    /\ lost = {} /\ clobbered = {} /\ unindexed = FALSE

--------------------------------------------------------------------------------
(* What each action makes of the entries it read; the entries themselves    *)
(* when it refuses.                                                         *)
Fits(entries) == Cardinality(entries) <= MaxEntries
Keyed(entries, k) == {e \in entries : e[1] = k}
Added(entries, e) ==
    IF e \in entries \/ (e[1] # FreeForm /\ Keyed(entries, e[1]) # {}) THEN entries ELSE entries \cup {e}
(* upsert: content that brings a key of its own keeps it, whatever the slot. *)
SlotEntry(k, e) == IF e[1] = FreeForm THEN <<k, e[2]>> ELSE e
Upserted(entries, k, e) ==
    IF Keyed(entries, k) = {} THEN entries \cup {SlotEntry(k, e)}
    ELSE (entries \ {CHOOSE s \in Keyed(entries, k) : TRUE}) \cup {SlotEntry(k, e)}
Replaced(entries, old, e) == IF old \in entries THEN (entries \ {old}) \cup {e} ELSE entries
Edited(entries, a) ==
    CASE a.op = "add" -> Added(entries, a.new)
      [] a.op = "upsert" -> Upserted(entries, a.key, a.new)
      [] a.op = "replace" -> Replaced(entries, a.old, a.new)
      [] a.op = "remove" -> entries \ {a.old}
Projected(entries, a) == IF Fits(Edited(entries, a)) THEN Edited(entries, a) ELSE entries

--------------------------------------------------------------------------------
(* A tool call: it waits for the lock, reads, writes, tells the plugins.    *)
CallBegins(c, a) ==
    /\ memCalls[c].at = "idle"
    /\ memCalls' = [memCalls EXCEPT ![c] = [at |-> "wait", ask |-> a, to |-> {}]]
    /\ UNCHANGED <<file, index, lockFile, oldLock, ingest, lost, clobbered, unindexed>>
Locks(c) ==
    /\ memCalls[c].at = "wait" /\ lockFile = NoCall
    /\ lockFile' = c /\ oldLock' = FALSE
    /\ memCalls' = [memCalls EXCEPT ![c].at = IF Projected(file, memCalls[c].ask) = file THEN "refuse" ELSE "hold",
                                    ![c].to = Projected(file, memCalls[c].ask)]
    /\ UNCHANGED <<file, index, ingest, lost, clobbered, unindexed>>
(* stat finds the file old; the unlink that follows takes whatever is there. *)
StaleEarly == lockFile # NoCall
Stale == lockFile # NoCall /\ oldLock
SeesStale(c) ==
    /\ memCalls[c].at = "wait" /\ Stale
    /\ memCalls' = [memCalls EXCEPT ![c].at = "breaking"]
    /\ UNCHANGED <<file, index, lockFile, oldLock, ingest, lost, clobbered, unindexed>>
Breaks(c) ==
    /\ memCalls[c].at = "breaking"
    /\ lockFile' = NoCall /\ oldLock' = FALSE
    /\ memCalls' = [memCalls EXCEPT ![c].at = "wait"]
    /\ UNCHANGED <<file, index, ingest, lost, clobbered, unindexed>>
GivesUpLock(c) ==
    /\ memCalls[c].at = "wait" /\ lockFile # NoCall
    /\ memCalls' = [memCalls EXCEPT ![c].at = "done"]
    /\ UNCHANGED <<file, index, lockFile, oldLock, ingest, lost, clobbered, unindexed>>
Named(a) == IF a.op \in {"replace", "remove"} THEN {a.old} ELSE IF a.op = "upsert" THEN Keyed(Entries, a.key) ELSE {}
WritesFile(c) ==
    /\ memCalls[c].at = "hold"
    /\ file' = memCalls[c].to
    /\ LET gone == (file \ memCalls[c].to) \ Named(memCalls[c].ask)
       IN lost' = lost \cup (gone \ ingest.to) /\ clobbered' = clobbered \cup (gone \cap ingest.to)
    /\ memCalls' = [memCalls EXCEPT ![c].at = "hooks"]
    /\ UNCHANGED <<index, lockFile, oldLock, ingest, unindexed>>
(* A refusal writes nothing and calls nobody; either way the lock file that *)
(* is there is deleted.                                                     *)
Mirrored(a) ==
    CASE a.op \in {"add", "replace"} -> index \cup {a.new}
      [] a.op = "upsert" -> index \cup {SlotEntry(a.key, a.new)}
      [] a.op = "remove" -> index \ {a.old}
HooksDone(c, works) ==
    /\ memCalls[c].at = "hooks"
    /\ index' = IF works THEN Mirrored(memCalls[c].ask) ELSE index
    /\ unindexed' = (unindexed \/ ~works)
    /\ lockFile' = NoCall /\ oldLock' = FALSE
    /\ memCalls' = [memCalls EXCEPT ![c].at = "done"]
    /\ UNCHANGED <<file, ingest, lost, clobbered>>
Refuses(c) ==
    /\ memCalls[c].at = "refuse"
    /\ lockFile' = NoCall /\ oldLock' = FALSE
    /\ memCalls' = [memCalls EXCEPT ![c].at = "done"]
    /\ UNCHANGED <<file, index, ingest, lost, clobbered, unindexed>>
LockAges ==
    /\ lockFile # NoCall /\ ~oldLock
    /\ \/ memCalls[lockFile].at = "dead"
       \/ HooksSlow /\ memCalls[lockFile].at = "hooks"
    /\ oldLock' = TRUE
    /\ UNCHANGED <<file, index, lockFile, memCalls, ingest, lost, clobbered, unindexed>>
ProcessDies ==
    /\ MemCrash /\ \A c \in MemCalls : memCalls[c].at # "dead"
    /\ \E c \in MemCalls : memCalls[c].at # "idle"
    /\ memCalls' = [c \in MemCalls |-> IF memCalls[c].at \in {"idle", "done"} THEN memCalls[c] ELSE [memCalls[c] EXCEPT !.at = "dead"]]
    /\ ingest' = [ingest EXCEPT !.at = "done"]
    /\ UNCHANGED <<file, index, lockFile, oldLock, lost, clobbered, unindexed>>

--------------------------------------------------------------------------------
(* ingest(): the facts of a closed session, read and written with no lock.  *)
IngestReads(e) ==
    /\ IngestRuns /\ ingest.at = "idle" /\ e \notin file /\ Fits(file \cup {e})
    /\ ingest' = [at |-> "writing", to |-> file \cup {e}]
    /\ UNCHANGED <<file, index, lockFile, oldLock, memCalls, lost, clobbered, unindexed>>
IngestWrites ==
    /\ ingest.at = "writing"
    /\ file' = ingest.to /\ clobbered' = clobbered \cup (file \ ingest.to)
    /\ ingest' = [ingest EXCEPT !.at = "done"]
    /\ UNCHANGED <<index, lockFile, oldLock, memCalls, lost, unindexed>>
(* smart_remember edits the index alone. *)
SmartRemembers(e, old) ==
    /\ SmartWrites /\ old \in index \cup {e}
    /\ \E next \in {index \cup {e}, (index \ {old}) \cup {e}, index \ {old}} : index' = next /\ next # index
    /\ UNCHANGED <<file, lockFile, oldLock, memCalls, ingest, lost, clobbered, unindexed>>

MemNext ==
    \/ \E c \in MemCalls : \/ \E a \in Asks : CallBegins(c, a)
                           \/ Locks(c) \/ SeesStale(c) \/ Breaks(c) \/ GivesUpLock(c) \/ WritesFile(c) \/ Refuses(c)
                           \/ \E ok \in BOOLEAN : HooksDone(c, ok)
    \/ LockAges \/ ProcessDies \/ IngestWrites
    \/ \E e \in Entries : IngestReads(e) \/ \E old \in Entries : SmartRemembers(e, old)

--------------------------------------------------------------------------------
(* What one tool call wrote leaves the file only by a call that names it:   *)
(* no tool call's write is based on entries another has since changed.      *)
EntryKept == lost = {}

(* When no call is under way and no indexing failed, every entry of the     *)
(* vector index is an entry of the memory file: vector-plugin.ts:86, "You   *)
(* can rely on it being in sync."  It is not: replace and patch add the new *)
(* text and leave the old one in the index (vector-plugin.ts:102-103).      *)
IndexInSync ==
        (\A c \in MemCalls : memCalls[c].at \in {"idle", "done"}) /\ ~unindexed => index \subseteq file
================================================================================
