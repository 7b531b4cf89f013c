----------------------------- MODULE NotesVault -----------------------------
(***************************************************************************)
(* The Obsidian server: src/src/mcp-servers/obsidian.ts.  Its tools work   *)
(* on Markdown files of a directory, and a main agent issues independent   *)
(* tool calls in parallel, so the calls interleave at every await.  A note *)
(* is the set of pieces of text in it, each the call that wrote it; a note *)
(* that a writeFile has opened and not yet filled is empty.                *)
(***************************************************************************)
EXTENDS Naturals, FiniteSets

CONSTANTS
  NoteNames,     \* notes of the vault
  NoteCalls,     \* tool calls, each made once
  NoteReadFails  \* a file that is there may fail to open (descriptors run out)

NoNote == [there |-> FALSE, text |-> {}, inode |-> 0]
NoNoteCall == [op |-> "none", at |-> "idle", note |-> "", seen |-> {}, before |-> {},
               alone |-> TRUE, inode |-> 0]
NoteOps == {"create", "update", "append", "delete", "list", "search"}

VARIABLES
  notes,      \* the files
  noteCalls,  \* per call: the tool, the await it is at, what it read
  inodes,     \* files created so far
  noteLosses  \* history: calls that dropped text which stood when they began, unasked

noteVars == <<notes, noteCalls, inodes, noteLosses>>

NotesInit ==
  /\ notes \in [NoteNames -> {NoNote, [there |-> TRUE, text |-> {"old"}, inode |-> 0]}]
  /\ inodes = 0
  /\ noteCalls = [c \in NoteCalls |-> NoNoteCall]
  /\ noteLosses = {}

There == {n \in NoteNames : notes[n].there}
Busy(c) == noteCalls[c].at \notin {"idle", "ok", "failed"}
Writes(c) == noteCalls[c].op \in {"create", "update", "append", "delete"}

NoteStep(c, at) == noteCalls' = [noteCalls EXCEPT ![c].at = at]

-----------------------------------------------------------------------------
(* A call begins; calls of one note that run at once are not alone.        *)
NoteCallBegins(c, op, n) ==
  LET rivals == {d \in NoteCalls : Busy(d) /\ Writes(d) /\ noteCalls[d].note = n}
  IN /\ noteCalls[c] = NoNoteCall
     /\ noteCalls' = [d \in NoteCalls |->
          IF d = c THEN [op |-> op, at |-> "look", note |-> n, seen |-> {},
                         before |-> notes[n].text, alone |-> rivals = {},
                         inode |-> 0]
          ELSE IF d \in rivals THEN [noteCalls[d] EXCEPT !.alone = FALSE]
          ELSE noteCalls[d]]
     /\ UNCHANGED <<notes, inodes, noteLosses>>

(* Mutant of CreateNote: fs.access is not asked.                           *)
CreateNoteBlind(c) == NoteStep(c, "write")

(* createNote refuses a note that is there.                                *)
CreateNote(c) == NoteStep(c, IF noteCalls[c].note \in There THEN "failed" ELSE "write")

(* updateNote and deleteNote refuse a note that is not.                    *)
UpdateNote(c) == NoteStep(c, IF noteCalls[c].note \in There THEN "write" ELSE "failed")
DeleteNote(c) == NoteStep(c, IF noteCalls[c].note \in There THEN "unlink" ELSE "failed")

(* Mutant of AppendToNote: the note is not read first.                     *)
AppendToNoteBlind(c) == NoteStep(c, "write")

(* appendToNote reads what is there and writes the whole note back; a read *)
(* that fails, for whatever reason, counts as a note that is not there.    *)
AppendToNote(c) ==
  \E read \in {notes[noteCalls[c].note].text} \cup (IF NoteReadFails THEN {{}} ELSE {}) :
    noteCalls' = [noteCalls EXCEPT ![c].at = "write", ![c].seen = read]

(* listNotes and searchNotes walk the directory, then look at each file.   *)
WalkDir(c) == noteCalls' = [noteCalls EXCEPT ![c].at = "stat", ![c].seen = There]

NoteLooks(c) ==
  /\ noteCalls[c].at = "look"
  /\ CASE noteCalls[c].op = "create" -> CreateNote(c)
       [] noteCalls[c].op = "update" -> UpdateNote(c)
       [] noteCalls[c].op = "append" -> AppendToNote(c)
       [] noteCalls[c].op = "delete" -> DeleteNote(c)
       [] OTHER -> WalkDir(c)
  /\ UNCHANGED <<notes, inodes, noteLosses>>

(* walkDir's stat of a file that went away fails the whole listing; a read *)
(* of a search that fails is skipped.                                      *)
NoteStats(c) ==
  /\ noteCalls[c].at = "stat"
  /\ NoteStep(c, IF noteCalls[c].seen \subseteq There
                 THEN IF noteCalls[c].op = "search" THEN "read" ELSE "ok"
                 ELSE "failed")
  /\ UNCHANGED <<notes, inodes, noteLosses>>
NoteReads(c) ==
  /\ noteCalls[c].at = "read"
  /\ \E found \in {noteCalls[c].seen, noteCalls[c].seen \cap There} :
       noteCalls' = [noteCalls EXCEPT ![c].at = "ok", ![c].seen = found]
  /\ UNCHANGED <<notes, inodes, noteLosses>>

(* fs.writeFile opens the file, truncated or new, and then fills it.  A    *)
(* file that was unlinked in between takes the text with it, and two fills *)
(* of one file may leave the text of both.                                 *)
NoteOpened(c) ==
  LET n == noteCalls[c].note
      inode == IF n \in There THEN notes[n].inode ELSE inodes + 1
  IN /\ noteCalls[c].at = "write"
     /\ notes' = [notes EXCEPT ![n] = [there |-> TRUE, text |-> {}, inode |-> inode]]
     /\ inodes' = IF n \in There THEN inodes ELSE inodes + 1
     /\ noteCalls' = [noteCalls EXCEPT ![c].at = "fill", ![c].inode = inode]
     /\ UNCHANGED noteLosses
NoteFilled(c) ==
  LET n == noteCalls[c].note
      text == noteCalls[c].seen \cup {c}
  IN /\ noteCalls[c].at = "fill"
     /\ IF n \in There /\ notes[n].inode = noteCalls[c].inode
        THEN \E all \in {text, text \cup notes[n].text} : notes' = [notes EXCEPT ![n].text = all]
        ELSE UNCHANGED notes
     /\ noteLosses' = IF /\ noteCalls[c].op # "update" /\ noteCalls[c].alone
                         /\ ~(noteCalls[c].before \subseteq notes'[n].text)
                      THEN noteLosses \cup {c} ELSE noteLosses
     /\ NoteStep(c, "ok")
     /\ UNCHANGED inodes

NoteUnlinked(c) ==
  /\ noteCalls[c].at = "unlink"
  /\ IF noteCalls[c].note \in There
     THEN notes' = [notes EXCEPT ![noteCalls[c].note] = NoNote] /\ NoteStep(c, "ok")
     ELSE UNCHANGED notes /\ NoteStep(c, "failed")
  /\ UNCHANGED <<inodes, noteLosses>>

(* The server is stopped: its calls end where they are.                    *)
NotesServerStops ==
  /\ \E c \in NoteCalls : Busy(c)
  /\ noteCalls' = [c \in NoteCalls |-> IF Busy(c) THEN [noteCalls[c] EXCEPT !.at = "failed"] ELSE noteCalls[c]]
  /\ UNCHANGED <<notes, inodes, noteLosses>>

NotesNext ==
  \/ NotesServerStops
  \/ \E c \in NoteCalls :
       \/ \E op \in NoteOps, n \in NoteNames : NoteCallBegins(c, op, n)
       \/ NoteLooks(c) \/ NoteStats(c) \/ NoteReads(c)
       \/ NoteOpened(c) \/ NoteFilled(c) \/ NoteUnlinked(c)

-----------------------------------------------------------------------------
(* Creating and appending keep what a note held: a call that no other call *)
(* on the note overlaps drops none of it, whatever was cut short before it *)
(* (createNote, appendToNote).  Overlapping calls may, and so may an       *)
(* append whose read fails (NoteReadFails).                                *)
NoteTextKept == noteLosses = {}
=============================================================================
