------------------------------ MODULE ChatInput ------------------------------
(***************************************************************************)
(* The input editor of `flopsy chat` (cli ui/input): one buffer with a     *)
(* cursor, the history of what was sent, the kill ring, the undo stack,    *)
(* and pastes, which a long or multi-line paste puts aside under a number  *)
(* and shows as a placeholder that is expanded when the message is sent.   *)
(*                                                                         *)
(* The buffer is a sequence of tokens: "c" a run of typed characters,      *)
(* "n" a newline, "b" a backslash, "/" and "/cmd" a command being typed,   *)
(* and a placeholder as two tokens, its head `[Pasted text #id ... to ` and*)
(* its tail `expand]`, since a word kill or a deletion can part them.  One *)
(* deletion stands for the presses that remove a token.  A head carries,   *)
(* beside its id, the paste it was made for: the code does not have that.  *)
(***************************************************************************)
EXTENDS Naturals, Sequences, FiniteSets

CONSTANTS
    MaxKeys,     \* bound: keys and chunks handled
    MaxBuf,      \* bound: tokens in the buffer
    MaxUndo      \* UndoStack.maxDepth

VARIABLES
    ed,          \* state: buf, pos, hist, idx (0 is the line being typed), tmp, hint
    ring,        \* KillRing.ring
    undo,        \* UndoStack.stack
    was,         \* lastKeyWasKill and lastKeyWasYank: "kill", "yank" or "other"
    sel,         \* yankSelStart, yankSelEnd
    pasting,     \* pasteBuf: the paste being received, 0 when null; its timer
    pasted,      \* pastedContents: id -> paste
    pasteNo,     \* pastes made so far
    own,         \* pasteNo when the last message was taken
    sentRefs,    \* of each placeholder sent: what it was made for and what it became
    armed,       \* quitArmedTimer
    keys
inputVars == <<ed, ring, undo, was, sel, pasting, pasted, pasteNo, own, sentRefs, armed, keys>>

Plain(k) == [is |-> k, id |-> 0, made |-> 0]
RefHead(i, g) == [is |-> "head", id |-> i, made |-> g]
NotPasting == [no |-> 0, timer |-> FALSE]
Largest(S) == CHOOSE x \in S : \A y \in S : y <= x

InputInit ==
    /\ ed = [buf |-> <<>>, pos |-> 0, hist |-> <<>>, idx |-> 0, tmp |-> <<>>, hint |-> 0]
    /\ ring = <<>> /\ undo = <<>> /\ was = "other" /\ sel = <<0, 0>>
    /\ pasting = NotPasting /\ pasted = <<>> /\ pasteNo = 0 /\ own = 0
    /\ sentRefs = {} /\ armed = FALSE /\ keys = 0

--------------------------------------------------------------------------------
(* What surrounds the cursor; like slice(), past the end there is nothing   *)
(* (a yank-pop after deletions may leave the cursor there).                 *)
Upto(s, n) == SubSeq(s, 1, IF n > Len(s) THEN Len(s) ELSE n)
From(s, n) == SubSeq(s, n + 1, Len(s))
Before == Upto(ed.buf, ed.pos)
After == From(ed.buf, ed.pos)
LineStart(s) == Largest({0} \cup {i \in 1..Len(s) : s[i].is = "n"})
LineRest(s) ==
    LET ends == {i \in 1..Len(s) : s[i].is = "n"}
    IN IF ends = {} THEN Len(s) ELSE (CHOOSE i \in ends : \A j \in ends : i <= j) - 1
WordStart(s) ==
    LET word == Largest({0} \cup {i \in 1..Len(s) : s[i].is # "n"})
    IN Largest({0} \cup {i \in 1..word : i < word /\ (s[i].is = "n" \/ s[i].is = "head")})

(* getSlashMatches(): "/" alone matches two commands, a whole one itself. *)
Suggested(s) == CASE s = <<Plain("/")>> -> 2 [] s = <<Plain("/cmd")>> -> 1 [] OTHER -> 0

(* Every key but Ctrl+C disarms the quit window; a key is only looked at as *)
(* such when no paste is being received.                                    *)
Pressed == keys < MaxKeys /\ keys' = keys + 1
KeyHandled == Pressed /\ pasting = NotPasting /\ armed' = FALSE
PasteKept == UNCHANGED <<pasting, pasted, pasteNo, own, sentRefs>>

(* insertText() *)
Inserted(e, ts) == [e EXCEPT !.buf = Upto(e.buf, e.pos) \o ts \o From(e.buf, e.pos), !.pos = @ + Len(ts), !.hint = 0]
Inserts(ts) ==
    /\ Len(ed.buf) + Len(ts) <= MaxBuf
    /\ ed' = Inserted(ed, ts) /\ was' = "other" /\ UNCHANGED <<ring, undo, sel>>
Types(t) == KeyHandled /\ (t = "/" => ed.buf = <<>>) /\ Inserts(<<Plain(t)>>) /\ PasteKept

--------------------------------------------------------------------------------
(* The kill ring: consecutive kills accumulate. *)
RingPush(ts, first) ==
    IF was = "kill" /\ ring # <<>>
    THEN [ring EXCEPT ![Len(ring)] = IF first THEN ts \o @ ELSE @ \o ts]
    ELSE Append(ring, ts)
UndoPush == IF Len(undo) = MaxUndo THEN Append(From(undo, 1), ed) ELSE Append(undo, ed)
Kills(kept, killed, pos, first) ==
    /\ IF killed = <<>> THEN UNCHANGED <<ring, undo>> ELSE ring' = RingPush(killed, first) /\ undo' = UndoPush
    /\ ed' = [ed EXCEPT !.buf = kept, !.pos = pos, !.hint = IF first THEN 0 ELSE @]
    /\ was' = "kill" /\ UNCHANGED sel
KillLine ==
    LET from == LineStart(Before)
    IN KeyHandled /\ Kills(Upto(Before, from) \o After, From(Before, from), from, TRUE) /\ PasteKept
KillRest ==
    LET len == LineRest(After)
    IN KeyHandled /\ Kills(Before \o From(After, len), Upto(After, len), ed.pos, FALSE) /\ PasteKept
KillWord ==
    LET from == WordStart(Before)
    IN KeyHandled /\ Kills(Upto(Before, from) \o After, From(Before, from), from, TRUE) /\ PasteKept
Yank ==
    /\ KeyHandled /\ ring # <<>> /\ Len(ed.buf) + Len(ring[Len(ring)]) <= MaxBuf
    /\ undo' = UndoPush /\ ed' = Inserted(ed, ring[Len(ring)])
    /\ sel' = <<ed.pos, ed.pos + Len(ring[Len(ring)])>> /\ was' = "yank"
    /\ UNCHANGED ring /\ PasteKept
YankPop ==
    LET turned == <<ring[Len(ring)]>> \o Upto(ring, Len(ring) - 1)
        top == turned[Len(turned)]
    IN /\ KeyHandled /\ was = "yank" /\ Len(ring) > 1
       /\ ring' = turned /\ sel' = <<sel[1], sel[1] + Len(top)>>
       /\ ed' = [ed EXCEPT !.buf = Upto(@, sel[1]) \o top \o From(@, sel[2]),
                           !.pos = sel[1] + Len(top)]
       /\ UNCHANGED <<undo, was>> /\ PasteKept
Undo ==
    /\ KeyHandled /\ undo # <<>>
    /\ ed' = [ed EXCEPT !.buf = undo[Len(undo)].buf, !.pos = undo[Len(undo)].pos, !.hint = undo[Len(undo)].hint]
    /\ undo' = Upto(undo, Len(undo) - 1) /\ was' = "other" /\ UNCHANGED <<ring, sel>> /\ PasteKept

--------------------------------------------------------------------------------
(* Cursor keys and deletions leave the kill and yank flags as they are. *)
Edits(e) == ed' = e /\ UNCHANGED <<ring, undo, was, sel>> /\ PasteKept
CursorTo(p) == KeyHandled /\ p # ed.pos /\ Edits([ed EXCEPT !.pos = p])
MovesCursor ==
    CursorTo(IF ed.pos > 0 THEN ed.pos - 1 ELSE 0) \/ CursorTo(IF ed.pos < Len(ed.buf) THEN ed.pos + 1 ELSE ed.pos)
    \/ CursorTo(LineStart(Before)) \/ CursorTo(ed.pos + LineRest(After)) \/ CursorTo(0) \/ CursorTo(Len(ed.buf))
Backspace ==
    /\ KeyHandled /\ ed.pos > 0
    /\ Edits([ed EXCEPT !.buf = Upto(@, ed.pos - 1) \o From(@, ed.pos),
                        !.pos = @ - 1, !.hint = 0])
DeleteKey ==
    /\ KeyHandled /\ ed.pos < Len(ed.buf)
    /\ Edits([ed EXCEPT !.buf = Upto(@, ed.pos) \o From(@, ed.pos + 1)])

(* Up and down: the suggested commands first, then the history. *)
UpKey ==
    /\ KeyHandled
    /\ IF Suggested(ed.buf) > 1 THEN Edits([ed EXCEPT !.hint = (@ + 1) % 2])
       ELSE /\ ed.idx < Len(ed.hist)
            /\ Edits([ed EXCEPT !.tmp = IF ed.idx = 0 THEN ed.buf ELSE @, !.idx = @ + 1,
                                !.buf = ed.hist[ed.idx + 1], !.pos = Len(ed.hist[ed.idx + 1])])
DownKey ==
    /\ KeyHandled
    /\ IF Suggested(ed.buf) > 1 THEN Edits([ed EXCEPT !.hint = (@ + 1) % 2])
       ELSE LET line == IF ed.idx > 1 THEN ed.hist[ed.idx - 1] ELSE ed.tmp
            IN ed.idx > 0 /\ Edits([ed EXCEPT !.idx = @ - 1, !.buf = line, !.pos = Len(line)])
Completes == KeyHandled /\ Suggested(ed.buf) > 0 /\ Edits([ed EXCEPT !.buf = <<Plain("/cmd")>>, !.pos = 1, !.hint = 0])

--------------------------------------------------------------------------------
(* Pastes.  commitPaste(): a short single line is typed in, anything else   *)
(* becomes a placeholder under the next id.                                 *)
CommitPaste(no, short) ==
    LET id == Len(pasted) + 1
    IN IF short THEN Inserts(<<Plain("c")>>) /\ UNCHANGED pasted
       ELSE Inserts(<<RefHead(id, no), Plain("tail")>>) /\ pasted' = Append(pasted, no)
Pastes(short) ==
    /\ KeyHandled /\ CommitPaste(pasteNo + 1, short) /\ pasteNo' = pasteNo + 1
    /\ UNCHANGED <<pasting, own, sentRefs>>
ArmNoTimeout == FALSE
ArmPasteTimeout == TRUE
PasteBegins ==
    /\ KeyHandled /\ Len(ed.buf) + 2 <= MaxBuf /\ pasteNo' = pasteNo + 1
    /\ pasting' = [no |-> pasteNo + 1, timer |-> ArmPasteTimeout]
    /\ UNCHANGED <<ed, ring, undo, was, sel, pasted, own, sentRefs>>
(* Whatever is typed while a paste is received joins it. *)
PasteGrows ==
    /\ Pressed /\ pasting.no > 0 /\ pasting' = [pasting EXCEPT !.timer = TRUE] /\ armed' = FALSE
    /\ UNCHANGED <<ed, ring, undo, was, sel, pasted, pasteNo, own, sentRefs>>
PasteDone(short) ==
    /\ pasting.no > 0 /\ CommitPaste(pasting.no, short) /\ pasting' = NotPasting
    /\ UNCHANGED <<pasteNo, own, sentRefs>>
PasteEnds(short) == Pressed /\ armed' = FALSE /\ PasteDone(short)
PasteTimesOut(short) == pasting.timer /\ PasteDone(short) /\ UNCHANGED <<armed, keys>>

--------------------------------------------------------------------------------
(* consume(): expand the placeholders, file the raw line in the history,    *)
(* start anew.  A head and the first tail after it are a placeholder, and   *)
(* what stands between them goes with it.                                   *)
Matched(s) ==
    {i \in 1..Len(s) : /\ s[i].is = "head" /\ \E j \in i..Len(s) : s[j].is = "tail"
                       /\ \A k \in 1..(i - 1) : s[k].is = "head" => \E j \in k..i : s[j].is = "tail"}
ExpandAfterClear(id) == 0
Expand(id) == IF id \in DOMAIN pasted THEN pasted[id] ELSE 0
Trimmed(s) ==
    LET text == {i \in 1..Len(s) : s[i].is # "n"}
    IN IF text = {} THEN <<>> ELSE SubSeq(s, CHOOSE i \in text : \A j \in text : i <= j, Largest(text))
Filed(raw) == IF raw = <<>> \/ (ed.hist # <<>> /\ ed.hist[1] = raw) THEN ed.hist ELSE <<raw>> \o ed.hist
Submit ==
    /\ KeyHandled
    /\ ~(Suggested(ed.buf) > 1 /\ ed.hint > 0)
    /\ ~(ed.buf # <<>> /\ ed.buf[Len(ed.buf)].is = "b" /\ ed.pos = Len(ed.buf))
    /\ sentRefs' = {[own |-> ed.buf[i].made > own, made |-> ed.buf[i].made, became |-> Expand(ed.buf[i].id)] : i \in Matched(ed.buf)}
    /\ ed' = [buf |-> <<>>, pos |-> 0, idx |-> 0, tmp |-> <<>>, hint |-> 0,
              hist |-> Filed(Trimmed(ed.buf))]
    /\ pasted' = <<>> /\ own' = pasteNo
    /\ UNCHANGED <<ring, undo, was, sel, pasting, pasteNo>>
(* Enter on a chosen suggestion takes it, after a backslash it breaks the line. *)
TakesHint ==
    /\ KeyHandled /\ Suggested(ed.buf) > 1 /\ ed.hint > 0
    /\ Edits([ed EXCEPT !.buf = <<Plain("/cmd")>>, !.pos = 1, !.hint = 0])
BreaksLine ==
    /\ KeyHandled /\ ed.buf # <<>> /\ ed.buf[Len(ed.buf)].is = "b" /\ ed.pos = Len(ed.buf)
    /\ ed' = [ed EXCEPT !.buf[Len(ed.buf)] = Plain("n"), !.hint = 0] /\ was' = "other"
    /\ UNCHANGED <<ring, undo, sel>> /\ PasteKept

(* Ctrl+C: cancel a paste, else arm the quit window, which closes by itself *)
(* (the interrupt of a streaming turn is ChatScreen's).                     *)
CtrlC ==
    /\ Pressed /\ UNCHANGED <<ed, ring, undo, was, sel, pasted, pasteNo, own, sentRefs>>
    /\ IF pasting.no > 0 THEN pasting' = NotPasting /\ UNCHANGED armed
       ELSE ~armed /\ armed' = TRUE /\ UNCHANGED pasting
QuitWindowCloses ==
    /\ armed /\ armed' = FALSE
    /\ UNCHANGED <<ed, ring, undo, was, sel, pasting, pasted, pasteNo, own, sentRefs, keys>>

InputNext ==
    \/ \E t \in {"c", "n", "b", "/"} : Types(t)
    \/ KillLine \/ KillRest \/ KillWord \/ Yank \/ YankPop \/ Undo
    \/ MovesCursor \/ Backspace \/ DeleteKey \/ UpKey \/ DownKey \/ Completes
    \/ \E short \in BOOLEAN : Pastes(short) \/ PasteEnds(short) \/ PasteTimesOut(short)
    \/ PasteBegins \/ PasteGrows
    \/ Submit \/ TakesHint \/ BreaksLine \/ CtrlC \/ QuitWindowCloses
InputFairness == WF_inputVars(\E short \in BOOLEAN : PasteTimesOut(short))

--------------------------------------------------------------------------------
(* A placeholder of a paste made for this very message, wherever editing,   *)
(* killing, yanking and undoing have carried it, expands to that paste when *)
(* the message is sent (input-handler.ts consume, expandPasteRefs).         *)
OwnPastesExpand == \A r \in sentRefs : r.own => r.became = r.made

(* Any placeholder sent expands to the paste it was made for, also one that *)
(* came back from the history or the undo stack (input-handler.ts: the real *)
(* text behind each placeholder in the buffer, expanded on consume).        *)
PlaceholdersExpand == \A r \in sentRefs : r.became = r.made

(* Receiving a paste ends, also when its end marker never comes: keys are   *)
(* not swallowed for ever (armPasteTimeout).                                *)
PasteModeEnds == pasting.no > 0 ~> pasting.no = 0
=============================================================================
