------------------------------ MODULE ChatScreen ------------------------------
(***************************************************************************)
(* What the terminal of `flopsy chat` shows of a turn (cli ui/chat-tui.ts, *)
(* driven by chat-command.ts): events of the daemon arrive in order; text  *)
(* and thinking are previewed in the mutable region at the bottom and      *)
(* written to the scrollback when a tool starts or the turn is done; local *)
(* notices, errors and log lines of other parts of the process go to the   *)
(* scrollback at once.                                                     *)
(*                                                                         *)
(* Every piece of text has a number; `screen` is the scrollback.  The final*)
(* text of a turn is the text streamed in it.                              *)
(***************************************************************************)
EXTENDS Naturals, Sequences, FiniteSets

CONSTANTS
    MaxPieces,   \* bound: pieces of text, notices included
    MaxTurns,    \* bound: messages sent
    SendMidTurn  \* may the user send while a turn runs

VARIABLES
    screenTurn,     \* the daemon's turn: none or running, and the pieces it has streamed
    waiting,  \* messages the daemon holds for the next turn
    flags,    \* streaming, toolFiredThisTurn, the spinner's interval
    textBuf,  \* chat-command.ts: has any text come since it was last emptied
    preview,  \* streamTextBuf: pieces previewed and not committed
    thinking, \* thinkBuf is not empty
    tool,     \* activeTool
    screen,   \* the pieces in the scrollback, in order
    blocks,   \* historyBlocks, what a repaint writes: the pieces
    notices,  \* pieces that were notices to the user
    pieces,   \* pieces so far
    sends     \* messages sent
screenVars == <<screenTurn, waiting, flags, textBuf, preview, thinking, tool, screen, blocks, notices, pieces, sends>>

NoTurn == [on |-> FALSE, text |-> <<>>]
Elements(s) == {s[i] : i \in 1..Len(s)}

ScreenInit ==
    /\ screenTurn = NoTurn /\ waiting = 0 /\ flags = [streaming |-> FALSE, toolFired |-> FALSE, spinner |-> FALSE]
    /\ textBuf = FALSE /\ preview = <<>> /\ thinking = FALSE /\ tool = FALSE
    /\ screen = <<>> /\ blocks = <<>> /\ notices = {} /\ pieces = 0 /\ sends = 0

--------------------------------------------------------------------------------
(* commit(): the lines enter the scrollback above the mutable region.        *)
Commits(ps) == screen' = screen \o ps /\ blocks' = blocks \o ps
NothingCommitted == UNCHANGED <<screen, blocks>>

(* setStreaming() *)
Streaming(f, v) == IF v THEN [streaming |-> TRUE, toolFired |-> FALSE, spinner |-> TRUE]
                        ELSE [f EXCEPT !.streaming = FALSE, !.spinner = FALSE]

(* addAssistantText(): after a tool the text is on screen already. *)
AddTextAlways(ps) == Commits(ps) /\ preview' = <<>> /\ thinking' = FALSE
AddText(ps) ==
    /\ Commits(IF flags.toolFired THEN preview ELSE ps)
    /\ preview' = <<>> /\ thinking' = FALSE

--------------------------------------------------------------------------------
(* The user.  A message: the terminal shows it and starts streaming; the     *)
(* daemon runs it, or keeps it until the running turn is over.               *)
UserSends ==
    /\ sends < MaxTurns /\ (screenTurn.on => SendMidTurn)
    /\ sends' = sends + 1 /\ textBuf' = FALSE /\ flags' = Streaming(flags, TRUE)
    /\ IF screenTurn.on THEN waiting' = waiting + 1 /\ UNCHANGED screenTurn
                  ELSE screenTurn' = [on |-> TRUE, text |-> <<>>] /\ UNCHANGED waiting
    /\ NothingCommitted /\ UNCHANGED <<preview, thinking, tool, notices, pieces>>
(* /help, /status, /tasks, /compact and the quit notice of Ctrl+C. *)
Notifies ==
    /\ pieces < MaxPieces /\ pieces' = pieces + 1 /\ notices' = notices \cup {pieces + 1}
    /\ AddText(<<pieces + 1>>) /\ UNCHANGED <<screenTurn, waiting, flags, textBuf, tool, sends>>
(* Esc or Ctrl+C: the daemon is told, what it still streams arrives later. *)
Interrupts ==
    /\ flags.streaming /\ pieces < MaxPieces /\ pieces' = pieces + 1 /\ notices' = notices \cup {pieces + 1}
    /\ flags' = Streaming(flags, FALSE) /\ tool' = FALSE /\ AddText(<<pieces + 1>>)
    /\ UNCHANGED <<screenTurn, waiting, textBuf, sends>>
(* /clear and /new *)
Clears ==
    /\ tool' = FALSE /\ thinking' = FALSE /\ preview' = <<>> /\ screen' = <<>>
    /\ UNCHANGED <<screenTurn, waiting, flags, textBuf, blocks, notices, pieces, sends>>
(* Ctrl+O: wipe and write every block again. *)
Repaints == screen' = blocks /\ UNCHANGED <<screenTurn, waiting, flags, textBuf, preview, thinking, tool, blocks, notices, pieces, sends>>

--------------------------------------------------------------------------------
(* Events of the running turn. *)
TextArrives ==
    /\ screenTurn.on /\ pieces < MaxPieces /\ pieces' = pieces + 1
    /\ screenTurn' = [screenTurn EXCEPT !.text = Append(@, pieces + 1)]
    /\ flags' = IF textBuf THEN flags ELSE Streaming(flags, TRUE)
    /\ textBuf' = TRUE /\ preview' = Append(preview, pieces + 1) /\ thinking' = FALSE
    /\ NothingCommitted /\ UNCHANGED <<waiting, tool, notices, sends>>
ThinkingArrives ==
    /\ screenTurn.on /\ thinking' = TRUE
    /\ NothingCommitted /\ UNCHANGED <<screenTurn, waiting, flags, textBuf, preview, tool, notices, pieces, sends>>
ToolStarts ==
    /\ screenTurn.on /\ Commits(preview) /\ preview' = <<>> /\ thinking' = FALSE
    /\ tool' = TRUE /\ flags' = [flags EXCEPT !.toolFired = TRUE]
    /\ UNCHANGED <<screenTurn, waiting, textBuf, notices, pieces, sends>>
SpinsAgainAlways == TRUE
SpinsAgain == flags.streaming
ToolEnds ==
    /\ screenTurn.on /\ tool' = FALSE /\ flags' = [flags EXCEPT !.spinner = SpinsAgain]
    /\ NothingCommitted /\ UNCHANGED <<screenTurn, waiting, textBuf, preview, thinking, notices, pieces, sends>>

(* The daemon takes up what it held. *)
NextTurn ==
    /\ screenTurn' = [on |-> waiting > 0, text |-> <<>>]
    /\ waiting' = IF waiting > 0 THEN waiting - 1 ELSE 0
TurnDone ==
    /\ screenTurn.on /\ NextTurn
    /\ IF screenTurn.text # <<>> THEN AddText(screenTurn.text) ELSE NothingCommitted /\ UNCHANGED <<preview, thinking>>
    /\ textBuf' = FALSE /\ tool' = FALSE /\ flags' = Streaming(flags, FALSE)
    /\ UNCHANGED <<notices, pieces, sends>>
(* addError(), then the turn is over. *)
TurnFails ==
    /\ screenTurn.on /\ NextTurn /\ textBuf' = FALSE /\ tool' = FALSE /\ flags' = Streaming(flags, FALSE)
    /\ NothingCommitted /\ UNCHANGED <<preview, thinking, notices, pieces, sends>>
(* The answer to /status or /tasks: a done event outside any turn. *)
AnswerArrives ==
    /\ ~screenTurn.on /\ pieces < MaxPieces /\ pieces' = pieces + 1 /\ notices' = notices \cup {pieces + 1}
    /\ AddText(<<pieces + 1>>) /\ textBuf' = FALSE /\ tool' = FALSE /\ flags' = Streaming(flags, FALSE)
    /\ UNCHANGED <<screenTurn, waiting, sends>>
(* The socket closes: resetState(); the daemon's turn goes on unseen. *)
SocketCloses ==
    /\ flags' = Streaming(flags, FALSE) /\ tool' = FALSE /\ preview' = <<>> /\ thinking' = FALSE
    /\ screenTurn' = NoTurn /\ waiting' = 0
    /\ NothingCommitted /\ UNCHANGED <<textBuf, notices, pieces, sends>>

ScreenNext ==
    \/ UserSends \/ Notifies \/ Interrupts \/ Clears \/ Repaints
    \/ TextArrives \/ ThinkingArrives \/ ToolStarts \/ ToolEnds
    \/ TurnDone \/ TurnFails \/ AnswerArrives \/ SocketCloses

--------------------------------------------------------------------------------
(* No piece of text stands twice in the scrollback, whether it was committed *)
(* before a tool, at the interrupt or with the final text of its turn        *)
(* (chat-tui.ts addAssistantText: rendering the text again after a tool      *)
(* "would duplicate everything").                                            *)
ShownOnce == \A i, j \in 1..Len(screen) : i # j => screen[i] # screen[j]

(* The spinner turns only while a turn streams: a tool's late result, after  *)
(* an interrupt, must not start it again (chat-tui.ts addToolDone).          *)
SpinnerHasTurn == flags.spinner => flags.streaming

(* What is said to the user is written: a notice, the answer to /status      *)
(* (chat-tui.ts addAssistantText).                                           *)
NoticesShown == notices \subseteq Elements(blocks)
=============================================================================
