---------------------------- MODULE TurnDelivery ----------------------------
(***************************************************************************)
(* How one agent turn reaches the user: runAgentTurn of                    *)
(* src/src/gateway/src/core/channel-worker.ts.  While the agent streams,   *)
(* a preview message is sent once and then edited in place; when the agent *)
(* returns, fails, times out or is aborted, the final text replaces the    *)
(* preview, is sent afresh, or is suppressed.                              *)
(*                                                                         *)
(* Every channel call is asynchronous: it starts in one step and lands in  *)
(* a later one, and steps between two awaits are atomic.  Text is a count  *)
(* of deltas, a preview is that count and whether a tool status is shown.  *)
(***************************************************************************)
EXTENDS Naturals, FiniteSets

CONSTANTS
  MaxChunks,          \* bound on the text deltas of the turn
  MAX_FLOOD_STRIKES,  \* consecutive 429s that open the circuit breaker
  StreamPreviews,     \* edit-based channel with editMessage, not a system turn
  EditErrors          \* ways an edit may fail: subset of EditFailures

EditFailures == {"notModified", "retrySoon", "retryLater", "other"}

ASSUME TurnAssumption ==
  /\ MaxChunks \in Nat /\ MAX_FLOOD_STRIKES \in Nat \ {0}
  /\ StreamPreviews \in BOOLEAN
  /\ EditErrors \subseteq EditFailures

VARIABLES
  canDelete,     \* the channel implements deleteMessage: fixed for the turn
  turnPhase,         \* where runAgentTurn is parked
  text,          \* deltas in streamBuffer
  status,        \* statusLine is not empty
  editInFlight,  \* the preview's initial send: "none", "sending" or "settled"
  initialText,   \* what that send carries
  previewId,     \* previewMessageId is set
  flush,         \* flushInFlight: "none", "editing", "waiting" or "retrying"
  flushText,     \* what the flush carries
  lastSent,      \* lastSentPreview
  strikes,       \* floodStrikes
  editsDisabled, \* editsDisabledForTurn
  flushTimer,    \* pendingFlushTimer is armed
  viaTool,       \* didSendViaTool
  outcome,       \* how the agent invocation ended
  presence,      \* reaction on the user's message
  shown,         \* what the preview message holds for the user
  sent,          \* fresh messages the user received
  failed,        \* a final write (send, edit or delete) failed
  finals         \* history: times the final reply was put before the user

streamVars  == <<text, status>>
previewVars == <<editInFlight, initialText, previewId, flush, flushText, lastSent,
                 strikes, editsDisabled, flushTimer>>
turnEndVars     == <<outcome, presence, failed>>
userVars    == <<shown, sent, finals>>
deliveryVars == <<canDelete, turnPhase, streamVars, previewVars, viaTool, turnEndVars, userVars>>

Preview == [n : 0..MaxChunks, tool : BOOLEAN]
Outcomes == {"reply", "long", "silent", "empty", "aborted", "timeout", "error", "limited"}
composePreview == [n |-> text, tool |-> status]

DeliveryInit ==
  /\ canDelete \in BOOLEAN
  /\ turnPhase = "run"
  /\ text = 0 /\ status = FALSE
  /\ editInFlight = "none" /\ initialText = composePreview /\ previewId = FALSE
  /\ flush = "none" /\ flushText = composePreview /\ lastSent = composePreview
  /\ strikes = 0 /\ editsDisabled = FALSE /\ flushTimer = FALSE
  /\ viaTool = FALSE /\ outcome = "none" /\ presence = "running" /\ failed = FALSE
  /\ shown = "none" /\ sent = {} /\ finals = 0

-----------------------------------------------------------------------------
(* Streaming.                                                              *)

(* Mutant of Strike: the breaker opens one strike late.                    *)
StrikeLate ==
  /\ flush' = "none"
  /\ strikes' = strikes + 1
  /\ editsDisabled' = (strikes + 1 > MAX_FLOOD_STRIKES)
  /\ UNCHANGED <<canDelete, lastSent, shown>>

(* Mutant of FlushPreviewEdit: the circuit breaker is not consulted.       *)
FlushIgnoresBreaker(content) ==
  IF ~previewId \/ flush # "none" \/ content = lastSent
  THEN UNCHANGED <<flush, flushText>>
  ELSE flush' = "editing" /\ flushText' = content

(* flushPreviewEdit: nothing when the circuit is open, there is no preview *)
(* yet, another flush is in flight or the text is what was last sent.      *)
FlushPreviewEdit(content) ==
  IF editsDisabled \/ ~previewId \/ flush # "none" \/ content = lastSent
  THEN UNCHANGED <<flush, flushText>>
  ELSE flush' = "editing" /\ flushText' = content

EnsurePreview(content) ==
  IF editInFlight = "none"
  THEN editInFlight' = "sending" /\ initialText' = content
  ELSE UNCHANGED <<editInFlight, initialText>>

(* A chunk changes the text or the status line.  The first one sends the   *)
(* preview; later ones flush at once or, when the time and size gates are  *)
(* not passed, arm the trailing timer.                                     *)
Chunk(n, s) ==
  LET content == [n |-> n, tool |-> s]
  IN /\ text' = n /\ status' = s
     /\ \/ /\ editsDisabled
           /\ UNCHANGED <<editInFlight, initialText, flush, flushText, flushTimer>>
        \/ /\ ~editsDisabled /\ ~previewId
           /\ EnsurePreview(content)
           /\ UNCHANGED <<flush, flushText, flushTimer>>
        \/ /\ ~editsDisabled /\ previewId
           /\ \/ flushTimer' = TRUE /\ UNCHANGED <<flush, flushText>>
              \/ flushTimer' = FALSE /\ FlushPreviewEdit(content)
           /\ UNCHANGED <<editInFlight, initialText>>

(* Without an edit-based channel, or in a system turn, chunks are dropped. *)
AgentStreams ==
  /\ turnPhase = "run" /\ StreamPreviews
  /\ \/ text < MaxChunks /\ Chunk(text + 1, status)
     \/ ~status /\ Chunk(text, TRUE)
     \/ status /\ Chunk(text, FALSE)
  /\ UNCHANGED <<canDelete, turnPhase, previewId, lastSent, strikes, editsDisabled, viaTool,
                 turnEndVars, userVars>>

(* send_message, send_poll or ask_user delivered something during the turn. *)
AgentSendsViaTool ==
  /\ turnPhase = "run"
  /\ viaTool' = TRUE /\ sent' = sent \cup {"tool"}
  /\ UNCHANGED <<canDelete, turnPhase, streamVars, previewVars, turnEndVars, shown, finals>>

TrailingFlush ==
  /\ flushTimer
  /\ flushTimer' = FALSE
  /\ FlushPreviewEdit(composePreview)
  /\ UNCHANGED <<canDelete, turnPhase, streamVars, editInFlight, initialText, previewId, lastSent,
                 strikes, editsDisabled, viaTool, turnEndVars, userVars>>

(* The preview's send lands; a text that grew meanwhile is flushed.  Once  *)
(* it failed, no other preview is sent in this turn.                       *)
PreviewLands ==
  /\ editInFlight = "sending"
  /\ editInFlight' = "settled"
  /\ \/ /\ previewId' = TRUE /\ shown' = "preview" /\ lastSent' = initialText
        /\ IF text > initialText.n /\ ~editsDisabled /\ flush = "none"
           THEN flush' = "editing" /\ flushText' = composePreview
           ELSE UNCHANGED <<flush, flushText>>
     \/ UNCHANGED <<previewId, shown, lastSent, flush, flushText>>
  /\ UNCHANGED <<canDelete, turnPhase, streamVars, initialText, strikes, editsDisabled, flushTimer,
                 viaTool, turnEndVars, sent, finals>>

(* A preview edit that was applied.                                        *)
FlushApplied ==
  /\ flush' = "none" /\ lastSent' = flushText /\ strikes' = 0
  /\ shown' = "preview"
  /\ UNCHANGED <<canDelete, editsDisabled>>

FlushNotModified ==
  /\ flush' = "none" /\ lastSent' = flushText
  /\ UNCHANGED <<canDelete, strikes, editsDisabled, shown>>

Strike ==
  /\ flush' = "none"
  /\ strikes' = strikes + 1
  /\ editsDisabled' = (strikes + 1 >= MAX_FLOOD_STRIKES)
  /\ UNCHANGED <<canDelete, lastSent, shown>>

FlushLands ==
  /\ flush = "editing"
  /\ \/ shown # "deleted" /\ FlushApplied
     \/ "notModified" \in EditErrors /\ FlushNotModified
     \/ /\ "retrySoon" \in EditErrors
        /\ flush' = "waiting"
        /\ UNCHANGED <<lastSent, strikes, editsDisabled, shown>>
     \/ "retryLater" \in EditErrors /\ Strike
     \/ /\ shown = "deleted" \/ "other" \in EditErrors
        /\ flush' = "none"
        /\ UNCHANGED <<lastSent, strikes, editsDisabled, shown>>
  /\ UNCHANGED <<canDelete, turnPhase, streamVars, editInFlight, initialText, previewId, flushText,
                 flushTimer, viaTool, turnEndVars, sent, finals>>

(* A short retry_after is waited out inside the flush; the retry carries   *)
(* the text of the first attempt.                                          *)
RetryStarts ==
  /\ flush = "waiting"
  /\ flush' = "retrying"
  /\ UNCHANGED <<canDelete, turnPhase, streamVars, editInFlight, initialText, previewId, flushText, lastSent,
                 strikes, editsDisabled, flushTimer, viaTool, turnEndVars, userVars>>

RetryLands ==
  /\ flush = "retrying"
  /\ \/ shown # "deleted" /\ FlushApplied
     \/ "notModified" \in EditErrors /\ FlushNotModified
     \/ Strike
  /\ UNCHANGED <<canDelete, turnPhase, streamVars, editInFlight, initialText, previewId, flushText,
                 flushTimer, viaTool, turnEndVars, sent, finals>>

-----------------------------------------------------------------------------
(* The end of the turn.                                                    *)

(* The await the code reaches once the initial send is settled.            *)
FinalWrite(o, edits, preview) ==
  CASE o = "silent" /\ ~viaTool ->
         IF preview /\ canDelete THEN "deleteSilent" ELSE "finished"
    [] o \in {"reply", "long"} /\ ~viaTool ->
         IF (edits \/ o = "long") /\ preview /\ canDelete THEN "deleteOld"
         ELSE IF preview THEN "edit" ELSE "send"
    [] viaTool /\ preview -> IF canDelete THEN "deleteOld" ELSE "tick"
    [] OTHER -> "finished"

(* Mutant of AgentReturns: the trailing timer is left armed.               *)
AgentReturnsKeepsTimer(o) ==
  /\ turnPhase = "run"
  /\ outcome' = o
  /\ turnPhase' = IF editInFlight = "sending" THEN "settling"
              ELSE FinalWrite(o, editsDisabled, previewId)
  /\ UNCHANGED <<canDelete, streamVars, previewVars, viaTool, presence, failed, userVars>>

(* invoke() resolves: the trailing timer is cancelled and the initial send *)
(* is awaited, but not a flush in flight.                                  *)
AgentReturns(o) ==
  /\ turnPhase = "run"
  /\ outcome' = o
  /\ flushTimer' = FALSE
  /\ turnPhase' = IF editInFlight = "sending" THEN "settling"
              ELSE FinalWrite(o, editsDisabled, previewId)
  /\ UNCHANGED <<canDelete, streamVars, editInFlight, initialText, previewId, flush, flushText, lastSent,
                 strikes, editsDisabled, viaTool, presence, failed, userVars>>

(* Mutant of Settled: the preview's id is awaited, not its send.           *)
SettledWithPreview ==
  /\ turnPhase = "settling" /\ editInFlight = "settled" /\ previewId
  /\ turnPhase' = FinalWrite(outcome, editsDisabled, previewId)
  /\ UNCHANGED <<canDelete, streamVars, previewVars, viaTool, turnEndVars, userVars>>

Settled ==
  /\ turnPhase = "settling" /\ editInFlight = "settled"
  /\ turnPhase' = FinalWrite(outcome, editsDisabled, previewId)
  /\ UNCHANGED <<canDelete, streamVars, previewVars, viaTool, turnEndVars, userVars>>

(* The preview is deleted before a fresh send, after a tool already spoke, *)
(* or because the reply is the [SILENT] sentinel; a failed delete is       *)
(* logged and ignored.                                                     *)
PreviewDeleted ==
  /\ turnPhase \in {"deleteSilent", "deleteOld", "deleteFailedEdit"}
  /\ \/ shown' = "deleted" /\ UNCHANGED failed
     \/ failed' = TRUE /\ UNCHANGED shown
  /\ turnPhase' = IF turnPhase = "deleteSilent" \/ viaTool THEN "finished" ELSE "send"
  /\ UNCHANGED <<canDelete, streamVars, previewVars, viaTool, outcome, presence, sent, finals>>

(* Mutant of FinalEditLands: the fresh send follows a successful edit too. *)
FinalEditAlwaysSends ==
  /\ turnPhase = "edit"
  /\ shown' = "final" /\ finals' = finals + 1 /\ turnPhase' = "send"
  /\ UNCHANGED <<canDelete, streamVars, previewVars, viaTool, outcome, presence, failed, sent>>

(* The final edit of the preview; when it fails the preview is deleted and *)
(* the reply sent afresh.                                                  *)
FinalEditLands ==
  /\ turnPhase = "edit"
  /\ \/ /\ shown' = "final" /\ finals' = finals + 1
        /\ turnPhase' = "finished"
        /\ UNCHANGED failed
     \/ /\ failed' = TRUE
        /\ turnPhase' = IF canDelete THEN "deleteFailedEdit" ELSE "send"
        /\ UNCHANGED <<shown, finals>>
  /\ UNCHANGED <<canDelete, streamVars, previewVars, viaTool, outcome, presence, sent>>

TickLands ==
  /\ turnPhase = "tick"
  /\ \/ shown' = "tick" /\ UNCHANGED failed
     \/ failed' = TRUE /\ UNCHANGED shown
  /\ turnPhase' = "finished"
  /\ UNCHANGED <<canDelete, streamVars, previewVars, viaTool, outcome, presence, sent, finals>>

(* A failing send throws into the catch block, whose notice is skipped     *)
(* when the error is a 429.  A long reply goes out in pieces when its      *)
(* preview was deleted, so the first pieces may have arrived.              *)
FinalSendLands ==
  /\ turnPhase = "send"
  /\ \/ /\ sent' = sent \cup {"final"} /\ finals' = finals + 1
        /\ turnPhase' = "finished"
        /\ UNCHANGED <<failed, outcome>>
     \/ /\ failed' = TRUE /\ outcome' \in {"error", "limited"}
        /\ turnPhase' = IF outcome' = "limited" THEN "finished" ELSE "notice"
        /\ \/ UNCHANGED sent
           \/ outcome = "long" /\ previewId /\ canDelete /\ sent' = sent \cup {"piece"}
        /\ UNCHANGED finals
  /\ UNCHANGED <<canDelete, streamVars, previewVars, viaTool, presence, shown>>

(* Mutant of AgentFails: a timeout says nothing when nothing was streamed. *)
AgentFailsQuietly(o) ==
  /\ turnPhase = "run"
  /\ outcome' = o
  /\ presence' = IF o = "aborted" THEN "aborted" ELSE presence
  /\ turnPhase' = CASE o = "aborted" -> IF viaTool THEN "finished" ELSE "stopped"
                [] o = "timeout" ->
                     IF text = 0 \/ viaTool THEN "finished"
                     ELSE IF previewId THEN "partialEdit" ELSE "partialSend"
                [] o = "limited" -> "finished"
                [] OTHER -> "notice"
  /\ UNCHANGED <<canDelete, streamVars, previewVars, viaTool, failed, userVars>>

(* invoke() rejects, is aborted by the user, or loses against the timeout. *)
(* The catch block neither awaits the initial send nor cancels the timer.  *)
AgentFails(o) ==
  /\ turnPhase = "run"
  /\ outcome' = o
  /\ presence' = IF o = "aborted" THEN "aborted" ELSE presence
  /\ turnPhase' = CASE o = "aborted" -> IF viaTool THEN "finished" ELSE "stopped"
                [] o = "timeout" /\ text > 0 /\ ~viaTool ->
                     IF previewId THEN "partialEdit" ELSE "partialSend"
                [] o = "limited" -> "finished"
                [] OTHER -> "notice"
  /\ UNCHANGED <<canDelete, streamVars, previewVars, viaTool, failed, userVars>>

PartialEditLands ==
  /\ turnPhase = "partialEdit"
  /\ \/ shown' = "partial" /\ turnPhase' = "finished" /\ UNCHANGED failed
     \/ failed' = TRUE /\ turnPhase' = "partialSend" /\ UNCHANGED shown
  /\ UNCHANGED <<canDelete, streamVars, previewVars, viaTool, outcome, presence, sent, finals>>

(* Best-effort sends of the catch block: the partial reply, "Stopped" or   *)
(* the failure notice.                                                     *)
NoticeLands ==
  /\ turnPhase \in {"partialSend", "stopped", "notice"}
  /\ \/ sent' = sent \cup {IF turnPhase = "partialSend" THEN "partial" ELSE turnPhase}
        /\ UNCHANGED failed
     \/ failed' = TRUE /\ UNCHANGED sent
  /\ turnPhase' = "finished"
  /\ UNCHANGED <<canDelete, streamVars, previewVars, viaTool, outcome, presence, shown, finals>>

(* The last synchronous stretch and the finally block.                     *)
Finish ==
  /\ turnPhase = "finished"
  /\ turnPhase' = "done"
  /\ presence' = IF presence # "running" THEN presence
                 ELSE IF outcome \in {"error", "limited"} \/ (outcome = "timeout" /\ (text = 0 \/ viaTool))
                 THEN "error" ELSE "ok"
  /\ flushTimer' = FALSE
  /\ UNCHANGED <<canDelete, streamVars, editInFlight, initialText, previewId, flush, flushText, lastSent,
                 strikes, editsDisabled, viaTool, outcome, failed, userVars>>

-----------------------------------------------------------------------------
Streaming == AgentStreams \/ AgentSendsViaTool \/ TrailingFlush
Landing   == PreviewLands \/ FlushLands \/ RetryStarts \/ RetryLands
Ending ==
  \/ \E o \in {"reply", "long", "silent", "empty"} : AgentReturns(o)
  \/ \E o \in {"aborted", "timeout", "error", "limited"} : AgentFails(o)
Delivering ==
  \/ Settled \/ PreviewDeleted \/ FinalEditLands \/ TickLands \/ FinalSendLands
  \/ PartialEditLands \/ NoticeLands \/ Finish

DeliveryNext == Streaming \/ Landing \/ Ending \/ Delivering

(* Channel calls settle, and the turn's own timeout ends the run phase.    *)
DeliveryFairness ==
  /\ WF_deliveryVars(PreviewLands) /\ WF_deliveryVars(FlushLands)
  /\ WF_deliveryVars(RetryStarts) /\ WF_deliveryVars(RetryLands)
  /\ WF_deliveryVars(AgentFails("timeout")) /\ WF_deliveryVars(Delivering)

DeliverySpec == DeliveryInit /\ [][DeliveryNext]_deliveryVars
DeliveryFairSpec == DeliverySpec /\ DeliveryFairness
-----------------------------------------------------------------------------
(* Properties.                                                             *)

(* Every variable has its type; the breaker counts at most to its limit.   *)
DeliveryTypeOK ==
  /\ canDelete \in BOOLEAN
  /\ turnPhase \in {"run", "settling", "deleteSilent", "deleteOld", "deleteFailedEdit",
                "edit", "tick", "send", "partialEdit", "partialSend", "stopped",
                "notice", "finished", "done"}
  /\ text \in 0..MaxChunks /\ status \in BOOLEAN
  /\ editInFlight \in {"none", "sending", "settled"}
  /\ initialText \in Preview /\ flushText \in Preview /\ lastSent \in Preview
  /\ previewId \in BOOLEAN /\ editsDisabled \in BOOLEAN /\ flushTimer \in BOOLEAN
  /\ flush \in {"none", "editing", "waiting", "retrying"}
  /\ strikes \in 0..MAX_FLOOD_STRIKES
  /\ viaTool \in BOOLEAN /\ failed \in BOOLEAN
  /\ outcome \in Outcomes \cup {"none"}
  /\ presence \in {"running", "ok", "error", "aborted"}
  /\ shown \in {"none", "preview", "final", "partial", "tick", "deleted"}
  /\ sent \subseteq {"tool", "final", "piece", "partial", "stopped", "notice"}
  /\ finals \in Nat

(* The reply reaches the user once: through whichever of edit, delete and  *)
(* send and their fallbacks it goes, never twice, and when the turn is     *)
(* done with a reply not sent by a tool, exactly once.                     *)
ReplyOnce ==
  /\ finals <= 1
  /\ turnPhase = "done" /\ outcome \in {"reply", "long"} /\ ~viaTool => finals = 1

(* A turn never ends in silence: unless the agent had nothing to say, a    *)
(* 429 forbids a notice or a final write failed, the user has received or  *)
(* sees something that is not an unfinished preview.                       *)
UserHearsBack ==
  turnPhase = "done" /\ ~failed /\ outcome \notin {"silent", "empty", "limited"}
    => \/ sent # {} \/ finals > 0
       \/ outcome = "timeout" /\ text > 0 /\ shown # "none"

(* Once the flood breaker is open no preview edit is under way or started, *)
(* whichever timer, chunk or landed send comes next.                       *)
BreakerHolds == editsDisabled => flush = "none"

(* Once the agent has returned no preview edit starts, except the catch-up *)
(* of an initial send still in flight: only that one and an edit already   *)
(* in flight can land on top of the final reply.  (After a failure the     *)
(* trailing timer stays armed through the awaits of the catch block.)      *)
NoEditStartsLate ==
  [][(/\ outcome \in {"reply", "long", "silent", "empty"}
      /\ flush = "none" /\ editInFlight # "sending") => flush' = "none"]_deliveryVars

(* Every turn ends, whatever the channel's calls return.                   *)
TurnEnds == <>(turnPhase = "done")

-----------------------------------------------------------------------------
(***************************************************************************)
(* The reasoning lane of one turn: flushReasoning and its part of          *)
(* runAgentTurn in src/src/gateway/src/core/channel-worker.ts, on a channel *)
(* with showThinking and editMessage.  The agent's thinking is shown in    *)
(* one message that is edited in place and taken away with the answer.     *)
(*                                                                         *)
(* Thinking is a count of batches past REASONING_MIN_LENGTH.  A channel    *)
(* call starts in one step and lands in a later one.  An agent that was    *)
(* aborted by the timeout may stream a little longer.                      *)
(***************************************************************************)
CONSTANT MaxThinking   \* bound: batches of thinking

ASSUME LaneBound == MaxThinking \in Nat

VARIABLES
  laneDeletes,   \* the channel implements deleteMessage: fixed for the turn
  lanePhase,     \* where runAgentTurn is parked
  laneOutcome,   \* how the turn went: "none", "answered", "silent" or "failed"
  streaming,     \* the agent may still emit chunks
  thinking,      \* batches in thinkingBuffer
  laneId,        \* reasoningMessageId is set
  laneCall,      \* reasoningEditInFlight: [call, body], call "none", "send" or "edit"
  laneSent,      \* reasoningLastSent
  laneTimer,     \* reasoningPendingTimer is armed
  laneBoard,     \* what the reasoning message shows the user
  lanePosts,     \* history: reasoning messages that reached the user
  laneLate       \* the turn went on before a call in flight, or its cleanup failed

laneVars == <<laneDeletes, lanePhase, laneOutcome, streaming, thinking, laneId, laneCall, laneSent,
              laneTimer, laneBoard, lanePosts, laneLate>>

NoLaneCall == [call |-> "none", body |-> 0]
LaneIdle == laneCall.call = "none"

LaneInit ==
  /\ laneDeletes \in BOOLEAN
  /\ lanePhase = "run" /\ laneOutcome = "none" /\ streaming = TRUE /\ thinking = 0
  /\ laneId = FALSE /\ laneCall = NoLaneCall /\ laneSent = 0 /\ laneTimer = FALSE
  /\ laneBoard = "none" /\ lanePosts = 0 /\ laneLate = FALSE

-----------------------------------------------------------------------------
(* flushReasoning: nothing while a call is in flight or when nothing is    *)
(* new; within the throttle of the last edit the timer is armed instead.   *)
FlushReasoning(body) ==
  \/ /\ ~LaneIdle \/ body = 0 \/ body = laneSent
     /\ UNCHANGED <<laneCall, laneTimer>>
  \/ /\ LaneIdle /\ body \notin {0, laneSent} /\ laneId
     /\ laneTimer' = TRUE /\ UNCHANGED laneCall
  \/ /\ LaneIdle /\ body \notin {0, laneSent}
     /\ laneTimer' = FALSE
     /\ laneCall' = [call |-> IF laneId THEN "edit" ELSE "send", body |-> body]

ThinkingChunk ==
  /\ streaming /\ thinking < MaxThinking
  /\ thinking' = thinking + 1
  /\ FlushReasoning(thinking + 1)
  /\ UNCHANGED <<laneDeletes, lanePhase, laneOutcome, streaming, laneId, laneSent, laneBoard,
                 lanePosts, laneLate>>

LaneTimerFires ==
  /\ laneTimer
  /\ \/ LaneIdle /\ thinking # laneSent /\ laneTimer' = FALSE
        /\ laneCall' = [call |-> IF laneId THEN "edit" ELSE "send", body |-> thinking]
     \/ (~LaneIdle \/ thinking = laneSent) /\ laneTimer' = FALSE /\ UNCHANGED laneCall
  /\ UNCHANGED <<laneDeletes, lanePhase, laneOutcome, streaming, thinking, laneId, laneSent,
                 laneBoard, lanePosts, laneLate>>

(* The call in flight lands, or fails and is logged.  An edit of a deleted *)
(* message fails.                                                          *)
LaneCallLands ==
  /\ ~LaneIdle
  /\ laneCall' = NoLaneCall
  /\ \/ /\ laneCall.call = "send"
        /\ laneId' = TRUE /\ lanePosts' = lanePosts + 1
        /\ laneSent' = laneCall.body /\ laneBoard' = "thinking"
     \/ /\ laneCall.call = "edit" /\ laneBoard # "deleted"
        /\ laneSent' = laneCall.body /\ laneBoard' = "thinking"
        /\ UNCHANGED <<laneId, lanePosts>>
     \/ UNCHANGED <<laneId, lanePosts, laneSent, laneBoard>>
  /\ UNCHANGED <<laneDeletes, lanePhase, laneOutcome, streaming, thinking, laneTimer, laneLate>>

-----------------------------------------------------------------------------
(* The end of the turn.                                                    *)

(* The agent returns; the preview's initial send is awaited first.         *)
LaneAgentReturns ==
  /\ lanePhase = "run"
  /\ lanePhase' = "settling" /\ streaming' = FALSE
  /\ UNCHANGED <<laneDeletes, laneOutcome, thinking, laneId, laneCall, laneSent, laneTimer,
                 laneBoard, lanePosts, laneLate>>

(* A [SILENT] reply ends the turn at once and leaves the lane as it is.    *)
LaneSilent ==
  /\ lanePhase = "settling"
  /\ laneOutcome' = "silent" /\ lanePhase' = "leaving"
  /\ UNCHANGED <<laneDeletes, streaming, thinking, laneId, laneCall, laneSent, laneTimer,
                 laneBoard, lanePosts, laneLate>>

(* Mutant of LaneAnswers: the lane's timer is left armed.                  *)
LaneAnswersTimed ==
  /\ lanePhase = "settling"
  /\ lanePhase' = "answering"
  /\ UNCHANGED <<laneDeletes, laneOutcome, streaming, thinking, laneId, laneCall, laneSent,
                 laneTimer, laneBoard, lanePosts, laneLate>>

(* The lane's timer is cancelled before the answer is delivered.           *)
LaneAnswers ==
  /\ lanePhase = "settling"
  /\ lanePhase' = "answering" /\ laneTimer' = FALSE
  /\ UNCHANGED <<laneDeletes, laneOutcome, streaming, thinking, laneId, laneCall, laneSent,
                 laneBoard, lanePosts, laneLate>>

(* The answer is out: a call of the lane still in flight gets 1.5 s.       *)
LaneAnswered ==
  /\ lanePhase = "answering"
  /\ laneOutcome' = "answered"
  /\ lanePhase' = IF ~LaneIdle THEN "grace" ELSE IF laneId THEN "cleaning" ELSE "leaving"
  /\ UNCHANGED <<laneDeletes, streaming, thinking, laneId, laneCall, laneSent, laneTimer,
                 laneBoard, lanePosts, laneLate>>

LaneGraceEnds ==
  /\ lanePhase = "grace"
  /\ laneLate' = ~LaneIdle
  /\ lanePhase' = IF laneId THEN "cleaning" ELSE "leaving"
  /\ UNCHANGED <<laneDeletes, laneOutcome, streaming, thinking, laneId, laneCall, laneSent,
                 laneTimer, laneBoard, lanePosts>>

(* The reasoning message is deleted, or reduced to a tick.                 *)
LaneCleaned ==
  /\ lanePhase = "cleaning"
  /\ lanePhase' = "leaving" /\ laneId' = FALSE
  /\ \/ laneBoard' = (IF laneDeletes THEN "deleted" ELSE "tick") /\ UNCHANGED laneLate
     \/ laneLate' = TRUE /\ UNCHANGED laneBoard
  /\ UNCHANGED <<laneDeletes, laneOutcome, streaming, thinking, laneCall, laneSent, laneTimer,
                 lanePosts>>

(* The agent fails, is aborted or times out, or the answer cannot be sent: *)
(* the catch block does not touch the lane.                                *)
LaneTurnFails ==
  /\ lanePhase \in {"run", "answering"}
  /\ lanePhase' = "leaving" /\ laneOutcome' = "failed"
  /\ UNCHANGED <<laneDeletes, streaming, thinking, laneId, laneCall, laneSent, laneTimer,
                 laneBoard, lanePosts, laneLate>>

(* The finally block.                                                      *)
LaneTurnEnds ==
  /\ lanePhase = "leaving"
  /\ lanePhase' = "done" /\ laneTimer' = FALSE
  /\ UNCHANGED <<laneDeletes, laneOutcome, streaming, thinking, laneId, laneCall, laneSent,
                 laneBoard, lanePosts, laneLate>>

LaneNext ==
  \/ ThinkingChunk \/ LaneTimerFires \/ LaneCallLands
  \/ LaneAgentReturns \/ LaneSilent \/ LaneAnswers \/ LaneAnswered \/ LaneGraceEnds
  \/ LaneCleaned \/ LaneTurnFails \/ LaneTurnEnds

-----------------------------------------------------------------------------
(* Thinking is shown in one message: whatever the throttle, its timer, a   *)
(* failed call and an agent that streams past its timeout do, at most one  *)
(* reasoning message of a turn reaches the user (flushReasoning).          *)
OneReasoningMessage == lanePosts <= 1

(* Thinking does not stay beside the answer: once a turn that answered is  *)
(* over, the reasoning message is gone or a tick, unless a call outlived   *)
(* its grace or the cleanup itself failed (runAgentTurn).                  *)
ReasoningCleared ==
  lanePhase = "done" /\ laneOutcome = "answered" /\ ~laneLate => laneBoard # "thinking"
=============================================================================
