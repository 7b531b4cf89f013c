------------------------------ MODULE MCChannels ------------------------------
(***************************************************************************)
(* The channel adapters, the web and terminal chat and the shutdown, for   *)
(* TLC and with their promises under fairness.  The parts share no state,  *)
(* so a behaviour runs one of them, picked by `part`.                      *)
(***************************************************************************)
EXTENDS ChannelLink, AdapterCalls, WebChat, Shutdown, ChatInput, TLC

CONSTANTS ch1, ch2, t1, t2

VARIABLE part

MCTurnOn == (t1 :> ch1) @@ (t2 :> ch2)

allVars == <<part, linkVars, tgVars, discordVars, rpcVars, chatVars, stopVars, inputVars>>

ChannelsInit ==
  /\ part \in {"link", "telegram", "discord", "rpc", "chat", "stop", "input"}
  /\ LinkInit /\ TgInit /\ DiscordInit /\ RpcInit /\ ChatInit /\ StopInit /\ InputInit
  /\ part # "link" => kind = "whatsapp"
  /\ part # "stop" => (~fires /\ ~chatOpen /\ \A t \in Turns : turn[t].at = "none")

StepLink     == part = "link" /\ LinkNext
                /\ UNCHANGED <<part, tgVars, discordVars, rpcVars, chatVars, stopVars, inputVars>>
StepTelegram == part = "telegram" /\ TgNext
                /\ UNCHANGED <<part, linkVars, discordVars, rpcVars, chatVars, stopVars, inputVars>>
StepDiscord  == part = "discord" /\ DiscordNext
                /\ UNCHANGED <<part, linkVars, tgVars, rpcVars, chatVars, stopVars, inputVars>>
StepRpc      == part = "rpc" /\ RpcNext
                /\ UNCHANGED <<part, linkVars, tgVars, discordVars, chatVars, stopVars, inputVars>>
StepChat     == part = "chat" /\ ChatNext
                /\ UNCHANGED <<part, linkVars, tgVars, discordVars, rpcVars, stopVars, inputVars>>
StepStop     == part = "stop" /\ StopNext
                /\ UNCHANGED <<part, linkVars, tgVars, discordVars, rpcVars, chatVars, inputVars>>
StepInput    == part = "input" /\ InputNext
                /\ UNCHANGED <<part, linkVars, tgVars, discordVars, rpcVars, chatVars, stopVars>>

ChannelsNext ==
  StepLink \/ StepTelegram \/ StepDiscord \/ StepRpc \/ StepChat \/ StepStop \/ StepInput

(* LinkFairness and ChatFairness for the behaviours that run the part; the *)
(* others ask nothing of a part at rest and are taken as they are.         *)
OnLink == part = "link"
OnChat == part = "chat"

PartFairness ==
  /\ WF_linkVars(OnLink /\ (SocketMade \/ ConnectThrows))
  /\ WF_linkVars(OnLink /\ CheckIdles) /\ WF_linkVars(OnLink /\ HourSlides)
  /\ WF_linkVars(OnLink /\ \E b \in BOOLEAN : TimerFires(b))
  /\ WF_linkVars(OnLink /\ AuthConnects) /\ WF_linkVars(OnLink /\ MonitorRestarts)
  /\ WF_chatVars(OnChat /\ TuiConnects)
  /\ \A k \in SockIds :
       /\ WF_chatVars(OnChat /\ Accepts(k)) /\ WF_chatVars(OnChat /\ ClientOpens(k))
       /\ WF_chatVars(OnChat /\ Receives(k)) /\ WF_chatVars(OnChat /\ ServerCloses(k))
       /\ WF_chatVars(OnChat /\ socks[k].client = "closed" /\ ServerEnds(k))
       /\ WF_chatVars(OnChat /\ socks[k].server \in {"ended", "closed"} /\ ClientCloses(k))
  /\ \A m \in 1..MaxTyped : WF_chatVars(OnChat /\ TurnReplies(m))

ChannelsSpec ==
  /\ ChannelsInit /\ [][ChannelsNext]_allVars
  /\ PartFairness /\ TgFairness /\ DiscordFairness /\ StopFairness /\ InputFairness

InputSpec == ChannelsInit /\ part = "input" /\ [][ChannelsNext]_allVars
StopSpec == ChannelsInit /\ part = "stop" /\ [][ChannelsNext]_allVars

-----------------------------------------------------------------------------
(* The adapters keep to one of everything: one live link each and no more  *)
(* than the hourly restarts (channel.ts connect, monitor.ts), Telegram     *)
(* chunks one at a time in the order of their slots (telegram/channel.ts   *)
(* acquireChatSlot), one edit of a deferred Discord reply, one entry that  *)
(* settles each request to signal-cli (signal/channel.ts writeRpcAwait).   *)
AdaptersSound == OneLiveLink /\ RestartCap /\ ChunksInOrder /\ EditedOnce /\ RpcSettles

(* No adapter waits for ever: a link that is down is retried, a Telegram   *)
(* send ends however often its calls are throttled, and a deferred         *)
(* interaction leaves the pending map (monitor.ts, telegram/channel.ts     *)
(* send, discord/channel.ts ensureSweep).                                  *)
AdaptersProgress == DownIsRetried /\ SendsEnd /\ PendingLeaves

(* What is typed in the terminal arrives as it was meant: messages once    *)
(* and in order over reconnects, and the pastes of a message in full       *)
(* (chat-command.ts send, input-handler.ts consume).                       *)
ChatSound == InboundInOrder /\ OwnPastesExpand

(* The terminal does not hang: a streaming reply ends, by its end or by    *)
(* the socket's, and paste mode ends without its closing mark              *)
(* (chat-command.ts onclose, input-handler.ts armPasteTimeout).            *)
ChatProgress == StreamEnds /\ PasteModeEnds

(* However many signals come, each step of the shutdown runs once, and     *)
(* when the threads are flushed every turn the router knew of has ended or *)
(* been aborted (main.ts 99-140, message-router.ts stopAll).               *)
ShutdownSound == StepsOnce /\ OnlyStraysRun
=============================================================================
