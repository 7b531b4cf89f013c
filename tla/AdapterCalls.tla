----------------------------- MODULE AdapterCalls -----------------------------
(***************************************************************************)
(* The adapters' calls to their platforms that have waits of their own:    *)
(* Telegram's chain of send slots, Discord's deferred interactions, and    *)
(* Signal's requests to signal-cli.  The three share no state.             *)
(***************************************************************************)
EXTENDS Naturals, FiniteSets

-----------------------------------------------------------------------------
(* Telegram's sends to one chat.  Every chunk or attachment of a message   *)
(* takes a slot: acquireChatSlot chains a promise per chat and waits for   *)
(* the one before it, and a slot is released by a timer SEND_THROTTLE_MS   *)
(* after its call ended.  A call is retried on 429; a chunk that fails as  *)
(* HTML is sent once more as plain text.  disconnect clears the timers and *)
(* the chain.                                                              *)

CONSTANTS
  TgSends,      \* send calls
  MaxSlots,     \* bound: slots taken
  TgAttempts,   \* attempts of retryTelegram
  MaxTgDrops    \* bound: disconnects

ASSUME TgBounds == {MaxSlots, TgAttempts, MaxTgDrops} \subseteq Nat

VARIABLES
  bot,       \* TRUE while this.bot is set
  slots,     \* slot -> send, the slot waited for, phase, mode and attempt
  chain,     \* the last slot of sendChain, 0 when there is none
  tgSends,   \* send -> chunks left, and "new", "running", "sent", "failed"
  tgDrops    \* disconnects so far: the epoch a slot was taken in

tgVars == <<bot, slots, chain, tgSends, tgDrops>>

SlotIds == 1..MaxSlots
FreeSlot == [send |-> "none", prior |-> 0, phase |-> "free", html |-> TRUE, attempt |-> 0, epoch |-> 0]
TgInit ==
  /\ bot = TRUE /\ chain = 0 /\ tgDrops = 0
  /\ slots = [i \in SlotIds |-> FreeSlot]
  /\ tgSends = [s \in TgSends |-> [left |-> 0, state |-> "new"]]

(* acquireChatSlot up to its await: the slot is last in the chain *)
PriorNone == 0
Prior == chain
TakesSlot(s, now) ==
  \E i \in SlotIds :
    /\ now[i].phase = "free" /\ \A j \in 1..(i - 1) : now[j].phase # "free"
    /\ slots' = [now EXCEPT ![i] = [FreeSlot EXCEPT !.send = s, !.prior = Prior, !.phase = "waiting", !.epoch = tgDrops]]
    /\ chain' = i

SendStarts(s, chunks) ==
  /\ bot /\ tgSends[s].state = "new"
  /\ tgSends' = [tgSends EXCEPT ![s] = [left |-> chunks, state |-> "running"]]
  /\ TakesSlot(s, slots)
  /\ UNCHANGED <<bot, tgDrops>>

(* the slot before has been released: the call is made *)
SlotEntered(i) ==
  /\ slots[i].phase = "waiting"
  /\ slots[i].prior \in {0} \cup {j \in SlotIds : slots[j].phase = "released"}
  /\ slots' = [slots EXCEPT ![i].phase = "calling", ![i].attempt = 1]
  /\ UNCHANGED <<bot, chain, tgSends, tgDrops>>

(* finally: release() sets the throttle timer *)
Throttled(i) == [slots EXCEPT ![i].phase = "throttled", ![i].attempt = 0, ![i].html = TRUE]
CallSucceeds(i) ==
  LET s == slots[i].send IN
  /\ slots[i].phase = "calling" /\ bot
  /\ IF tgSends[s].left > 1
     THEN /\ tgSends' = [tgSends EXCEPT ![s].left = @ - 1]
          /\ TakesSlot(s, Throttled(i))
     ELSE /\ tgSends' = [tgSends EXCEPT ![s] = [left |-> 0, state |-> "sent"]]
          /\ slots' = Throttled(i) /\ UNCHANGED chain
  /\ UNCHANGED <<bot, tgDrops>>
GivesUpHolding(i) == [slots EXCEPT ![i].phase = "held"]
GivesUp(i) == Throttled(i)
CallLost(i) ==
  /\ slots' = GivesUp(i)
  /\ tgSends' = [tgSends EXCEPT ![slots[i].send].state = "failed"]
  /\ UNCHANGED <<bot, chain, tgDrops>>
(* 429: wait and try again, up to the limit; then the send fails *)
CallRateLimited(i) ==
  /\ slots[i].phase = "calling" /\ bot
  /\ IF slots[i].attempt < TgAttempts
     THEN slots' = [slots EXCEPT ![i].attempt = @ + 1] /\ UNCHANGED <<bot, chain, tgSends, tgDrops>>
     ELSE CallLost(i)
(* any other error, a bot that is gone included: once more as plain text *)
CallRefused(i) ==
  /\ slots[i].phase = "calling"
  /\ IF slots[i].html
     THEN slots' = [slots EXCEPT ![i].html = FALSE, ![i].attempt = 1] /\ UNCHANGED <<bot, chain, tgSends, tgDrops>>
     ELSE CallLost(i)

(* the throttle timer resolves the slot's promise *)
SlotReleased(i) ==
  /\ slots[i].phase = "throttled"
  /\ slots' = [slots EXCEPT ![i].phase = "released"]
  /\ chain' = IF chain = i THEN 0 ELSE chain
  /\ UNCHANGED <<bot, tgSends, tgDrops>>

(* disconnect: cleared timers never resolve their slots *)
TgDisconnects ==
  /\ bot /\ tgDrops < MaxTgDrops
  /\ bot' = FALSE /\ tgDrops' = tgDrops + 1 /\ chain' = 0
  /\ slots' = [i \in SlotIds |-> IF slots[i].phase = "throttled" THEN [slots[i] EXCEPT !.phase = "lost"] ELSE slots[i]]
  /\ UNCHANGED tgSends
TgConnects == ~bot /\ bot' = TRUE /\ UNCHANGED <<slots, chain, tgSends, tgDrops>>

TgNext ==
  \/ \E s \in TgSends, n \in 1..2 : SendStarts(s, n)
  \/ \E i \in SlotIds : SlotEntered(i) \/ CallSucceeds(i) \/ CallRateLimited(i) \/ CallRefused(i) \/ SlotReleased(i)
  \/ TgDisconnects \/ TgConnects

(* Timers fire, and Telegram answers every call one way or another. *)
TgFairness ==
  \A i \in SlotIds : /\ WF_tgVars(SlotEntered(i)) /\ WF_tgVars(SlotReleased(i))
                     /\ WF_tgVars(CallSucceeds(i) \/ CallRateLimited(i) \/ CallRefused(i))

-----------------------------------------------------------------------------
(* Slots of one connection are used strictly in the order they were taken, *)
(* one call at a time, through failures and retries: chunks of a long      *)
(* reply cannot overtake each other, nor the next reply.                   *)
ChunksInOrder ==
  \A i, j \in SlotIds :
    i < j /\ slots[i].epoch = slots[j].epoch /\ slots[j].phase \in {"calling", "throttled", "released"}
    => slots[i].phase = "released"

(* A slot that waits for one whose timer disconnect cleared. *)
Stranded(s) == \E i \in SlotIds : /\ slots[i].send = s /\ slots[i].phase = "waiting"
                                  /\ slots[i].epoch < tgDrops
(* Every send ends, sent or failed, unless a disconnect found it waiting   *)
(* for its turn (such a send waits for ever).                              *)
SendsEnd == \A s \in TgSends :
  tgSends[s].state = "running" ~> (tgSends[s].state \in {"sent", "failed"} \/ Stranded(s))

-----------------------------------------------------------------------------
(* Slash commands of the Discord adapter (gateway channels/discord).       *)
(*                                                                         *)
(* Discord drops an interaction nobody answers, so the adapter defers the  *)
(* reply, keeps the interaction in pendingInteractions and edits the       *)
(* deferred reply when the agent's answer, which names the interaction in  *)
(* replyTo, comes back.  A sweep, started by the first entry and stopped   *)
(* by the tick that finds none left, forgets interactions whose webhook    *)
(* has run out.  Every await (the import of discord.js, login, deferReply, *)
(* the attachments of an answer) is a point where disconnect() may pass.   *)

CONSTANTS
    Inters,         \* slash commands users issue
    InterTTL,       \* INTERACTION_TTL_MS, in ticks of the sweep
    MaxPendingInters, \* MAX_PENDING_INTERACTIONS
    MaxRejoins      \* bound: disconnects

VARIABLES
    dLink,     \* "off", "importing", "login" or "ready"
    inter,     \* each interaction: where it stands, age in ticks
    answers,   \* each interaction: answers the agent sent for it, by outcome
    sweep,     \* sweepTimer is set
    rejoins
discordVars == <<dLink, inter, answers, sweep, rejoins>>

PendingInters == {i \in Inters : inter[i].at = "pending"}
NoAnswer == [edits |-> 0, posts |-> 0, phase |-> "none"]

DiscordInit ==
    /\ dLink = "off" /\ sweep = FALSE /\ rejoins = 0
    /\ inter = [i \in Inters |-> [at |-> "unseen", age |-> 0]]
    /\ answers = [i \in Inters |-> NoAnswer]

(* connect(): import, build the client, log in, become ready.  It does not *)
(* look at the status again after an await.                                *)
DiscordConnects ==
    \/ dLink = "off" /\ dLink' = "importing" /\ UNCHANGED <<inter, answers, sweep, rejoins>>
    \/ dLink = "importing" /\ dLink' \in {"login", "off"} /\ UNCHANGED <<inter, answers, sweep, rejoins>>
    \/ dLink = "login" /\ dLink' \in {"ready", "off"} /\ UNCHANGED <<inter, answers, sweep, rejoins>>

(* disconnect(): the timer, the entries and the client all go.             *)
Forgotten(at) == IF at = "pending" THEN "dropped" ELSE at
DiscordDisconnects ==
    /\ dLink \in {"login", "ready"} /\ rejoins < MaxRejoins
    /\ dLink' = "off" /\ sweep' = FALSE /\ rejoins' = rejoins + 1
    /\ inter' = [i \in Inters |-> [inter[i] EXCEPT !.at = Forgotten(@)]]
    /\ UNCHANGED answers

(* The handler turns a command away at the cap, else awaits deferReply().  *)
Busy == Cardinality(PendingInters) >= MaxPendingInters
SlashArrives(i) ==
    /\ dLink = "ready" /\ inter[i].at = "unseen"
    /\ inter' = [inter EXCEPT ![i].at = IF Busy THEN "turned away" ELSE "deferring"]
    /\ UNCHANGED <<dLink, answers, sweep, rejoins>>

(* ensureSweep() and its tick.                                             *)
SweepAsIs(on) == on
EnsureSweep(on) == TRUE
DeferReturns(i, ok) ==
    /\ inter[i].at = "deferring"
    /\ IF ok THEN /\ inter' = [inter EXCEPT ![i] = [at |-> "pending", age |-> 0]]
                  /\ sweep' = EnsureSweep(sweep)
                  /\ answers' = [answers EXCEPT ![i].phase = "asked"]
             ELSE inter' = [inter EXCEPT ![i].at = "failed"] /\ UNCHANGED <<sweep, answers>>
    /\ UNCHANGED <<dLink, rejoins>>

SweepTicks ==
    LET old == {i \in PendingInters : inter[i].age >= InterTTL}
    IN /\ sweep
       /\ inter' = [i \in Inters |-> IF i \in old THEN [inter[i] EXCEPT !.at = "swept"]
                                     ELSE IF i \in PendingInters THEN [inter[i] EXCEPT !.age = @ + 1]
                                     ELSE inter[i]]
       /\ sweep' = (PendingInters # old)
       /\ UNCHANGED <<dLink, answers, rejoins>>

(* send() of the agent's answer: it fails without a client, reads the      *)
(* attachments, then takes the entry or posts to the channel instead.      *)
SendBegins(i) ==
    /\ answers[i].phase = "asked" /\ dLink \in {"login", "ready"}
    /\ answers' = [answers EXCEPT ![i].phase = "reading"]
    /\ UNCHANGED <<dLink, inter, sweep, rejoins>>
TakeKeeping(i) == "pending"
Take(i) == "taken"
SendLands(i) ==
    /\ answers[i].phase = "reading"
    /\ IF inter[i].at = "pending"
       THEN /\ inter' = [inter EXCEPT ![i].at = Take(i)]
            /\ answers' = [answers EXCEPT ![i].edits = @ + 1, ![i].phase = "asked"]
       ELSE /\ answers' = [answers EXCEPT ![i].posts = IF dLink \in {"login", "ready"} /\ @ = 0 THEN 1 ELSE @
                                        , ![i].phase = "done"]
            /\ UNCHANGED inter
    /\ UNCHANGED <<dLink, sweep, rejoins>>

DiscordNext ==
    \/ DiscordConnects \/ DiscordDisconnects \/ SweepTicks
    \/ \E i \in Inters : SlashArrives(i) \/ SendBegins(i) \/ SendLands(i)
    \/ \E i \in Inters, ok \in BOOLEAN : DeferReturns(i, ok)
DiscordFairness == WF_discordVars(SweepTicks)
-----------------------------------------------------------------------------
(* A deferred reply is edited at most once: the first part of an answer    *)
(* takes the entry, the later parts and a retry go to the channel          *)
(* (discord/channel.ts send, 389-402).                                     *)
EditedOnce == \A i \in Inters : answers[i].edits <= 1

(* No entry outlives its webhook for good: whatever overtakes what, an     *)
(* entry is answered, swept or dropped, also one that a deferReply() late  *)
(* by a disconnect() put into a map just cleared (ensureSweep, 628-642).   *)
PendingLeaves == \A i \in Inters : (inter[i].at = "pending") ~> (inter[i].at # "pending")

-----------------------------------------------------------------------------
(* Requests of the Signal adapter to signal-cli.                           *)
(*                                                                         *)
(* send() names its request rpc-<Date.now()>, enters it in pendingRpcs and *)
(* waits for the line signal-cli writes back, for its own timer, or for a  *)
(* write that fails.  Two sends of one millisecond have one name.          *)

CONSTANTS
    RpcSends,       \* calls of SignalChannel.send()
    RpcClock,       \* bound: milliseconds the clock runs through
    OneRpcPerMs     \* no two sends fall into one millisecond

VARIABLES
    rpc,        \* each send: phase, the id it took, its timer
    rpcPending, \* pendingRpcs: id -> the send whose resolve it holds
    acks,       \* lines signal-cli has still to write, by id
    ms          \* Date.now()
rpcVars == <<rpc, rpcPending, acks, ms>>

NoSend == "none"
Ids == 0..RpcClock

ASSUME RpcAssumption == RpcClock \in Nat /\ NoSend \notin RpcSends

RpcInit ==
    /\ rpc = [s \in RpcSends |-> [at |-> "idle", id |-> 0, timer |-> FALSE]]
    /\ rpcPending = [i \in Ids |-> NoSend] /\ acks = [i \in Ids |-> 0] /\ ms = 0

ClockRuns == ms < RpcClock /\ ms' = ms + 1 /\ UNCHANGED <<rpc, rpcPending, acks>>

Taken == {rpc[s].id : s \in {t \in RpcSends : rpc[t].at # "idle"}}
SendNamed(s) ==
    /\ rpc[s].at = "idle" /\ (OneRpcPerMs => ms \notin Taken)
    /\ rpc' = [rpc EXCEPT ![s] = [at |-> "reading", id |-> ms, timer |-> FALSE]]
    /\ UNCHANGED <<rpcPending, acks, ms>>

(* writeRpcAwait(): the entry, the timer, the write.                       *)
WriteRpc(s) ==
    /\ rpc[s].at = "reading"
    /\ rpc' = [rpc EXCEPT ![s].at = "waiting", ![s].timer = TRUE]
    /\ rpcPending' = [rpcPending EXCEPT ![rpc[s].id] = s]
    /\ acks' = [acks EXCEPT ![rpc[s].id] = @ + 1]
    /\ UNCHANGED ms

(* A line from signal-cli settles the send whose entry has its id, and     *)
(* clears that send's timer.                                               *)
AckArrives(i, how) ==
    /\ acks[i] > 0 /\ acks' = [acks EXCEPT ![i] = @ - 1]
    /\ rpcPending' = [rpcPending EXCEPT ![i] = NoSend]
    /\ rpc' = [s \in RpcSends |-> IF rpcPending[i] = s THEN [rpc[s] EXCEPT !.at = how, !.timer = FALSE]
                                  ELSE rpc[s]]
    /\ UNCHANGED ms
AckLost(i) == acks[i] > 0 /\ acks' = [acks EXCEPT ![i] = @ - 1] /\ UNCHANGED <<rpc, rpcPending, ms>>

(* The timer of send s (and a write of s that fails) deletes whatever      *)
(* entry has the id, and settles s if there was one.                       *)
OwnEntryGone(s, how) ==
    LET i == rpc[s].id
    IN /\ rpc' = [rpc EXCEPT ![s].at = IF rpcPending[i] # NoSend /\ @ = "waiting" THEN how ELSE @, ![s].timer = FALSE]
       /\ rpcPending' = [rpcPending EXCEPT ![i] = NoSend]
TimerForgets(s) == rpc' = [rpc EXCEPT ![s].timer = FALSE] /\ rpcPending' = [rpcPending EXCEPT ![rpc[s].id] = NoSend]
TimerResolves(s) == OwnEntryGone(s, "resolved")
RpcTimer(s) == rpc[s].timer /\ TimerResolves(s) /\ UNCHANGED <<acks, ms>>
WriteFails(s) ==
    /\ rpc[s].at = "waiting" /\ rpc[s].timer /\ acks[rpc[s].id] > 0
    /\ OwnEntryGone(s, "rejected")
    /\ acks' = [acks EXCEPT ![rpc[s].id] = @ - 1] /\ UNCHANGED ms
RpcNext ==
    \/ ClockRuns
    \/ \E s \in RpcSends : SendNamed(s) \/ WriteRpc(s) \/ RpcTimer(s) \/ WriteFails(s)
    \/ \E i \in Ids : AckLost(i) \/ \E how \in {"resolved", "rejected"} : AckArrives(i, how)
-----------------------------------------------------------------------------
(* The caller's send() promise still settles (signal/channel.ts:157-162):  *)
(* a send that waits has its timer and the entry that lets it settle.      *)
RpcSettles == \A s \in RpcSends : rpc[s].at = "waiting" => rpc[s].timer /\ rpcPending[rpc[s].id] = s
=============================================================================
