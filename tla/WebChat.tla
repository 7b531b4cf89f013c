------------------------------- MODULE WebChat -------------------------------
(***************************************************************************)
(* The terminal chat: `flopsy chat` and `flopsy chat send` (cli            *)
(* chat-command.ts), the daemon's chat sockets (management/chat-handler)   *)
(* and the chat channel that answers through them (channels/chat).         *)
(*                                                                         *)
(* The channel keeps ONE session per peer, and the peer is the login name, *)
(* so the sockets of one user follow each other in that place: a           *)
(* reconnecting terminal, or a one-shot send beside an open terminal.      *)
(* Either end of a socket learns of its end in its own time.               *)
(***************************************************************************)
EXTENDS Naturals, Sequences, FiniteSets

CONSTANTS
    MaxSockets,        \* bound: sockets opened
    MaxTyped,          \* bound: messages typed
    MaxPendingMessages,\* MAX_PENDING_MESSAGES
    OneShots,          \* may a one-shot send run beside the terminal
    EndsSeenInOrder    \* the daemon sees a socket end before the next one opens

ASSUME ChatBounds == MaxSockets \in Nat

VARIABLES
    socks,   \* each socket: owner, what the client and what the daemon see of it
    session, \* peers.get(user): the socket registered, 0 when none
    tui,     \* ws, reconnect timer, streaming flag, pending queue, everConnected
    typed,   \* messages typed so far, numbered from 1
    wire,    \* messages sent and not yet received, per socket
    inbound, \* messages the gateway received, in order
    running  \* messages whose turn has not ended
chatVars == <<socks, session, tui, typed, wire, inbound, running>>

SockIds == 1..MaxSockets
NoSock == [owner |-> "none", client |-> "none", server |-> "none"]
UnusedSock == {k \in SockIds : socks[k].owner = "none"}
Next1(S) == CHOOSE k \in S : \A j \in S : k <= j

ChatInit ==
    /\ socks = [k \in SockIds |-> NoSock] /\ session = 0
    /\ tui = [ws |-> 0, timer |-> TRUE, streaming |-> FALSE, pending |-> <<>>, ever |-> FALSE]
    /\ typed = 0 /\ wire = [k \in SockIds |-> <<>>] /\ inbound = <<>> /\ running = {}

(* connect(): from the start of the terminal and from its reconnect timer. *)
Lingering == \E k \in SockIds : socks[k].server \in {"open", "ended"} /\ socks[k].client = "closed"
Opens(owner) ==
    /\ UnusedSock # {} /\ (EndsSeenInOrder => ~Lingering)
    /\ socks' = [socks EXCEPT ![Next1(UnusedSock)] = [owner |-> owner, client |-> "opening", server |-> "none"]]
TuiConnects ==
    /\ tui.timer /\ Opens("tui")
    /\ tui' = [tui EXCEPT !.timer = FALSE, !.ws = Next1(UnusedSock)]
    /\ UNCHANGED <<session, typed, wire, inbound, running>>
OnceConnects ==
    /\ OneShots /\ \A k \in SockIds : socks[k].owner # "once"
    /\ Opens("once") /\ UNCHANGED <<session, tui, typed, wire, inbound, running>>

(* handleUpgrade() and session(): the new socket takes the user's place.   *)
Accepts(k) ==
    /\ socks[k].client = "opening" /\ socks[k].server = "none"
    /\ socks' = [socks EXCEPT ![k].server = "open"] /\ session' = k
    /\ UNCHANGED <<tui, typed, wire, inbound, running>>

(* The client's open event: what was typed offline goes first.             *)
FlushedBackwards(q) == [i \in 1..Len(q) |-> q[Len(q) + 1 - i]]
Flushed(q) == q
ClientOpens(k) ==
    /\ socks[k].client = "opening" /\ socks[k].server # "none"
    /\ socks' = [socks EXCEPT ![k].client = "open"]
    /\ IF socks[k].owner = "tui"
       THEN /\ tui' = [tui EXCEPT !.pending = <<>>, !.ever = TRUE]
            /\ wire' = [wire EXCEPT ![k] = @ \o Flushed(tui.pending)] /\ UNCHANGED typed
       ELSE /\ typed < MaxTyped /\ typed' = typed + 1
            /\ wire' = [wire EXCEPT ![k] = Append(@, typed + 1)] /\ UNCHANGED tui
    /\ UNCHANGED <<session, inbound, running>>

(* onSend and send(): an open socket, the queue, or the drop at its cap.   *)
TuiTypes ==
    /\ typed < MaxTyped /\ typed' = typed + 1 /\ tui.ever
    /\ IF socks[tui.ws].client = "open"
       THEN wire' = [wire EXCEPT ![tui.ws] = Append(@, typed + 1)] /\ tui' = [tui EXCEPT !.streaming = TRUE]
       ELSE /\ tui' = [tui EXCEPT !.streaming = TRUE
                                , !.pending = IF Len(@) >= MaxPendingMessages THEN @ ELSE Append(@, typed + 1)]
            /\ UNCHANGED wire
    /\ UNCHANGED <<socks, session, inbound, running>>

Receives(k) ==
    /\ socks[k].server = "open" /\ wire[k] # <<>>
    /\ inbound' = Append(inbound, Head(wire[k])) /\ running' = running \cup {Head(wire[k])}
    /\ wire' = [wire EXCEPT ![k] = Tail(@)]
    /\ UNCHANGED <<socks, session, tui, typed>>

(* The terminal's close event stops the stream and arms the timer; a       *)
(* terminal that never got through gives up.                               *)
LinkLost(t) == [t EXCEPT !.streaming = FALSE, !.timer = t.ever]
ClientCloses(k) ==
    /\ socks[k].client \in {"opening", "open"}
    /\ socks' = [socks EXCEPT ![k].client = "closed", ![k].server = IF @ = "none" THEN "closed" ELSE @]
    /\ tui' = IF tui.ws = k THEN LinkLost(tui) ELSE tui
    /\ UNCHANGED <<session, typed, wire, inbound, running>>

(* The daemon's end: the socket leaves OPEN, then its close handler        *)
(* unregisters the peer, whichever socket is registered.                   *)
ServerEnds(k) ==
    /\ socks[k].server = "open"
    /\ socks' = [socks EXCEPT ![k].server = "ended"] /\ wire' = [wire EXCEPT ![k] = <<>>]
    /\ UNCHANGED <<session, tui, typed, inbound, running>>
ServerCloses(k) ==
    /\ socks[k].server = "ended"
    /\ socks' = [socks EXCEPT ![k].server = "closed"] /\ session' = 0
    /\ UNCHANGED <<tui, typed, wire, inbound, running>>

(* ChatChannel.send(): the reply of a turn goes to the session of the      *)
(* moment; a session that is not OPEN is dropped with it.  The client gets *)
(* the event while its end is open: the terminal ends its stream, the      *)
(* one-shot closes.                                                        *)
EndsNothing(k) == tui
EndsStream(k) == IF socks[k].owner = "tui" /\ socks[k].client = "open" THEN [tui EXCEPT !.streaming = FALSE] ELSE tui
TurnReplies(m) ==
    /\ m \in running /\ running' = running \ {m}
    /\ IF session # 0 /\ socks[session].server = "open"
       THEN /\ tui' = EndsStream(session) /\ UNCHANGED session
            /\ socks' = IF socks[session].owner = "once" THEN [socks EXCEPT ![session].client = "closed"] ELSE socks
       ELSE session' = 0 /\ UNCHANGED <<tui, socks>>
    /\ UNCHANGED <<typed, wire, inbound>>

ChatNext ==
    \/ TuiConnects \/ OnceConnects \/ TuiTypes
    \/ \E k \in SockIds : Accepts(k) \/ ClientOpens(k) \/ Receives(k) \/ ClientCloses(k) \/ ServerEnds(k) \/ ServerCloses(k)
    \/ \E m \in 1..MaxTyped : TurnReplies(m)
(* A socket dead at one end ends at the other (TCP, and the ping of        *)
(* session()); turns end; the event loops run.                             *)
ChatFairness ==
    /\ WF_chatVars(TuiConnects)
    /\ \A k \in SockIds :
         /\ WF_chatVars(Accepts(k)) /\ WF_chatVars(ClientOpens(k)) /\ WF_chatVars(Receives(k)) /\ WF_chatVars(ServerCloses(k))
         /\ WF_chatVars(socks[k].client = "closed" /\ ServerEnds(k))
         /\ WF_chatVars(socks[k].server \in {"ended", "closed"} /\ ClientCloses(k))
    /\ \A m \in 1..MaxTyped : WF_chatVars(TurnReplies(m))
-----------------------------------------------------------------------------
Shared == \E k \in SockIds : socks[k].owner = "once"

(* Messages of the terminal reach the gateway once and in the order typed, *)
(* over any number of reconnects (chat-command.ts send 241-256 and the     *)
(* flush of connect 336-339).                                              *)
InboundInOrder == ~Shared => \A i, j \in DOMAIN inbound : i < j => inbound[i] < inbound[j]

(* A stream the terminal shows always ends: by the done event, or by the   *)
(* close that made it miss it.  It needs the ends seen in order and no     *)
(* one-shot send in the user's place (and a socket the bound still has).   *)
StreamEnds == tui.streaming ~> (~tui.streaming \/ Shared \/ UnusedSock = {})

(* "Never evict the peer ...: would kill the peer registration so the      *)
(* final 'done' delivery also fails" (channels/chat/channel.ts:107-109):   *)
(* while a socket of the user is open, one is registered.                  *)
OpenIsRegistered == (\E k \in SockIds : socks[k].server = "open" /\ socks[k].client = "open") => session # 0
=============================================================================
