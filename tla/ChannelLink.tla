---------------------------- MODULE ChannelLink ----------------------------
(***************************************************************************)
(* The connection of one channel adapter: BaseChannel's reconnect timer,   *)
(* the two adapters that use it (WhatsApp, whose connect awaits before it  *)
(* has a socket, and Signal, whose process exists at once), the gateway's  *)
(* channel.auth methods, and the health monitor, which disconnects and     *)
(* reconnects a channel whose status is not "connected".                   *)
(*                                                                         *)
(* A link (socket or child process) reports its end by an event of its own,*)
(* which may come long after the adapter has replaced it.                  *)
(***************************************************************************)
EXTENDS Naturals, FiniteSets

CONSTANTS
  LinkKinds,       \* the adapters modelled, a subset of {"whatsapp", "signal"}
  MaxLinks,        \* bound: sockets or processes made in a run
  MaxLinkAttempts,     \* MAX_RECONNECT_ATTEMPTS
  RestartsPerHour, \* maxRestartsPerHour
  MaxBackoff,      \* RECONNECT_BACKOFF_MAX_MS, in check intervals
  MaxOrders        \* bound: channel.auth calls

ASSUME LinkBounds == {MaxLinks, MaxLinkAttempts, RestartsPerHour, MaxBackoff, MaxOrders} \subseteq Nat

VARIABLES
  kind,      \* which adapter this is
  linkWire,      \* the adapter's fields: status, current link, connecting flag, reconnect timer,
             \* and the connects that are between their awaits ("starting")
  links,     \* every link made: "opening", "open", "ending" (end or kill called), "gone"
  monitor,   \* ChannelHealthState of this channel
  orders,    \* channel.auth calls so far, and the auth.start between its two awaits
  late       \* TRUE once a link reported its end, or was made, after disconnect had let go of it

linkVars == <<kind, linkWire, links, monitor, orders, late>>

LinkIds == 1..MaxLinks
Made == {i \in LinkIds : links[i] # "none"}
Live == {i \in LinkIds : links[i] \in {"opening", "open"}}

LinkInit ==
  /\ kind \in LinkKinds
  /\ linkWire = [status |-> "disconnected", current |-> 0, connecting |-> FALSE, starting |-> 0,
             attempts |-> 0, armed |-> FALSE, strays |-> 0]
  /\ links = [i \in LinkIds |-> "none"]
  /\ monitor = [since |-> 0, hour |-> 0, failures |-> 0, restarting |-> FALSE]
  /\ orders = [count |-> 0, clearing |-> FALSE]
  /\ late = FALSE

(* scheduleReconnect: the handle of a timer that is still pending is       *)
(* overwritten, and that timer becomes a stray nobody can clear.           *)
Scheduled(w) ==
  IF w.attempts >= MaxLinkAttempts THEN [w EXCEPT !.status = "error"]
  ELSE [w EXCEPT !.attempts = @ + 1, !.status = "connecting", !.armed = TRUE,
                 !.strays = @ + (IF w.armed THEN 1 ELSE 0)]
(* clearReconnect *)
Cleared(w) == [w EXCEPT !.armed = FALSE, !.attempts = 0]

(* The guard of connect: WhatsApp refuses while it has a socket or is      *)
(* making one, Signal while it has a process.                              *)
NeedsLinkUnlessHeld(w) == w.current = 0
NeedsLink(w) == w.current = 0 /\ ~w.connecting

(* connect up to its first await.  Signal's process is there when it       *)
(* returns; WhatsApp has none yet.                                         *)
Connects(w, made) ==
  IF ~NeedsLink(w) THEN linkWire' = w /\ links' = made
  ELSE IF kind = "whatsapp"
  THEN /\ linkWire' = [w EXCEPT !.connecting = TRUE, !.starting = @ + 1, !.status = "connecting"]
       /\ links' = made
  ELSE \E i \in LinkIds :
         /\ made[i] = "none" /\ \A j \in LinkIds : j < i => made[j] # "none"
         /\ linkWire' = [w EXCEPT !.current = i, !.attempts = 0, !.status = "connected"]
         /\ links' = [made EXCEPT ![i] = "open"]

(* The monitor's chain of promises is done when connect returns *)
ReturnedBusy(m) == m
Returned(m) == [m EXCEPT !.restarting = FALSE]

(* WhatsApp's connect goes on: the socket is made, or something threw *)
SocketMade ==
  /\ kind = "whatsapp" /\ linkWire.starting > 0
  /\ \E i \in LinkIds :
       /\ links[i] = "none" /\ \A j \in LinkIds : j < i => links[j] # "none"
       /\ links' = [links EXCEPT ![i] = "opening"]
       /\ linkWire' = [linkWire EXCEPT !.connecting = FALSE, !.starting = @ - 1, !.current = i]
  /\ monitor' = Returned(monitor)
  /\ late' = (late \/ linkWire.status = "disconnected")
  /\ UNCHANGED <<kind, orders>>
ConnectThrows ==
  /\ kind = "whatsapp" /\ linkWire.starting > 0
  /\ linkWire' = [linkWire EXCEPT !.connecting = FALSE, !.starting = @ - 1, !.current = 0, !.status = "error"]
  /\ monitor' = Returned(monitor)
  /\ UNCHANGED <<kind, links, orders, late>>

(* connection.update "open" *)
LinkOpens(i) ==
  /\ links[i] = "opening"
  /\ links' = [links EXCEPT ![i] = "open"]
  /\ linkWire' = [linkWire EXCEPT !.attempts = 0, !.status = "connected"]
  /\ UNCHANGED <<kind, monitor, orders, late>>

(* The "close" event of link i, whichever link is current by then.  final: *)
(* logged out, or exit code 0.                                             *)
LinkCloses(i, final) ==
  /\ links[i] \in {"opening", "open", "ending"}
  /\ links' = [links EXCEPT ![i] = "gone"]
  /\ linkWire' = LET w == [linkWire EXCEPT !.current = 0] IN
             IF final THEN [w EXCEPT !.status = "disconnected"] ELSE Scheduled(w)
  /\ late' = (late \/ linkWire.current # i)
  /\ UNCHANGED <<kind, monitor, orders>>

(* The process could not be started: "error" comes before "close" *)
SpawnFails(i) ==
  /\ kind = "signal" /\ links[i] = "open" /\ linkWire.status # "error"
  /\ linkWire' = [linkWire EXCEPT !.status = "error"]
  /\ UNCHANGED <<kind, links, monitor, orders, late>>

(* A reconnect timer fires; a stray one forgets the handle of the armed *)
TimerFires(stray) ==
  /\ IF stray THEN linkWire.strays > 0 ELSE linkWire.armed
  /\ LET w == [linkWire EXCEPT !.armed = FALSE,
                           !.strays = IF stray /\ ~linkWire.armed THEN @ - 1 ELSE @]
     IN  Connects(w, links)
  /\ UNCHANGED <<kind, monitor, orders, late>>

(* disconnect *)
Ended == IF linkWire.current = 0 THEN links ELSE [links EXCEPT ![linkWire.current] = "ending"]
LinkDropped == [Cleared(linkWire) EXCEPT !.current = 0, !.status = "disconnected"]

(* BaseGateway.start, and channel.auth.start and channel.auth.disconnect: a start  *)
(* disconnects, clears the session's files and only then connects.         *)
GatewayConnects ==
  /\ orders.count = 0 /\ Made = {} /\ linkWire.status = "disconnected"
  /\ Connects(linkWire, links)
  /\ orders' = [orders EXCEPT !.count = 1]
  /\ UNCHANGED <<kind, monitor, late>>
AuthDrops(start) ==
  /\ orders.count \in 1..MaxOrders /\ ~orders.clearing
  /\ linkWire' = LinkDropped /\ links' = Ended
  /\ orders' = [count |-> orders.count + 1, clearing |-> start]
  /\ UNCHANGED <<kind, monitor, late>>
AuthConnects ==
  /\ orders.clearing
  /\ Connects(linkWire, links)
  /\ orders' = [orders EXCEPT !.clearing = FALSE]
  /\ UNCHANGED <<kind, monitor, late>>

-----------------------------------------------------------------------------
(* ChannelHealthMonitor.  since counts check intervals since the last      *)
(* attempt or connect, up to the longest wait.                             *)
Backoff(m) == IF 2 ^ m.failures < MaxBackoff THEN 2 ^ m.failures ELSE MaxBackoff
MonitorOverCap(m) == ~m.restarting /\ m.since >= Backoff(m)
MonitorDue(m) == ~m.restarting /\ m.since >= Backoff(m) /\ m.hour < RestartsPerHour
CheckIdles ==
  /\ orders.count > 0 /\ monitor.since < MaxBackoff
  /\ monitor' = [monitor EXCEPT !.since = @ + 1]
  /\ UNCHANGED <<kind, linkWire, links, orders, late>>
HourSlides ==
  /\ monitor.hour > 0
  /\ monitor' = [monitor EXCEPT !.hour = @ - 1]
  /\ UNCHANGED <<kind, linkWire, links, orders, late>>

(* check: disconnect, then connect.  connect reports its own failures and  *)
(* never rejects, so the attempt counts as a success when it returns.      *)
MonitorRestarts ==
  /\ orders.count > 0 /\ linkWire.status # "connected" /\ MonitorDue(monitor)
  /\ Connects(LinkDropped, Ended)
  /\ monitor' = [since |-> 0, hour |-> monitor.hour + 1, failures |-> 0,
                 restarting |-> linkWire'.starting > linkWire.starting]
  /\ UNCHANGED <<kind, orders, late>>
(* ending the link threw: the attempt is a failure *)
MonitorFails ==
  /\ orders.count > 0 /\ linkWire.status # "connected" /\ MonitorDue(monitor)
  /\ linkWire.current # 0 /\ monitor.failures < MaxBackoff
  /\ linkWire' = Cleared(linkWire)
  /\ monitor' = [monitor EXCEPT !.since = 0, !.hour = @ + 1, !.failures = @ + 1]
  /\ UNCHANGED <<kind, links, orders, late>>

LinkNext ==
  \/ SocketMade \/ ConnectThrows \/ GatewayConnects \/ AuthConnects
  \/ \E i \in LinkIds : LinkOpens(i) \/ SpawnFails(i) \/ \E f \in BOOLEAN : LinkCloses(i, f)
  \/ \E b \in BOOLEAN : TimerFires(b) \/ AuthDrops(b)
  \/ CheckIdles \/ HourSlides \/ MonitorRestarts \/ MonitorFails

(* Timers fire, intervals pass, and an awaited start comes back.  Nothing  *)
(* is assumed of the network: a link may stay open, or never open.         *)
LinkFairness ==
  /\ WF_linkVars(SocketMade \/ ConnectThrows)
  /\ WF_linkVars(CheckIdles) /\ WF_linkVars(HourSlides)
  /\ WF_linkVars(\E b \in BOOLEAN : TimerFires(b))
  /\ WF_linkVars(AuthConnects)
  /\ WF_linkVars(MonitorRestarts)

-----------------------------------------------------------------------------
(* One adapter, one link: the guard in connect keeps reconnect timers, the *)
(* monitor and the operator from opening a second one beside the first.    *)
(* The one way past it is a link that reports its end, or is made, after   *)
(* disconnect let go of it: the handler clears whatever link is current.   *)
OneLiveLink == Cardinality(Live) > 1 => late

(* The monitor never restarts a channel more often than the hour allows.   *)
RestartCap == monitor.hour <= RestartsPerHour

(* A channel that is down does not stay down unattended: it recovers, or   *)
(* the monitor makes one more attempt.                                     *)
DownIsRetried ==
  (orders.count > 0 /\ linkWire.status \in {"error", "disconnected"}) ~>
    (linkWire.status \notin {"error", "disconnected"} \/ monitor.since = 0 \/ Made = LinkIds)
=============================================================================
