---------------------------- MODULE ChannelsProofs ----------------------------
(***************************************************************************)
(* Theorems about the edges of the daemon, for every value of the          *)
(* constants: its shutdown (Shutdown), the connection of an adapter        *)
(* (ChannelLink), the calls of the adapters to their platforms             *)
(* (AdapterCalls), the terminal chat (WebChat) and its input editor        *)
(* (ChatInput), each on its own and composed as in MCChannels.             *)
(***************************************************************************)
EXTENDS MCChannels, SequenceFilter, SequenceTheorems, FiniteSetTheorems

-----------------------------------------------------------------------------
(* The shutdown.                                                           *)

(* The steps up to the one that runs were begun once, the others not at    *)
(* all; the workers are stopped at the fourth, and from the moment their   *)
(* drain is over what still runs began after it.                           *)
StopRan ==
  /\ stage \in 0..9 /\ signals \in Nat /\ (signals = 0 <=> stage = 0)
  /\ ran \in [1..9 -> Nat] /\ \A i \in 1..9 : ran[i] = IF i <= stage THEN 1 ELSE 0
Drained ==
  /\ draining \in [who : SUBSET Turns, phase : {"no", "draining", "aborting", "over"}]
  /\ draining.phase = "no" => stage <= 4
  /\ draining.phase \in {"draining", "aborting"} => stage = 4
  /\ draining.phase = "over" => stage > 4
TurnType == [at : {"none", "running", "aborted", "done"}, stray : BOOLEAN]
TurnsKnown ==
  /\ turn \in [Turns -> TurnType]
  /\ \A t \in Turns : turn[t].at = "running" =>
       \/ turn[t].stray
       \/ draining.phase = "no"
       \/ draining.phase = "draining" /\ t \in draining.who
StopInv == StopRan /\ Drained /\ TurnsKnown

(* Where the steps are.                                                    *)
LEMMA StopStages ==
  ASSUME stage \in 0..9
  PROVE  /\ DOMAIN StopOrder = 1..9
         /\ At("notice") <=> stage = 1
         /\ At("channels") <=> stage = 2
         /\ At("engine") <=> stage = 3
         /\ At("workers") <=> stage = 4
         /\ At("webhooks") <=> stage = 5
         /\ At("management") <=> stage = 6
         /\ At("flush") <=> stage = 7
         /\ At("store") <=> stage = 8
         /\ At("exit") <=> stage = 9
         /\ Past("workers") <=> stage > 4
<1>1. DOMAIN StopOrder = 1..9
  BY DEF StopOrder
<1>2. /\ StopOrder[1] = "notice" /\ StopOrder[2] = "channels" /\ StopOrder[3] = "engine" /\ StopOrder[4] = "workers"
      /\ StopOrder[5] = "webhooks" /\ StopOrder[6] = "management" /\ StopOrder[7] = "flush" /\ StopOrder[8] = "store"
      /\ StopOrder[9] = "exit"
  BY DEF StopOrder
<1>3. stage \in {0, 1, 2, 3, 4, 5, 6, 7, 8, 9}
  OBVIOUS
<1> HIDE DEF StopOrder
<1> QED  BY <1>1, <1>2, <1>3 DEF At, Past

(* Before any signal no step has begun and nothing drains.                 *)
LEMMA StopStart == StopInit => StopInv
<1> SUFFICES ASSUME StopInit PROVE StopInv
  OBVIOUS
<1>1. DOMAIN StopOrder = 1..9
  BY DEF StopOrder
<1>2. StopRan
  BY <1>1 DEF StopInit, StopRan
<1>3. Drained
  BY DEF StopInit, Drained
<1>4. TurnsKnown
  <2>1. {[at |-> "none", stray |-> FALSE], [at |-> "running", stray |-> FALSE]} \subseteq TurnType
    BY DEF TurnType
  <2>2. turn \in [Turns -> TurnType]
    BY <2>1 DEF StopInit
  <2> QED  BY <2>2 DEF StopInit, TurnsKnown
<1> QED  BY <1>2, <1>3, <1>4 DEF StopInv

(* The next step of the shutdown, and a turn that is not run on.           *)
LEMMA StageMoves ==
  ASSUME StopRan, stage \in 1..8, Step, UNCHANGED signals
  PROVE  StopRan' /\ stage' = stage + 1
<1>1. stage' = stage + 1 /\ ran' = [ran EXCEPT ![stage + 1] = @ + 1]
  BY DEF Step
<1>2. ran' \in [1..9 -> Nat]
  BY <1>1 DEF StopRan
<1>3. \A i \in 1..9 : ran'[i] = IF i <= stage + 1 THEN 1 ELSE 0
  <2> SUFFICES ASSUME NEW i \in 1..9 PROVE ran'[i] = IF i <= stage + 1 THEN 1 ELSE 0
    OBVIOUS
  <2>1. ran \in [1..9 -> Nat] /\ ran[i] = IF i <= stage THEN 1 ELSE 0
    BY DEF StopRan
  <2>2. CASE i = stage + 1
    BY <1>1, <2>1, <2>2
  <2>3. CASE i # stage + 1
    BY <1>1, <2>1, <2>3
  <2> QED  BY <2>2, <2>3
<1> QED  BY <1>1, <1>2, <1>3 DEF StopRan

(* Turns that the drain covers stay covered while none of them starts      *)
(* anew.                                                                   *)
LEMMA TurnsStay ==
  ASSUME TurnsKnown, UNCHANGED draining, turn' \in [Turns -> TurnType],
         \A t \in Turns : turn'[t].at = "running" =>
            turn'[t] = turn[t] \/ turn'[t].stray \/ draining.phase = "no"
  PROVE  TurnsKnown'
<1> SUFFICES ASSUME NEW t \in Turns, turn'[t].at = "running"
             PROVE  \/ turn'[t].stray
                    \/ draining.phase = "no"
                    \/ draining.phase = "draining" /\ t \in draining.who
  BY DEF TurnsKnown
<1>1. CASE turn'[t] = turn[t]
  BY <1>1 DEF TurnsKnown
<1> QED  BY <1>1

(* Every handler of the shutdown, and every turn, fire or socket beside    *)
(* it, keeps what was reached.                                             *)
LEMMA StopStep == StopInv /\ [StopNext]_stopVars => StopInv'
<1> SUFFICES ASSUME StopInv, [StopNext]_stopVars PROVE StopInv'
  OBVIOUS
<1>0. StopRan /\ Drained /\ TurnsKnown /\ stage \in 0..9
  BY DEF StopInv, StopRan, TurnsKnown
<1>1. CASE UNCHANGED <<stage, signals, ran, draining, turn>>
  BY <1>0, <1>1 DEF StopInv, StopRan, Drained, TurnsKnown
<1>2. CASE SignalArrives
  <2>1. signals' = signals + 1 /\ UNCHANGED <<draining, turn>>
    BY <1>2 DEF SignalArrives
  <2>2. CASE signals = 0
    <3>1. stage = 0 /\ stage' = 1 /\ ran' = [ran EXCEPT ![1] = @ + 1]
      BY <1>0, <1>2, <2>2 DEF SignalArrives, FirstSignal, StopRan
    <3>2. StopRan'
      <4>1. ran' \in [1..9 -> Nat] /\ \A i \in 1..9 : ran'[i] = IF i <= 1 THEN 1 ELSE 0
        BY <1>0, <3>1 DEF StopRan
      <4> QED  BY <1>0, <2>1, <2>2, <3>1, <4>1 DEF StopRan
    <3>3. Drained'
      BY <1>0, <2>1, <3>1 DEF Drained
    <3> QED  BY <1>0, <2>1, <3>2, <3>3 DEF StopInv, TurnsKnown
  <2>3. CASE signals # 0
    <3>1. UNCHANGED <<stage, ran>>
      BY <1>2, <2>3 DEF SignalArrives, FirstSignal
    <3>2. StopRan'
      BY <1>0, <2>1, <2>3, <3>1 DEF StopRan
    <3> QED  BY <1>0, <2>1, <3>1, <3>2 DEF StopInv, TurnsKnown, Drained
  <2> QED  BY <2>2, <2>3
<1>3. CASE /\ NoticeOver \/ ChannelsStopped \/ EngineStopped \/ WebhooksStopped
           \/ ManagementStopped \/ ThreadsFlushed \/ StoreCloses
  <2>1. stage \in {1, 2, 3, 5, 6, 7, 8} /\ Step /\ UNCHANGED <<signals, draining, turn>>
    BY <1>0, <1>3, StopStages DEF NoticeOver, ChannelsStopped, EngineStopped, WebhooksStopped, ManagementStopped,
       ThreadsFlushed, StoreCloses
  <2>2. StopRan' /\ stage' = stage + 1
    BY <1>0, <2>1, StageMoves
  <2>3. Drained'
    BY <1>0, <2>1, <2>2 DEF Drained
  <2> QED  BY <1>0, <2>1, <2>2, <2>3 DEF StopInv, TurnsKnown
<1>4. CASE StopAll
  <2>1. /\ stage = 4 /\ draining.phase = "no" /\ UNCHANGED <<stage, signals, ran, turn>>
        /\ draining' = [who |-> {t \in Turns : turn[t].at = "running"}, phase |-> "draining"]
    BY <1>0, <1>4, StopStages DEF StopAll
  <2>2. Drained'
    BY <2>1 DEF Drained
  <2>3. TurnsKnown'
    BY <1>0, <2>1 DEF TurnsKnown
  <2> QED  BY <1>0, <2>1, <2>2, <2>3 DEF StopInv, StopRan
<1>5. CASE DrainOver
  <2>1. /\ draining.phase = "draining" /\ UNCHANGED <<stage, signals, ran>>
        /\ draining' = [draining EXCEPT !.phase = "aborting"] /\ turn' = Aborts(draining.who)
    BY <1>5 DEF DrainOver
  <2>2. draining' \in [who : SUBSET Turns, phase : {"no", "draining", "aborting", "over"}] /\ draining'.phase = "aborting"
    BY <1>0, <2>1 DEF Drained
  <2>3. Drained'
    BY <1>0, <2>1, <2>2 DEF Drained
  <2>4. TurnsKnown'
    <3>0. turn' \in [Turns -> TurnType]
      BY <1>0, <2>1 DEF TurnsKnown, Aborts, TurnType
    <3> SUFFICES ASSUME NEW t \in Turns, turn'[t].at = "running" PROVE turn'[t].stray
      BY <3>0 DEF TurnsKnown
    <3>1. turn'[t] = IF t \in draining.who /\ turn[t].at = "running" THEN [turn[t] EXCEPT !.at = "aborted"] ELSE turn[t]
      BY <2>1 DEF Aborts
    <3> QED  BY <1>0, <2>1, <3>1 DEF TurnsKnown
  <2> QED  BY <1>0, <2>1, <2>3, <2>4 DEF StopInv, StopRan
<1>6. CASE WorkersStopped
  <2>1. /\ draining.phase = "aborting" /\ stage = 4 /\ Step /\ UNCHANGED <<signals, turn>>
        /\ draining' = [who |-> {}, phase |-> "over"]
    BY <1>0, <1>6 DEF WorkersStopped, Drained
  <2>2. StopRan' /\ stage' = 5
    BY <1>0, <2>1, StageMoves
  <2>3. Drained'
    BY <2>1, <2>2 DEF Drained
  <2>4. TurnsKnown'
    BY <1>0, <2>1 DEF TurnsKnown
  <2> QED  BY <2>2, <2>3, <2>4 DEF StopInv
<1>7. ASSUME NEW t \in Turns, MessageArrives(t) \/ TurnEndsNow(t) PROVE StopInv'
  <2>1. UNCHANGED <<stage, signals, ran, draining>>
    BY <1>7 DEF MessageArrives, TurnEndsNow
  <2>2. \E x \in TurnType : turn' = [turn EXCEPT ![t] = x] /\ (x.at = "running" => x.stray \/ draining.phase = "no")
    <3>1. CASE MessageArrives(t)
      <4>1. [at |-> "running", stray |-> draining.phase # "no"] \in TurnType
        BY DEF TurnType
      <4> QED  BY <3>1, <4>1 DEF MessageArrives
    <3>2. CASE TurnEndsNow(t)
      <4>1. turn[t] \in TurnType /\ [turn[t] EXCEPT !.at = "done"] \in TurnType /\ [turn[t] EXCEPT !.at = "done"].at = "done"
        BY <1>0 DEF TurnsKnown, TurnType
      <4> QED  BY <3>2, <4>1 DEF TurnEndsNow
    <3> QED  BY <1>7, <3>1, <3>2
  <2>3. TurnsKnown'
    <3>1. turn' \in [Turns -> TurnType]
      BY <1>0, <2>2 DEF TurnsKnown
    <3>2. \A u \in Turns : turn'[u].at = "running" =>
             turn'[u] = turn[u] \/ turn'[u].stray \/ draining.phase = "no"
      BY <1>0, <2>2 DEF TurnsKnown
    <3> QED  BY <1>0, <2>1, <3>1, <3>2, TurnsStay
  <2> QED  BY <1>0, <2>1, <2>3 DEF StopInv, StopRan, Drained
<1>8. CASE UNCHANGED stopVars \/ FireEnds \/ ChatCloses \/ \E c \in Chans : HookSends(c) \/ ChannelStops(c)
  BY <1>1, <1>8 DEF stopVars, FireEnds, ChatCloses, HookSends, ChannelStops
<1> QED  BY <1>2, <1>3, <1>4, <1>5, <1>6, <1>7, <1>8 DEF StopNext

(* What is kept says that steps run once and that only strays run after    *)
(* the drain.                                                              *)
LEMMA StopSound == StopInv => ShutdownSound
<1> SUFFICES ASSUME StopInv PROVE ShutdownSound
  OBVIOUS
<1>1. StepsOnce
  BY DEF StopInv, StopRan, StepsOnce
<1>2. OnlyStraysRun
  BY StopStages DEF StopInv, StopRan, Drained, TurnsKnown, OnlyStraysRun
<1> QED  BY <1>1, <1>2 DEF ShutdownSound

-----------------------------------------------------------------------------
(* The connection of an adapter.                                           *)

WireType == [status : {"disconnected", "connecting", "connected", "error"}, current : 0..MaxLinks,
             connecting : BOOLEAN, starting : Nat, attempts : Nat, armed : BOOLEAN, strays : Nat]
LinksType == [LinkIds -> {"none", "opening", "open", "ending", "gone"}]
MonitorType == [since : Nat, hour : Nat, failures : Nat, restarting : BOOLEAN]

(* The adapter's fields: a connect between its awaits has no link yet.     *)
WireOK(w) ==
  /\ w \in WireType
  /\ w.starting = IF w.connecting THEN 1 ELSE 0
  /\ w.connecting => w.current = 0 /\ kind = "whatsapp"

(* The only link that lives is the current one.                            *)
OnlyCurrent(w, made) == \A i \in LinkIds : made[i] \in {"opening", "open"} => i = w.current

LinkInv ==
  /\ WireOK(linkWire) /\ links \in LinksType /\ late \in BOOLEAN
  /\ monitor \in MonitorType /\ monitor.hour <= RestartsPerHour
  /\ late \/ OnlyCurrent(linkWire, links)

(* An adapter begins without a link and with a quiet monitor.              *)
LEMMA LinkStart == LinkInit => LinkInv
<1> SUFFICES ASSUME LinkInit PROVE LinkInv
  OBVIOUS
<1>1. MaxLinks \in Nat /\ RestartsPerHour \in Nat
  BY LinkBounds
<1>2. WireOK(linkWire)
  BY <1>1 DEF LinkInit, WireOK, WireType
<1>3. links \in LinksType /\ OnlyCurrent(linkWire, links)
  BY DEF LinkInit, LinksType, OnlyCurrent
<1>4. monitor \in MonitorType /\ monitor.hour = 0
  BY DEF LinkInit, MonitorType
<1>5. late \in BOOLEAN
  BY DEF LinkInit
<1>6. monitor.hour <= RestartsPerHour
  BY <1>1, <1>4
<1> QED  BY <1>2, <1>3, <1>4, <1>5, <1>6 DEF LinkInv

(* connect never makes a second link beside one that lives.                *)
LEMMA ConnectsKeep ==
  ASSUME NEW w, NEW made \in LinksType, WireOK(w), Connects(w, made), UNCHANGED kind
  PROVE  /\ WireOK(linkWire)' /\ links' \in LinksType
         /\ OnlyCurrent(w, made) => OnlyCurrent(linkWire, links)'
<1>1. w \in WireType
  BY DEF WireOK
<1>2. CASE ~NeedsLink(w)
  <2>1. linkWire' = w /\ links' = made
    BY <1>2 DEF Connects
  <2> QED  BY <2>1 DEF WireOK, OnlyCurrent
<1>3. CASE NeedsLink(w) /\ kind = "whatsapp"
  <2>1. links' = made /\ linkWire' = [w EXCEPT !.connecting = TRUE, !.starting = @ + 1, !.status = "connecting"]
    BY <1>3 DEF Connects
  <2>2. w.starting = 0 /\ w.current = 0
    BY <1>3 DEF NeedsLink, WireOK
  <2>3. linkWire' \in WireType /\ linkWire'.starting = 1 /\ linkWire'.connecting /\ linkWire'.current = 0
    <3>1. linkWire' = [w EXCEPT !.connecting = TRUE, !.starting = 1, !.status = "connecting"]
      BY <1>1, <2>1, <2>2 DEF WireType
    <3> QED  BY <1>1, <2>2, <3>1 DEF WireType
  <2> QED  BY <1>3, <2>1, <2>2, <2>3 DEF WireOK, OnlyCurrent
<1>4. CASE NeedsLink(w) /\ kind # "whatsapp"
  <2>1. PICK i \in LinkIds :
          /\ linkWire' = [w EXCEPT !.current = i, !.attempts = 0, !.status = "connected"]
          /\ links' = [made EXCEPT ![i] = "open"]
    BY <1>4 DEF Connects
  <2>2. w.starting = 0 /\ w.current = 0 /\ ~w.connecting /\ i \in 0..MaxLinks /\ 0 \notin LinkIds
    BY <1>1, <1>4, LinkBounds DEF NeedsLink, WireOK, LinkIds, WireType
  <2>3. linkWire' \in WireType /\ linkWire'.starting = 0 /\ ~linkWire'.connecting /\ linkWire'.current = i
    BY <1>1, <2>1, <2>2 DEF WireType
  <2>4. WireOK(linkWire)'
    BY <2>3 DEF WireOK
  <2>5. links' \in LinksType
    BY <2>1 DEF LinksType
  <2>6. OnlyCurrent(w, made) => OnlyCurrent(linkWire, links)'
    BY <2>1, <2>2, <2>3 DEF OnlyCurrent, LinksType
  <2> QED  BY <2>4, <2>5, <2>6
<1> QED  BY <1>2, <1>3, <1>4

(* clearReconnect, and the fields without a link.                          *)
LEMMA WireCleared ==
  ASSUME NEW w \in WireType
  PROVE  /\ Cleared(w) \in WireType /\ Cleared(w).starting = w.starting
         /\ Cleared(w).connecting = w.connecting /\ Cleared(w).current = w.current
  BY DEF Cleared, WireType

(* An adapter that let go of its link has none that is current.            *)
LEMMA WireEmptied ==
  ASSUME NEW w \in WireType
  PROVE  LET v == [w EXCEPT !.current = 0, !.status = "disconnected"]
         IN  v \in WireType /\ v.current = 0 /\ v.starting = w.starting /\ v.connecting = w.connecting
<1>1. 0 \in 0..MaxLinks
  BY LinkBounds
<1>2. [w EXCEPT !.current = 0] \in WireType
  BY <1>1 DEF WireType
<1> QED  BY <1>2 DEF WireType

(* A link is let go of: it is told to end, and none is current.            *)
LEMMA DropKeeps ==
  ASSUME LinkInv
  PROVE  /\ WireOK(LinkDropped) /\ Ended \in LinksType
         /\ late \/ OnlyCurrent(LinkDropped, Ended)
<1>1. linkWire \in WireType /\ WireOK(linkWire) /\ links \in LinksType /\ MaxLinks \in Nat
  BY LinkBounds DEF LinkInv, WireOK
<1>2. LinkDropped \in WireType /\ LinkDropped.current = 0 /\ LinkDropped.starting = linkWire.starting
      /\ LinkDropped.connecting = linkWire.connecting
  BY <1>1, WireCleared, WireEmptied DEF LinkDropped
<1>3. Ended \in LinksType
  BY <1>1 DEF Ended, LinksType
<1>4. late \/ \A i \in LinkIds : Ended[i] \notin {"opening", "open"}
  BY <1>1 DEF Ended, LinkInv, OnlyCurrent, LinkIds, LinksType
<1> QED  BY <1>1, <1>2, <1>3, <1>4 DEF WireOK, OnlyCurrent

(* A link makes its way from "opening" to "gone".                          *)
LEMMA WiresMove ==
  ASSUME LinkInv, UNCHANGED <<kind, monitor>>, late' \in BOOLEAN, late => late',
         WireOK(linkWire)', links' \in LinksType,
         ~late' => (OnlyCurrent(linkWire, links) => OnlyCurrent(linkWire, links)')
  PROVE  LinkInv'
  BY DEF LinkInv

(* Fields of no consequence for the links.                                 *)
LEMMA WireTouched ==
  ASSUME WireOK(linkWire), linkWire' \in WireType, UNCHANGED kind, linkWire'.current = linkWire.current,
         linkWire'.connecting = linkWire.connecting, linkWire'.starting = linkWire.starting
  PROVE  WireOK(linkWire)' /\ (OnlyCurrent(linkWire, links) /\ UNCHANGED links => OnlyCurrent(linkWire, links)')
  BY DEF WireOK, OnlyCurrent

(* The link made after connect()'s await becomes the current one, or comes *)
(* late.                                                                   *)
LEMMA SocketMadeKeeps == LinkInv /\ SocketMade => LinkInv'
<1> SUFFICES ASSUME LinkInv, SocketMade PROVE LinkInv'
  OBVIOUS
<1>1. /\ WireOK(linkWire) /\ linkWire \in WireType /\ links \in LinksType /\ late \in BOOLEAN
      /\ monitor \in MonitorType /\ monitor.hour <= RestartsPerHour
  BY DEF LinkInv, WireOK
<1>2. PICK i \in LinkIds : /\ links[i] = "none" /\ links' = [links EXCEPT ![i] = "opening"]
                          /\ linkWire' = [linkWire EXCEPT !.connecting = FALSE, !.starting = @ - 1, !.current = i]
  BY DEF SocketMade
<1>3. linkWire.starting = 1 /\ linkWire.connecting /\ linkWire.current = 0 /\ linkWire.starting - 1 = 0
  BY <1>1 DEF SocketMade, WireOK
<1>4. i \in 0..MaxLinks /\ 0 \notin LinkIds
  BY LinkBounds DEF LinkIds
<1>5. linkWire' = [linkWire EXCEPT !.connecting = FALSE, !.starting = 0, !.current = i]
  BY <1>1, <1>2, <1>3 DEF WireType
<1>6. linkWire' \in WireType /\ linkWire'.starting = 0 /\ ~linkWire'.connecting /\ linkWire'.current = i
  BY <1>1, <1>4, <1>5 DEF WireType
<1>7. WireOK(linkWire)'
  BY <1>6 DEF WireOK
<1>8. links' \in LinksType
  BY <1>1, <1>2 DEF LinksType
<1>9. OnlyCurrent(linkWire, links) => OnlyCurrent(linkWire, links)'
  BY <1>1, <1>2, <1>3, <1>4, <1>6 DEF OnlyCurrent, LinksType
<1>10. late' \in BOOLEAN /\ (late => late')
  BY <1>1 DEF SocketMade
<1>11. monitor' \in MonitorType /\ monitor'.hour = monitor.hour
  BY <1>1 DEF SocketMade, Returned, MonitorType
<1> QED  BY <1>1, <1>7, <1>8, <1>9, <1>10, <1>11 DEF LinkInv

(* A link's end clears the fields only when it is the current one.         *)
LEMMA LinkClosesKeeps ==
  ASSUME LinkInv, NEW i \in LinkIds, NEW final \in BOOLEAN, LinkCloses(i, final)
  PROVE  LinkInv'
<1>1. /\ WireOK(linkWire) /\ linkWire \in WireType /\ links \in LinksType /\ late \in BOOLEAN
      /\ 0 \in 0..MaxLinks /\ UNCHANGED <<kind, monitor>>
  BY LinkBounds DEF LinkInv, WireOK, LinkCloses
<1>2. /\ links' = [links EXCEPT ![i] = "gone"] /\ late' = (late \/ linkWire.current # i)
  BY DEF LinkCloses
<1> DEFINE w == [linkWire EXCEPT !.current = 0]
<1>3. w \in WireType /\ w.current = 0 /\ w.starting = linkWire.starting /\ w.connecting = linkWire.connecting
  BY <1>1 DEF WireType
<1>4. linkWire' = IF final THEN [w EXCEPT !.status = "disconnected"] ELSE Scheduled(w)
  BY DEF LinkCloses
<1> HIDE DEF w
<1>5. linkWire' \in WireType /\ linkWire'.current = 0 /\ linkWire'.starting = w.starting
      /\ linkWire'.connecting = w.connecting
  <2>1. CASE final
    BY <1>3, <1>4, <2>1 DEF WireType
  <2>2. CASE ~final /\ w.attempts >= MaxLinkAttempts
    BY <1>3, <1>4, <2>2 DEF WireType, Scheduled
  <2>3. CASE ~final /\ ~(w.attempts >= MaxLinkAttempts)
    <3>1. w.attempts + 1 \in Nat /\ w.strays + (IF w.armed THEN 1 ELSE 0) \in Nat
      BY <1>3 DEF WireType
    <3>2. linkWire' = [w EXCEPT !.attempts = w.attempts + 1, !.status = "connecting", !.armed = TRUE,
                                !.strays = w.strays + (IF w.armed THEN 1 ELSE 0)]
      BY <1>3, <1>4, <2>3 DEF Scheduled, WireType
    <3> HIDE DEF Scheduled
    <3> QED  BY <1>3, <3>1, <3>2 DEF WireType
  <2> QED  BY <2>1, <2>2, <2>3
<1>6. WireOK(linkWire)'
  BY <1>1, <1>3, <1>5 DEF WireOK
<1>7. links' \in LinksType /\ late' \in BOOLEAN
  BY <1>1, <1>2 DEF LinksType
<1>8. ~late' => (OnlyCurrent(linkWire, links) => OnlyCurrent(linkWire, links)')
  BY <1>1, <1>2 DEF OnlyCurrent, LinksType
<1> QED  BY <1>1, <1>2, <1>6, <1>7, <1>8, WiresMove

(* Connecting, ends of links, timers, auth and the monitor keep one        *)
(* current link.                                                           *)
LEMMA LinkStep == LinkInv /\ [LinkNext]_linkVars => LinkInv'
<1> SUFFICES ASSUME LinkInv, [LinkNext]_linkVars PROVE LinkInv'
  OBVIOUS
<1>1. /\ WireOK(linkWire) /\ linkWire \in WireType /\ links \in LinksType /\ late \in BOOLEAN
      /\ monitor \in MonitorType /\ monitor.hour <= RestartsPerHour /\ (late \/ OnlyCurrent(linkWire, links))
      /\ 0 \in 0..MaxLinks /\ RestartsPerHour \in Nat
  BY LinkBounds DEF LinkInv, WireOK
<1>2. CASE SocketMade
  BY <1>2, SocketMadeKeeps
<1>3. CASE ConnectThrows
  <2>1. linkWire.starting = 1 /\ linkWire.connecting /\ linkWire.current = 0
    BY <1>1, <1>3 DEF ConnectThrows, WireOK
  <2>2. linkWire' = [linkWire EXCEPT !.connecting = FALSE, !.starting = 0, !.current = 0, !.status = "error"]
    BY <1>1, <1>3, <2>1 DEF ConnectThrows, WireType
  <2>3. linkWire' \in WireType /\ linkWire'.starting = 0 /\ ~linkWire'.connecting /\ linkWire'.current = 0
    BY <1>1, <2>2 DEF WireType
  <2>4. WireOK(linkWire)'
    BY <2>3 DEF WireOK
  <2>5. monitor' \in MonitorType /\ monitor'.hour = monitor.hour /\ UNCHANGED <<links, late>>
    BY <1>1, <1>3 DEF ConnectThrows, Returned, MonitorType
  <2> QED  BY <1>1, <2>1, <2>3, <2>4, <2>5 DEF LinkInv, OnlyCurrent
<1>4. ASSUME NEW i \in LinkIds, LinkOpens(i) PROVE LinkInv'
  <2>1. /\ links[i] = "opening" /\ links' = [links EXCEPT ![i] = "open"] /\ UNCHANGED <<kind, monitor, late>>
        /\ linkWire' = [linkWire EXCEPT !.attempts = 0, !.status = "connected"]
    BY <1>4 DEF LinkOpens
  <2>2. linkWire' \in WireType /\ linkWire'.current = linkWire.current
        /\ linkWire'.connecting = linkWire.connecting /\ linkWire'.starting = linkWire.starting
    BY <1>1, <2>1 DEF WireType
  <2>3. WireOK(linkWire)'
    BY <1>1, <2>1, <2>2, WireTouched
  <2>4. links' \in LinksType /\ (OnlyCurrent(linkWire, links) => OnlyCurrent(linkWire, links)')
    BY <1>1, <2>1, <2>2 DEF LinksType, OnlyCurrent
  <2> QED  BY <1>1, <2>1, <2>3, <2>4, WiresMove
<1>5. ASSUME NEW i \in LinkIds, SpawnFails(i) PROVE LinkInv'
  <2>1. linkWire' = [linkWire EXCEPT !.status = "error"] /\ UNCHANGED <<kind, links, monitor, late>>
    BY <1>5 DEF SpawnFails
  <2>2. linkWire' \in WireType /\ linkWire'.current = linkWire.current
        /\ linkWire'.connecting = linkWire.connecting /\ linkWire'.starting = linkWire.starting
    BY <1>1, <2>1 DEF WireType
  <2> QED  BY <1>1, <2>1, <2>2, WireTouched, WiresMove
<1>6. ASSUME NEW i \in LinkIds, NEW f \in BOOLEAN, LinkCloses(i, f) PROVE LinkInv'
  BY <1>6, LinkClosesKeeps
<1>7. ASSUME NEW b \in BOOLEAN, TimerFires(b) PROVE LinkInv'
  <2> DEFINE n == IF b /\ ~linkWire.armed THEN linkWire.strays - 1 ELSE linkWire.strays
             w == [linkWire EXCEPT !.armed = FALSE, !.strays = n]
  <2>1. n \in Nat
    BY <1>1, <1>7 DEF TimerFires, WireType
  <2>2. w \in WireType /\ w.current = linkWire.current /\ w.connecting = linkWire.connecting
        /\ w.starting = linkWire.starting
    BY <1>1, <2>1 DEF WireType
  <2>3. w = [linkWire EXCEPT !.armed = FALSE, !.strays = IF b /\ ~linkWire.armed THEN @ - 1 ELSE @]
    BY <1>1 DEF WireType
  <2>4. Connects(w, links) /\ UNCHANGED <<kind, monitor, orders, late>>
    BY <1>7, <2>3 DEF TimerFires
  <2> HIDE DEF n, w
  <2>5. WireOK(w) /\ (OnlyCurrent(linkWire, links) => OnlyCurrent(w, links))
    BY <1>1, <2>2 DEF WireOK, OnlyCurrent
  <2> QED  BY <1>1, <2>4, <2>5, ConnectsKeep, WiresMove
<1>8. CASE GatewayConnects \/ AuthConnects
  <2>1. Connects(linkWire, links) /\ UNCHANGED <<kind, monitor, late>>
    BY <1>8 DEF GatewayConnects, AuthConnects
  <2> QED  BY <1>1, <2>1, ConnectsKeep, WiresMove
<1>9. ASSUME NEW b \in BOOLEAN, AuthDrops(b) PROVE LinkInv'
  <2>1. linkWire' = LinkDropped /\ links' = Ended /\ UNCHANGED <<kind, monitor, late>>
    BY <1>9 DEF AuthDrops
  <2>2. WireOK(LinkDropped) /\ Ended \in LinksType /\ (late \/ OnlyCurrent(LinkDropped, Ended))
    BY DropKeeps
  <2> HIDE DEF LinkDropped, Ended
  <2>3. WireOK(linkWire)' /\ (late' \/ OnlyCurrent(linkWire, links)')
    BY <2>1, <2>2 DEF WireOK, OnlyCurrent
  <2> QED  BY <1>1, <2>1, <2>2, <2>3 DEF LinkInv
<1>10. CASE CheckIdles \/ HourSlides
  <2>1. UNCHANGED <<kind, linkWire, links, late>>
    BY <1>10 DEF CheckIdles, HourSlides
  <2>2. monitor' \in MonitorType /\ monitor'.hour <= RestartsPerHour
    <3>1. CASE CheckIdles
      <4>1. monitor' = [monitor EXCEPT !.since = @ + 1]
        BY <3>1 DEF CheckIdles
      <4> QED  BY <1>1, <4>1 DEF MonitorType
    <3>2. CASE HourSlides
      <4>1. monitor.hour > 0 /\ monitor' = [monitor EXCEPT !.hour = @ - 1]
        BY <3>2 DEF HourSlides
      <4> QED  BY <1>1, <4>1 DEF MonitorType
    <3> QED  BY <1>10, <3>1, <3>2
  <2> QED  BY <1>1, <2>1, <2>2 DEF LinkInv, WireOK, OnlyCurrent
<1>11. CASE MonitorRestarts
  <2>1. /\ Connects(LinkDropped, Ended) /\ UNCHANGED <<kind, late>> /\ monitor.hour < RestartsPerHour
        /\ monitor' = [since |-> 0, hour |-> monitor.hour + 1, failures |-> 0,
                       restarting |-> linkWire'.starting > linkWire.starting]
    BY <1>11 DEF MonitorRestarts, MonitorDue
  <2>2. WireOK(LinkDropped) /\ Ended \in LinksType /\ (late \/ OnlyCurrent(LinkDropped, Ended))
    BY DropKeeps
  <2>3. /\ WireOK(linkWire)' /\ links' \in LinksType
        /\ OnlyCurrent(LinkDropped, Ended) => OnlyCurrent(linkWire, links)'
    BY <2>1, <2>2, ConnectsKeep
  <2>4. monitor' \in MonitorType /\ monitor'.hour <= RestartsPerHour
    <3> DEFINE busy == linkWire'.starting > linkWire.starting
    <3>1. busy \in BOOLEAN
      OBVIOUS
    <3>2. monitor' = [since |-> 0, hour |-> monitor.hour + 1, failures |-> 0, restarting |-> busy]
      BY <2>1
    <3> HIDE DEF busy
    <3>3. monitor.hour \in Nat /\ monitor.hour + 1 \in Nat /\ monitor.hour + 1 <= RestartsPerHour
      BY <1>1, <2>1 DEF MonitorType
    <3>4. monitor' \in MonitorType
      BY <3>1, <3>2, <3>3 DEF MonitorType
    <3> QED  BY <3>2, <3>3, <3>4
  <2> QED  BY <1>1, <2>1, <2>2, <2>3, <2>4 DEF LinkInv
<1>12. CASE MonitorFails
  <2>1. /\ linkWire' = Cleared(linkWire) /\ UNCHANGED <<kind, links, late>> /\ monitor.hour < RestartsPerHour
        /\ monitor' = [monitor EXCEPT !.since = 0, !.hour = @ + 1, !.failures = @ + 1]
    BY <1>12 DEF MonitorFails, MonitorDue
  <2>2. linkWire' \in WireType /\ linkWire'.current = linkWire.current
        /\ linkWire'.connecting = linkWire.connecting /\ linkWire'.starting = linkWire.starting
    BY <1>1, <2>1, WireCleared
  <2>3. WireOK(linkWire)' /\ (OnlyCurrent(linkWire, links) => OnlyCurrent(linkWire, links)')
    BY <1>1, <2>1, <2>2, WireTouched
  <2>4. monitor' \in MonitorType /\ monitor'.hour <= RestartsPerHour
    <3>1. monitor.hour + 1 \in Nat /\ monitor.hour + 1 <= RestartsPerHour /\ monitor.failures + 1 \in Nat
      BY <1>1, <2>1 DEF MonitorType
    <3>2. monitor' = [monitor EXCEPT !.since = 0, !.hour = monitor.hour + 1, !.failures = monitor.failures + 1]
      BY <1>1, <2>1 DEF MonitorType
    <3>3. monitor' \in MonitorType /\ monitor'.hour = monitor.hour + 1
      BY <1>1, <3>1, <3>2 DEF MonitorType
    <3> QED  BY <3>1, <3>3
  <2> QED  BY <1>1, <2>1, <2>3, <2>4 DEF LinkInv
<1>13. CASE UNCHANGED linkVars
  BY <1>1, <1>13 DEF linkVars, LinkInv, WireOK, OnlyCurrent
<1> QED  BY <1>2, <1>3, <1>4, <1>5, <1>6, <1>7, <1>8, <1>9, <1>10, <1>11, <1>12, <1>13 DEF LinkNext

(* At most the current link is live, so there is one.                      *)
LEMMA LinkSound == LinkInv => OneLiveLink /\ RestartCap
<1> SUFFICES ASSUME LinkInv PROVE OneLiveLink /\ RestartCap
  OBVIOUS
<1>1. ASSUME ~late PROVE Cardinality(Live) <= 1
  <2>1. Live \subseteq {linkWire.current}
    BY <1>1 DEF LinkInv, OnlyCurrent, Live
  <2>2. IsFiniteSet({linkWire.current}) /\ Cardinality({linkWire.current}) = 1
    BY FS_Singleton
  <2>3. IsFiniteSet(Live) /\ Cardinality(Live) <= Cardinality({linkWire.current})
    BY <2>1, <2>2, FS_Subset
  <2> QED  BY <2>2, <2>3
<1>2. Cardinality(Live) \in Nat
  <2>1. IsFiniteSet(LinkIds)
    BY LinkBounds, FS_Interval DEF LinkIds
  <2>2. IsFiniteSet(Live)
    BY <2>1, FS_Subset DEF Live
  <2> QED  BY <2>2, FS_CardinalityType
<1> QED  BY <1>1, <1>2 DEF LinkInv, OneLiveLink, RestartCap

-----------------------------------------------------------------------------
(* Telegram's slots.                                                       *)

SlotType == [send : TgSends \cup {"none"}, prior : 0..MaxSlots, html : BOOLEAN, attempt : Nat, epoch : Nat,
             phase : {"free", "waiting", "calling", "throttled", "released", "lost"}]
Entered == {"calling", "throttled", "released"}

(* Slots are taken in order, and those before slot j on its connection.    *)
Ordered(sl, d) ==
  /\ \A i, j \in SlotIds : i < j /\ sl[j].phase # "free" => sl[i].phase # "free" /\ sl[i].epoch <= sl[j].epoch
  /\ \A i \in SlotIds : sl[i].phase # "free" => sl[i].epoch <= d
PassedBefore(sl, j, n) ==
  \A i \in SlotIds : i < j /\ i > n /\ sl[i].epoch = sl[j].epoch => sl[i].phase = "released"

(* A slot that waits has before it, beyond the one it waits for, released  *)
(* ones only; the chain names the last slot of this connection that is not *)
(* released.                                                               *)
WaitsForLast(sl) ==
  \A j \in SlotIds : sl[j].phase = "waiting" =>
     /\ sl[j].prior < j /\ (sl[j].prior # 0 => sl[sl[j].prior].epoch = sl[j].epoch)
     /\ PassedBefore(sl, j, sl[j].prior)
ChainIsLast(sl, c, d) ==
  /\ c # 0 => sl[c].phase # "free" /\ sl[c].epoch = d
  /\ \A i \in SlotIds : sl[i].phase # "free" /\ sl[i].epoch = d => sl[i].phase = "released" \/ i <= c
TgOK(sl, c, d) ==
  /\ sl \in [SlotIds -> SlotType] /\ c \in 0..MaxSlots /\ d \in Nat
  /\ Ordered(sl, d) /\ WaitsForLast(sl) /\ ChainIsLast(sl, c, d)
  /\ \A j \in SlotIds : sl[j].phase \in Entered => PassedBefore(sl, j, 0)
TgInv == TgOK(slots, chain, tgDrops)

(* No slot is taken when the adapter begins.                               *)
LEMMA TgStart == TgInit => TgInv
<1> SUFFICES ASSUME TgInit PROVE TgInv
  OBVIOUS
<1>1. 0 \in 0..MaxSlots /\ 0 \in Nat
  BY TgBounds
<1>2. FreeSlot \in SlotType /\ FreeSlot.phase = "free"
  BY <1>1 DEF FreeSlot, SlotType
<1> HIDE DEF FreeSlot
<1>3. slots \in [SlotIds -> SlotType] /\ \A i \in SlotIds : slots[i].phase = "free"
  BY <1>2 DEF TgInit
<1> QED  BY <1>1, <1>3 DEF TgInit, TgInv, TgOK, Ordered, WaitsForLast, ChainIsLast, Entered

(* Slots move on where they are: a released one stays so, and one is       *)
(* entered when those before it are released.                              *)
LEMMA SlotsMove ==
  ASSUME NEW sl, NEW c, NEW d, TgOK(sl, c, d), NEW sm \in [SlotIds -> SlotType],
         \A i \in SlotIds :
           /\ sm[i].epoch = sl[i].epoch /\ sm[i].prior = sl[i].prior
           /\ sm[i].phase = "free" <=> sl[i].phase = "free"
           /\ sl[i].phase = "released" => sm[i].phase = "released"
           /\ sm[i].phase = "waiting" => sl[i].phase = "waiting"
           /\ sm[i].phase \in Entered => sl[i].phase \in Entered \/ PassedBefore(sl, i, 0)
  PROVE  TgOK(sm, c, d)
<1>1. /\ sl \in [SlotIds -> SlotType] /\ c \in 0..MaxSlots /\ d \in Nat /\ SlotIds = 1..MaxSlots /\ MaxSlots \in Nat
      /\ Ordered(sl, d) /\ WaitsForLast(sl) /\ ChainIsLast(sl, c, d)
      /\ \A j \in SlotIds : sl[j].phase \in Entered => PassedBefore(sl, j, 0)
  BY TgBounds DEF TgOK, SlotIds
<1>2. \A j \in SlotIds, n \in 0..MaxSlots : PassedBefore(sl, j, n) => PassedBefore(sm, j, n)
  BY DEF PassedBefore
<1>3. Ordered(sm, d)
  BY <1>1 DEF Ordered
<1>4. WaitsForLast(sm)
  <2> SUFFICES ASSUME NEW j \in SlotIds, sm[j].phase = "waiting"
               PROVE  /\ sm[j].prior < j /\ (sm[j].prior # 0 => sm[sm[j].prior].epoch = sm[j].epoch)
                      /\ PassedBefore(sm, j, sm[j].prior)
    BY DEF WaitsForLast
  <2>1. sl[j].phase = "waiting" /\ sm[j].prior = sl[j].prior /\ sl[j].prior \in 0..MaxSlots
    BY <1>1 DEF SlotType
  <2>2. /\ sl[j].prior < j /\ (sl[j].prior # 0 => sl[sl[j].prior].epoch = sl[j].epoch)
        /\ PassedBefore(sl, j, sl[j].prior)
    BY <1>1, <2>1 DEF WaitsForLast
  <2>3. sl[j].prior # 0 => sl[j].prior \in SlotIds
    BY <1>1, <2>1
  <2> QED  BY <1>2, <2>1, <2>2, <2>3
<1>5. ChainIsLast(sm, c, d)
  <2>1. c # 0 => c \in SlotIds
    BY <1>1
  <2> QED  BY <1>1, <2>1 DEF ChainIsLast
<1>6. \A j \in SlotIds : sm[j].phase \in Entered => PassedBefore(sm, j, 0)
  BY <1>1, <1>2
<1> QED  BY <1>1, <1>3, <1>4, <1>5, <1>6 DEF TgOK

(* acquireChatSlot: the first free slot waits for the last one taken.      *)
LEMMA TakeKeeps ==
  ASSUME NEW now, TgOK(now, chain, tgDrops), NEW s \in TgSends \cup {"none"}, TakesSlot(s, now)
  PROVE  TgOK(slots', chain', tgDrops)
<1>1. /\ now \in [SlotIds -> SlotType] /\ chain \in 0..MaxSlots /\ tgDrops \in Nat /\ SlotIds = 1..MaxSlots
      /\ MaxSlots \in Nat /\ Ordered(now, tgDrops) /\ WaitsForLast(now) /\ ChainIsLast(now, chain, tgDrops)
      /\ \A j \in SlotIds : now[j].phase \in Entered => PassedBefore(now, j, 0)
  BY TgBounds DEF TgOK, SlotIds
<1> DEFINE r == [FreeSlot EXCEPT !.send = s, !.prior = Prior, !.phase = "waiting", !.epoch = tgDrops]
<1>2. PICK i \in SlotIds : /\ now[i].phase = "free" /\ \A j \in 1..(i - 1) : now[j].phase # "free"
                          /\ slots' = [now EXCEPT ![i] = r] /\ chain' = i
  BY DEF TakesSlot
<1>3. r \in SlotType /\ r.prior = chain /\ r.phase = "waiting" /\ r.epoch = tgDrops
  BY <1>1 DEF FreeSlot, Prior, SlotType
<1> HIDE DEF r
<1>4. /\ slots' \in [SlotIds -> SlotType] /\ slots'[i] = r /\ \A j \in SlotIds : j # i => slots'[j] = now[j]
  BY <1>1, <1>2, <1>3
<1>5. \A j \in SlotIds : j > i => now[j].phase = "free"
  BY <1>1, <1>2 DEF Ordered
<1>6. \A j \in SlotIds : j < i => now[j].phase # "free"
  BY <1>1, <1>2
<1>7. chain < i /\ (chain # 0 => chain \in SlotIds /\ now[chain].epoch = tgDrops)
  BY <1>1, <1>2, <1>5 DEF ChainIsLast
<1>8. Ordered(slots', tgDrops)
  <2>1. ASSUME NEW a \in SlotIds, NEW b \in SlotIds, a < b, slots'[b].phase # "free"
        PROVE  slots'[a].phase # "free" /\ slots'[a].epoch <= slots'[b].epoch
    <3>1. CASE b = i
      <4>1. a # i /\ now[a].phase # "free" /\ now[a].epoch <= tgDrops
        BY <1>1, <1>6, <2>1, <3>1 DEF Ordered
      <4> QED  BY <1>3, <1>4, <3>1, <4>1
    <3>2. CASE b # i
      <4>1. now[b].phase # "free" /\ b < i /\ a # i
        BY <1>1, <1>4, <1>5, <2>1, <3>2
      <4> QED  BY <1>1, <1>4, <2>1, <3>2, <4>1 DEF Ordered
    <3> QED  BY <3>1, <3>2
  <2>2. \A a \in SlotIds : slots'[a].phase # "free" => slots'[a].epoch <= tgDrops
    BY <1>1, <1>3, <1>4 DEF Ordered
  <2> QED  BY <2>1, <2>2 DEF Ordered
<1>9. ASSUME NEW j \in SlotIds, j < i, NEW n, PassedBefore(now, j, n) PROVE PassedBefore(slots', j, n)
  BY <1>1, <1>4, <1>9 DEF PassedBefore
<1>10. WaitsForLast(slots')
  <2> SUFFICES ASSUME NEW j \in SlotIds, slots'[j].phase = "waiting"
               PROVE  /\ slots'[j].prior < j /\ (slots'[j].prior # 0 => slots'[slots'[j].prior].epoch = slots'[j].epoch)
                      /\ PassedBefore(slots', j, slots'[j].prior)
    BY DEF WaitsForLast
  <2>1. CASE j = i
    <3>1. slots'[j].prior = chain /\ slots'[j].epoch = tgDrops
      BY <1>3, <1>4, <2>1
    <3>2. chain # 0 => slots'[chain] = now[chain]
      BY <1>1, <1>4, <1>7
    <3>3. PassedBefore(slots', j, chain)
      <4> SUFFICES ASSUME NEW k \in SlotIds, k < j, k > chain, slots'[k].epoch = slots'[j].epoch
                   PROVE  slots'[k].phase = "released"
        BY DEF PassedBefore
      <4>1. slots'[k] = now[k] /\ now[k].phase # "free" /\ now[k].epoch = tgDrops
        BY <1>1, <1>4, <1>6, <2>1, <3>1
      <4> QED  BY <1>1, <4>1 DEF ChainIsLast
    <3> QED  BY <1>7, <2>1, <3>1, <3>2, <3>3
  <2>2. CASE j # i
    <3>0. slots'[j] = now[j] /\ now[j].phase = "waiting" /\ now[j] \in SlotType
      BY <1>1, <1>4, <2>2
    <3>1. now[j].phase = "waiting" /\ j < i /\ now[j].prior \in 0..MaxSlots
      <4>1. ~(j > i)
        BY <1>5, <3>0
      <4>2. j \in Nat /\ i \in Nat
        BY <1>1
      <4> QED  BY <2>2, <3>0, <4>1, <4>2 DEF SlotType
    <3>2. /\ now[j].prior < j /\ (now[j].prior # 0 => now[now[j].prior].epoch = now[j].epoch)
          /\ PassedBefore(now, j, now[j].prior)
      BY <1>1, <3>1 DEF WaitsForLast
    <3>3. now[j].prior # 0 => now[j].prior \in SlotIds /\ slots'[now[j].prior] = now[now[j].prior]
      BY <1>1, <1>4, <3>1, <3>2
    <3> QED  BY <1>9, <3>0, <3>1, <3>2, <3>3
  <2> QED  BY <2>1, <2>2
<1>11. ChainIsLast(slots', i, tgDrops)
  BY <1>1, <1>3, <1>4, <1>5 DEF ChainIsLast
<1>12. \A j \in SlotIds : slots'[j].phase \in Entered => PassedBefore(slots', j, 0)
  <2> SUFFICES ASSUME NEW j \in SlotIds, slots'[j].phase \in Entered PROVE PassedBefore(slots', j, 0)
    OBVIOUS
  <2>1. j # i /\ slots'[j] = now[j] /\ j < i
    BY <1>1, <1>3, <1>4, <1>5 DEF Entered
  <2> QED  BY <1>1, <1>9, <2>1
<1>13. i \in 0..MaxSlots
  BY <1>1
<1> QED  BY <1>1, <1>2, <1>4, <1>8, <1>10, <1>11, <1>12, <1>13 DEF TgOK

(* Sends, answers of the platform, the throttle timers and disconnect()    *)
(* keep the chain.                                                         *)
LEMMA TgStep == TgInv /\ [TgNext]_tgVars => TgInv'
<1> SUFFICES ASSUME TgInv, [TgNext]_tgVars PROVE TgInv'
  OBVIOUS
<1>1. /\ TgOK(slots, chain, tgDrops) /\ slots \in [SlotIds -> SlotType] /\ chain \in 0..MaxSlots /\ tgDrops \in Nat
      /\ Ordered(slots, tgDrops) /\ WaitsForLast(slots) /\ ChainIsLast(slots, chain, tgDrops)
      /\ \A j \in SlotIds : slots[j].phase \in Entered => PassedBefore(slots, j, 0)
  BY DEF TgInv, TgOK
<1>2. SlotIds = 1..MaxSlots /\ MaxSlots \in Nat
  BY TgBounds DEF SlotIds
<1>3. ASSUME NEW s \in TgSends, NEW n \in 1..2, SendStarts(s, n) PROVE TgInv'
  <2>1. TakesSlot(s, slots) /\ tgDrops' = tgDrops
    BY <1>3 DEF SendStarts
  <2> QED  BY <1>1, <2>1, TakeKeeps DEF TgInv
<1>4. ASSUME NEW i \in SlotIds, SlotEntered(i) PROVE TgInv'
  <2>1. /\ slots[i].phase = "waiting" /\ (slots[i].prior = 0 \/ slots[slots[i].prior].phase = "released")
        /\ slots' = [slots EXCEPT ![i].phase = "calling", ![i].attempt = 1] /\ UNCHANGED <<chain, tgDrops>>
        /\ slots[i].prior # 0 => slots[i].prior \in SlotIds
    BY <1>4 DEF SlotEntered
  <2>2. slots[i] \in SlotType
    BY <1>1
  <2>3. PassedBefore(slots, i, 0)
    <3>1. /\ slots[i].prior # 0 => slots[slots[i].prior].epoch = slots[i].epoch
          /\ PassedBefore(slots, i, slots[i].prior)
      BY <1>1, <2>1 DEF WaitsForLast
    <3>2. CASE slots[i].prior = 0
      BY <3>1, <3>2
    <3>3. CASE slots[i].prior # 0
      <4> DEFINE p == slots[i].prior
      <4>1. p \in SlotIds /\ slots[p].phase = "released" /\ slots[p].epoch = slots[i].epoch
        BY <2>1, <3>1, <3>3
      <4>2. PassedBefore(slots, p, 0)
        BY <1>1, <4>1 DEF Entered
      <4>3. PassedBefore(slots, i, p)
        BY <3>1
      <4> HIDE DEF p
      <4>4. ASSUME NEW k \in SlotIds, k < i, slots[k].epoch = slots[i].epoch PROVE slots[k].phase = "released"
        <5>1. k < p \/ k = p \/ k > p
          BY <1>2, <4>1
        <5>2. k > 0
          BY <1>2
        <5>3. k < p => slots[k].phase = "released"
          BY <4>1, <4>2, <4>4, <5>2 DEF PassedBefore
        <5>4. k > p => slots[k].phase = "released"
          BY <4>3, <4>4 DEF PassedBefore
        <5> QED  BY <4>1, <5>1, <5>3, <5>4
      <4> QED  BY <4>4 DEF PassedBefore
    <3> QED  BY <3>2, <3>3
  <2>4. /\ slots' \in [SlotIds -> SlotType] /\ slots'[i].phase = "calling" /\ slots'[i].epoch = slots[i].epoch
        /\ slots'[i].prior = slots[i].prior /\ \A j \in SlotIds : j # i => slots'[j] = slots[j]
    BY <1>1, <2>1, <2>2 DEF SlotType
  <2>5. ASSUME NEW j \in SlotIds
        PROVE  /\ slots'[j].epoch = slots[j].epoch /\ slots'[j].prior = slots[j].prior
               /\ slots'[j].phase = "free" <=> slots[j].phase = "free"
               /\ slots[j].phase = "released" => slots'[j].phase = "released"
               /\ slots'[j].phase = "waiting" => slots[j].phase = "waiting"
               /\ slots'[j].phase \in Entered => slots[j].phase \in Entered \/ PassedBefore(slots, j, 0)
    <3>1. CASE j = i
      BY <2>1, <2>3, <2>4, <3>1
    <3>2. CASE j # i
      BY <2>4, <3>2
    <3> QED  BY <3>1, <3>2
  <2>6. TgOK(slots', chain, tgDrops)
    BY <1>1, <2>4, <2>5, SlotsMove
  <2> QED  BY <2>1, <2>6 DEF TgInv
<1>5. ASSUME NEW i \in SlotIds, slots[i].phase = "calling"
      PROVE  /\ TgOK(Throttled(i), chain, tgDrops) /\ slots[i].send \in TgSends \cup {"none"}
             /\ \A m \in BOOLEAN, a \in Nat : TgOK([slots EXCEPT ![i].html = m, ![i].attempt = a], chain, tgDrops)
  <2>1. slots[i] \in SlotType /\ 0 \in Nat
    BY <1>1
  <2>2. TgOK(Throttled(i), chain, tgDrops)
    <3> DEFINE sm == Throttled(i)
    <3>1. /\ sm \in [SlotIds -> SlotType] /\ sm[i].phase = "throttled" /\ sm[i].epoch = slots[i].epoch
          /\ sm[i].prior = slots[i].prior /\ \A j \in SlotIds : j # i => sm[j] = slots[j]
      BY <1>1, <2>1 DEF SlotType, Throttled
    <3> HIDE DEF sm
    <3>2. TgOK(sm, chain, tgDrops)
      BY <1>1, <1>5, <3>1, SlotsMove DEF Entered
    <3> QED  BY <3>2 DEF sm
  <2>3. ASSUME NEW m \in BOOLEAN, NEW a \in Nat
        PROVE  TgOK([slots EXCEPT ![i].html = m, ![i].attempt = a], chain, tgDrops)
    <3> DEFINE sm == [slots EXCEPT ![i].html = m, ![i].attempt = a]
    <3>1. /\ sm \in [SlotIds -> SlotType] /\ sm[i].phase = "calling" /\ sm[i].epoch = slots[i].epoch
          /\ sm[i].prior = slots[i].prior /\ \A j \in SlotIds : j # i => sm[j] = slots[j]
      BY <1>1, <1>5, <2>1 DEF SlotType
    <3> HIDE DEF sm
    <3>2. TgOK(sm, chain, tgDrops)
      BY <1>1, <1>5, <3>1, SlotsMove DEF Entered
    <3> QED  BY <3>2 DEF sm
  <2>4. slots[i].send \in TgSends \cup {"none"}
    BY <2>1 DEF SlotType
  <2> QED  BY <2>2, <2>3, <2>4
<1>6. ASSUME NEW i \in SlotIds, CallSucceeds(i) PROVE TgInv'
  <2>1. slots[i].phase = "calling" /\ tgDrops' = tgDrops
        /\ (TakesSlot(slots[i].send, Throttled(i)) \/ (slots' = Throttled(i) /\ chain' = chain))
    BY <1>6 DEF CallSucceeds
  <2>2. TgOK(Throttled(i), chain, tgDrops) /\ slots[i].send \in TgSends \cup {"none"}
    BY <1>5, <2>1
  <2> HIDE DEF Throttled
  <2> QED  BY <2>1, <2>2, TakeKeeps DEF TgInv
<1>7. ASSUME NEW i \in SlotIds, CallRateLimited(i) \/ CallRefused(i) PROVE TgInv'
  <2>1. slots[i].phase = "calling" /\ tgDrops' = tgDrops /\ chain' = chain
        /\ \/ slots' = Throttled(i)
           \/ slots' = [slots EXCEPT ![i].attempt = @ + 1]
           \/ slots' = [slots EXCEPT ![i].html = FALSE, ![i].attempt = 1]
    BY <1>7 DEF CallRateLimited, CallRefused, CallLost, GivesUp
  <2>2. slots[i] \in SlotType
    BY <1>1
  <2>3. slots[i].html \in BOOLEAN /\ slots[i].attempt + 1 \in Nat
    BY <2>2 DEF SlotType
  <2>4. [slots EXCEPT ![i].attempt = @ + 1]
        = [slots EXCEPT ![i].html = slots[i].html, ![i].attempt = slots[i].attempt + 1]
    BY <1>1, <2>2 DEF SlotType
  <2>5. TgOK(slots', chain, tgDrops)
    <3> HIDE DEF Throttled
    <3>1. CASE slots' = Throttled(i)
      BY <1>5, <2>1, <3>1
    <3>2. CASE slots' = [slots EXCEPT ![i].attempt = @ + 1]
      BY <1>5, <2>1, <2>3, <2>4, <3>2
    <3>3. CASE slots' = [slots EXCEPT ![i].html = FALSE, ![i].attempt = 1]
      <4>1. FALSE \in BOOLEAN /\ 1 \in Nat
        OBVIOUS
      <4> QED  BY <1>5, <2>1, <3>3, <4>1
    <3> QED  BY <2>1, <3>1, <3>2, <3>3
  <2> QED  BY <2>1, <2>5 DEF TgInv
<1>8. ASSUME NEW i \in SlotIds, SlotReleased(i) PROVE TgInv'
  <2>1. /\ slots[i].phase = "throttled" /\ slots' = [slots EXCEPT ![i].phase = "released"]
        /\ chain' = (IF chain = i THEN 0 ELSE chain) /\ tgDrops' = tgDrops
    BY <1>8 DEF SlotReleased
  <2>2. slots[i] \in SlotType
    BY <1>1
  <2>3. /\ slots' \in [SlotIds -> SlotType] /\ slots'[i].phase = "released" /\ slots'[i].epoch = slots[i].epoch
        /\ slots'[i].prior = slots[i].prior /\ \A j \in SlotIds : j # i => slots'[j] = slots[j]
    BY <1>1, <2>1, <2>2 DEF SlotType
  <2>4. TgOK(slots', chain, tgDrops)
    BY <1>1, <2>1, <2>3, SlotsMove DEF Entered
  <2>5. CASE chain # i
    BY <2>1, <2>4, <2>5 DEF TgInv
  <2>6. CASE chain = i
    <3>1. \A j \in SlotIds : slots[j].phase = "throttled" => PassedBefore(slots, j, 0)
      BY <1>1 DEF Entered
    <3>2. ChainIsLast(slots', 0, tgDrops)
      <4> SUFFICES ASSUME NEW j \in SlotIds, slots'[j].phase # "free", slots'[j].epoch = tgDrops
                   PROVE  slots'[j].phase = "released"
        BY DEF ChainIsLast
      <4>1. CASE j = i
        BY <2>3, <4>1
      <4>2. CASE j # i
        <5>1. slots[j].phase = "released" \/ j <= i
          BY <1>1, <2>3, <2>6, <4>2 DEF ChainIsLast
        <5>2. slots[i].epoch = tgDrops
          BY <1>1, <1>2, <2>6 DEF ChainIsLast
        <5>3. j < i => slots[j].phase = "released"
          BY <1>2, <2>1, <2>3, <3>1, <4>2, <5>2 DEF PassedBefore
        <5> QED  BY <1>2, <2>3, <4>2, <5>1, <5>3
      <4> QED  BY <4>1, <4>2
    <3>3. TgOK(slots', 0, tgDrops)
      BY <1>2, <2>4, <3>2 DEF TgOK
    <3> QED  BY <2>1, <2>6, <3>3 DEF TgInv
  <2> QED  BY <2>5, <2>6
<1>9. CASE TgDisconnects
  <2> DEFINE sm == [i \in SlotIds |-> IF slots[i].phase = "throttled" THEN [slots[i] EXCEPT !.phase = "lost"]
                                      ELSE slots[i]]
  <2>1. slots' = sm /\ chain' = 0 /\ tgDrops' = tgDrops + 1
    BY <1>9 DEF TgDisconnects
  <2>2. \A i \in SlotIds : /\ sm[i] \in SlotType /\ sm[i].epoch = slots[i].epoch /\ sm[i].prior = slots[i].prior
                           /\ sm[i].phase = IF slots[i].phase = "throttled" THEN "lost" ELSE slots[i].phase
    <3> TAKE i \in SlotIds
    <3>1. slots[i] \in SlotType
      BY <1>1
    <3> QED  BY <3>1 DEF SlotType
  <2>3. sm \in [SlotIds -> SlotType]
    BY <2>2
  <2> HIDE DEF sm
  <2>4. TgOK(sm, chain, tgDrops)
    BY <1>1, <2>2, <2>3, SlotsMove DEF Entered
  <2>5. \A i \in SlotIds : sm[i].epoch \in Nat
    BY <2>3 DEF SlotType
  <2>6. \A i \in SlotIds : sm[i].phase # "free" => sm[i].epoch <= tgDrops
    BY <2>4 DEF TgOK, Ordered
  <2>7. ChainIsLast(sm, 0, tgDrops + 1) /\ Ordered(sm, tgDrops + 1)
    BY <1>1, <2>4, <2>5, <2>6 DEF TgOK, Ordered, ChainIsLast
  <2>8. TgOK(sm, 0, tgDrops + 1)
    BY <1>1, <1>2, <2>4, <2>7 DEF TgOK
  <2> QED  BY <2>1, <2>8 DEF TgInv
<1>10. CASE TgConnects
  BY <1>1, <1>10 DEF TgConnects, TgInv
<1>11. CASE UNCHANGED tgVars
  BY <1>1, <1>11 DEF tgVars, TgInv
<1> QED  BY <1>3, <1>4, <1>6, <1>7, <1>8, <1>9, <1>10, <1>11 DEF TgNext

(* A slot in use has every earlier one of its connection behind it,        *)
(* released.                                                               *)
LEMMA TgSound == TgInv => ChunksInOrder
<1> SUFFICES ASSUME TgInv, NEW i \in SlotIds, NEW j \in SlotIds, i < j, slots[i].epoch = slots[j].epoch,
                    slots[j].phase \in {"calling", "throttled", "released"}
             PROVE  slots[i].phase = "released"
  BY DEF ChunksInOrder
<1>1. PassedBefore(slots, j, 0)
  BY DEF TgInv, TgOK, Entered
<1>2. i > 0
  BY TgBounds DEF SlotIds
<1> QED  BY <1>1, <1>2 DEF PassedBefore

-----------------------------------------------------------------------------
(* Discord's deferred replies.                                             *)

InterType == [at : {"unseen", "turned away", "deferring", "pending", "failed", "dropped", "swept", "taken"},
              age : Nat]
AnswerType == [edits : Nat, posts : Nat, phase : {"none", "asked", "reading", "done"}]

(* An interaction that has not been pending for good has no edit yet.      *)
Unedited(ii, aa) == ii.at \in {"unseen", "deferring", "pending"} => aa.edits = 0
DiscordInv ==
  /\ inter \in [Inters -> InterType] /\ answers \in [Inters -> AnswerType]
  /\ \A i \in Inters : answers[i].edits <= 1 /\ Unedited(inter[i], answers[i])

(* No interaction has been seen, no reply edited.                          *)
LEMMA DiscordStart == DiscordInit => DiscordInv
<1> SUFFICES ASSUME DiscordInit PROVE DiscordInv
  OBVIOUS
<1>1. NoAnswer \in AnswerType /\ NoAnswer.edits = 0
  BY DEF NoAnswer, AnswerType
<1> HIDE DEF NoAnswer
<1>2. inter \in [Inters -> InterType] /\ answers \in [Inters -> AnswerType]
      /\ \A i \in Inters : answers[i].edits = 0
  BY <1>1 DEF DiscordInit, InterType
<1> QED  BY <1>2 DEF DiscordInv, Unedited

(* What happens to one interaction leaves the others as they are.          *)
LEMMA InterMoves ==
  ASSUME DiscordInv, NEW i \in Inters, NEW ii \in InterType, NEW aa \in AnswerType, aa.edits <= 1, Unedited(ii, aa),
         inter' = [inter EXCEPT ![i] = ii], answers' = [answers EXCEPT ![i] = aa]
  PROVE  DiscordInv'
<1>1. /\ inter' \in [Inters -> InterType] /\ answers' \in [Inters -> AnswerType]
      /\ inter'[i] = ii /\ answers'[i] = aa
      /\ \A j \in Inters : j # i => inter'[j] = inter[j] /\ answers'[j] = answers[j]
  BY DEF DiscordInv
<1>2. \A j \in Inters : answers'[j].edits <= 1 /\ Unedited(inter'[j], answers'[j])
  BY <1>1 DEF DiscordInv
<1> QED  BY <1>1, <1>2 DEF DiscordInv

(* Interactions, the sweep, answers and disconnect() leave an edited reply *)
(* out of the pending map.                                                 *)
LEMMA DiscordStep == DiscordInv /\ [DiscordNext]_discordVars => DiscordInv'
<1> SUFFICES ASSUME DiscordInv, [DiscordNext]_discordVars PROVE DiscordInv'
  OBVIOUS
<1>1. \A i \in Inters : inter[i] \in InterType /\ answers[i] \in AnswerType /\ answers[i].edits <= 1
                        /\ Unedited(inter[i], answers[i])
  BY DEF DiscordInv
<1>2. inter = [i \in Inters |-> inter[i]] /\ answers = [i \in Inters |-> answers[i]]
  BY DEF DiscordInv
<1>3. CASE DiscordConnects \/ UNCHANGED discordVars
  BY <1>3 DEF DiscordConnects, discordVars, DiscordInv
<1>4. ASSUME NEW f, inter' = [i \in Inters |-> f[i]], answers' = answers,
             \A i \in Inters : f[i] \in InterType /\ (f[i].at \in {"unseen", "deferring", "pending"} => f[i].at = inter[i].at)
      PROVE  DiscordInv'
  BY <1>1, <1>4 DEF DiscordInv, Unedited
<1>5. CASE DiscordDisconnects
  <2> DEFINE f == [i \in Inters |-> [inter[i] EXCEPT !.at = Forgotten(@)]]
  <2>1. inter' = f /\ answers' = answers
    BY <1>5 DEF DiscordDisconnects
  <2>2. ASSUME NEW i \in Inters
        PROVE  f[i] \in InterType /\ (f[i].at \in {"unseen", "deferring", "pending"} => f[i].at = inter[i].at)
    <3>1. inter[i] \in InterType /\ f[i] = [inter[i] EXCEPT !.at = Forgotten(inter[i].at)]
      BY <1>1
    <3>2. Forgotten(inter[i].at) = "dropped" \/ Forgotten(inter[i].at) = inter[i].at
      BY DEF Forgotten
    <3>3. f[i] = [inter[i] EXCEPT !.at = "dropped"] \/ f[i] = inter[i]
      <4>1. [inter[i] EXCEPT !.at = inter[i].at] = inter[i]
        BY <3>1 DEF InterType
      <4> HIDE DEF f
      <4> QED  BY <3>1, <3>2, <4>1
    <3> HIDE DEF f
    <3> QED  BY <3>1, <3>3 DEF InterType
  <2>3. f = [i \in Inters |-> f[i]]
    OBVIOUS
  <2> HIDE DEF f
  <2> QED  BY <1>4, <2>1, <2>2, <2>3
<1>6. CASE SweepTicks
  <2> DEFINE old == {i \in PendingInters : inter[i].age >= InterTTL}
             f == [i \in Inters |-> IF i \in old THEN [inter[i] EXCEPT !.at = "swept"]
                                    ELSE IF i \in PendingInters THEN [inter[i] EXCEPT !.age = @ + 1] ELSE inter[i]]
  <2>1. inter' = f /\ answers' = answers
    BY <1>6 DEF SweepTicks
  <2>2. ASSUME NEW i \in Inters
        PROVE  f[i] \in InterType /\ (f[i].at \in {"unseen", "deferring", "pending"} => f[i].at = inter[i].at)
    <3>1. inter[i] \in InterType
          /\ (f[i] = [inter[i] EXCEPT !.at = "swept"] \/ f[i] = [inter[i] EXCEPT !.age = @ + 1] \/ f[i] = inter[i])
      BY <1>1
    <3> HIDE DEF f
    <3>2. inter[i].age + 1 \in Nat
      <4>1. inter[i].age \in Nat
        BY <1>1 DEF InterType
      <4> HIDE DEF old
      <4> QED  BY <4>1
    <3>3. CASE f[i] = [inter[i] EXCEPT !.age = @ + 1]
      BY <3>1, <3>2, <3>3 DEF InterType
    <3>4. CASE f[i] = [inter[i] EXCEPT !.at = "swept"]
      BY <3>1, <3>4 DEF InterType
    <3> QED  BY <3>1, <3>3, <3>4
  <2>3. f = [i \in Inters |-> f[i]]
    OBVIOUS
  <2> HIDE DEF f
  <2> QED  BY <1>4, <2>1, <2>2, <2>3
<1>7. ASSUME NEW i \in Inters, SlashArrives(i) PROVE DiscordInv'
  <2> DEFINE ii == [inter[i] EXCEPT !.at = IF Busy THEN "turned away" ELSE "deferring"]
  <2>1. inter[i].at = "unseen" /\ inter' = [inter EXCEPT ![i] = ii] /\ answers' = [answers EXCEPT ![i] = answers[i]]
    BY <1>1, <1>2, <1>7 DEF SlashArrives, InterType, DiscordInv
  <2>2. ii \in InterType /\ Unedited(ii, answers[i])
    BY <1>1, <2>1 DEF InterType, Unedited
  <2> HIDE DEF ii
  <2> QED  BY <1>1, <2>1, <2>2, InterMoves
<1>8. ASSUME NEW i \in Inters, SendBegins(i) PROVE DiscordInv'
  <2> DEFINE aa == [answers[i] EXCEPT !.phase = "reading"]
  <2>1. answers' = [answers EXCEPT ![i] = aa] /\ inter' = [inter EXCEPT ![i] = inter[i]]
    BY <1>1, <1>2, <1>8 DEF SendBegins, AnswerType, DiscordInv
  <2>2. aa \in AnswerType /\ aa.edits = answers[i].edits
    BY <1>1 DEF AnswerType
  <2>3. Unedited(inter[i], aa) /\ aa.edits <= 1
    BY <1>1, <2>2 DEF Unedited
  <2> HIDE DEF aa
  <2> QED  BY <1>1, <2>1, <2>2, <2>3, InterMoves
<1>9. ASSUME NEW i \in Inters, SendLands(i) PROVE DiscordInv'
  <2>1. CASE inter[i].at = "pending"
    <3> DEFINE ii == [inter[i] EXCEPT !.at = "taken"]
               aa == [answers[i] EXCEPT !.edits = @ + 1, !.phase = "asked"]
    <3>1. inter' = [inter EXCEPT ![i] = ii] /\ answers' = [answers EXCEPT ![i] = aa]
      BY <1>1, <1>9, <2>1 DEF SendLands, Take, AnswerType, InterType
    <3>2. ii \in InterType /\ ii.at = "taken"
      BY <1>1 DEF InterType
    <3>4. answers[i] \in AnswerType /\ answers[i].edits = 0
      BY <1>1, <2>1 DEF Unedited
    <3>5. answers[i].edits + 1 = 1 /\ 1 \in Nat
      BY <3>4
    <3>6. aa = [answers[i] EXCEPT !.edits = 1, !.phase = "asked"]
      BY <3>4, <3>5 DEF AnswerType
    <3>7. aa \in AnswerType /\ aa.edits = 1
      BY <3>4, <3>5, <3>6 DEF AnswerType
    <3>3. Unedited(ii, aa) /\ aa.edits <= 1
      BY <3>2, <3>7 DEF Unedited
    <3> HIDE DEF ii, aa
    <3> QED  BY <3>1, <3>2, <3>3, <3>7, InterMoves
  <2>2. CASE inter[i].at # "pending"
    <3> DEFINE p == IF dLink \in {"login", "ready"} /\ answers[i].posts = 0 THEN 1 ELSE answers[i].posts
               aa == [answers[i] EXCEPT !.posts = p, !.phase = "done"]
    <3>1. answers' = [answers EXCEPT ![i] = aa] /\ inter' = [inter EXCEPT ![i] = inter[i]]
      BY <1>1, <1>2, <1>9, <2>2 DEF SendLands, AnswerType, InterType, DiscordInv
    <3>2. aa \in AnswerType /\ aa.edits = answers[i].edits
      BY <1>1 DEF AnswerType
    <3>3. Unedited(inter[i], aa) /\ aa.edits <= 1
      BY <1>1, <3>2 DEF Unedited
    <3> HIDE DEF p, aa
    <3> QED  BY <1>1, <3>1, <3>2, <3>3, InterMoves
  <2> QED  BY <2>1, <2>2
<1>10. ASSUME NEW i \in Inters, NEW ok \in BOOLEAN, DeferReturns(i, ok) PROVE DiscordInv'
  <2>1. CASE ok
    <3> DEFINE ii == [at |-> "pending", age |-> 0]
               aa == [answers[i] EXCEPT !.phase = "asked"]
    <3>1. inter' = [inter EXCEPT ![i] = ii] /\ answers' = [answers EXCEPT ![i] = aa] /\ inter[i].at = "deferring"
      BY <1>1, <1>10, <2>1 DEF DeferReturns, AnswerType
    <3>2. ii \in InterType /\ aa \in AnswerType /\ aa.edits = answers[i].edits
      BY <1>1 DEF AnswerType, InterType
    <3>3. Unedited(ii, aa) /\ aa.edits <= 1
      BY <1>1, <3>1, <3>2 DEF Unedited
    <3> HIDE DEF ii, aa
    <3> QED  BY <3>1, <3>2, <3>3, InterMoves
  <2>2. CASE ~ok
    <3> DEFINE ii == [inter[i] EXCEPT !.at = "failed"]
    <3>1. inter' = [inter EXCEPT ![i] = ii] /\ answers' = [answers EXCEPT ![i] = answers[i]]
      BY <1>1, <1>2, <1>10, <2>2 DEF DeferReturns, InterType, DiscordInv
    <3>2. ii \in InterType /\ Unedited(ii, answers[i])
      BY <1>1 DEF InterType, Unedited
    <3> HIDE DEF ii
    <3> QED  BY <1>1, <3>1, <3>2, InterMoves
  <2> QED  BY <2>1, <2>2
<1> QED  BY <1>3, <1>5, <1>6, <1>7, <1>8, <1>9, <1>10 DEF DiscordNext

(* It bounds the edits of each deferred reply.                             *)
LEMMA DiscordSound == DiscordInv => EditedOnce
BY DEF DiscordInv, EditedOnce

-----------------------------------------------------------------------------
(* Signal's requests.                                                      *)

RpcType == [at : {"idle", "reading", "waiting", "resolved", "rejected"}, id : Ids, timer : BOOLEAN]

(* Names are one's own, and a send that waits has its timer and its entry. *)
RpcInv ==
  /\ rpc \in [RpcSends -> RpcType] /\ rpcPending \in [Ids -> RpcSends \cup {NoSend}] /\ ms \in Ids
  /\ \A s, t \in RpcSends : s # t /\ rpc[s].at # "idle" /\ rpc[t].at # "idle" => rpc[s].id # rpc[t].id
  /\ \A s \in RpcSends : rpc[s].timer => rpc[s].at # "idle"
  /\ \A s \in RpcSends, i \in Ids : rpcPending[i] = s => rpc[s].at # "idle"
  /\ RpcSettles

(* No request has a name yet.                                              *)
LEMMA RpcStart == RpcInit => RpcInv
<1> SUFFICES ASSUME RpcInit PROVE RpcInv
  OBVIOUS
<1>1. 0 \in Ids
  BY RpcAssumption DEF Ids
<1> QED  BY <1>1, RpcAssumption DEF RpcInit, RpcInv, RpcType, RpcSettles

(* The timer and a failed write of send s take away the entry of s only.   *)
LEMMA OwnEntry ==
  ASSUME RpcInv, NEW s \in RpcSends, rpc[s].at # "idle", NEW how \in {"resolved", "rejected"}, OwnEntryGone(s, how),
         ms' = ms
  PROVE  RpcInv'
<1> DEFINE i == rpc[s].id
           r == [rpc[s] EXCEPT !.at = IF rpcPending[i] # NoSend /\ @ = "waiting" THEN how ELSE @, !.timer = FALSE]
<1>1. rpc[s] \in RpcType /\ i \in Ids
  BY DEF RpcInv, RpcType
<1>2. rpc' = [rpc EXCEPT ![s] = r] /\ rpcPending' = [rpcPending EXCEPT ![i] = NoSend]
  BY <1>1 DEF OwnEntryGone, RpcInv, RpcType
<1>3. rpc[s].at = "waiting" => rpcPending[i] = s
  BY DEF RpcInv, RpcSettles
<1>4. /\ r \in RpcType /\ r.id = i /\ r.at # "idle" /\ r.timer = FALSE
      /\ r.at = "waiting" => rpc[s].at = "waiting" /\ rpcPending[i] = NoSend
  BY <1>1 DEF RpcType
<1>5. r.at # "waiting"
  BY <1>3, <1>4, RpcAssumption
<1> HIDE DEF r
<1>6. /\ rpc' \in [RpcSends -> RpcType] /\ rpc'[s] = r /\ \A t \in RpcSends : t # s => rpc'[t] = rpc[t]
      /\ rpcPending' \in [Ids -> RpcSends \cup {NoSend}] /\ \A j \in Ids : j # i => rpcPending'[j] = rpcPending[j]
  BY <1>1, <1>2, <1>4 DEF RpcInv
<1>7. ASSUME NEW t \in RpcSends, rpc'[t].at = "waiting" PROVE rpc'[t].timer /\ rpcPending'[rpc'[t].id] = t
  <2>1. t # s /\ rpc'[t] = rpc[t] /\ rpc[t].id # i /\ rpc[t].id \in Ids
    BY <1>5, <1>6, <1>7 DEF RpcInv, RpcType
  <2> QED  BY <1>6, <1>7, <2>1 DEF RpcInv, RpcSettles
<1>8. \A t, u \in RpcSends : t # u /\ rpc'[t].at # "idle" /\ rpc'[u].at # "idle" => rpc'[t].id # rpc'[u].id
  BY <1>4, <1>6 DEF RpcInv
<1>9. \A t \in RpcSends : rpc'[t].timer => rpc'[t].at # "idle"
  BY <1>4, <1>6 DEF RpcInv
<1>10. ASSUME NEW t \in RpcSends, NEW j \in Ids, rpcPending'[j] = t PROVE rpc'[t].at # "idle"
  <2>1. t # NoSend
    BY RpcAssumption
  <2>2. j # i /\ rpcPending[j] = t
    BY <1>1, <1>2, <1>6, <1>10, <2>1 DEF RpcInv
  <2>3. rpc[t].at # "idle"
    BY <2>2 DEF RpcInv
  <2> QED  BY <1>4, <1>6, <2>3
<1> QED  BY <1>6, <1>7, <1>8, <1>9, <1>10 DEF RpcInv, RpcSettles

(* While names are one's own, no line, timer or failed write takes another *)
(* request's entry.                                                        *)
LEMMA RpcStep ==
  ASSUME OneRpcPerMs
  PROVE  RpcInv /\ [RpcNext]_rpcVars => RpcInv'
<1> SUFFICES ASSUME RpcInv, [RpcNext]_rpcVars PROVE RpcInv'
  OBVIOUS
<1>1. /\ rpc \in [RpcSends -> RpcType] /\ rpcPending \in [Ids -> RpcSends \cup {NoSend}] /\ ms \in Ids
      /\ \A s, t \in RpcSends : s # t /\ rpc[s].at # "idle" /\ rpc[t].at # "idle" => rpc[s].id # rpc[t].id
      /\ \A s \in RpcSends : rpc[s].timer => rpc[s].at # "idle"
      /\ \A s \in RpcSends, i \in Ids : rpcPending[i] = s => rpc[s].at # "idle"
      /\ RpcSettles
  BY DEF RpcInv
<1>2. \A s \in RpcSends : rpc[s] \in RpcType /\ rpc[s].id \in Ids
  BY <1>1 DEF RpcType
<1>3. CASE ClockRuns
  <2>1. ms' \in Ids /\ UNCHANGED <<rpc, rpcPending>>
    BY <1>1, <1>3, RpcAssumption DEF ClockRuns, Ids
  <2> QED  BY <1>1, <2>1 DEF RpcInv, RpcSettles
<1>4. ASSUME NEW s \in RpcSends, SendNamed(s) PROVE RpcInv'
  <2> DEFINE r == [at |-> "reading", id |-> ms, timer |-> FALSE]
  <2>1. ms \notin Taken /\ rpc' = [rpc EXCEPT ![s] = r] /\ rpcPending' = rpcPending /\ ms' = ms
    BY <1>4 DEF SendNamed
  <2>2. r \in RpcType /\ r.id = ms /\ r.at = "reading" /\ r.timer = FALSE
    BY <1>1 DEF RpcType
  <2> HIDE DEF r
  <2>3. rpc' \in [RpcSends -> RpcType] /\ rpc'[s] = r /\ \A t \in RpcSends : t # s => rpc'[t] = rpc[t]
    BY <1>1, <2>1, <2>2
  <2>4. \A t \in RpcSends : rpc[t].at # "idle" => rpc[t].id # ms
    BY <2>1 DEF Taken
  <2>5. \A t, u \in RpcSends : t # u /\ rpc'[t].at # "idle" /\ rpc'[u].at # "idle" => rpc'[t].id # rpc'[u].id
    BY <1>1, <2>2, <2>3, <2>4
  <2>6. \A t \in RpcSends : rpc'[t].timer => rpc'[t].at # "idle"
    BY <1>1, <2>2, <2>3
  <2>7. RpcSettles'
    BY <1>1, <2>1, <2>2, <2>3 DEF RpcSettles
  <2>8. \A t \in RpcSends, i \in Ids : rpcPending'[i] = t => rpc'[t].at # "idle"
    BY <1>1, <2>1, <2>2, <2>3
  <2> QED  BY <1>1, <2>1, <2>3, <2>5, <2>6, <2>7, <2>8 DEF RpcInv
<1>5. ASSUME NEW s \in RpcSends, WriteRpc(s) PROVE RpcInv'
  <2> DEFINE r == [rpc[s] EXCEPT !.at = "waiting", !.timer = TRUE]
  <2>1. /\ rpc[s].at = "reading" /\ rpc' = [rpc EXCEPT ![s] = r] /\ rpcPending' = [rpcPending EXCEPT ![rpc[s].id] = s]
        /\ ms' = ms
    BY <1>1, <1>2, <1>5 DEF WriteRpc, RpcType
  <2>2. r \in RpcType /\ r.id = rpc[s].id /\ r.at = "waiting" /\ r.timer = TRUE
    BY <1>2 DEF RpcType
  <2> HIDE DEF r
  <2>3. /\ rpc' \in [RpcSends -> RpcType] /\ rpc'[s] = r /\ \A t \in RpcSends : t # s => rpc'[t] = rpc[t]
        /\ rpcPending' \in [Ids -> RpcSends \cup {NoSend}] /\ rpcPending'[rpc[s].id] = s
        /\ \A j \in Ids : j # rpc[s].id => rpcPending'[j] = rpcPending[j]
    BY <1>1, <1>2, <2>1, <2>2
  <2>4. \A t, u \in RpcSends : t # u /\ rpc'[t].at # "idle" /\ rpc'[u].at # "idle" => rpc'[t].id # rpc'[u].id
    BY <1>1, <2>1, <2>2, <2>3
  <2>5. \A t \in RpcSends : rpc'[t].timer => rpc'[t].at # "idle"
    BY <1>1, <2>2, <2>3
  <2>6. ASSUME NEW t \in RpcSends, rpc'[t].at = "waiting" PROVE rpc'[t].timer /\ rpcPending'[rpc'[t].id] = t
    <3>1. CASE t = s
      BY <2>2, <2>3, <3>1
    <3>2. CASE t # s
      <4>1. rpc'[t] = rpc[t] /\ rpc[t].id # rpc[s].id /\ rpc[t].id \in Ids
        BY <1>1, <1>2, <2>1, <2>3, <2>6, <3>2
      <4> QED  BY <1>1, <2>3, <2>6, <4>1 DEF RpcSettles
    <3> QED  BY <3>1, <3>2
  <2>7. \A t \in RpcSends, i \in Ids : rpcPending'[i] = t => rpc'[t].at # "idle"
    BY <1>1, <2>2, <2>3
  <2> QED  BY <1>1, <2>1, <2>3, <2>4, <2>5, <2>6, <2>7 DEF RpcInv, RpcSettles
<1>6. ASSUME NEW s \in RpcSends, RpcTimer(s) \/ WriteFails(s) PROVE RpcInv'
  <2>1. rpc[s].at # "idle" /\ ms' = ms /\ (OwnEntryGone(s, "resolved") \/ OwnEntryGone(s, "rejected"))
    BY <1>1, <1>6 DEF RpcTimer, WriteFails, TimerResolves
  <2> QED  BY <2>1, OwnEntry
<1>7. ASSUME NEW i \in Ids, NEW how \in {"resolved", "rejected"}, AckArrives(i, how) PROVE RpcInv'
  <2>1. /\ rpcPending' = [rpcPending EXCEPT ![i] = NoSend] /\ ms' = ms
        /\ rpc' = [s \in RpcSends |-> IF rpcPending[i] = s THEN [rpc[s] EXCEPT !.at = how, !.timer = FALSE] ELSE rpc[s]]
    BY <1>7 DEF AckArrives
  <2>2. ASSUME NEW s \in RpcSends
        PROVE  /\ rpc'[s] \in RpcType /\ rpc'[s].id = rpc[s].id
               /\ rpcPending[i] # s => rpc'[s] = rpc[s]
               /\ rpcPending[i] = s => rpc'[s].at = how /\ rpc'[s].timer = FALSE
    <3>1. rpc'[s] = IF rpcPending[i] = s THEN [rpc[s] EXCEPT !.at = how, !.timer = FALSE] ELSE rpc[s]
      BY <2>1
    <3> QED  BY <1>2, <1>7, <3>1 DEF RpcType
  <2>3. rpc' \in [RpcSends -> RpcType] /\ rpcPending' \in [Ids -> RpcSends \cup {NoSend}]
        /\ \A j \in Ids : j # i => rpcPending'[j] = rpcPending[j]
    BY <1>1, <2>1, <2>2
  <2>4. ASSUME NEW t \in RpcSends, rpc'[t].at = "waiting" PROVE rpc'[t].timer /\ rpcPending'[rpc'[t].id] = t
    <3>1. rpcPending[i] # t /\ rpc'[t] = rpc[t]
      BY <1>7, <2>2, <2>4
    <3>2. rpc[t].id # i
      BY <1>1, <2>4, <3>1 DEF RpcSettles
    <3>3. rpc[t].timer /\ rpcPending[rpc[t].id] = t /\ rpc[t].id \in Ids
      BY <1>1, <1>2, <2>4, <3>1 DEF RpcSettles
    <3>4. rpcPending'[rpc[t].id] = rpcPending[rpc[t].id]
      BY <2>3, <3>2, <3>3
    <3> QED  BY <3>1, <3>3, <3>4
  <2>5. \A t \in RpcSends : (rpc'[t].at = "idle") <=> (rpc[t].at = "idle")
    BY <1>1, <1>7, <2>2
  <2>6. ASSUME NEW t \in RpcSends, NEW u \in RpcSends, t # u, rpc'[t].at # "idle", rpc'[u].at # "idle"
        PROVE  rpc'[t].id # rpc'[u].id
    <3>1. rpc[t].at # "idle" /\ rpc[u].at # "idle"
      BY <2>5, <2>6
    <3>2. rpc'[t].id = rpc[t].id /\ rpc'[u].id = rpc[u].id
      BY <2>2
    <3> QED  BY <1>1, <2>6, <3>1, <3>2
  <2>7. ASSUME NEW t \in RpcSends, rpc'[t].timer PROVE rpc'[t].at # "idle"
    <3>1. CASE rpcPending[i] = t
      BY <1>7, <2>2, <3>1
    <3>2. CASE rpcPending[i] # t
      <4>1. rpc'[t] = rpc[t]
        BY <2>2, <3>2
      <4> QED  BY <1>1, <2>7, <4>1
    <3> QED  BY <3>1, <3>2
  <2>8. ASSUME NEW t \in RpcSends, NEW j \in Ids, rpcPending'[j] = t PROVE rpc'[t].at # "idle"
    <3>1. j # i /\ rpcPending[j] = t
      BY <1>1, <2>1, <2>3, <2>8, RpcAssumption
    <3> QED  BY <1>1, <2>5, <3>1
  <2> QED  BY <1>1, <2>1, <2>3, <2>4, <2>6, <2>7, <2>8 DEF RpcInv, RpcSettles
<1>8. ASSUME NEW i \in Ids, AckLost(i) PROVE RpcInv'
  BY <1>1, <1>8 DEF AckLost, RpcInv, RpcSettles
<1>9. CASE UNCHANGED rpcVars
  BY <1>1, <1>9 DEF rpcVars, RpcInv, RpcSettles
<1> QED  BY <1>3, <1>4, <1>5, <1>6, <1>7, <1>8, <1>9 DEF RpcNext

-----------------------------------------------------------------------------
(* The terminal chat.                                                      *)

(* Numbers that rise through three sequences and stay within n.            *)
Rising(s) == \A i, j \in 1..Len(s) : i < j => s[i] < s[j]
Below(s, u) == \A i \in 1..Len(s), j \in 1..Len(u) : s[i] < u[j]
Within(s, n) == \A i \in 1..Len(s) : s[i] <= n
InOrder(a, b, c, n) ==
  /\ n \in Nat /\ a \in Seq(Nat) /\ b \in Seq(Nat) /\ c \in Seq(Nat)
  /\ Rising(a) /\ Rising(b) /\ Rising(c) /\ Below(a, b) /\ Below(a, c) /\ Below(b, c)
  /\ Within(a, n) /\ Within(b, n) /\ Within(c, n)

(* The next number at the end of a sequence is above all.                  *)
LEMMA NextAbove ==
  ASSUME NEW n \in Nat, NEW s \in Seq(Nat), Rising(s), Within(s, n)
  PROVE  /\ Append(s, n + 1) \in Seq(Nat) /\ Rising(Append(s, n + 1)) /\ Within(Append(s, n + 1), n + 1)
         /\ Within(s, n + 1)
         /\ \A r \in Seq(Nat) : Below(r, s) /\ Within(r, n) => Below(r, Append(s, n + 1))
<1> DEFINE u == Append(s, n + 1)
<1>1. /\ u \in Seq(Nat) /\ Len(u) = Len(s) + 1 /\ Len(s) \in Nat /\ u[Len(s) + 1] = n + 1
      /\ \A i \in 1..Len(s) : u[i] = s[i] /\ s[i] \in Nat
  OBVIOUS
<1> HIDE DEF u
<1>2. \A i \in 1..Len(s) : s[i] <= n /\ s[i] < n + 1
  BY <1>1 DEF Within
<1>3. \A i \in 1..Len(u) : i \in 1..Len(s) \/ i = Len(s) + 1
  BY <1>1
<1>4. Rising(u)
  <2> SUFFICES ASSUME NEW i \in 1..Len(u), NEW j \in 1..Len(u), i < j PROVE u[i] < u[j]
    BY DEF Rising
  <2>1. i \in 1..Len(s)
    BY <1>1, <1>3
  <2>2. CASE j \in 1..Len(s)
    BY <1>1, <2>1, <2>2 DEF Rising
  <2>3. CASE j = Len(s) + 1
    BY <1>1, <1>2, <2>1, <2>3
  <2> QED  BY <1>3, <2>2, <2>3
<1>5. Within(s, n + 1)
  BY <1>1, <1>2 DEF Within
<1>6. Within(u, n + 1)
  BY <1>1, <1>2, <1>3 DEF Within
<1>7. ASSUME NEW r \in Seq(Nat), Below(r, s), Within(r, n) PROVE Below(r, u)
  <2>1. \A i \in 1..Len(r) : r[i] \in Nat /\ r[i] <= n
    BY <1>7 DEF Within
  <2>2. ASSUME NEW i \in 1..Len(r), NEW j \in 1..Len(u) PROVE r[i] < u[j]
    <3>1. CASE j \in 1..Len(s)
      BY <1>1, <1>7, <3>1 DEF Below
    <3>2. CASE j = Len(s) + 1
      BY <1>1, <2>1, <3>2
    <3> QED  BY <1>3, <3>1, <3>2
  <2> QED  BY <2>2 DEF Below
<1> QED  BY <1>1, <1>7, <1>4, <1>5, <1>6 DEF u

(* A message typed now goes last, behind what waits or, if nothing waits,  *)
(* what is under way.                                                      *)
LEMMA TypedLast ==
  ASSUME NEW a, NEW b, NEW c, NEW n, InOrder(a, b, c, n)
  PROVE  InOrder(a, b, Append(c, n + 1), n + 1) /\ InOrder(a, b, c, n + 1)
         /\ (c = <<>> => InOrder(a, Append(b, n + 1), c, n + 1))
<1>1. n \in Nat /\ n + 1 \in Nat /\ a \in Seq(Nat) /\ b \in Seq(Nat) /\ c \in Seq(Nat)
      /\ Rising(a) /\ Rising(b) /\ Rising(c) /\ Below(a, b) /\ Below(a, c) /\ Below(b, c)
      /\ Within(a, n) /\ Within(b, n) /\ Within(c, n)
  BY DEF InOrder
<1>2. Within(a, n + 1) /\ Within(b, n + 1) /\ Within(c, n + 1)
  BY <1>1, NextAbove
<1>3. /\ Append(c, n + 1) \in Seq(Nat) /\ Rising(Append(c, n + 1)) /\ Within(Append(c, n + 1), n + 1)
      /\ Below(a, Append(c, n + 1)) /\ Below(b, Append(c, n + 1))
  BY <1>1, NextAbove
<1>4. /\ Append(b, n + 1) \in Seq(Nat) /\ Rising(Append(b, n + 1)) /\ Within(Append(b, n + 1), n + 1)
      /\ Below(a, Append(b, n + 1))
  BY <1>1, NextAbove
<1>5. c = <<>> => Below(Append(b, n + 1), c)
  BY DEF Below
<1> QED  BY <1>1, <1>2, <1>3, <1>4, <1>5 DEF InOrder

(* Nothing is in order, and what is lost under way leaves the rest in      *)
(* order.                                                                  *)
LEMMA NothingInOrder ==
  /\ InOrder(<<>>, <<>>, <<>>, 0)
  /\ \A a, b, c, n : InOrder(a, b, c, n) => InOrder(a, <<>>, c, n)
BY DEF InOrder, Rising, Below, Within

(* The flush sends what waited behind what is under way.                   *)
LEMMA FlushedInOrder ==
  ASSUME NEW a, NEW b, NEW c, NEW n, InOrder(a, b, c, n)
  PROVE  InOrder(a, b \o c, <<>>, n)
<1> DEFINE u == b \o c
<1>1. n \in Nat /\ a \in Seq(Nat) /\ b \in Seq(Nat) /\ c \in Seq(Nat)
      /\ Rising(a) /\ Rising(b) /\ Rising(c) /\ Below(a, b) /\ Below(a, c) /\ Below(b, c)
      /\ Within(a, n) /\ Within(b, n) /\ Within(c, n)
  BY DEF InOrder
<1>2. /\ u \in Seq(Nat) /\ Len(u) = Len(b) + Len(c) /\ Len(b) \in Nat /\ Len(c) \in Nat
      /\ \A i \in 1..Len(u) : u[i] = IF i <= Len(b) THEN b[i] ELSE c[i - Len(b)]
  BY <1>1
<1>3. \A i \in 1..Len(u) : i <= Len(b) => i \in 1..Len(b) /\ u[i] = b[i]
  BY <1>2
<1>4. \A i \in 1..Len(u) : ~(i <= Len(b)) => i - Len(b) \in 1..Len(c) /\ u[i] = c[i - Len(b)]
  BY <1>2
<1> HIDE DEF u
<1>5. Rising(u)
  <2> SUFFICES ASSUME NEW i \in 1..Len(u), NEW j \in 1..Len(u), i < j PROVE u[i] < u[j]
    BY DEF Rising
  <2>1. CASE j <= Len(b)
    <3>1. i <= Len(b)
      BY <1>2, <2>1
    <3>2. i \in 1..Len(b) /\ j \in 1..Len(b) /\ u[i] = b[i] /\ u[j] = b[j]
      BY <1>3, <2>1, <3>1
    <3> QED  BY <1>1, <3>2 DEF Rising
  <2>2. CASE i <= Len(b) /\ ~(j <= Len(b))
    BY <1>1, <1>3, <1>4, <2>2 DEF Below
  <2>3. CASE ~(i <= Len(b))
    <3>1. ~(j <= Len(b)) /\ i - Len(b) < j - Len(b)
      BY <1>2, <2>3
    <3> QED  BY <1>1, <1>4, <2>3, <3>1 DEF Rising
  <2> QED  BY <2>1, <2>2, <2>3
<1>6. Within(u, n) /\ Below(a, u)
  BY <1>1, <1>3, <1>4 DEF Within, Below
<1>7. <<>> \in Seq(Nat) /\ Rising(<<>>) /\ Below(a, <<>>) /\ Below(u, <<>>) /\ Within(<<>>, n)
  BY DEF Rising, Below, Within
<1>8. InOrder(a, u, <<>>, n)
  BY <1>1, <1>2, <1>5, <1>6, <1>7 DEF InOrder
<1> QED  BY <1>8 DEF u

(* The message received is the first of those under way.                   *)
LEMMA ReceivedInOrder ==
  ASSUME NEW a, NEW b, NEW c, NEW n, InOrder(a, b, c, n), b # <<>>
  PROVE  InOrder(Append(a, Head(b)), Tail(b), c, n)
<1> DEFINE u == Append(a, Head(b))
           v == Tail(b)
<1>1. n \in Nat /\ a \in Seq(Nat) /\ b \in Seq(Nat) /\ c \in Seq(Nat)
      /\ Rising(a) /\ Rising(b) /\ Rising(c) /\ Below(a, b) /\ Below(a, c) /\ Below(b, c)
      /\ Within(a, n) /\ Within(b, n) /\ Within(c, n)
  BY DEF InOrder
<1>2. /\ v \in Seq(Nat) /\ Len(v) = Len(b) - 1 /\ Len(b) \in Nat \ {0} /\ Head(b) = b[1] /\ b[1] \in Nat
      /\ \A i \in 1..Len(v) : v[i] = b[i + 1]
  BY <1>1
<1>3. /\ u \in Seq(Nat) /\ Len(u) = Len(a) + 1 /\ Len(a) \in Nat /\ u[Len(a) + 1] = b[1]
      /\ \A i \in 1..Len(a) : u[i] = a[i]
  BY <1>1, <1>2
<1> HIDE DEF u, v
<1>4. \A i \in 1..Len(v) : i + 1 \in 1..Len(b) /\ 1 \in 1..Len(b) /\ 1 < i + 1
  BY <1>2
<1>5. \A i \in 1..Len(u) : i \in 1..Len(a) \/ (i = Len(a) + 1 /\ 1 \in 1..Len(b))
  BY <1>2, <1>3
<1>6. Rising(v)
  <2> SUFFICES ASSUME NEW i \in 1..Len(v), NEW j \in 1..Len(v), i < j PROVE v[i] < v[j]
    BY DEF Rising
  <2>1. i + 1 < j + 1
    OBVIOUS
  <2> QED  BY <1>1, <1>2, <1>4, <2>1 DEF Rising
<1>7. Within(v, n) /\ Below(v, c)
  BY <1>1, <1>2, <1>4 DEF Within, Below
<1>8. 1 \in 1..Len(b)
  BY <1>2
<1>9. Within(u, n) /\ Below(u, c)
  BY <1>1, <1>3, <1>5, <1>8 DEF Within, Below
<1>10. Below(u, v)
  <2> SUFFICES ASSUME NEW i \in 1..Len(u), NEW j \in 1..Len(v) PROVE u[i] < v[j]
    BY DEF Below
  <2>1. CASE i \in 1..Len(a)
    BY <1>1, <1>2, <1>3, <1>4, <2>1 DEF Below
  <2>2. CASE i = Len(a) + 1
    BY <1>1, <1>2, <1>3, <1>4, <1>8, <2>2 DEF Rising
  <2> QED  BY <1>5, <2>1, <2>2
<1>11. Rising(u)
  <2> SUFFICES ASSUME NEW i \in 1..Len(u), NEW j \in 1..Len(u), i < j PROVE u[i] < u[j]
    BY DEF Rising
  <2>1. i \in 1..Len(a)
    BY <1>3, <1>5
  <2>2. CASE j \in 1..Len(a)
    BY <1>1, <1>3, <2>1, <2>2 DEF Rising
  <2>3. CASE j = Len(a) + 1
    BY <1>1, <1>3, <1>8, <2>1, <2>3 DEF Below
  <2> QED  BY <1>5, <2>2, <2>3
<1>12. InOrder(u, v, c, n)
  BY <1>1, <1>2, <1>3, <1>6, <1>7, <1>9, <1>10, <1>11 DEF InOrder
<1> QED  BY <1>12 DEF u, v

ChatEnds == {"none", "opening", "open", "closed"}
SockType == [owner : {"none", "tui", "once"}, client : ChatEnds, server : {"none", "open", "ended", "closed"}]
TuiType == [ws : 0..MaxSockets, timer : BOOLEAN, streaming : BOOLEAN, pending : Seq(Nat), ever : BOOLEAN]
ChatTypes ==
  /\ socks \in [SockIds -> SockType] /\ session \in 0..MaxSockets /\ tui \in TuiType
  /\ wire \in [SockIds -> Seq(Nat)] /\ typed \in Nat

(* The messages under way on the terminal's socket.                        *)
Way == IF tui.ws = 0 THEN <<>> ELSE wire[tui.ws]

(* Alone, the terminal has one socket that is not closed at both ends, and *)
(* what was received, is under way and waits is in the order typed.        *)
OneSocket ==
  /\ \A k \in SockIds : /\ socks[k].owner = "none" => socks[k] = NoSock /\ wire[k] = <<>>
                        /\ socks[k].owner # "none" /\ k # tui.ws =>
                             socks[k].client = "closed" /\ socks[k].server = "closed"
                        /\ socks[k].client = "closed" => socks[k].server # "none"
  /\ tui.ws # 0 => /\ tui.timer => socks[tui.ws].client = "closed"
                   /\ socks[tui.ws].client = "open" => tui.pending = <<>>
                   /\ socks[tui.ws].owner # "none"
  /\ tui.ever => tui.ws # 0
TuiInOrder == OneSocket /\ InOrder(inbound, Way, tui.pending, typed)
ChatInv == ChatTypes /\ (Shared \/ TuiInOrder)

(* The terminal begins without a socket and without messages.              *)
LEMMA ChatStart == ChatInit => ChatInv
<1> SUFFICES ASSUME ChatInit PROVE ChatInv
  OBVIOUS
<1>1. NoSock \in SockType /\ NoSock.owner = "none" /\ NoSock.client = "none"
  BY DEF NoSock, SockType, ChatEnds
<1> HIDE DEF NoSock
<1>2. /\ \A k \in SockIds : socks[k] = NoSock /\ wire[k] = <<>>
      /\ socks \in [SockIds -> SockType] /\ wire \in [SockIds -> Seq(Nat)]
  BY <1>1 DEF ChatInit
<1>3. tui \in TuiType /\ session \in 0..MaxSockets /\ typed \in Nat /\ tui.ws = 0 /\ tui.ever = FALSE /\ tui.pending = <<>>
  BY ChatBounds DEF ChatInit, TuiType
<1>4. OneSocket
  BY <1>1, <1>2, <1>3 DEF OneSocket
<1>5. InOrder(inbound, Way, tui.pending, typed)
  BY <1>3, NothingInOrder DEF ChatInit, Way
<1> QED  BY <1>2, <1>3, <1>4, <1>5 DEF ChatInv, ChatTypes, TuiInOrder

(* connect() takes a socket nobody has used; alone and with the ends seen  *)
(* in order, it finds every other socket closed at both ends.              *)
LEMMA OpensUnused ==
  ASSUME ChatTypes, NEW owner \in {"tui", "once"}, Opens(owner)
  PROVE  LET k == Next1(UnusedSock)
         IN /\ k \in SockIds /\ socks[k].owner = "none"
            /\ socks' \in [SockIds -> SockType]
            /\ socks'[k] = [owner |-> owner, client |-> "opening", server |-> "none"]
            /\ \A j \in SockIds : j # k => socks'[j] = socks[j]
<1> DEFINE k == Next1(UnusedSock)
<1>1. UnusedSock # {} /\ UnusedSock \subseteq Nat /\ UnusedSock \subseteq SockIds
  BY ChatBounds DEF Opens, UnusedSock, SockIds
<1>2. \E n \in UnusedSock : \A m \in UnusedSock : n <= m
  BY <1>1, LeastNumber
<1>3. k \in UnusedSock
  BY <1>2 DEF Next1
<1>4. k \in SockIds /\ socks[k].owner = "none"
  BY <1>3 DEF UnusedSock
<1> DEFINE r == [owner |-> owner, client |-> "opening", server |-> "none"]
<1>5. r \in SockType
  BY DEF SockType, ChatEnds
<1>6. socks' = [socks EXCEPT ![k] = r]
  BY DEF Opens
<1> HIDE DEF k, r
<1>7. socks' \in [SockIds -> SockType] /\ socks'[k] = r /\ \A j \in SockIds : j # k => socks'[j] = socks[j]
  BY <1>4, <1>5, <1>6 DEF ChatTypes
<1> QED  BY <1>4, <1>7 DEF k, r

(* A reconnect takes a socket of its own, when the one before is closed at *)
(* both ends.                                                              *)
LEMMA TuiConnectsKeeps ==
  ASSUME ChatInv, EndsSeenInOrder, TuiConnects
  PROVE  ChatInv'
<1> DEFINE k == Next1(UnusedSock)
<1>1. /\ tui.timer /\ Opens("tui") /\ tui' = [tui EXCEPT !.timer = FALSE, !.ws = k]
      /\ UNCHANGED <<session, typed, wire, inbound>> /\ ~Lingering
  BY DEF TuiConnects, Opens
<1>2. ChatTypes
  BY DEF ChatInv
<1>3. /\ k \in SockIds /\ socks[k].owner = "none" /\ socks' \in [SockIds -> SockType]
      /\ socks'[k] = [owner |-> "tui", client |-> "opening", server |-> "none"]
      /\ \A j \in SockIds : j # k => socks'[j] = socks[j]
  BY <1>1, <1>2, OpensUnused
<1> HIDE DEF k
<1>4. k \in 0..MaxSockets /\ k # 0
  BY <1>3, ChatBounds DEF SockIds
<1>5. /\ tui' \in TuiType /\ tui'.ws = k /\ tui'.timer = FALSE /\ tui'.pending = tui.pending /\ tui'.ever = tui.ever
  BY <1>1, <1>2, <1>4 DEF ChatTypes, TuiType
<1>6. ChatTypes'
  BY <1>1, <1>2, <1>3, <1>5 DEF ChatTypes
<1>7. CASE Shared
  <2>1. PICK j \in SockIds : socks[j].owner = "once"
    BY <1>7 DEF Shared
  <2>2. Shared'
    BY <1>3, <2>1 DEF Shared
  <2> QED  BY <1>6, <2>2 DEF ChatInv
<1>8. CASE TuiInOrder
  <2>1. OneSocket /\ InOrder(inbound, Way, tui.pending, typed)
    BY <1>8 DEF TuiInOrder
  <2>2. wire[k] = <<>>
    BY <1>3, <2>1 DEF OneSocket
  <2>3. ASSUME NEW j \in SockIds, socks[j].owner # "none"
        PROVE  socks[j].client = "closed" /\ socks[j].server = "closed"
    <3>1. CASE j # tui.ws
      BY <2>1, <2>3, <3>1 DEF OneSocket
    <3>2. CASE j = tui.ws
      <4>1. tui.ws # 0
        BY <3>2, ChatBounds DEF SockIds
      <4>2. socks[j].client = "closed"
        BY <1>1, <2>1, <3>2, <4>1 DEF OneSocket
      <4>3. socks[j].server \in {"none", "open", "ended", "closed"}
        BY <1>2 DEF ChatTypes, SockType
      <4>4. socks[j].server # "none" /\ socks[j].server \notin {"open", "ended"}
        BY <1>1, <2>1, <4>2 DEF OneSocket, Lingering
      <4> QED  BY <4>2, <4>3, <4>4
    <3> QED  BY <3>1, <3>2
  <2>4. OneSocket'
    <3>1. ASSUME NEW j \in SockIds
          PROVE  /\ socks'[j].owner = "none" => socks'[j] = NoSock /\ wire'[j] = <<>>
                 /\ socks'[j].owner # "none" /\ j # tui'.ws => socks'[j].client = "closed" /\ socks'[j].server = "closed"
                 /\ socks'[j].client = "closed" => socks'[j].server # "none"
      <4>1. CASE j = k
        BY <1>3, <1>5, <4>1
      <4>2. CASE j # k
        BY <1>1, <1>3, <2>1, <2>3, <4>2 DEF OneSocket
      <4> QED  BY <4>1, <4>2
    <3>2. socks'[tui'.ws].client = "opening" /\ socks'[tui'.ws].owner = "tui"
      BY <1>3, <1>5
    <3> QED  BY <1>4, <1>5, <3>1, <3>2 DEF OneSocket
  <2>5. Way' = <<>>
    BY <1>1, <1>4, <1>5, <2>2 DEF Way
  <2>6. InOrder(inbound, Way, tui.pending, typed)'
    BY <1>1, <1>5, <2>1, <2>5, NothingInOrder
  <2> QED  BY <1>6, <2>4, <2>6 DEF ChatInv, TuiInOrder
<1> QED  BY <1>7, <1>8 DEF ChatInv

(* One socket moves on within its owner's hands.                           *)
LEMMA SockMoves ==
  ASSUME ChatTypes, NEW k \in SockIds, NEW r \in SockType, socks' = [socks EXCEPT ![k] = r],
         r.owner = socks[k].owner
  PROVE  /\ socks' \in [SockIds -> SockType] /\ socks'[k] = r /\ \A j \in SockIds : j # k => socks'[j] = socks[j]
         /\ Shared => Shared'
         /\ OneSocket /\ tui' = tui /\ wire' = wire /\ socks[k].owner # "none"
            /\ (r.client = "closed" => r.server # "none")
            /\ (k # tui.ws => r.client = "closed" /\ r.server = "closed")
            /\ (r.client = "open" => socks[k].client = "open") /\ (socks[k].client = "closed" => r.client = "closed")
            => OneSocket'
<1>1. socks' \in [SockIds -> SockType] /\ socks'[k] = r /\ \A j \in SockIds : j # k => socks'[j] = socks[j]
  BY DEF ChatTypes
<1>2. Shared => Shared'
  BY <1>1 DEF Shared
<1>3. ASSUME OneSocket, tui' = tui, wire' = wire, socks[k].owner # "none", r.client = "closed" => r.server # "none",
             k # tui.ws => r.client = "closed" /\ r.server = "closed",
             r.client = "open" => socks[k].client = "open", socks[k].client = "closed" => r.client = "closed"
      PROVE  OneSocket'
  <2>1. tui.ws # 0 => tui.ws \in SockIds
    BY ChatBounds DEF ChatTypes, TuiType, SockIds
  <2>2. \A j \in SockIds : /\ socks'[j].owner = "none" => socks'[j] = NoSock /\ wire'[j] = <<>>
                           /\ socks'[j].owner # "none" /\ j # tui'.ws =>
                                socks'[j].client = "closed" /\ socks'[j].server = "closed"
                           /\ socks'[j].client = "closed" => socks'[j].server # "none"
    BY <1>1, <1>3 DEF OneSocket
  <2>3. tui'.ws # 0 => /\ tui'.timer => socks'[tui'.ws].client = "closed"
                       /\ socks'[tui'.ws].client = "open" => tui'.pending = <<>>
                       /\ socks'[tui'.ws].owner # "none"
    BY <1>1, <1>3, <2>1 DEF OneSocket
  <2> QED  BY <1>3, <2>2, <2>3 DEF OneSocket
<1> QED  BY <1>1, <1>2, <1>3

(* Without a one-shot, the socket that is not closed is the terminal's.    *)
LEMMA OpenIsOwn ==
  ASSUME ChatTypes, OneSocket, ~Shared, NEW k \in SockIds,
         socks[k].client \in {"opening", "open"} \/ socks[k].server \in {"open", "ended"}
  PROVE  k = tui.ws /\ tui.ws # 0 /\ socks[k].owner = "tui" /\ Way = wire[k] /\ socks[k] \in SockType
<1>1. socks[k] \in SockType /\ socks[k].owner # "once"
  BY DEF ChatTypes, Shared
<1>2. socks[k].owner # "none"
  BY DEF OneSocket, NoSock
<1>3. k = tui.ws
  BY <1>2 DEF OneSocket
<1>4. k # 0
  BY ChatBounds DEF SockIds
<1> QED  BY <1>1, <1>2, <1>3, <1>4 DEF SockType, Way

(* The ends of a socket, when no message moves.                            *)
LEMMA SockSteps ==
  ASSUME ChatInv, NEW k \in SockIds, NEW r \in SockType, socks' = [socks EXCEPT ![k] = r], r.owner = socks[k].owner,
         socks[k].client \in {"opening", "open"} \/ socks[k].server \in {"open", "ended"},
         r.client = socks[k].client, r.server # "none", session' \in 0..MaxSockets, UNCHANGED <<tui, typed, inbound>>,
         wire' = wire \/ wire' = [wire EXCEPT ![k] = <<>>]
  PROVE  ChatInv'
<1>1. ChatTypes /\ wire \in [SockIds -> Seq(Nat)]
  BY DEF ChatInv, ChatTypes
<1>2. /\ socks' \in [SockIds -> SockType] /\ socks'[k] = r /\ \A j \in SockIds : j # k => socks'[j] = socks[j]
      /\ Shared => Shared'
  BY <1>1, SockMoves
<1>3. wire' \in [SockIds -> Seq(Nat)] /\ (wire'[k] = wire[k] \/ wire'[k] = <<>>)
      /\ \A j \in SockIds : j # k => wire'[j] = wire[j]
  <2>1. CASE wire' = wire
    BY <1>1, <2>1
  <2>2. CASE wire' = [wire EXCEPT ![k] = <<>>]
    BY <1>1, <2>2
  <2> QED  BY <2>1, <2>2
<1>4. ChatTypes'
  BY <1>1, <1>2, <1>3 DEF ChatTypes
<1>5. CASE ~Shared /\ TuiInOrder
  <2>1. OneSocket /\ InOrder(inbound, Way, tui.pending, typed)
    BY <1>5 DEF TuiInOrder
  <2>2. k = tui.ws /\ tui.ws # 0 /\ socks[k].owner = "tui" /\ Way = wire[k]
    BY <1>1, <1>5, <2>1, OpenIsOwn
  <2>3. OneSocket'
    BY <1>2, <1>3, <2>1, <2>2 DEF OneSocket
  <2>4. Way' = Way \/ Way' = <<>>
    BY <1>3, <2>2 DEF Way
  <2>5. InOrder(inbound, Way, tui.pending, typed)'
    BY <2>1, <2>4, NothingInOrder
  <2> QED  BY <1>4, <2>3, <2>5 DEF ChatInv, TuiInOrder
<1> QED  BY <1>2, <1>4, <1>5 DEF ChatInv

(* The open event flushes what was typed offline.                          *)
LEMMA ClientOpensKeeps ==
  ASSUME ChatInv, NEW k \in SockIds, ClientOpens(k)
  PROVE  ChatInv'
<1> DEFINE r == [socks[k] EXCEPT !.client = "open"]
<1>1. /\ ChatTypes /\ wire \in [SockIds -> Seq(Nat)] /\ socks[k] \in SockType /\ typed \in Nat /\ tui \in TuiType
      /\ tui.pending \in Seq(Nat) /\ wire[k] \in Seq(Nat) /\ <<>> \in Seq(Nat)
  BY DEF ChatInv, ChatTypes, TuiType
<1>2. socks[k].client = "opening" /\ socks[k].server # "none" /\ socks' = [socks EXCEPT ![k] = r]
      /\ UNCHANGED <<session, inbound>>
  BY DEF ClientOpens
<1>3. r \in SockType /\ r.owner = socks[k].owner /\ r.client = "open" /\ r.server = socks[k].server
  BY <1>1 DEF SockType, ChatEnds
<1> HIDE DEF r
<1>4. /\ socks' \in [SockIds -> SockType] /\ socks'[k] = r /\ \A j \in SockIds : j # k => socks'[j] = socks[j]
      /\ Shared => Shared'
  BY <1>1, <1>2, <1>3, SockMoves
<1>5. CASE socks[k].owner = "tui"
  <2>1. /\ tui' = [tui EXCEPT !.pending = <<>>, !.ever = TRUE] /\ typed' = typed
        /\ wire' = [wire EXCEPT ![k] = wire[k] \o tui.pending]
    BY <1>5 DEF ClientOpens, Flushed
  <2>2. wire' \in [SockIds -> Seq(Nat)] /\ wire'[k] = wire[k] \o tui.pending
        /\ \A j \in SockIds : j # k => wire'[j] = wire[j]
    <3>1. wire[k] \o tui.pending \in Seq(Nat)
      BY <1>1
    <3> QED  BY <1>1, <2>1, <3>1
  <2>3. tui' \in TuiType /\ tui'.pending = <<>> /\ tui'.ever = TRUE /\ tui'.ws = tui.ws /\ tui'.timer = tui.timer
    BY <1>1, <2>1 DEF TuiType
  <2>4. ChatTypes'
    BY <1>1, <1>2, <1>4, <2>1, <2>2, <2>3 DEF ChatTypes
  <2>5. CASE ~Shared /\ TuiInOrder
    <3>1. OneSocket /\ InOrder(inbound, Way, tui.pending, typed)
      BY <2>5 DEF TuiInOrder
    <3>2. k = tui.ws /\ tui.ws # 0 /\ Way = wire[k]
      BY <1>1, <1>2, <2>5, <3>1, OpenIsOwn
    <3>3. ~tui.timer
      BY <1>2, <3>1, <3>2 DEF OneSocket
    <3>4. OneSocket'
      <4>1. \A j \in SockIds : j # k => /\ socks'[j].owner = "none" => socks'[j] = NoSock /\ wire'[j] = <<>>
                                        /\ socks'[j].owner # "none" => socks'[j].client = "closed" /\ socks'[j].server = "closed"
                                        /\ socks'[j].client = "closed" => socks'[j].server # "none"
        BY <1>4, <2>2, <3>1, <3>2 DEF OneSocket
      <4> QED  BY <1>3, <1>4, <1>5, <2>3, <3>2, <3>3, <4>1 DEF OneSocket
    <3>5. Way' = Way \o tui.pending
      BY <2>2, <2>3, <3>2 DEF Way
    <3>6. InOrder(inbound, Way, tui.pending, typed)'
      BY <1>2, <2>1, <2>3, <3>1, <3>5, FlushedInOrder
    <3> QED  BY <2>4, <3>4, <3>6 DEF ChatInv, TuiInOrder
  <2> QED  BY <1>4, <2>4, <2>5 DEF ChatInv
<1>6. CASE socks[k].owner # "tui"
  <2>1. /\ tui' = tui /\ typed' = typed + 1 /\ wire' = [wire EXCEPT ![k] = Append(wire[k], typed + 1)]
    BY <1>6 DEF ClientOpens
  <2>2. Append(wire[k], typed + 1) \in Seq(Nat) /\ typed' \in Nat
    BY <1>1, <2>1
  <2>3. ChatTypes'
    BY <1>1, <1>2, <1>4, <2>1, <2>2 DEF ChatTypes
  <2>4. Shared
    <3>1. ~(~Shared /\ OneSocket)
      BY <1>1, <1>2, <1>6, OpenIsOwn
    <3> QED  BY <3>1 DEF ChatInv, TuiInOrder
  <2> QED  BY <1>4, <2>3, <2>4 DEF ChatInv
<1> QED  BY <1>5, <1>6

(* A message typed goes to the open socket, to the queue, or is dropped at *)
(* the cap.                                                                *)
LEMMA TuiTypesKeeps ==
  ASSUME ChatInv, TuiTypes
  PROVE  ChatInv'
<1>1. /\ ChatTypes /\ wire \in [SockIds -> Seq(Nat)] /\ typed \in Nat /\ tui \in TuiType /\ tui.pending \in Seq(Nat)
      /\ tui.ws # 0 => tui.ws \in SockIds /\ wire[tui.ws] \in Seq(Nat)
  BY ChatBounds DEF ChatInv, ChatTypes, TuiType, SockIds
<1>2. typed' = typed + 1 /\ tui.ever /\ UNCHANGED <<socks, session, inbound>> /\ typed + 1 \in Nat
  BY <1>1 DEF TuiTypes
<1>3. Shared => Shared'
  BY <1>2 DEF Shared
<1> DEFINE k == tui.ws
<1>4. CASE socks[tui.ws].client = "open"
  <2>1. wire' = [wire EXCEPT ![tui.ws] = Append(@, typed + 1)] /\ tui' = [tui EXCEPT !.streaming = TRUE]
    BY <1>4 DEF TuiTypes
  <2>2. tui' \in TuiType /\ tui'.ws = tui.ws /\ tui'.pending = tui.pending /\ tui'.timer = tui.timer
        /\ tui'.ever = tui.ever
    BY <1>1, <2>1 DEF TuiType
  <2>3. wire' \in [SockIds -> Seq(Nat)]
    <3>1. CASE tui.ws = 0
      <4>1. tui.ws \notin SockIds
        BY <3>1, ChatBounds DEF SockIds
      <4>2. wire' = wire
        BY <1>1, <2>1, <4>1
      <4> QED  BY <1>1, <4>2
    <3>2. CASE tui.ws # 0
      <4>1. Append(wire[tui.ws], typed + 1) \in Seq(Nat)
        BY <1>1, <1>2, <3>2
      <4> QED  BY <1>1, <2>1, <3>2, <4>1
    <3> QED  BY <3>1, <3>2
  <2>4. ChatTypes'
    BY <1>1, <1>2, <2>2, <2>3 DEF ChatTypes
  <2>5. CASE TuiInOrder
    <3>1. OneSocket /\ InOrder(inbound, Way, tui.pending, typed) /\ tui.ws # 0
      BY <1>2, <2>5 DEF TuiInOrder, OneSocket
    <3>2. tui.pending = <<>> /\ socks[tui.ws].owner # "none"
      BY <1>4, <3>1 DEF OneSocket
    <3>3. wire'[tui.ws] = Append(wire[tui.ws], typed + 1) /\ \A j \in SockIds : j # tui.ws => wire'[j] = wire[j]
      BY <1>1, <2>1, <3>1
    <3>4. OneSocket'
      BY <1>2, <2>2, <3>1, <3>2, <3>3 DEF OneSocket
    <3>5. Way' = Append(Way, typed + 1)
      BY <2>2, <3>1, <3>3 DEF Way
    <3>6. InOrder(inbound, Way, tui.pending, typed)'
      BY <1>2, <2>2, <3>1, <3>2, <3>5, TypedLast
    <3> QED  BY <2>4, <3>4, <3>6 DEF ChatInv, TuiInOrder
  <2> QED  BY <1>3, <2>4, <2>5 DEF ChatInv
<1>5. CASE socks[tui.ws].client # "open"
  <2> DEFINE q == IF Len(tui.pending) >= MaxPendingMessages THEN tui.pending ELSE Append(tui.pending, typed + 1)
  <2>1. wire' = wire /\ tui' = [tui EXCEPT !.streaming = TRUE, !.pending = q]
    BY <1>1, <1>5 DEF TuiTypes, TuiType
  <2>2. q \in Seq(Nat) /\ (q = tui.pending \/ q = Append(tui.pending, typed + 1))
    BY <1>1, <1>2
  <2> HIDE DEF q
  <2>3. tui' \in TuiType /\ tui'.ws = tui.ws /\ tui'.pending = q /\ tui'.timer = tui.timer /\ tui'.ever = tui.ever
    BY <1>1, <2>1, <2>2 DEF TuiType
  <2>4. ChatTypes'
    BY <1>1, <1>2, <2>1, <2>3 DEF ChatTypes
  <2>5. CASE TuiInOrder
    <3>1. OneSocket /\ InOrder(inbound, Way, tui.pending, typed)
      BY <2>5 DEF TuiInOrder
    <3>2. OneSocket'
      BY <1>2, <1>5, <2>1, <2>3, <3>1 DEF OneSocket
    <3>3. Way' = Way
      BY <2>1, <2>3 DEF Way
    <3>4. InOrder(inbound, Way, tui.pending, typed)'
      BY <1>2, <2>2, <2>3, <3>1, <3>3, TypedLast
    <3> QED  BY <2>4, <3>2, <3>4 DEF ChatInv, TuiInOrder
  <2> QED  BY <1>3, <2>4, <2>5 DEF ChatInv
<1> QED  BY <1>4, <1>5

(* The daemon takes the messages of a socket in their order.               *)
LEMMA ReceivesKeeps ==
  ASSUME ChatInv, NEW k \in SockIds, Receives(k)
  PROVE  ChatInv'
<1>1. /\ ChatTypes /\ wire \in [SockIds -> Seq(Nat)] /\ wire[k] \in Seq(Nat)
  BY DEF ChatInv, ChatTypes
<1>2. /\ socks[k].server = "open" /\ wire[k] # <<>> /\ inbound' = Append(inbound, Head(wire[k]))
      /\ wire' = [wire EXCEPT ![k] = Tail(wire[k])] /\ UNCHANGED <<socks, session, tui, typed>>
  BY DEF Receives
<1>3. Tail(wire[k]) \in Seq(Nat)
  BY <1>1, <1>2
<1>4. /\ wire' \in [SockIds -> Seq(Nat)] /\ wire'[k] = Tail(wire[k])
      /\ \A j \in SockIds : j # k => wire'[j] = wire[j]
  BY <1>1, <1>2, <1>3
<1>5. ChatTypes' /\ (Shared => Shared')
  BY <1>1, <1>2, <1>4 DEF ChatTypes, Shared
<1>6. CASE ~Shared /\ TuiInOrder
  <2>1. OneSocket /\ InOrder(inbound, Way, tui.pending, typed)
    BY <1>6 DEF TuiInOrder
  <2>2. k = tui.ws /\ tui.ws # 0 /\ Way = wire[k] /\ socks[k].owner = "tui"
    BY <1>1, <1>2, <1>6, <2>1, OpenIsOwn
  <2>3. OneSocket'
    BY <1>2, <1>4, <2>1, <2>2 DEF OneSocket
  <2>4. Way' = Tail(Way)
    BY <1>2, <1>4, <2>2 DEF Way
  <2>5. InOrder(inbound, Way, tui.pending, typed)'
    BY <1>2, <2>1, <2>2, <2>4, ReceivedInOrder
  <2> QED  BY <1>5, <2>3, <2>5 DEF ChatInv, TuiInOrder
<1> QED  BY <1>5, <1>6 DEF ChatInv

(* The close event arms the reconnect timer of the terminal.               *)
LEMMA ClientClosesKeeps ==
  ASSUME ChatInv, NEW k \in SockIds, ClientCloses(k)
  PROVE  ChatInv'
<1> DEFINE e == IF socks[k].server = "none" THEN "closed" ELSE socks[k].server
           r == [socks[k] EXCEPT !.client = "closed", !.server = e]
<1>1. ChatTypes /\ socks[k] \in SockType /\ tui \in TuiType
  BY DEF ChatInv, ChatTypes
<1>2. /\ socks[k].client \in {"opening", "open"} /\ tui' = (IF tui.ws = k THEN LinkLost(tui) ELSE tui)
      /\ UNCHANGED <<session, typed, wire, inbound>>
  BY DEF ClientCloses
<1>3. socks' = [socks EXCEPT ![k] = r]
  BY <1>1 DEF ClientCloses, ChatTypes, SockType
<1>4. r \in SockType /\ r.owner = socks[k].owner /\ r.client = "closed" /\ r.server # "none"
  BY <1>1 DEF SockType, ChatEnds
<1> HIDE DEF e, r
<1>5. /\ socks' \in [SockIds -> SockType] /\ socks'[k] = r /\ \A j \in SockIds : j # k => socks'[j] = socks[j]
      /\ Shared => Shared'
  BY <1>1, <1>3, <1>4, SockMoves
<1>6. /\ tui' \in TuiType /\ tui'.ws = tui.ws /\ tui'.pending = tui.pending /\ tui'.ever = tui.ever
  BY <1>1, <1>2 DEF TuiType, LinkLost
<1>7. ChatTypes'
  BY <1>1, <1>2, <1>5, <1>6 DEF ChatTypes
<1>8. CASE ~Shared /\ TuiInOrder
  <2>1. OneSocket /\ InOrder(inbound, Way, tui.pending, typed)
    BY <1>8 DEF TuiInOrder
  <2>2. k = tui.ws /\ tui.ws # 0 /\ socks[k].owner = "tui"
    BY <1>1, <1>2, <1>8, <2>1, OpenIsOwn
  <2>3. OneSocket'
    BY <1>2, <1>4, <1>5, <1>6, <2>1, <2>2 DEF OneSocket
  <2>4. Way' = Way
    BY <1>2, <1>6 DEF Way
  <2>5. InOrder(inbound, Way, tui.pending, typed)'
    BY <1>2, <1>6, <2>1, <2>4
  <2> QED  BY <1>7, <2>3, <2>5 DEF ChatInv, TuiInOrder
<1> QED  BY <1>5, <1>7, <1>8 DEF ChatInv

(* A reply ends the stream, or closes the one-shot's socket.               *)
LEMMA TurnRepliesKeeps ==
  ASSUME ChatInv, NEW m, TurnReplies(m)
  PROVE  ChatInv'
<1>1. /\ ChatTypes /\ tui \in TuiType /\ session \in 0..MaxSockets
      /\ session # 0 => session \in SockIds /\ socks[session] \in SockType
  BY ChatBounds DEF ChatInv, ChatTypes, SockIds
<1>2. /\ UNCHANGED <<typed, wire, inbound>> /\ session' \in {0, session}
      /\ tui' = tui \/ tui' = [tui EXCEPT !.streaming = FALSE]
      /\ socks' = socks \/ (session # 0 /\ socks[session].owner = "once"
                            /\ socks' = [socks EXCEPT ![session].client = "closed"])
  BY DEF TurnReplies, EndsStream
<1>3. /\ tui' \in TuiType /\ tui'.ws = tui.ws /\ tui'.pending = tui.pending /\ tui'.ever = tui.ever
      /\ tui'.timer = tui.timer
  BY <1>1, <1>2 DEF TuiType
<1>4. session' \in 0..MaxSockets
  BY <1>1, <1>2, ChatBounds
<1>5. CASE socks' = socks
  <2>1. ChatTypes' /\ (Shared => Shared')
    BY <1>1, <1>2, <1>3, <1>4, <1>5 DEF ChatTypes, Shared
  <2>2. TuiInOrder => TuiInOrder'
    BY <1>2, <1>3, <1>5 DEF TuiInOrder, OneSocket, Way
  <2> QED  BY <2>1, <2>2 DEF ChatInv
<1>6. CASE session # 0 /\ socks[session].owner = "once" /\ socks' = [socks EXCEPT ![session].client = "closed"]
  <2> DEFINE r == [socks[session] EXCEPT !.client = "closed"]
  <2>1. r \in SockType /\ r.owner = "once" /\ socks' = [socks EXCEPT ![session] = r] /\ session \in SockIds
    BY <1>1, <1>6 DEF SockType, ChatEnds
  <2> HIDE DEF r
  <2>2. socks' \in [SockIds -> SockType] /\ socks'[session] = r
    BY <1>1, <2>1 DEF ChatTypes
  <2>3. ChatTypes' /\ Shared'
    BY <1>1, <1>2, <1>3, <1>4, <2>1, <2>2 DEF ChatTypes, Shared
  <2> QED  BY <2>3 DEF ChatInv
<1> QED  BY <1>2, <1>5, <1>6

(* Either end of every socket moves in its own time; what was typed stays  *)
(* in order.                                                               *)
LEMMA ChatStep ==
  ASSUME EndsSeenInOrder
  PROVE  ChatInv /\ [ChatNext]_chatVars => ChatInv'
<1> SUFFICES ASSUME ChatInv, [ChatNext]_chatVars PROVE ChatInv'
  OBVIOUS
<1>1. ChatTypes /\ \A k \in SockIds : socks[k] \in SockType
  BY DEF ChatInv, ChatTypes
<1>2. CASE OnceConnects
  <2>1. Opens("once") /\ UNCHANGED <<session, tui, typed, wire>>
    BY <1>2 DEF OnceConnects
  <2>2. socks' \in [SockIds -> SockType] /\ \E k \in SockIds : socks'[k].owner = "once"
    BY <1>1, <2>1, OpensUnused
  <2>3. ChatTypes' /\ Shared'
    BY <1>1, <2>1, <2>2 DEF ChatTypes, Shared
  <2> QED  BY <2>3 DEF ChatInv
<1>3. ASSUME NEW k \in SockIds, Accepts(k) PROVE ChatInv'
  <2> DEFINE r == [socks[k] EXCEPT !.server = "open"]
  <2>1. /\ socks[k].client = "opening" /\ socks' = [socks EXCEPT ![k] = r] /\ session' = k
        /\ UNCHANGED <<tui, typed, inbound, wire>>
    BY <1>1, <1>3 DEF Accepts
  <2>2. r \in SockType /\ r.owner = socks[k].owner /\ r.client = socks[k].client /\ r.server # "none"
    BY <1>1 DEF SockType
  <2>3. session' \in 0..MaxSockets
    BY <2>1, ChatBounds DEF SockIds
  <2> HIDE DEF r
  <2> QED  BY <2>1, <2>2, <2>3, SockSteps
<1>4. ASSUME NEW k \in SockIds, ServerEnds(k) PROVE ChatInv'
  <2> DEFINE r == [socks[k] EXCEPT !.server = "ended"]
  <2>1. /\ socks[k].server = "open" /\ socks' = [socks EXCEPT ![k] = r] /\ wire' = [wire EXCEPT ![k] = <<>>]
        /\ UNCHANGED <<session, tui, typed, inbound>>
    BY <1>1, <1>4 DEF ServerEnds
  <2>2. r \in SockType /\ r.owner = socks[k].owner /\ r.client = socks[k].client /\ r.server # "none"
    BY <1>1 DEF SockType
  <2>3. session' \in 0..MaxSockets
    BY <1>1, <2>1 DEF ChatTypes
  <2> HIDE DEF r
  <2> QED  BY <2>1, <2>2, <2>3, SockSteps
<1>5. ASSUME NEW k \in SockIds, ServerCloses(k) PROVE ChatInv'
  <2> DEFINE r == [socks[k] EXCEPT !.server = "closed"]
  <2>1. /\ socks[k].server = "ended" /\ socks' = [socks EXCEPT ![k] = r] /\ session' = 0
        /\ UNCHANGED <<tui, typed, inbound, wire>>
    BY <1>1, <1>5 DEF ServerCloses
  <2>2. r \in SockType /\ r.owner = socks[k].owner /\ r.client = socks[k].client /\ r.server # "none"
    BY <1>1 DEF SockType
  <2>3. session' \in 0..MaxSockets
    BY <2>1, ChatBounds
  <2> HIDE DEF r
  <2> QED  BY <2>1, <2>2, <2>3, SockSteps
<1>6. CASE UNCHANGED chatVars
  BY <1>6 DEF chatVars, ChatInv, ChatTypes, Shared, TuiInOrder, OneSocket, Way
<1> QED  BY <1>2, <1>3, <1>4, <1>5, <1>6, TuiConnectsKeeps, TuiTypesKeeps, ClientOpensKeeps, ReceivesKeeps,
            ClientClosesKeeps, TurnRepliesKeeps DEF ChatNext

(* What was received is the first part of what is in order.                *)
LEMMA InboundSound == ChatInv => InboundInOrder
<1> SUFFICES ASSUME ChatInv, ~Shared PROVE \A i, j \in DOMAIN inbound : i < j => inbound[i] < inbound[j]
  BY DEF InboundInOrder
<1>1. inbound \in Seq(Nat) /\ Rising(inbound)
  BY DEF ChatInv, TuiInOrder, InOrder
<1>2. DOMAIN inbound = 1..Len(inbound)
  BY <1>1
<1> QED  BY <1>1, <1>2 DEF Rising

-----------------------------------------------------------------------------
(* The input editor.                                                       *)

Kinds == {"c", "n", "b", "/", "/cmd", "tail"}
Token == [is : Kinds \cup {"head"}, id : Nat, made : Nat]

(* The heads that may be about, with no pastes made, the last message      *)
(* taken at ow and the pastes pa set aside: those of this message have     *)
(* theirs.                                                                 *)
GoodTok(no, ow, pa) ==
  {t \in Token : t.is = "head" => /\ t.made <= no
                                  /\ t.made > ow => t.id \in 1..Len(pa) /\ pa[t.id] = t.made}

(* An editor whose line, history, ring and undo stack are of tokens of G.  *)
Lines(G) == [buf : Seq(G), pos : Nat, hist : Seq(Seq(G)), idx : Nat, tmp : Seq(G), hint : Nat]
Text(G, e, r, u, s) ==
  /\ e \in Lines(G) /\ e.idx <= Len(e.hist)
  /\ r \in Seq(Seq(G)) /\ u \in Seq(Lines(G)) /\ s \in Nat \X Nat

InputInv ==
  /\ Text(GoodTok(pasteNo, own, pasted), ed, ring, undo, sel)
  /\ pasted \in Seq(Nat) /\ pasteNo \in Nat /\ own \in Nat
  /\ pasting \in [no : Nat, timer : BOOLEAN] /\ pasting.no <= pasteNo
  /\ OwnPastesExpand

(* What is typed is no placeholder.                                        *)
LEMMA PlainGood ==
  ASSUME NEW no, NEW ow, NEW pa
  PROVE  \A k \in Kinds : Plain(k) \in GoodTok(no, ow, pa)
BY DEF Plain, Kinds, Token, GoodTok

(* More tokens that may be about leave what is there as it is.             *)
LEMMA TextGrows ==
  ASSUME NEW G, NEW H, G \subseteq H, NEW e, NEW r, NEW u, NEW s, Text(G, e, r, u, s)
  PROVE  Text(H, e, r, u, s)
<1>1. \A q \in Seq(G) : q \in Seq(H)
  BY SeqMonotonic
<1>2. Seq(G) \subseteq Seq(H)
  BY <1>1
<1>3. \A q \in Seq(Seq(G)) : q \in Seq(Seq(H))
  BY <1>2, SeqMonotonic
<1>4. Lines(G) \subseteq Lines(H)
  BY <1>1, <1>3 DEF Lines
<1>5. \A q \in Seq(Lines(G)) : q \in Seq(Lines(H))
  BY <1>4, SeqMonotonic
<1> QED  BY <1>3, <1>4, <1>5 DEF Text

(* Pieces of a sequence.                                                   *)
LEMMA Pieces ==
  ASSUME NEW G, NEW q \in Seq(G), NEW n \in Nat
  PROVE  Upto(q, n) \in Seq(G) /\ From(q, n) \in Seq(G)
<1>1. Len(q) \in Nat /\ \A i \in 1..Len(q) : q[i] \in G
  OBVIOUS
<1>2. Upto(q, n) \in Seq(G)
  <2> DEFINE m == IF n > Len(q) THEN Len(q) ELSE n
  <2>1. m \in Int /\ 1 \in Int /\ \A i \in 1..m : q[i] \in G
    BY <1>1
  <2> HIDE DEF m
  <2>2. SubSeq(q, 1, m) \in Seq(G)
    BY <2>1, SubSeqProperties
  <2> QED  BY <2>2 DEF Upto, m
<1>3. From(q, n) \in Seq(G)
  <2>1. n + 1 \in Int /\ Len(q) \in Int /\ \A i \in (n + 1)..Len(q) : q[i] \in G
    BY <1>1
  <2>2. SubSeq(q, n + 1, Len(q)) \in Seq(G)
    BY <2>1, SubSeqProperties
  <2> QED  BY <2>2 DEF From
<1> QED  BY <1>2, <1>3

(* A set of numbers up to n that is not empty has a largest one.           *)
LEMMA LargestIn ==
  ASSUME NEW n \in Nat, NEW S, S \subseteq 0..n, S # {}
  PROVE  Largest(S) \in S /\ Largest(S) \in 0..n /\ Largest(S) \in Nat
<1> DEFINE T == {n - x : x \in S}
<1>1. T \subseteq Nat /\ T # {}
  <2>1. \A x \in S : n - x \in Nat
    OBVIOUS
  <2>2. PICK x \in S : TRUE
    OBVIOUS
  <2>3. n - x \in T
    OBVIOUS
  <2> QED  BY <2>1, <2>3
<1>2. PICK d \in T : \A c \in T : d <= c
  BY <1>1, LeastNumber
<1>3. PICK x \in S : d = n - x
  BY <1>2
<1>4. \A y \in S : y <= x
  <2> TAKE y \in S
  <2>1. n - x <= n - y
    BY <1>2, <1>3
  <2> QED  BY <1>3, <2>1
<1>5. \E z \in S : \A y \in S : y <= z
  BY <1>3, <1>4
<1>6. Largest(S) \in S
  BY <1>5 DEF Largest
<1>7. \A z \in S : z \in 0..n /\ z \in Nat
  OBVIOUS
<1> QED  BY <1>6, <1>7

(* Lines and words begin and end at positions.                             *)
LEMMA LineBounds ==
  ASSUME NEW G, NEW q \in Seq(G)
  PROVE  LineStart(q) \in Nat /\ WordStart(q) \in Nat /\ LineRest(q) \in Nat
<1>1. Len(q) \in Nat
  OBVIOUS
<1>2. LineStart(q) \in Nat
  <2> DEFINE S == {0} \cup {i \in 1..Len(q) : q[i].is = "n"}
  <2>1. S \subseteq 0..Len(q) /\ S # {}
    BY <1>1
  <2> HIDE DEF S
  <2>2. Largest(S) \in Nat
    BY <1>1, <2>1, LargestIn
  <2> QED  BY <2>2 DEF S, LineStart
<1>3. WordStart(q) \in Nat
  <2> DEFINE W == {0} \cup {i \in 1..Len(q) : q[i].is # "n"}
             word == Largest(W)
             S == {0} \cup {i \in 1..word : i < word /\ (q[i].is = "n" \/ q[i].is = "head")}
  <2>1. W \subseteq 0..Len(q) /\ W # {}
    BY <1>1
  <2> HIDE DEF W
  <2>2. word \in Nat
    BY <1>1, <2>1, LargestIn
  <2> HIDE DEF word
  <2>3. S \subseteq 0..word /\ S # {}
    BY <2>2
  <2> HIDE DEF S
  <2>4. Largest(S) \in Nat
    BY <2>2, <2>3, LargestIn
  <2> QED  BY <2>4 DEF S, word, W, WordStart
<1>4. LineRest(q) \in Nat
  <2> DEFINE E == {i \in 1..Len(q) : q[i].is = "n"}
  <2>1. CASE E = {}
    BY <1>1, <2>1 DEF LineRest
  <2>2. CASE E # {}
    <3>1. E \subseteq Nat
      BY <1>1
    <3>2. \E n \in E : \A m \in E : n <= m
      BY <2>2, <3>1, LeastNumber
    <3>3. (CHOOSE i \in E : \A j \in E : i <= j) \in E
      BY <3>2
    <3>4. LineRest(q) = (CHOOSE i \in E : \A j \in E : i <= j) - 1
      BY <2>2 DEF LineRest
    <3> QED  BY <1>1, <3>3, <3>4
  <2> QED  BY <2>1, <2>2
<1> QED  BY <1>2, <1>3, <1>4

(* trim() leaves a piece of the line.                                      *)
LEMMA TrimmedIn ==
  ASSUME NEW G, NEW q \in Seq(G)
  PROVE  Trimmed(q) \in Seq(G)
<1>1. Len(q) \in Nat /\ \A i \in 1..Len(q) : q[i] \in G
  OBVIOUS
<1> DEFINE T == {i \in 1..Len(q) : q[i].is # "n"}
           a == CHOOSE i \in T : \A j \in T : i <= j
<1>2. CASE T = {}
  BY <1>2 DEF Trimmed
<1>3. CASE T # {}
  <2>1. T \subseteq 0..Len(q) /\ T \subseteq Nat /\ T \subseteq 1..Len(q)
    BY <1>1
  <2>2. \E n \in T : \A m \in T : n <= m
    BY <1>3, <2>1, LeastNumber
  <2>3. a \in T
    BY <2>2
  <2>4. Largest(T) \in T
    BY <1>1, <1>3, <2>1, LargestIn
  <2>5. Trimmed(q) = SubSeq(q, a, Largest(T))
    BY <1>3 DEF Trimmed
  <2> HIDE DEF T, a
  <2>6. a \in 1..Len(q) /\ Largest(T) \in 1..Len(q)
    BY <2>1, <2>3, <2>4
  <2>7. a \in Int /\ Largest(T) \in Int /\ \A i \in a..Largest(T) : q[i] \in G
    BY <1>1, <2>6
  <2> QED  BY <2>5, <2>7, SubSeqProperties
<1> QED  BY <1>2, <1>3

(* insertText() and the kills, the ring and the undo stack.                *)
LEMMA InsertedIn ==
  ASSUME NEW G, NEW e \in Lines(G), NEW ts \in Seq(G)
  PROVE  Inserted(e, ts) \in Lines(G) /\ Inserted(e, ts).idx = e.idx /\ Inserted(e, ts).hist = e.hist
<1> DEFINE b == Upto(e.buf, e.pos) \o ts \o From(e.buf, e.pos)
<1>1. e.buf \in Seq(G) /\ e.pos \in Nat
  BY DEF Lines
<1>2. Upto(e.buf, e.pos) \in Seq(G) /\ From(e.buf, e.pos) \in Seq(G)
  BY <1>1, Pieces
<1>3. b \in Seq(G) /\ e.pos + Len(ts) \in Nat
  BY <1>1, <1>2
<1> HIDE DEF b
<1>4. [e EXCEPT !.buf = b, !.pos = e.pos + Len(ts), !.hint = 0] \in Lines(G)
      /\ [e EXCEPT !.buf = b, !.pos = e.pos + Len(ts), !.hint = 0].idx = e.idx
      /\ [e EXCEPT !.buf = b, !.pos = e.pos + Len(ts), !.hint = 0].hist = e.hist
  BY <1>3 DEF Lines
<1>5. Inserted(e, ts) = [e EXCEPT !.buf = b, !.pos = e.pos + Len(ts), !.hint = 0]
  BY DEF Inserted, b, Lines
<1> QED  BY <1>4, <1>5

(* The ring and the undo stack take and give lines of the same tokens.     *)
LEMMA StacksIn ==
  ASSUME NEW G, Text(G, ed, ring, undo, sel)
  PROVE  /\ \A ts \in Seq(G), first \in BOOLEAN : RingPush(ts, first) \in Seq(Seq(G))
         /\ UndoPush \in Seq(Lines(G))
         /\ ring # <<>> => Len(ring) \in 1..Len(ring) /\ ring[Len(ring)] \in Seq(G)
         /\ undo # <<>> => undo[Len(undo)] \in Lines(G) /\ Len(undo) - 1 \in Nat
<1>1. ed \in Lines(G) /\ ring \in Seq(Seq(G)) /\ undo \in Seq(Lines(G))
  BY DEF Text
<1>2. ring # <<>> => Len(ring) \in 1..Len(ring) /\ ring[Len(ring)] \in Seq(G)
  BY <1>1
<1>3. undo # <<>> => undo[Len(undo)] \in Lines(G) /\ Len(undo) - 1 \in Nat
  BY <1>1
<1>4. ASSUME NEW ts \in Seq(G), NEW first \in BOOLEAN PROVE RingPush(ts, first) \in Seq(Seq(G))
  <2>1. CASE was = "kill" /\ ring # <<>>
    <3> DEFINE top == IF first THEN ts \o ring[Len(ring)] ELSE ring[Len(ring)] \o ts
    <3>1. top \in Seq(G)
      BY <1>2, <2>1
    <3>2. RingPush(ts, first) = [ring EXCEPT ![Len(ring)] = top]
      BY <1>1, <2>1 DEF RingPush
    <3> HIDE DEF top
    <3> QED  BY <1>1, <1>2, <2>1, <3>1, <3>2, ExceptSeq
  <2>2. CASE ~(was = "kill" /\ ring # <<>>)
    BY <1>1, <2>2 DEF RingPush
  <2> QED  BY <2>1, <2>2
<1>5. UndoPush \in Seq(Lines(G))
  <2>1. From(undo, 1) \in Seq(Lines(G))
    BY <1>1, Pieces
  <2> QED  BY <1>1, <2>1 DEF UndoPush
<1> QED  BY <1>2, <1>3, <1>4, <1>5

(* A kill keeps one part of the line and moves the other to the ring.      *)
LEMMA KillsIn ==
  ASSUME NEW G, Text(G, ed, ring, undo, sel), NEW kept \in Seq(G), NEW killed \in Seq(G), NEW pos \in Nat,
         NEW first \in BOOLEAN, Kills(kept, killed, pos, first)
  PROVE  Text(G, ed', ring', undo', sel')
<1>1. ed \in Lines(G) /\ ring \in Seq(Seq(G)) /\ undo \in Seq(Lines(G)) /\ ed.idx <= Len(ed.hist)
  BY DEF Text
<1>2. ring' \in Seq(Seq(G)) /\ undo' \in Seq(Lines(G)) /\ sel' = sel
  BY <1>1, StacksIn DEF Kills
<1> DEFINE h == IF first THEN 0 ELSE ed.hint
<1>3. ed' = [ed EXCEPT !.buf = kept, !.pos = pos, !.hint = h] /\ h \in Nat
  BY <1>1 DEF Kills, Lines
<1> HIDE DEF h
<1>4. ed' \in Lines(G) /\ ed'.idx = ed.idx /\ ed'.hist = ed.hist
  BY <1>1, <1>3 DEF Lines
<1> QED  BY <1>1, <1>2, <1>4 DEF Text

(* Ctrl+U, Ctrl+K and Ctrl+W cut the line at the cursor.                   *)
LEMMA KillKeysIn ==
  ASSUME NEW G, Text(G, ed, ring, undo, sel), KillLine \/ KillRest \/ KillWord
  PROVE  Text(G, ed', ring', undo', sel')
<1>1. ed.buf \in Seq(G) /\ ed.pos \in Nat
  BY DEF Text, Lines
<1>2. Before \in Seq(G) /\ After \in Seq(G)
  BY <1>1, Pieces DEF Before, After
<1>3. /\ LineStart(Before) \in Nat /\ WordStart(Before) \in Nat /\ LineRest(After) \in Nat
  BY <1>2, LineBounds
<1>4. \A n \in Nat : /\ Upto(Before, n) \o After \in Seq(G) /\ From(Before, n) \in Seq(G)
                     /\ Before \o From(After, n) \in Seq(G) /\ Upto(After, n) \in Seq(G)
  <2> TAKE n \in Nat
  <2>1. /\ Upto(Before, n) \in Seq(G) /\ From(Before, n) \in Seq(G)
        /\ From(After, n) \in Seq(G) /\ Upto(After, n) \in Seq(G)
    BY <1>2, Pieces
  <2> QED  BY <1>2, <2>1
<1>5. CASE KillLine
  <2> DEFINE n == LineStart(Before)
  <2>1. Kills(Upto(Before, n) \o After, From(Before, n), n, TRUE)
    BY <1>5 DEF KillLine
  <2> HIDE DEF n
  <2> QED  BY <1>3, <1>4, <2>1, KillsIn DEF n
<1>6. CASE KillWord
  <2> DEFINE n == WordStart(Before)
  <2>1. Kills(Upto(Before, n) \o After, From(Before, n), n, TRUE)
    BY <1>6 DEF KillWord
  <2> HIDE DEF n
  <2> QED  BY <1>3, <1>4, <2>1, KillsIn DEF n
<1>7. CASE KillRest
  <2> DEFINE n == LineRest(After)
  <2>1. Kills(Before \o From(After, n), Upto(After, n), ed.pos, FALSE)
    BY <1>7 DEF KillRest
  <2> HIDE DEF n
  <2> QED  BY <1>1, <1>3, <1>4, <2>1, KillsIn DEF n
<1> QED  BY <1>5, <1>6, <1>7

(* insertText() adds the tokens at the cursor.                             *)
LEMMA InsertsIn ==
  ASSUME NEW G, Text(G, ed, ring, undo, sel), NEW ts \in Seq(G), Inserts(ts)
  PROVE  Text(G, ed', ring', undo', sel')
<1>1. ed' = Inserted(ed, ts) /\ UNCHANGED <<ring, undo, sel>>
  BY DEF Inserts
<1>2. ed \in Lines(G)
  BY DEF Text
<1>3. Inserted(ed, ts) \in Lines(G) /\ Inserted(ed, ts).idx = ed.idx /\ Inserted(ed, ts).hist = ed.hist
  BY <1>2, InsertedIn
<1> HIDE DEF Inserted
<1> QED  BY <1>1, <1>3 DEF Text

(* Yank, yank-pop and undo bring back what the ring and the stack hold.    *)
LEMMA YanksIn ==
  ASSUME NEW G, Text(G, ed, ring, undo, sel), Yank \/ YankPop \/ Undo
  PROVE  Text(G, ed', ring', undo', sel')
<1>1. /\ ed \in Lines(G) /\ ring \in Seq(Seq(G)) /\ undo \in Seq(Lines(G)) /\ ed.idx <= Len(ed.hist)
      /\ sel \in Nat \X Nat /\ ed.pos \in Nat /\ ed.buf \in Seq(G)
  BY DEF Text, Lines
<1>2. CASE Yank
  <2> DEFINE top == ring[Len(ring)]
  <2>1. ring # <<>> /\ undo' = UndoPush /\ ed' = Inserted(ed, top) /\ sel' = <<ed.pos, ed.pos + Len(top)>> /\ ring' = ring
    BY <1>2 DEF Yank
  <2>2. top \in Seq(G) /\ UndoPush \in Seq(Lines(G))
    BY <2>1, StacksIn
  <2> HIDE DEF top
  <2>3. sel' \in Nat \X Nat
    BY <1>1, <2>1, <2>2
  <2>4. ed' \in Lines(G) /\ ed'.idx = ed.idx /\ ed'.hist = ed.hist
    BY <1>1, <2>1, <2>2, InsertedIn
  <2> QED  BY <1>1, <2>1, <2>2, <2>3, <2>4 DEF Text
<1>3. CASE YankPop
  <2> DEFINE rest == Upto(ring, Len(ring) - 1)
             turned == <<ring[Len(ring)]>> \o rest
             top == turned[Len(turned)]
             b == Upto(ed.buf, sel[1]) \o top \o From(ed.buf, sel[2])
  <2>1. Len(ring) > 1
    BY <1>3 DEF YankPop
  <2>2. Len(ring) - 1 \in Nat /\ ring # <<>>
    BY <1>1, <2>1
  <2>3. rest \in Seq(Seq(G)) /\ ring[Len(ring)] \in Seq(G)
    BY <1>1, <2>2, Pieces, StacksIn
  <2>4. ring' = turned /\ sel' = <<sel[1], sel[1] + Len(top)>> /\ undo' = undo
        /\ ed' = [ed EXCEPT !.buf = b, !.pos = sel[1] + Len(top)]
    BY <1>1, <1>3 DEF YankPop, Lines
  <2> HIDE DEF rest
  <2>5. turned \in Seq(Seq(G)) /\ turned # <<>>
    BY <2>3
  <2> HIDE DEF turned
  <2>6. top \in Seq(G)
    BY <2>5
  <2> HIDE DEF top
  <2>7. sel[1] \in Nat /\ sel[2] \in Nat /\ sel[1] + Len(top) \in Nat
    BY <1>1, <2>6
  <2>8. b \in Seq(G)
    <3>1. Upto(ed.buf, sel[1]) \in Seq(G) /\ From(ed.buf, sel[2]) \in Seq(G)
      BY <1>1, <2>7, Pieces
    <3> QED  BY <2>6, <3>1
  <2> HIDE DEF b
  <2>9. ed' \in Lines(G) /\ ed'.idx = ed.idx /\ ed'.hist = ed.hist
    BY <1>1, <2>4, <2>7, <2>8 DEF Lines
  <2>10. sel' \in Nat \X Nat
    BY <2>4, <2>7
  <2> QED  BY <1>1, <2>4, <2>5, <2>9, <2>10 DEF Text
<1>4. CASE Undo
  <2> DEFINE top == undo[Len(undo)]
  <2>1. /\ undo # <<>> /\ ed' = [ed EXCEPT !.buf = top.buf, !.pos = top.pos, !.hint = top.hint]
        /\ undo' = Upto(undo, Len(undo) - 1) /\ UNCHANGED <<ring, sel>>
    BY <1>4 DEF Undo
  <2>2. top \in Lines(G) /\ Len(undo) - 1 \in Nat
    BY <2>1, StacksIn
  <2> HIDE DEF top
  <2>3. undo' \in Seq(Lines(G))
    BY <1>1, <2>1, <2>2, Pieces
  <2>4. ed' \in Lines(G) /\ ed'.idx = ed.idx /\ ed'.hist = ed.hist
    BY <1>1, <2>1, <2>2 DEF Lines
  <2> QED  BY <1>1, <2>1, <2>3, <2>4 DEF Text
<1> QED  BY <1>2, <1>3, <1>4

(* Cursor keys, deletions, the history, the suggestions, a broken line.    *)
LEMMA EditsIn ==
  ASSUME NEW G, Text(G, ed, ring, undo, sel), NEW e \in Lines(G), e.idx <= Len(e.hist), Edits(e)
  PROVE  Text(G, ed', ring', undo', sel')
BY DEF Edits, Text

(* The cursor keys leave the text alone.                                   *)
LEMMA CursorIn ==
  ASSUME NEW G, Text(G, ed, ring, undo, sel), MovesCursor
  PROVE  Text(G, ed', ring', undo', sel')
<1>1. ed \in Lines(G) /\ ed.buf \in Seq(G) /\ ed.pos \in Nat /\ ed.idx <= Len(ed.hist) /\ Len(ed.buf) \in Nat
  BY DEF Text, Lines
<1>2. Before \in Seq(G) /\ After \in Seq(G)
  BY <1>1, Pieces DEF Before, After
<1>3. LineStart(Before) \in Nat /\ LineRest(After) \in Nat
  BY <1>2, LineBounds
<1>4. ASSUME NEW p \in Nat, CursorTo(p) PROVE Text(G, ed', ring', undo', sel')
  <2> DEFINE e == [ed EXCEPT !.pos = p]
  <2>1. e \in Lines(G) /\ e.idx = ed.idx /\ e.hist = ed.hist
    BY <1>1 DEF Lines
  <2>2. Edits(e)
    BY <1>4 DEF CursorTo
  <2> HIDE DEF e
  <2> QED  BY <1>1, <2>1, <2>2, EditsIn
<1>5. \E p \in Nat : CursorTo(p)
  <2>1. (IF ed.pos > 0 THEN ed.pos - 1 ELSE 0) \in Nat /\ (IF ed.pos < Len(ed.buf) THEN ed.pos + 1 ELSE ed.pos) \in Nat
        /\ ed.pos + LineRest(After) \in Nat /\ 0 \in Nat
    BY <1>1, <1>3
  <2> QED  BY <1>1, <1>3, <2>1 DEF MovesCursor
<1> QED  BY <1>4, <1>5

(* Backspace and delete take tokens away.                                  *)
LEMMA DeletionsIn ==
  ASSUME NEW G, Text(G, ed, ring, undo, sel), Backspace \/ DeleteKey
  PROVE  Text(G, ed', ring', undo', sel')
<1>1. ed \in Lines(G) /\ ed.buf \in Seq(G) /\ ed.pos \in Nat /\ ed.idx <= Len(ed.hist)
  BY DEF Text, Lines
<1>2. \A m, n \in Nat : Upto(ed.buf, m) \o From(ed.buf, n) \in Seq(G)
  <2> TAKE m, n \in Nat
  <2>1. Upto(ed.buf, m) \in Seq(G) /\ From(ed.buf, n) \in Seq(G)
    BY <1>1, Pieces
  <2> QED  BY <2>1
<1>3. CASE Backspace
  <2> DEFINE b == Upto(ed.buf, ed.pos - 1) \o From(ed.buf, ed.pos)
             e == [ed EXCEPT !.buf = b, !.pos = ed.pos - 1, !.hint = 0]
  <2>1. Edits(e) /\ ed.pos > 0
    BY <1>1, <1>3 DEF Backspace, Lines
  <2>2. ed.pos - 1 \in Nat
    BY <1>1, <2>1
  <2>3. b \in Seq(G)
    BY <1>1, <1>2, <2>2
  <2> HIDE DEF b
  <2>4. e \in Lines(G) /\ e.idx = ed.idx /\ e.hist = ed.hist
    BY <1>1, <2>2, <2>3 DEF Lines
  <2> HIDE DEF e
  <2> QED  BY <1>1, <2>1, <2>4, EditsIn
<1>4. CASE DeleteKey
  <2> DEFINE b == Upto(ed.buf, ed.pos) \o From(ed.buf, ed.pos + 1)
             e == [ed EXCEPT !.buf = b]
  <2>1. Edits(e)
    BY <1>1, <1>4 DEF DeleteKey, Lines
  <2>2. ed.pos + 1 \in Nat
    BY <1>1
  <2>3. b \in Seq(G)
    BY <1>1, <1>2, <2>2
  <2> HIDE DEF b
  <2>4. e \in Lines(G) /\ e.idx = ed.idx /\ e.hist = ed.hist
    BY <1>1, <2>3 DEF Lines
  <2> HIDE DEF e
  <2> QED  BY <1>1, <2>1, <2>4, EditsIn
<1> QED  BY <1>3, <1>4

(* Up and down show lines of the history and the line put aside.           *)
LEMMA HistoryIn ==
  ASSUME NEW G, Text(G, ed, ring, undo, sel), UpKey \/ DownKey
  PROVE  Text(G, ed', ring', undo', sel')
<1>1. /\ ed \in Lines(G) /\ ed.buf \in Seq(G) /\ ed.pos \in Nat /\ ed.idx \in Nat /\ ed.idx <= Len(ed.hist)
      /\ ed.hist \in Seq(Seq(G)) /\ ed.tmp \in Seq(G) /\ ed.hint \in Nat /\ Len(ed.hist) \in Nat
  BY DEF Text, Lines
<1>2. ASSUME Edits([ed EXCEPT !.hint = (@ + 1) % 2]) PROVE Text(G, ed', ring', undo', sel')
  <2> DEFINE h == (ed.hint + 1) % 2
             e == [ed EXCEPT !.hint = h]
  <2>1. h \in Nat
    BY <1>1
  <2>2. Edits(e)
    BY <1>1, <1>2 DEF Lines
  <2> HIDE DEF h
  <2>3. e \in Lines(G) /\ e.idx = ed.idx /\ e.hist = ed.hist
    BY <1>1, <2>1 DEF Lines
  <2> HIDE DEF e
  <2> QED  BY <1>1, <2>2, <2>3, EditsIn
<1>3. ASSUME NEW i \in Nat, i <= Len(ed.hist), NEW b \in Seq(G), NEW q \in Seq(G),
             Edits([ed EXCEPT !.tmp = q, !.idx = i, !.buf = b, !.pos = Len(b)])
      PROVE  Text(G, ed', ring', undo', sel')
  <2> DEFINE e == [ed EXCEPT !.tmp = q, !.idx = i, !.buf = b, !.pos = Len(b)]
  <2>1. Len(b) \in Nat
    OBVIOUS
  <2>2. e \in Lines(G) /\ e.idx = i /\ e.hist = ed.hist
    BY <1>1, <1>3, <2>1 DEF Lines
  <2>3. Edits(e)
    BY <1>3
  <2> HIDE DEF e
  <2> QED  BY <1>3, <2>2, <2>3, EditsIn
<1>4. CASE UpKey
  <2>1. CASE Suggested(ed.buf) > 1
    BY <1>2, <1>4, <2>1 DEF UpKey
  <2>2. CASE ~(Suggested(ed.buf) > 1)
    <3> DEFINE q == IF ed.idx = 0 THEN ed.buf ELSE ed.tmp
               b == ed.hist[ed.idx + 1]
    <3>1. ed.idx < Len(ed.hist) /\ Edits([ed EXCEPT !.tmp = q, !.idx = ed.idx + 1, !.buf = b, !.pos = Len(b)])
      BY <1>1, <1>4, <2>2 DEF UpKey, Lines
    <3>2. q \in Seq(G) /\ ed.idx + 1 \in 1..Len(ed.hist)
      BY <1>1, <3>1
    <3>3. b \in Seq(G) /\ ed.idx + 1 \in Nat /\ ed.idx + 1 <= Len(ed.hist)
      BY <1>1, <3>2
    <3> HIDE DEF q, b
    <3> QED  BY <1>3, <3>1, <3>2, <3>3
  <2> QED  BY <2>1, <2>2
<1>5. CASE DownKey
  <2>1. CASE Suggested(ed.buf) > 1
    BY <1>2, <1>5, <2>1 DEF DownKey
  <2>2. CASE ~(Suggested(ed.buf) > 1)
    <3> DEFINE b == IF ed.idx > 1 THEN ed.hist[ed.idx - 1] ELSE ed.tmp
    <3>1. ed.idx > 0 /\ Edits([ed EXCEPT !.idx = @ - 1, !.buf = b, !.pos = Len(b)])
      BY <1>5, <2>2 DEF DownKey
    <3>2. ed.idx > 1 => ed.idx - 1 \in 1..Len(ed.hist)
      BY <1>1
    <3>3. b \in Seq(G) /\ ed.idx - 1 \in Nat /\ ed.idx - 1 <= Len(ed.hist)
      BY <1>1, <3>1, <3>2
    <3> HIDE DEF b
    <3>4. [ed EXCEPT !.idx = @ - 1, !.buf = b, !.pos = Len(b)]
          = [ed EXCEPT !.tmp = ed.tmp, !.idx = ed.idx - 1, !.buf = b, !.pos = Len(b)]
      BY <1>1 DEF Lines
    <3> QED  BY <1>1, <1>3, <3>1, <3>3, <3>4
  <2> QED  BY <2>1, <2>2
<1> QED  BY <1>4, <1>5

(* A suggestion taken and a line broken bring plain tokens.                *)
LEMMA HintsIn ==
  ASSUME NEW G, Text(G, ed, ring, undo, sel), Plain("/cmd") \in G, Plain("n") \in G,
         Completes \/ TakesHint \/ BreaksLine
  PROVE  Text(G, ed', ring', undo', sel')
<1>1. ed \in Lines(G) /\ ed.buf \in Seq(G) /\ ed.idx <= Len(ed.hist)
  BY DEF Text, Lines
<1>2. CASE Completes \/ TakesHint
  <2> DEFINE b == <<Plain("/cmd")>>
             e == [ed EXCEPT !.buf = b, !.pos = 1, !.hint = 0]
  <2>1. b \in Seq(G)
    OBVIOUS
  <2>2. Edits(e)
    BY <1>2 DEF Completes, TakesHint
  <2> HIDE DEF b
  <2>3. e \in Lines(G) /\ e.idx = ed.idx /\ e.hist = ed.hist
    BY <1>1, <2>1 DEF Lines
  <2> HIDE DEF e
  <2> QED  BY <1>1, <2>2, <2>3, EditsIn
<1>3. CASE BreaksLine
  <2> DEFINE b == [ed.buf EXCEPT ![Len(ed.buf)] = Plain("n")]
  <2>1. ed.buf # <<>> /\ ed' = [ed EXCEPT !.buf[Len(ed.buf)] = Plain("n"), !.hint = 0] /\ UNCHANGED <<ring, undo, sel>>
    BY <1>3 DEF BreaksLine
  <2>2. Len(ed.buf) \in 1..Len(ed.buf)
    BY <1>1, <2>1
  <2>3. b \in Seq(G)
    BY <1>1, <2>2, ExceptSeq
  <2>4. ed' = [ed EXCEPT !.buf = b, !.hint = 0]
    BY <1>1, <2>1 DEF Lines
  <2> HIDE DEF b
  <2>5. ed' \in Lines(G) /\ ed'.idx = ed.idx /\ ed'.hist = ed.hist
    BY <1>1, <2>3, <2>4 DEF Lines
  <2> QED  BY <1>1, <2>1, <2>5 DEF Text
<1> QED  BY <1>2, <1>3

(* commitPaste(): the placeholder names the entry made with it.            *)
LEMMA CommitsIn ==
  ASSUME Text(GoodTok(pasteNo, own, pasted), ed, ring, undo, sel), pasted \in Seq(Nat), pasteNo \in Nat, own \in Nat,
         NEW no \in Nat, NEW m \in Nat, no <= m, pasteNo <= m, NEW short \in BOOLEAN, CommitPaste(no, short)
  PROVE  Text(GoodTok(m, own, pasted'), ed', ring', undo', sel') /\ pasted' \in Seq(Nat)
<1> DEFINE G == GoodTok(pasteNo, own, pasted)
           H == GoodTok(m, own, pasted')
<1>1. pasted' = pasted \/ pasted' = Append(pasted, no)
  BY DEF CommitPaste
<1>2. /\ pasted' \in Seq(Nat) /\ Len(pasted) \in Nat /\ Len(pasted') >= Len(pasted)
      /\ \A i \in 1..Len(pasted) : i \in 1..Len(pasted') /\ pasted'[i] = pasted[i]
  <2>1. CASE pasted' = pasted
    BY <2>1
  <2>2. CASE pasted' = Append(pasted, no)
    BY <2>2
  <2> QED  BY <1>1, <2>1, <2>2
<1>3. G \subseteq H
  <2>1. ASSUME NEW t \in G PROVE t \in H
    <3>1. t \in Token /\ t.made \in Nat
      BY DEF GoodTok, Token
    <3>2. CASE t.is # "head"
      BY <3>1, <3>2 DEF GoodTok
    <3>3. CASE t.is = "head"
      <4>1. t.made <= pasteNo /\ (t.made > own => t.id \in 1..Len(pasted) /\ pasted[t.id] = t.made)
        BY <3>3 DEF GoodTok
      <4>2. t.made <= m
        BY <3>1, <4>1
      <4>3. t.made > own => t.id \in 1..Len(pasted') /\ pasted'[t.id] = t.made
        BY <1>2, <4>1
      <4> QED  BY <3>1, <4>2, <4>3 DEF GoodTok
    <3> QED  BY <3>2, <3>3
  <2> QED  BY <2>1
<1>4. Text(H, ed, ring, undo, sel)
  BY <1>3, TextGrows
<1>5. CASE short
  <2>1. Inserts(<<Plain("c")>>)
    BY <1>5 DEF CommitPaste
  <2>2. Plain("c") \in H
    BY PlainGood DEF Kinds
  <2> HIDE DEF H
  <2>3. <<Plain("c")>> \in Seq(H)
    BY <2>2
  <2>4. Text(H, ed', ring', undo', sel')
    BY <1>4, <2>1, <2>3, InsertsIn
  <2> QED  BY <1>2, <2>4 DEF H
<1>6. CASE ~short
  <2> DEFINE id == Len(pasted) + 1
             h == RefHead(id, no)
  <2>1. Inserts(<<h, Plain("tail")>>) /\ pasted' = Append(pasted, no)
    BY <1>6 DEF CommitPaste
  <2>2. id \in 1..Len(pasted') /\ pasted'[id] = no /\ id \in Nat
    BY <1>2, <2>1
  <2> HIDE DEF id
  <2>3. h \in Token /\ h.is = "head" /\ h.made = no /\ h.id = id
    BY <2>2 DEF RefHead, Token
  <2> HIDE DEF h
  <2>4. h \in H
    BY <2>2, <2>3 DEF GoodTok
  <2>5. Plain("tail") \in H
    BY PlainGood DEF Kinds
  <2> HIDE DEF H
  <2>6. <<h, Plain("tail")>> \in Seq(H)
    BY <2>4, <2>5
  <2>7. Text(H, ed', ring', undo', sel')
    BY <1>4, <2>1, <2>6, InsertsIn
  <2> QED  BY <1>2, <2>7 DEF H
<1> QED  BY <1>5, <1>6

(* consume(): what stays about was made for a message that is taken.       *)
LEMMA SubmitIn ==
  ASSUME InputInv, Submit
  PROVE  InputInv'
<1> DEFINE G == GoodTok(pasteNo, own, pasted)
           H == GoodTok(pasteNo, pasteNo, <<>>)
<1>1. /\ Text(G, ed, ring, undo, sel) /\ pasted \in Seq(Nat) /\ pasteNo \in Nat /\ own \in Nat
      /\ pasting \in [no : Nat, timer : BOOLEAN] /\ pasting.no <= pasteNo
  BY DEF InputInv
<1>2. /\ pasted' = <<>> /\ own' = pasteNo /\ UNCHANGED <<ring, undo, sel, pasting, pasteNo>>
      /\ ed' = [buf |-> <<>>, pos |-> 0, idx |-> 0, tmp |-> <<>>, hint |-> 0, hist |-> Filed(Trimmed(ed.buf))]
      /\ sentRefs' = {[own |-> ed.buf[i].made > own, made |-> ed.buf[i].made, became |-> Expand(ed.buf[i].id)]
                        : i \in Matched(ed.buf)}
  BY DEF Submit
<1>3. ed \in Lines(G) /\ ed.buf \in Seq(G) /\ ed.hist \in Seq(Seq(G))
  BY <1>1 DEF Text, Lines
<1>4. ed' \in Lines(G) /\ ed'.idx <= Len(ed'.hist)
  <2> DEFINE f == Filed(Trimmed(ed.buf))
  <2> HIDE DEF G
  <2>1. Trimmed(ed.buf) \in Seq(G)
    BY <1>3, TrimmedIn
  <2>2. f \in Seq(Seq(G))
    BY <1>3, <2>1 DEF Filed
  <2> HIDE DEF f
  <2>3. <<>> \in Seq(G) /\ 0 \in Nat /\ 0 <= Len(f)
    BY <2>2
  <2>4. ed' = [buf |-> <<>>, pos |-> 0, idx |-> 0, tmp |-> <<>>, hint |-> 0, hist |-> f]
    BY <1>2 DEF f
  <2> QED  BY <2>2, <2>3, <2>4 DEF Lines
<1>5. Text(G, ed', ring', undo', sel')
  BY <1>1, <1>2, <1>4 DEF Text
<1>6. G \subseteq H
  <2> SUFFICES ASSUME NEW t \in Token, t.is = "head" => t.made <= pasteNo
               PROVE  t.is = "head" => t.made <= pasteNo /\ ~(t.made > pasteNo)
    BY DEF GoodTok
  <2>1. t.made \in Nat
    BY DEF Token
  <2> QED  BY <1>1, <2>1
<1>7. Text(H, ed', ring', undo', sel')
  BY <1>5, <1>6, TextGrows
<1>8. OwnPastesExpand'
  <2> SUFFICES ASSUME NEW r \in sentRefs', r.own PROVE r.became = r.made
    BY DEF OwnPastesExpand
  <2>1. PICK i \in Matched(ed.buf) : r = [own |-> ed.buf[i].made > own, made |-> ed.buf[i].made,
                                          became |-> Expand(ed.buf[i].id)]
    BY <1>2
  <2> DEFINE t == ed.buf[i]
  <2>2. i \in 1..Len(ed.buf) /\ t.is = "head"
    BY DEF Matched
  <2>3. t \in G
    BY <1>3, <2>2
  <2> HIDE DEF t
  <2>4. t.made > own /\ r.made = t.made /\ r.became = Expand(t.id)
    BY <2>1 DEF t
  <2>5. t.id \in 1..Len(pasted) /\ pasted[t.id] = t.made
    BY <2>2, <2>3, <2>4 DEF GoodTok
  <2>6. DOMAIN pasted = 1..Len(pasted)
    BY <1>1
  <2> QED  BY <2>4, <2>5, <2>6 DEF Expand
<1>9. <<>> \in Seq(Nat)
  OBVIOUS
<1> QED  BY <1>1, <1>2, <1>7, <1>8, <1>9 DEF InputInv

(* The editor begins empty.                                                *)
LEMMA InputStart == InputInit => InputInv
<1> SUFFICES ASSUME InputInit PROVE InputInv
  OBVIOUS
<1>1. /\ pasted = <<>> /\ pasteNo = 0 /\ own = 0 /\ sentRefs = {} /\ pasting = [no |-> 0, timer |-> FALSE]
      /\ ed = [buf |-> <<>>, pos |-> 0, hist |-> <<>>, idx |-> 0, tmp |-> <<>>, hint |-> 0]
      /\ ring = <<>> /\ undo = <<>> /\ sel = <<0, 0>>
  BY DEF InputInit, NotPasting
<1>2. ASSUME NEW G PROVE Text(G, ed, ring, undo, sel)
  <2>1. <<>> \in Seq(G) /\ <<>> \in Seq(Seq(G)) /\ <<>> \in Seq(Lines(G)) /\ Len(<<>>) = 0 /\ 0 \in Nat
    OBVIOUS
  <2>2. ed \in Lines(G) /\ ed.idx = 0 /\ ed.hist = <<>>
    BY <1>1, <2>1 DEF Lines
  <2>3. sel \in Nat \X Nat
    BY <1>1
  <2> QED  BY <1>1, <2>1, <2>2, <2>3 DEF Text
<1>3. OwnPastesExpand
  BY <1>1 DEF OwnPastesExpand
<1>4. pasted \in Seq(Nat) /\ pasteNo \in Nat /\ own \in Nat /\ pasting \in [no : Nat, timer : BOOLEAN]
      /\ pasting.no <= pasteNo
  BY <1>1
<1> QED  BY <1>2, <1>3, <1>4 DEF InputInv

(* Whatever keys and pastes come in whatever order, heads of this message  *)
(* keep their paste.                                                       *)
LEMMA InputStep == InputInv /\ [InputNext]_inputVars => InputInv'
<1> SUFFICES ASSUME InputInv, [InputNext]_inputVars PROVE InputInv'
  OBVIOUS
<1> DEFINE G == GoodTok(pasteNo, own, pasted)
<1>1. /\ Text(G, ed, ring, undo, sel) /\ pasted \in Seq(Nat) /\ pasteNo \in Nat /\ own \in Nat
      /\ pasting \in [no : Nat, timer : BOOLEAN] /\ pasting.no <= pasteNo /\ OwnPastesExpand
      /\ pasting.no \in Nat
  BY DEF InputInv
<1>2. \A k \in Kinds : Plain(k) \in G
  BY PlainGood
<1>3. ASSUME UNCHANGED <<pasted, pasteNo, own, sentRefs>>, Text(G, ed', ring', undo', sel'),
             pasting' \in [no : Nat, timer : BOOLEAN], pasting'.no <= pasteNo
      PROVE  InputInv'
  BY <1>1, <1>3 DEF InputInv, OwnPastesExpand
<1>4. ASSUME PasteKept, Text(G, ed', ring', undo', sel') PROVE InputInv'
  BY <1>1, <1>3, <1>4 DEF PasteKept
<1> HIDE DEF G
<1>5. ASSUME NEW t \in {"c", "n", "b", "/"}, Types(t) PROVE InputInv'
  <2>1. Plain(t) \in G
    BY <1>2 DEF Kinds
  <2>2. <<Plain(t)>> \in Seq(G) /\ Inserts(<<Plain(t)>>) /\ PasteKept
    BY <1>5, <2>1 DEF Types
  <2> QED  BY <1>1, <1>4, <2>2, InsertsIn
<1>6. CASE KillLine \/ KillRest \/ KillWord
  <2>1. PasteKept
    BY <1>6 DEF KillLine, KillRest, KillWord
  <2> QED  BY <1>1, <1>4, <1>6, <2>1, KillKeysIn
<1>7. CASE Yank \/ YankPop \/ Undo
  <2>1. PasteKept
    BY <1>7 DEF Yank, YankPop, Undo
  <2> QED  BY <1>1, <1>4, <1>7, <2>1, YanksIn
<1>8. CASE MovesCursor
  <2>1. PasteKept
    BY <1>8 DEF MovesCursor, CursorTo, Edits
  <2> QED  BY <1>1, <1>4, <1>8, <2>1, CursorIn
<1>9. CASE Backspace \/ DeleteKey
  <2>1. PasteKept
    BY <1>9 DEF Backspace, DeleteKey, Edits
  <2> QED  BY <1>1, <1>4, <1>9, <2>1, DeletionsIn
<1>10. CASE UpKey \/ DownKey
  <2>1. PasteKept
    BY <1>10 DEF UpKey, DownKey, Edits
  <2> QED  BY <1>1, <1>4, <1>10, <2>1, HistoryIn
<1>11. CASE Completes \/ TakesHint \/ BreaksLine
  <2>1. PasteKept
    BY <1>11 DEF Completes, TakesHint, BreaksLine, Edits
  <2>2. Plain("/cmd") \in G /\ Plain("n") \in G
    BY <1>2 DEF Kinds
  <2> QED  BY <1>1, <1>4, <1>11, <2>1, <2>2, HintsIn
<1>12. ASSUME NEW short \in BOOLEAN, Pastes(short) PROVE InputInv'
  <2>1. CommitPaste(pasteNo + 1, short) /\ pasteNo' = pasteNo + 1 /\ UNCHANGED <<pasting, own, sentRefs>>
    BY <1>12 DEF Pastes
  <2>2. pasteNo + 1 \in Nat /\ pasteNo <= pasteNo + 1 /\ pasteNo + 1 <= pasteNo + 1 /\ pasting.no <= pasteNo + 1
    BY <1>1
  <2>3. Text(GoodTok(pasteNo + 1, own, pasted'), ed', ring', undo', sel') /\ pasted' \in Seq(Nat)
    BY <1>1, <2>1, <2>2, CommitsIn DEF G
  <2> QED  BY <1>1, <2>1, <2>2, <2>3 DEF InputInv, OwnPastesExpand
<1>13. ASSUME NEW short \in BOOLEAN, PasteEnds(short) \/ PasteTimesOut(short) PROVE InputInv'
  <2>1. CommitPaste(pasting.no, short) /\ pasting' = [no |-> 0, timer |-> FALSE] /\ UNCHANGED <<pasteNo, own, sentRefs>>
    BY <1>13 DEF PasteEnds, PasteTimesOut, PasteDone, NotPasting
  <2>2. pasteNo <= pasteNo
    BY <1>1
  <2>3. Text(GoodTok(pasteNo, own, pasted'), ed', ring', undo', sel') /\ pasted' \in Seq(Nat)
    BY <1>1, <2>1, <2>2, CommitsIn DEF G
  <2>4. pasting' \in [no : Nat, timer : BOOLEAN] /\ pasting'.no <= pasteNo
    BY <1>1, <2>1
  <2> QED  BY <1>1, <2>1, <2>3, <2>4 DEF InputInv, OwnPastesExpand
<1>14. CASE PasteBegins
  <2>1. /\ pasteNo' = pasteNo + 1 /\ pasting' = [no |-> pasteNo + 1, timer |-> TRUE]
        /\ UNCHANGED <<ed, ring, undo, sel, pasted, own, sentRefs>>
    BY <1>14 DEF PasteBegins, ArmPasteTimeout
  <2>2. GoodTok(pasteNo, own, pasted) \subseteq GoodTok(pasteNo + 1, own, pasted)
    <3> SUFFICES ASSUME NEW t \in Token PROVE t.made <= pasteNo => t.made <= pasteNo + 1
      BY DEF GoodTok
    <3>1. t.made \in Nat
      BY DEF Token
    <3> QED  BY <1>1, <3>1
  <2>3. Text(GoodTok(pasteNo + 1, own, pasted), ed, ring, undo, sel)
    BY <1>1, <2>2, TextGrows DEF G
  <2>4. pasteNo' \in Nat /\ pasting' \in [no : Nat, timer : BOOLEAN] /\ pasting'.no <= pasteNo'
    BY <1>1, <2>1
  <2> QED  BY <1>1, <2>1, <2>3, <2>4 DEF InputInv, OwnPastesExpand
<1>15. CASE PasteGrows
  <2>1. pasting' = [pasting EXCEPT !.timer = TRUE] /\ UNCHANGED <<ed, ring, undo, sel, pasted, pasteNo, own, sentRefs>>
    BY <1>15 DEF PasteGrows
  <2>2. pasting' \in [no : Nat, timer : BOOLEAN] /\ pasting'.no = pasting.no
    BY <1>1, <2>1
  <2> QED  BY <1>1, <1>3, <2>1, <2>2
<1>16. CASE CtrlC \/ QuitWindowCloses
  <2>1. /\ UNCHANGED <<ed, ring, undo, sel, pasted, pasteNo, own, sentRefs>>
        /\ pasting' = pasting \/ pasting' = [no |-> 0, timer |-> FALSE]
    BY <1>16 DEF CtrlC, QuitWindowCloses, NotPasting
  <2>2. pasting' \in [no : Nat, timer : BOOLEAN] /\ pasting'.no <= pasteNo
    <3>1. CASE pasting' = pasting
      BY <1>1, <3>1
    <3>2. CASE pasting' = [no |-> 0, timer |-> FALSE]
      BY <1>1, <3>2
    <3> QED  BY <2>1, <3>1, <3>2
  <2> QED  BY <1>1, <1>3, <2>1, <2>2
<1>17. CASE UNCHANGED inputVars
  <2>1. UNCHANGED <<ed, ring, undo, sel, pasted, pasteNo, own, sentRefs, pasting>>
    BY <1>17 DEF inputVars
  <2> QED  BY <1>1, <1>3, <2>1
<1> QED  BY <1>5, <1>6, <1>7, <1>8, <1>9, <1>10, <1>11, <1>12, <1>13, <1>14, <1>15, <1>16, <1>17, SubmitIn DEF InputNext

(* It contains the property.                                               *)
LEMMA InputSound == InputInv => OwnPastesExpand
BY DEF InputInv

-----------------------------------------------------------------------------
(* The parts together, one of which a behaviour runs.                      *)

ChannelsInv == StopInv /\ LinkInv /\ TgInv /\ DiscordInv /\ InputInv

(* Every part begins within its invariant, whichever part runs.            *)
LEMMA ChannelsStart == ChannelsInit => ChannelsInv /\ RpcInv /\ ChatInv
BY StopStart, LinkStart, TgStart, DiscordStart, RpcStart, ChatStart, InputStart DEF ChannelsInit, ChannelsInv

(* Each step is a step of one part and leaves the others as they are.      *)
LEMMA ChannelsStep == ChannelsInv /\ [ChannelsNext]_allVars => ChannelsInv'
<1> SUFFICES ASSUME ChannelsInv, [ChannelsNext]_allVars PROVE ChannelsInv'
  OBVIOUS
<1>1. [StopNext]_stopVars /\ [LinkNext]_linkVars /\ [TgNext]_tgVars /\ [DiscordNext]_discordVars
      /\ [InputNext]_inputVars
  <2>1. CASE StepLink
    BY <2>1 DEF StepLink
  <2>2. CASE StepTelegram
    BY <2>2 DEF StepTelegram
  <2>3. CASE StepDiscord
    BY <2>3 DEF StepDiscord
  <2>4. CASE StepRpc
    BY <2>4 DEF StepRpc
  <2>5. CASE StepChat
    BY <2>5 DEF StepChat
  <2>6. CASE StepStop
    BY <2>6 DEF StepStop
  <2>7. CASE StepInput
    BY <2>7 DEF StepInput
  <2>8. CASE UNCHANGED allVars
    BY <2>8 DEF allVars
  <2> QED  BY <2>1, <2>2, <2>3, <2>4, <2>5, <2>6, <2>7, <2>8 DEF ChannelsNext
<1> QED  BY <1>1, StopStep, LinkStep, TgStep, DiscordStep, InputStep DEF ChannelsInv

(* The same of the two parts whose invariants have hypotheses.             *)
LEMMA RpcAndChatSteps == [ChannelsNext]_allVars => [RpcNext]_rpcVars /\ [ChatNext]_chatVars
<1> SUFFICES ASSUME [ChannelsNext]_allVars PROVE [RpcNext]_rpcVars /\ [ChatNext]_chatVars
  OBVIOUS
<1>1. CASE StepLink \/ StepTelegram \/ StepDiscord \/ StepStop \/ StepInput
  BY <1>1 DEF StepLink, StepTelegram, StepDiscord, StepStop, StepInput
<1>2. CASE StepRpc
  BY <1>2 DEF StepRpc
<1>3. CASE StepChat
  BY <1>3 DEF StepChat
<1>4. CASE UNCHANGED allVars
  BY <1>4 DEF allVars
<1> QED  BY <1>1, <1>2, <1>3, <1>4 DEF ChannelsNext

(* The invariants that need no hypothesis hold in every behaviour.         *)
LEMMA ChannelsAlways == ChannelsSpec => []ChannelsInv
<1>1. ChannelsInit => ChannelsInv
  BY ChannelsStart
<1>2. ChannelsInv /\ [ChannelsNext]_allVars => ChannelsInv'
  BY ChannelsStep
<1> QED  BY <1>1, <1>2, PTL DEF ChannelsSpec

(* However many signals come and whatever runs, turns, fires, webhooks or  *)
(* chat sockets, each step of the shutdown is begun once and in its order, *)
(* and when the threads are flushed every turn the router knew of has      *)
(* ended or was aborted (main.ts shutdown, message-router.ts stopAll).     *)
THEOREM ShutdownIsSound == ChannelsSpec => []ShutdownSound
<1>1. ChannelsInv => ShutdownSound
  BY StopSound DEF ChannelsInv
<1> QED  BY <1>1, ChannelsAlways, PTL

(* For every bound on links, slots and interactions: an adapter has one    *)
(* live link, but for a socket made after disconnect() let go of it, and   *)
(* stays within the hourly restarts, Telegram's chunks keep the order of   *)
(* their slots, and a deferred Discord reply is edited at most once        *)
(* (channel.ts connect and disconnect, monitor.ts, acquireChatSlot, send   *)
(* of the Discord adapter).                                                *)
THEOREM AdaptersKeepToOne == ChannelsSpec => [](OneLiveLink /\ RestartCap /\ ChunksInOrder /\ EditedOnce)
<1>1. ChannelsInv => OneLiveLink /\ RestartCap /\ ChunksInOrder /\ EditedOnce
  BY LinkSound, TgSound, DiscordSound DEF ChannelsInv
<1> QED  BY <1>1, ChannelsAlways, PTL

(* With that, where no two sends of one millisecond share a name, each     *)
(* request to signal-cli that waits keeps the entry and the timer that     *)
(* settle it, whatever order lines, timers and failed writes come in       *)
(* (signal/channel.ts writeRpcAwait).                                      *)
THEOREM AdaptersAreSound ==
  ASSUME OneRpcPerMs
  PROVE  ChannelsSpec => []AdaptersSound
<1>1. RpcInv => RpcSettles
  BY DEF RpcInv
<1>2. ChannelsInit => RpcInv
  BY ChannelsStart
<1>3. RpcInv /\ [ChannelsNext]_allVars => RpcInv'
  BY RpcAndChatSteps, RpcStep
<1> QED  BY <1>1, <1>2, <1>3, AdaptersKeepToOne, PTL DEF ChannelsSpec, AdaptersSound

(* Wherever kills, yanks, undo and the history carried the placeholder of  *)
(* a paste made for the message that is sent, it expands to that paste     *)
(* (input-handler.ts consume, expandPasteRefs).                            *)
THEOREM PastesExpand == ChannelsSpec => []OwnPastesExpand
<1>1. ChannelsInv => OwnPastesExpand
  BY InputSound DEF ChannelsInv
<1> QED  BY <1>1, ChannelsAlways, PTL

(* With that, however often the socket breaks and the terminal comes back, *)
(* what is typed reaches the gateway once and in the order typed, while no *)
(* one-shot send takes the user's place and the daemon sees the end of a   *)
(* socket before the next one opens (chat-command.ts send and connect,     *)
(* chat-handler.ts session).                                               *)
THEOREM ChatIsSound ==
  ASSUME EndsSeenInOrder
  PROVE  ChannelsSpec => []ChatSound
<1>1. ChatInv => InboundInOrder
  BY InboundSound
<1>2. ChannelsInit => ChatInv
  BY ChannelsStart
<1>3. ChatInv /\ [ChannelsNext]_allVars => ChatInv'
  BY RpcAndChatSteps, ChatStep
<1> QED  BY <1>1, <1>2, <1>3, PastesExpand, PTL DEF ChannelsSpec, ChatSound

====
