------------------------------ MODULE Gateway ------------------------------
(***************************************************************************)
(* The gateway daemon around its workers: inbound messages of base-gateway *)
(* .ts (deduplication, activity, routing), the message router of           *)
(* message-router.ts (one worker per routing key, idle sweep), and the     *)
(* shutdown of gateway.ts and app/src/main.ts.                             *)
(*                                                                         *)
(* A worker is reduced to an inbox and the turn it runs; ChannelWorker.tla *)
(* models it in full.  Steps between two awaits are atomic.                *)
(***************************************************************************)
EXTENDS Naturals, Sequences, FiniteSets, SequencesExt

CONSTANTS
  Inbounds,      \* message ids
  Synthetic,     \* goal-continuation messages, routed without handleInbound
  Keys,          \* routing keys
  Channels,      \* registered channels
  KeyOf,         \* the routing key of a message
  ChannelOf,     \* the channel of a routing key
  maxDeduplicationEntries,
  AckReactions,  \* ackReact performs a network call
  MaxDeliveries, \* bound on deliveries by the platforms, repeats included
  MaxWorkers     \* bound on workers ever created

ASSUME GatewayAssumption ==
  /\ Synthetic \subseteq Inbounds
  /\ KeyOf \in [Inbounds -> Keys] /\ ChannelOf \in [Keys -> Channels]
  /\ maxDeduplicationEntries \in Nat \ {0} /\ AckReactions \in BOOLEAN
  /\ MaxDeliveries \in Nat /\ MaxWorkers \in Nat

None == "none"

VARIABLES
  phase,      \* how far the daemon's stop has come
  signals,    \* SIGINT and SIGTERM received
  connected,  \* channels whose adapter is connected
  dedup,      \* the dedup map, oldest entry first
  forgotten,  \* history: ids evicted, swept or cleared from it
  acking,     \* accepted messages awaiting ackReact, in order of arrival
  worker,     \* the router's map: routing key -> worker, 0 when absent
  wk,         \* every worker created
  stops,      \* the workers stopAll waits for
  deliveries, \* bound: deliveries so far
  arrived,    \* history: messages accepted, in order
  dispatched, \* history: messages handed to a worker, in order
  handled     \* history: messages whose turn ended

ingressVars == <<dedup, forgotten, acking, deliveries, arrived>>
routerVars  == <<worker, wk, dispatched>>
stopVars    == <<phase, signals, connected, stops>>
gatewayVars == <<ingressVars, routerVars, stopVars, handled>>

Phases == {"running", "notice", "closing", "engine", "draining", "stopped"}
RouterUp == phase # "stopped"

GatewayInit ==
  /\ phase = "running" /\ signals = 0 /\ connected = Channels
  /\ dedup = << >> /\ forgotten = {} /\ acking = << >>
  /\ worker = [k \in Keys |-> 0] /\ wk = << >> /\ stops = {}
  /\ deliveries = 0 /\ arrived = << >> /\ dispatched = << >> /\ handled = {}

-----------------------------------------------------------------------------
(* Inbound messages.                                                       *)

(* Mutant of RecordId: the id is checked but not recorded.                 *)
CheckOnly(m) == UNCHANGED <<dedup, forgotten>>

(* Mutant of RecordId: nothing makes room.                                 *)
RecordUnbounded(m) == dedup' = Append(dedup, m) /\ UNCHANGED forgotten

(* isDuplicate, for an id it does not know: at capacity the oldest entry   *)
(* makes room.                                                             *)
RecordId(m) ==
  IF Len(dedup) >= maxDeduplicationEntries
  THEN /\ dedup' = Append(Tail(dedup), m)
       /\ forgotten' = forgotten \cup {Head(dedup)}
  ELSE dedup' = Append(dedup, m) /\ UNCHANGED forgotten

(* A platform delivers a message, perhaps again.                           *)
HandleInbound(m) ==
  /\ m \notin Synthetic /\ deliveries < MaxDeliveries
  /\ ChannelOf[KeyOf[m]] \in connected /\ phase # "stopped"
  /\ deliveries' = deliveries + 1
  /\ IF m \in Range(dedup)
     THEN UNCHANGED <<dedup, forgotten, acking, arrived>>
     ELSE /\ RecordId(m)
          /\ acking' = Append(acking, m)
          /\ arrived' = Append(arrived, m)
  /\ UNCHANGED <<routerVars, stopVars, handled>>

(* The minutely sweep drops the entries older than the TTL, which are the  *)
(* first ones.                                                             *)
SweepDedup ==
  /\ phase \in {"running", "notice"}
  /\ \E n \in 1..Len(dedup) :
       /\ dedup' = SubSeq(dedup, n + 1, Len(dedup))
       /\ forgotten' = forgotten \cup Range(SubSeq(dedup, 1, n))
  /\ UNCHANGED <<acking, deliveries, arrived, routerVars, stopVars, handled>>

(* Mutant of RouteToWorker: the existing worker is not looked up.               *)
DispatchCreates(m) ==
  /\ dispatched' = Append(dispatched, m)
  /\ Len(wk) < MaxWorkers
  /\ wk' = Append(wk, [key |-> KeyOf[m], inbox |-> <<m>>, turn |-> None, state |-> "live"])
  /\ worker' = [worker EXCEPT ![KeyOf[m]] = Len(wk) + 1]

(* router.route: the key's worker, created and started when absent, gets   *)
(* the message whatever its state.                                         *)
RouteToWorker(m) ==
  LET k == KeyOf[m]
  IN /\ dispatched' = Append(dispatched, m)
     /\ IF worker[k] = 0
        THEN /\ Len(wk) < MaxWorkers
             /\ wk' = Append(wk, [key |-> k, inbox |-> <<m>>, turn |-> None, state |-> "live"])
             /\ worker' = [worker EXCEPT ![k] = Len(wk) + 1]
        ELSE /\ wk' = [wk EXCEPT ![worker[k]].inbox = Append(@, m)]
             /\ UNCHANGED worker

(* Mutant of AckLands: a message whose reaction settles after a later      *)
(* one's is not routed.                                                    *)
AckLandsInOrderOnly ==
  /\ \E i \in 1..Len(acking) :
       /\ acking' = RemoveAt(acking, i)
       /\ IF RouterUp /\ i = Len(acking) THEN RouteToWorker(acking[i]) ELSE UNCHANGED routerVars
  /\ UNCHANGED <<dedup, forgotten, deliveries, arrived, stopVars, handled>>

(* ackReact settles and route goes on.  Without a reaction to send it      *)
(* settles at once, so in order.                                           *)
AckLands ==
  /\ \E i \in 1..Len(acking) :
       /\ ~AckReactions => i = 1
       /\ acking' = RemoveAt(acking, i)
       /\ IF RouterUp THEN RouteToWorker(acking[i]) ELSE UNCHANGED routerVars
  /\ UNCHANGED <<dedup, forgotten, deliveries, arrived, stopVars, handled>>

(* The goal loop routes its next prompt directly.                          *)
GoalContinues(m) ==
  /\ m \in Synthetic /\ m \notin Range(dispatched) /\ RouterUp
  /\ RouteToWorker(m)
  /\ UNCHANGED <<ingressVars, stopVars, handled>>

-----------------------------------------------------------------------------
(* Workers.                                                                *)

TurnStarts(w) ==
  /\ phase # "stopped"
  /\ wk[w].state = "live" /\ wk[w].turn = None /\ wk[w].inbox # << >>
  /\ wk' = [wk EXCEPT ![w].turn = Head(wk[w].inbox), ![w].inbox = Tail(@)]
  /\ UNCHANGED <<ingressVars, worker, dispatched, stopVars, handled>>

WorkerTurnEnds(w) ==
  /\ phase # "stopped"
  /\ wk[w].turn # None
  /\ handled' = handled \cup {wk[w].turn}
  /\ wk' = [wk EXCEPT ![w].turn = None]
  /\ UNCHANGED <<ingressVars, worker, dispatched, stopVars>>

(* Mutant of WorkerStops: stop() waits for the whole inbox.                *)
WorkerStopsWhenIdle(w) ==
  /\ wk[w].state = "stopping" /\ wk[w].turn = None /\ wk[w].inbox = << >>
  /\ wk' = [wk EXCEPT ![w].state = "stopped"]
  /\ UNCHANGED <<ingressVars, worker, dispatched, stopVars, handled>>

(* stop() returns once the turn in flight is over; what is queued is not   *)
(* handled.                                                                *)
WorkerStops(w) ==
  /\ wk[w].state = "stopping" /\ wk[w].turn = None
  /\ wk' = [wk EXCEPT ![w].state = "stopped"]
  /\ UNCHANGED <<ingressVars, worker, dispatched, stopVars, handled>>

WorkerIsIdle(w) == wk[w].turn = None /\ wk[w].inbox = << >>

(* Mutant of SweepIdleWorkers: the evicted worker stays in the map.        *)
SweepKeepsEntry ==
  /\ phase # "stopped"
  /\ \E k \in Keys :
       /\ worker[k] # 0 /\ WorkerIsIdle(worker[k]) /\ wk[worker[k]].state = "live"
       /\ wk' = [wk EXCEPT ![worker[k]].state = "stopping"]
  /\ UNCHANGED <<ingressVars, worker, dispatched, stopVars, handled>>

(* The hourly sweep evicts idle workers and does not wait for their stop.  *)
SweepIdleWorkers ==
  /\ phase \notin {"draining", "stopped"}
  /\ \E k \in Keys :
       /\ worker[k] # 0 /\ WorkerIsIdle(worker[k])
       /\ wk' = [wk EXCEPT ![worker[k]].state = "stopping"]
       /\ worker' = [worker EXCEPT ![k] = 0]
  /\ UNCHANGED <<ingressVars, dispatched, stopVars, handled>>

-----------------------------------------------------------------------------
(* Shutdown.                                                               *)

(* The first signal starts the stop, later ones return at once.            *)
Shutdown ==
  /\ signals < 2 /\ phase # "stopped"
  /\ signals' = signals + 1
  /\ phase' = IF signals = 0 THEN "notice" ELSE phase
  /\ UNCHANGED <<ingressVars, routerVars, connected, stops, handled>>

(* The shutdown notice was sent or its three seconds are over; the dedup   *)
(* sweep ends and its map is cleared.                                      *)
OnBeforeStop ==
  /\ phase = "notice"
  /\ phase' = "closing"
  /\ dedup' = << >> /\ forgotten' = forgotten \cup Range(dedup)
  /\ UNCHANGED <<acking, deliveries, arrived, routerVars, signals, connected, stops, handled>>

(* The adapters are disconnected one after the other.                      *)
DisconnectChannel(c) ==
  /\ phase = "closing" /\ c \in connected
  /\ connected' = connected \ {c}
  /\ phase' = IF connected' = {} THEN "engine" ELSE phase
  /\ UNCHANGED <<ingressVars, routerVars, signals, stops, handled>>

(* The proactive engine has stopped; stopAll stops the workers of the map. *)
StopAll ==
  /\ phase = "engine"
  /\ phase' = "draining"
  /\ stops' = Range(worker) \ {0}
  /\ wk' = [w \in DOMAIN wk |-> IF w \in stops' THEN [wk[w] EXCEPT !.state = "stopping"] ELSE wk[w]]
  /\ UNCHANGED <<ingressVars, worker, dispatched, signals, connected, handled>>

(* Every stop it waited for has settled: the map is cleared, the router    *)
(* dropped and the process exits.                                          *)
Exit ==
  /\ phase = "draining" /\ \A w \in stops : wk[w].state = "stopped"
  /\ phase' = "stopped"
  /\ worker' = [k \in Keys |-> 0]
  /\ UNCHANGED <<ingressVars, wk, dispatched, signals, connected, stops, handled>>

-----------------------------------------------------------------------------
GatewayNext ==
  \/ \E m \in Inbounds : HandleInbound(m) \/ GoalContinues(m)
  \/ SweepDedup \/ AckLands \/ SweepIdleWorkers
  \/ \E w \in DOMAIN wk : TurnStarts(w) \/ WorkerTurnEnds(w) \/ WorkerStops(w)
  \/ Shutdown \/ OnBeforeStop \/ StopAll \/ Exit
  \/ \E c \in Channels : DisconnectChannel(c)

(* Network calls settle, and a worker's loop and turns make progress.      *)
GatewayFairness ==
  /\ WF_gatewayVars(AckLands) /\ WF_gatewayVars(OnBeforeStop) /\ WF_gatewayVars(StopAll) /\ WF_gatewayVars(Exit)
  /\ \A c \in Channels : WF_gatewayVars(DisconnectChannel(c))
  /\ \A w \in 1..MaxWorkers :
       /\ WF_gatewayVars(w \in DOMAIN wk /\ TurnStarts(w))
       /\ WF_gatewayVars(w \in DOMAIN wk /\ WorkerTurnEnds(w))
       /\ WF_gatewayVars(w \in DOMAIN wk /\ WorkerStops(w))

GatewaySpec == GatewayInit /\ [][GatewayNext]_gatewayVars
GatewayFairSpec == GatewaySpec /\ GatewayFairness

-----------------------------------------------------------------------------
(* Properties.                                                             *)

Worker == [key : Keys, inbox : Seq(Inbounds), turn : Inbounds \cup {None},
           state : {"live", "stopping", "stopped"}]

(* Every variable has its type, and the dedup map keeps to its size.       *)
GatewayTypeOK ==
  /\ phase \in Phases /\ signals \in 0..2 /\ connected \subseteq Channels
  /\ dedup \in Seq(Inbounds) /\ Len(dedup) <= maxDeduplicationEntries
  /\ forgotten \subseteq Inbounds /\ acking \in Seq(Inbounds)
  /\ wk \in Seq(Worker)
  /\ worker \in [Keys -> 0..Len(wk)] /\ stops \subseteq DOMAIN wk
  /\ deliveries \in 0..MaxDeliveries
  /\ arrived \in Seq(Inbounds) /\ dispatched \in Seq(Inbounds)
  /\ handled \subseteq Inbounds

(* A message delivered twice by its platform reaches a worker once, unless *)
(* the dedup map has let go of its id in between.                          *)
DispatchOnce ==
  \A i, j \in DOMAIN dispatched :
    dispatched[i] = dispatched[j] /\ i # j => dispatched[i] \in forgotten

(* One thread never has work in two workers: an evicted worker, whose stop *)
(* nobody waits for, holds no message that its successor would race.       *)
ThreadSingleWriter ==
  \A v, w \in DOMAIN wk : wk[v].key = wk[w].key /\ v # w => WorkerIsIdle(v) \/ WorkerIsIdle(w)

(* While the daemon runs no message waits in a worker that is stopping.    *)
NoMessageOnDeadWorker ==
  phase = "running" => \A w \in DOMAIN wk : wk[w].state # "live" => WorkerIsIdle(w)

(* An accepted message is handled unless the daemon is told to stop.       *)
AcceptedHandled ==
  \A m \in Inbounds \ Synthetic :
    (m \in Range(arrived)) ~> (m \in handled \/ phase # "running")

(* A signal ends the daemon, whatever is in flight.                        *)
StopTerminates == (signals > 0) ~> (phase = "stopped")
=============================================================================
