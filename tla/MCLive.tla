------------------------------- MODULE MCLive -------------------------------
(***************************************************************************)
(* The path of a message for TLC, with its promises under fairness: one    *)
(* worker, the delivery of one turn's reply, the reasoning shown beside    *)
(* it, and the daemon around its workers.  The parts share no state, so a  *)
(* behaviour runs one of them, picked by `part` at the start, and leaves   *)
(* the others as they are.                                                 *)
(***************************************************************************)
EXTENDS ChannelWorker, TurnDelivery, Gateway

VARIABLE part

\* Two conversations on two channels, the first with two messages and a goal
\* continuation.
MCInbounds  == {"m1", "m2", "n1", "g1"}
MCSynthetic == {"g1"}
MCKeyOf     == [m \in MCInbounds |-> IF m = "n1" THEN "k2" ELSE "k1"]
MCChannelOf == [k \in {"k1", "k2"} |-> IF k = "k1" THEN "telegram" ELSE "discord"]

allVars == <<part, vars, deliveryVars, laneVars, gatewayVars>>

LiveInit ==
  /\ part \in {"worker", "delivery", "lane", "gateway"}
  /\ Init /\ DeliveryInit /\ LaneInit /\ GatewayInit
  /\ part # "worker" => contact = "none"
  /\ part # "delivery" => canDelete
  /\ part # "lane" => laneDeletes

StepWorker   == part = "worker" /\ Next /\ UNCHANGED <<part, deliveryVars, laneVars, gatewayVars>>
StepDelivery == part = "delivery" /\ DeliveryNext /\ UNCHANGED <<part, vars, laneVars, gatewayVars>>
StepLane     == part = "lane" /\ LaneNext /\ UNCHANGED <<part, vars, deliveryVars, gatewayVars>>
StepGateway  == part = "gateway" /\ GatewayNext /\ UNCHANGED <<part, vars, deliveryVars, laneVars>>

LiveNext == StepWorker \/ StepDelivery \/ StepLane \/ StepGateway

(* Fairness of ChannelWorker and DeliveryFairness of TurnDelivery, each for *)
(* the behaviours that run that part; GatewayFairness asks nothing of a    *)
(* gateway at rest and is taken as it is.                                  *)
OnWorker   == part = "worker"
OnDelivery == part = "delivery"

PartFairness ==
  /\ WF_vars(OnWorker /\ Loop)
  /\ WF_vars(OnWorker /\ WaitTimesOut) /\ WF_vars(OnWorker /\ CoalesceFires)
  /\ WF_vars(OnWorker /\ RefreshEnds) /\ WF_vars(OnWorker /\ DecisionEnds)
  /\ WF_vars(OnWorker /\ BackoffEnds) /\ WF_vars(OnWorker /\ EndTurn)
  /\ WF_vars(OnWorker /\ StopClears) /\ WF_vars(OnWorker /\ StopReturns)
  /\ WF_deliveryVars(OnDelivery /\ PreviewLands) /\ WF_deliveryVars(OnDelivery /\ FlushLands)
  /\ WF_deliveryVars(OnDelivery /\ RetryStarts) /\ WF_deliveryVars(OnDelivery /\ RetryLands)
  /\ WF_deliveryVars(OnDelivery /\ AgentFails("timeout"))
  /\ WF_deliveryVars(OnDelivery /\ Delivering)

LiveSpec == LiveInit /\ [][LiveNext]_allVars /\ PartFairness /\ GatewayFairness

-----------------------------------------------------------------------------
(* Nothing a running worker holds waits for ever: a buffered message, one  *)
(* that arrived mid-turn, and the result of a background task each reach a *)
(* turn, or the worker is stopped (channel-worker.ts loop, drainPending).  *)
WorkerProgress == QueueDrains /\ PendingDrains /\ ResultWakesAgent

(* A turn that runs comes to its end, whatever the agent, the platform and *)
(* the preview edits do, and after the agent returned only an edit already *)
(* in flight can land on the reply (channel-worker.ts runAgentTurn).       *)
TurnCompletes == (part = "delivery" => TurnEnds) /\ NoEditStartsLate

(* The reply of a turn: the user gets it once or hears that it failed;     *)
(* once the flood breaker is open no preview edit is in flight; and the    *)
(* thinking shown beside it is one message, gone when the reply stands     *)
(* (channel-worker.ts runAgentTurn, flushPreviewEdit, flushReasoning).     *)
TurnSound ==
  /\ DeliveryTypeOK /\ ReplyOnce /\ UserHearsBack /\ BreakerHolds
  /\ OneReasoningMessage /\ ReasoningCleared

(* A message of a conversation is dispatched once however often it comes,  *)
(* at most one worker writes to its thread, and none is left in a worker   *)
(* that was evicted (base-gateway.ts, message-router.ts).                  *)
RoutingSound ==
  GatewayTypeOK /\ DispatchOnce /\ ThreadSingleWriter /\ NoMessageOnDeadWorker

(* An accepted message is handled unless the daemon is told to stop, and   *)
(* a daemon that is told to stop does (gateway.ts route and stop).         *)
DaemonProgress == AcceptedHandled /\ StopTerminates
=============================================================================
