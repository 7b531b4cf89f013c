--------------------------- MODULE WebhookIngress ---------------------------
(***************************************************************************)
(* External webhooks: the HTTP receiver of base-webhook.ts, its duplicate  *)
(* cache and route table, and the endpoint of webhook-router.ts with its   *)
(* own delivery cache, up to the event injected into a channel worker.     *)
(*                                                                         *)
(* After its body is read a request is handled in one synchronous stretch. *)
(* Providers retry, and operators redeliver, any delivery.                 *)
(***************************************************************************)
EXTENDS Naturals, Sequences, Functions

CONSTANTS
  Deliveries,       \* delivery ids of one endpoint
  Filtered,         \* those whose action is filtered out
  Malformed,        \* those whose body is not JSON
  MAX_DEDUP_ENTRIES,
  MaxAttempts       \* bound on attempts

ASSUME WebhookAssumption ==
  /\ Filtered \subseteq Deliveries /\ Malformed \subseteq Deliveries \ Filtered
  /\ MAX_DEDUP_ENTRIES \in Nat \ {0} /\ MaxAttempts \in Nat

VARIABLES
  conf,              \* fixed: fresh, a proxy stamps a new x-request-id on every attempt;
                     \* target, the endpoint names a routing key; silent, its mode
  route,             \* the endpoint's path is registered
  processed,         \* the server's duplicate cache, oldest first
  recentDeliveries,  \* the router's delivery cache
  worker,            \* a worker of the target exists
  attempts,          \* bound: requests so far
  answer,            \* last answer to each delivery
  injected,          \* history: events injected for each delivery
  forgotServer,      \* history: deliveries whose id left the server's cache
  forgotRouter       \* history: deliveries that left the router's cache

histVars == <<injected, forgotServer, forgotRouter>>
vars == <<conf, route, processed, recentDeliveries, worker, attempts, answer, histVars>>

Answers == {"none", "duplicate", "unknown", "suppressed", "malformed", "filtered",
            "noTarget", "queuedSilent", "ok"}

(* The request id is x-request-id before x-github-delivery; the delivery   *)
(* id is the other way round.                                              *)
RequestId(d) == IF conf.fresh THEN <<d, attempts>> ELSE <<d, 0>>

RequestIds == Deliveries \X (0..MaxAttempts)

Conf == [fresh : BOOLEAN, target : BOOLEAN, silent : BOOLEAN]

Init ==
  /\ conf \in Conf
  /\ route = FALSE /\ processed = << >> /\ recentDeliveries = {} /\ worker = FALSE
  /\ attempts = 0 /\ answer = [d \in Deliveries |-> "none"]
  /\ injected = [d \in Deliveries |-> 0] /\ forgotServer = {} /\ forgotRouter = {}

-----------------------------------------------------------------------------
(* Mutant of MarkProcessed: nothing makes room.                            *)
MarkUnbounded(d) == processed' = Append(processed, RequestId(d)) /\ UNCHANGED forgotServer

(* markProcessed: the entry is added, then the oldest makes room.          *)
MarkProcessed(d) ==
  LET full == Append(processed, RequestId(d))
  IN IF Len(full) > MAX_DEDUP_ENTRIES
     THEN processed' = Tail(full) /\ forgotServer' = forgotServer \cup {Head(full)[1]}
     ELSE processed' = full /\ UNCHANGED forgotServer

Respond(d, a) == answer' = [answer EXCEPT ![d] = a]

(* The endpoint's handler: duplicate check, parse, filter, find or create  *)
(* the worker, inject.                                                     *)
Endpoint(d) ==
  IF d \in recentDeliveries
  THEN Respond(d, "suppressed") /\ UNCHANGED <<recentDeliveries, worker, injected>>
  ELSE /\ recentDeliveries' = recentDeliveries \cup {d}
       /\ \/ d \in Malformed /\ Respond(d, "malformed") /\ UNCHANGED <<worker, injected>>
          \/ d \in Filtered /\ Respond(d, "filtered") /\ UNCHANGED <<worker, injected>>
          \/ /\ d \notin Malformed \cup Filtered
             /\ worker' = (worker \/ conf.target)
             /\ IF worker'
                THEN /\ injected' = [injected EXCEPT ![d] = @ + 1]
                     /\ Respond(d, IF conf.silent THEN "queuedSilent" ELSE "ok")
                ELSE Respond(d, "noTarget") /\ UNCHANGED injected

(* Mutant of HandleRequest: no duplicate check in front of the routes.     *)
HandleUnchecked(d) ==
  /\ attempts < MaxAttempts
  /\ attempts' = attempts + 1
  /\ UNCHANGED <<conf, processed, forgotServer>>
  /\ IF route
     THEN Endpoint(d)
     ELSE Respond(d, "unknown") /\ UNCHANGED <<recentDeliveries, worker, injected>>
  /\ UNCHANGED <<conf, route, forgotRouter>>

(* A request that passed the address, rate and signature checks.  Its id   *)
(* is recorded before the route is looked up.                              *)
HandleRequest(d) ==
  /\ attempts < MaxAttempts
  /\ attempts' = attempts + 1
  /\ IF RequestId(d) \in Range(processed)
     THEN /\ Respond(d, "duplicate")
          /\ UNCHANGED <<processed, forgotServer, recentDeliveries, worker, injected>>
     ELSE /\ MarkProcessed(d)
          /\ IF route
             THEN Endpoint(d)
             ELSE Respond(d, "unknown") /\ UNCHANGED <<recentDeliveries, worker, injected>>
  /\ UNCHANGED <<conf, route, forgotRouter>>

(* An entry of the server's cache expires after an hour, the oldest first. *)
ExpireProcessed ==
  /\ processed # << >>
  /\ processed' = Tail(processed)
  /\ forgotServer' = forgotServer \cup {Head(processed)[1]}
  /\ UNCHANGED <<conf, route, recentDeliveries, worker, attempts, answer, injected, forgotRouter>>

(* One of the router's cache after five minutes.                           *)
ExpireDelivery(d) ==
  /\ d \in recentDeliveries
  /\ recentDeliveries' = recentDeliveries \ {d}
  /\ forgotRouter' = forgotRouter \cup {d}
  /\ UNCHANGED <<conf, route, processed, worker, attempts, answer, injected, forgotServer>>

AddRuntimeRoute ==
  /\ ~route /\ route' = TRUE
  /\ UNCHANGED <<conf, processed, recentDeliveries, worker, attempts, answer, histVars>>

RemoveRuntimeRoute ==
  /\ route /\ route' = FALSE
  /\ UNCHANGED <<conf, processed, recentDeliveries, worker, attempts, answer, histVars>>

(* A user writes to the target channel, or its idle worker is evicted.     *)
WorkerComesAndGoes ==
  /\ worker' = ~worker
  /\ UNCHANGED <<conf, route, processed, recentDeliveries, attempts, answer, histVars>>

Next ==
  \/ \E d \in Deliveries : HandleRequest(d) \/ ExpireDelivery(d)
  \/ ExpireProcessed \/ AddRuntimeRoute \/ RemoveRuntimeRoute \/ WorkerComesAndGoes

Spec == Init /\ [][Next]_vars

-----------------------------------------------------------------------------
(* Every variable has its type; the server's cache keeps to its size.      *)
TypeOK ==
  /\ conf \in Conf
  /\ route \in BOOLEAN /\ worker \in BOOLEAN
  /\ processed \in Seq(RequestIds)
  /\ Len(processed) <= MAX_DEDUP_ENTRIES
  /\ recentDeliveries \subseteq Deliveries /\ attempts \in 0..MaxAttempts
  /\ answer \in [Deliveries -> Answers] /\ injected \in [Deliveries -> Nat]
  /\ forgotServer \subseteq Deliveries /\ forgotRouter \subseteq Deliveries

(* The caches remember: an event that woke the agent is still in the       *)
(* router's cache or was let go by it, and its request id (when attempts   *)
(* share one) is still in the server's cache or was let go by that.        *)
CachesRemember ==
  \A d \in Deliveries : injected[d] > 0 =>
    /\ d \in recentDeliveries \cup forgotRouter
    /\ conf.fresh \/ <<d, 0>> \in Range(processed) \/ d \in forgotServer

(* One event wakes the agent once, however often it is delivered: a second *)
(* injection needs the router's cache to have let go of the delivery and,  *)
(* when attempts share a request id, the server's cache too.               *)
InjectedOnce ==
  \A d \in Deliveries : injected[d] > 1 =>
    d \in forgotRouter /\ (conf.fresh \/ d \in forgotServer)
=============================================================================
