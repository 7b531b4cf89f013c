---------------------------- MODULE RateLimiter ----------------------------
(***************************************************************************)
(* RateLimiter of src/src/gateway/src/core/security.ts: a sliding window   *)
(* of requests per client with a block once it is full, connections per    *)
(* address, a cap on tracked clients and a periodic cleanup.               *)
(* Time is a clock of ticks; every duration is a number of ticks.          *)
(***************************************************************************)
EXTENDS Naturals, Sequences, FiniteSets, SequencesExt, SequenceFilter

CONSTANTS
  Clients, Addresses,
  AddressOf,            \* the address of a client
  windowMs, maxRequests, blockDurationMs, maxConnectionsPerIp, maxTrackedClients,
  MaxTime               \* bound on the clock

ASSUME RateAssumption ==
  /\ AddressOf \in [Clients -> Addresses]
  /\ windowMs \in Nat \ {0} /\ blockDurationMs \in Nat \ {0}
  /\ maxRequests \in Nat \ {0} /\ maxConnectionsPerIp \in Nat \ {0}
  /\ maxTrackedClients \in Nat \ {0} /\ MaxTime \in Nat \ {0}

VARIABLES
  now,
  tracked,       \* the keys of the clients map, oldest first
  requests,      \* timestamps of allowed requests in the window
  blockedUntil,  \* 0 when not blocked
  conns,         \* address -> clients connected from it
  allowed,       \* history: requests allowed since the client was last dropped
  refusedAt      \* history: when the window filled, 0 when not since the drop

limiterVars == <<now, tracked, requests, blockedUntil, conns, allowed, refusedAt>>
clientVars == <<tracked, requests, blockedUntil, allowed, refusedAt>>

LimiterInit ==
  /\ now = 1 /\ tracked = << >>
  /\ requests = [c \in Clients |-> << >>] /\ blockedUntil = [c \in Clients |-> 0]
  /\ conns = [a \in Addresses |-> {}]
  /\ allowed = [c \in Clients |-> << >>] /\ refusedAt = [c \in Clients |-> 0]

-----------------------------------------------------------------------------
Recent(s) == Filter(s, {t \in Range(s) : t + windowMs > now})

(* What is left when the clients in drop lose their entry.                 *)
Dropped(drop, f, zero) == [c \in Clients |-> IF c \in drop THEN zero ELSE f[c]]

(* Mutant of Verdict: the window may hold one more.                        *)
VerdictOffByOne(reqs, blocked) ==
  LET kept == IF blocked # 0 THEN << >> ELSE Recent(reqs)
  IN IF blocked # 0 /\ now < blocked THEN [ok |-> FALSE, reqs |-> reqs, blocked |-> blocked]
     ELSE IF Len(kept) > maxRequests
          THEN [ok |-> FALSE, reqs |-> kept, blocked |-> now + blockDurationMs]
          ELSE [ok |-> TRUE, reqs |-> Append(kept, now), blocked |-> 0]

(* Mutant of Verdict: a block ends one tick early.                         *)
VerdictBlockShort(reqs, blocked) ==
  LET kept == IF blocked # 0 THEN << >> ELSE Recent(reqs)
  IN IF blocked # 0 /\ now + 1 < blocked THEN [ok |-> FALSE, reqs |-> reqs, blocked |-> blocked]
     ELSE IF Len(kept) >= maxRequests
          THEN [ok |-> FALSE, reqs |-> kept, blocked |-> now + blockDurationMs]
          ELSE [ok |-> TRUE, reqs |-> Append(kept, now), blocked |-> 0]

(* checkRequest on the client's entry: the requests it keeps and until     *)
(* when it is blocked.  A block that is over starts from nothing.          *)
Verdict(reqs, blocked) ==
  LET kept == IF blocked # 0 THEN << >> ELSE Recent(reqs)
  IN IF blocked # 0 /\ now < blocked THEN [ok |-> FALSE, reqs |-> reqs, blocked |-> blocked]
     ELSE IF Len(kept) >= maxRequests
          THEN [ok |-> FALSE, reqs |-> kept, blocked |-> now + blockDurationMs]
          ELSE [ok |-> TRUE, reqs |-> Append(kept, now), blocked |-> 0]

(* Mutant of EnforceClientLimit: the map grows.                            *)
EnforceNothing(order) == order

(* enforceClientLimit: the oldest entries make room.                       *)
EnforceClientLimit(order) ==
  IF Len(order) <= maxTrackedClients THEN order
  ELSE SubSeq(order, Len(order) - maxTrackedClients + 1, Len(order))

CheckRequest(c) ==
  LET v     == Verdict(requests[c], blockedUntil[c])
      order == IF c \in Range(tracked) THEN tracked
               ELSE EnforceClientLimit(Append(tracked, c))
      drop  == Range(tracked) \ Range(order)
  IN /\ tracked' = order
     /\ requests' = Dropped(drop, [requests EXCEPT ![c] = v.reqs], << >>)
     /\ blockedUntil' = Dropped(drop, [blockedUntil EXCEPT ![c] = v.blocked], 0)
     /\ allowed' = Dropped(drop, IF v.ok THEN [allowed EXCEPT ![c] = Append(@, now)]
                                 ELSE allowed, << >>)
     /\ refusedAt' = Dropped(drop, IF ~v.ok /\ v.blocked = now + blockDurationMs
                                   THEN [refusedAt EXCEPT ![c] = now] ELSE refusedAt, 0)
     /\ UNCHANGED <<now, conns>>

(* Forget the entries of the clients in drop.                              *)
Forget(drop) ==
  /\ tracked' = Filter(tracked, Clients \ drop)
  /\ requests' = Dropped(drop, requests, << >>)
  /\ blockedUntil' = Dropped(drop, blockedUntil, 0)
  /\ allowed' = Dropped(drop, allowed, << >>)
  /\ refusedAt' = Dropped(drop, refusedAt, 0)

(* verifyClient's checkConnection and handleConnection's                   *)
(* registerConnection run in one stretch.                                  *)
Connect(c) ==
  /\ c \notin conns[AddressOf[c]]
  /\ Cardinality(conns[AddressOf[c]]) < maxConnectionsPerIp
  /\ conns' = [conns EXCEPT ![AddressOf[c]] = @ \cup {c}]
  /\ UNCHANGED <<now, clientVars>>

Disconnect(c) ==
  /\ c \in conns[AddressOf[c]]
  /\ conns' = [conns EXCEPT ![AddressOf[c]] = @ \ {c}]
  /\ Forget({c})
  /\ UNCHANGED now

(* The minutely cleanup drops clients whose window is empty and that are   *)
(* not, or no longer, blocked.                                             *)
Cleanup ==
  LET drop == {c \in Range(tracked) :
                 Recent(requests[c]) = << >> /\ (blockedUntil[c] = 0 \/ now >= blockedUntil[c])}
  IN /\ tracked' = Filter(tracked, Clients \ drop)
     /\ requests' = [c \in Clients |-> IF c \in Range(tracked) THEN Recent(requests[c]) ELSE requests[c]]
     /\ blockedUntil' = Dropped(drop, blockedUntil, 0)
     /\ UNCHANGED <<now, conns, allowed, refusedAt>>

Tick == now < MaxTime /\ now' = now + 1 /\ UNCHANGED <<clientVars, conns>>

LimiterNext ==
  \/ \E c \in Clients : CheckRequest(c) \/ Connect(c) \/ Disconnect(c)
  \/ Cleanup \/ Tick

LimiterSpec == LimiterInit /\ [][LimiterNext]_limiterVars

-----------------------------------------------------------------------------
(* Every variable has its type; the map keeps to its size.                 *)
LimiterTypeOK ==
  /\ now \in 1..MaxTime
  /\ tracked \in Seq(Clients) /\ Len(tracked) <= maxTrackedClients
  /\ requests \in [Clients -> Seq(1..MaxTime)]
  /\ blockedUntil \in [Clients -> 0..(MaxTime + blockDurationMs)]
  /\ conns \in [Addresses -> SUBSET Clients]
  /\ allowed \in [Clients -> Seq(1..MaxTime)] /\ refusedAt \in [Clients -> 0..MaxTime]

(* No window of windowMs holds more than maxRequests allowed requests of a *)
(* client, cleanups and expired blocks notwithstanding.                    *)
WindowBound ==
  \A c \in Clients, t \in 1..MaxTime :
    Cardinality({i \in DOMAIN allowed[c] : allowed[c][i] <= t /\ t < allowed[c][i] + windowMs})
      <= maxRequests

(* After the window filled, nothing is allowed for blockDurationMs.        *)
BlockHolds ==
  \A c \in Clients : refusedAt[c] # 0 =>
    \A i \in DOMAIN allowed[c] :
      allowed[c][i] <= refusedAt[c] \/ allowed[c][i] >= refusedAt[c] + blockDurationMs
=============================================================================
