--------------------------- MODULE IngressProofs ----------------------------
(***************************************************************************)
(* Theorems about what gets in and out: the rate limiter, pairing codes    *)
(* and polls (IngressSound), the conversions of messages and the terminal  *)
(* (MessagesSound), and what an agent is built from and its hooks keep     *)
(* (AgentRunSound), for every value of the constants unless a theorem      *)
(* names a hypothesis.                                                     *)
(***************************************************************************)
EXTENDS MCStores, FiniteSetTheorems, TLAPS

-----------------------------------------------------------------------------
(* The rate limiter: what the entry of a client (its requests q and block  *)
(* b) says about its history (allowed a, last refusal r) at time t.  The   *)
(* kept requests are the last allowed ones, older ones are out of the      *)
(* window unless a block hides them, and requests maxRequests apart are a  *)
(* window apart.                                                           *)
Times == 1..MaxTime
BlockOutlastsWindow == windowMs <= blockDurationMs

HistoryInOrder(a, t) ==
  /\ \A i \in 1..Len(a) : a[i] <= t
  /\ \A i, j \in 1..Len(a) : i <= j => a[i] <= a[j]
KeepsLast(q, a) ==
  /\ Len(q) <= Len(a) /\ Len(q) <= maxRequests
  /\ \A i \in 1..Len(q) : q[i] = a[(Len(a) - Len(q)) + i]
Spaced(a) == \A i \in 1..Len(a) : i > maxRequests => a[i - maxRequests] + windowMs <= a[i]
OlderGone(q, a, t) == \A i \in 1..(Len(a) - Len(q)) : a[i] + windowMs <= t
BlockTrue(a, b, r, t) ==
  /\ b # 0 => r # 0 /\ b = r + blockDurationMs /\ r <= t /\ \A i \in 1..Len(a) : a[i] <= r
  /\ b = 0 /\ r # 0 => r + blockDurationMs <= t
  /\ r # 0 => \A i \in 1..Len(a) : a[i] <= r \/ a[i] >= r + blockDurationMs
EntryTyped(q, a, b, r) ==
  q \in Seq(Times) /\ a \in Seq(Times) /\ b \in 0..(MaxTime + blockDurationMs) /\ r \in 0..MaxTime
ClientOK(q, a, b, r, t) ==
  /\ EntryTyped(q, a, b, r)
  /\ HistoryInOrder(a, t) /\ KeepsLast(q, a) /\ Spaced(a)
  /\ b = 0 => OlderGone(q, a, t)
  /\ BlockTrue(a, b, r, t)

LimiterInv ==
  /\ now \in Times
  /\ tracked \in Seq(Clients) /\ Len(tracked) <= maxTrackedClients
  /\ conns \in [Addresses -> SUBSET Clients]
  /\ DOMAIN requests = Clients /\ DOMAIN blockedUntil = Clients
  /\ requests \in [Clients -> Seq(Times)] /\ blockedUntil \in [Clients -> 0..(MaxTime + blockDurationMs)]
  /\ allowed \in [Clients -> Seq(Times)] /\ refusedAt \in [Clients -> 0..MaxTime]
  /\ \A c \in Clients : ClientOK(requests[c], allowed[c], blockedUntil[c], refusedAt[c], now)

\* What RateAssumption says of each number.
LEMMA LimiterNumbers ==
  /\ windowMs \in Nat /\ blockDurationMs \in Nat /\ maxRequests \in Nat /\ maxRequests >= 1 /\ blockDurationMs >= 1
  /\ maxTrackedClients \in Nat /\ maxTrackedClients >= 1 /\ MaxTime \in Nat /\ MaxTime >= 1
  /\ AddressOf \in [Clients -> Addresses]
BY RateAssumption

(* A client without an entry and without a history.                        *)
LEMMA ClientAbsent ==
  ASSUME NEW t \in Times
  PROVE  ClientOK(<< >>, << >>, 0, 0, t)
BY LimiterNumbers DEF ClientOK, EntryTyped, HistoryInOrder, KeepsLast, Spaced, OlderGone, BlockTrue, Times

(* Time passes.                                                            *)
LEMMA ClientTick ==
  ASSUME NEW q, NEW a, NEW b, NEW r, NEW t \in Times, NEW u \in Times, t <= u, ClientOK(q, a, b, r, t)
  PROVE  ClientOK(q, a, b, r, u)
<1>1. t \in Nat /\ u \in Nat
  BY LimiterNumbers DEF Times
<1>2. /\ EntryTyped(q, a, b, r) /\ HistoryInOrder(a, t) /\ KeepsLast(q, a) /\ Spaced(a)
      /\ b = 0 => OlderGone(q, a, t)
      /\ BlockTrue(a, b, r, t)
  BY DEF ClientOK
<1>3. a \in Seq(Nat) /\ q \in Seq(Times) /\ r \in Nat /\ b \in Nat /\ Len(a) \in Nat /\ Len(q) \in Nat /\ \A i \in 1..Len(a) : a[i] \in Nat
  BY <1>2, LimiterNumbers DEF EntryTyped, Times
<1>4. HistoryInOrder(a, u)
  BY <1>1, <1>2, <1>3 DEF HistoryInOrder
<1>5. b = 0 => OlderGone(q, a, u)
  <2>1. Len(a) - Len(q) <= Len(a)
    BY <1>3
  <2> QED  BY <1>1, <1>2, <1>3, <2>1, LimiterNumbers DEF OlderGone
<1>6. BlockTrue(a, b, r, u)
  BY <1>1, <1>2, <1>3, LimiterNumbers DEF BlockTrue
<1> QED  BY <1>2, <1>4, <1>5, <1>6 DEF ClientOK

(* The window keeps the last requests of the entry and forgets old ones.   *)
LEMMA RecentIsTail ==
  ASSUME NEW q \in Seq(Times), now \in Times, \A i, j \in 1..Len(q) : i <= j => q[i] <= q[j]
  PROVE  \E m \in 0..Len(q) :
           /\ Recent(q) \in Seq(Times) /\ Len(Recent(q)) = Len(q) - m
           /\ \A k \in 1..(Len(q) - m) : Recent(q)[k] = q[m + k]
           /\ \A i \in 1..m : q[i] + windowMs <= now
<1> DEFINE S == {t \in Range(q) : t + windowMs > now}
           T == {i \in 1..Len(q) : q[i] + windowMs > now}
<1>1. now \in Nat /\ Len(q) \in Nat /\ windowMs \in Nat /\ \A i \in 1..Len(q) : q[i] \in Nat
  BY LimiterNumbers DEF Times
<1>2. \A i \in 1..Len(q) : q[i] \in S <=> i \in T
  BY DEF Range
<1>3. \E m \in 0..Len(q) : \A i \in 1..Len(q) : i \in T <=> i > m
  <2>1. CASE T = {}
    <3>1. Len(q) \in 0..Len(q) /\ \A i \in 1..Len(q) : ~ (i > Len(q)) /\ i \notin T
      BY <1>1, <2>1
    <3> QED  BY <3>1
  <2>2. CASE T # {}
    <3>1. PICK n \in T : \A i \in T : n <= i
      <4>1. T \subseteq Nat
        BY <1>1
      <4> HIDE DEF T
      <4> QED  BY <2>2, <4>1, LeastNumber
    <3>2. n \in 1..Len(q) /\ q[n] + windowMs > now /\ n - 1 \in 0..Len(q)
      BY <1>1
    <3>3. ASSUME NEW i \in 1..Len(q) PROVE i \in T <=> i > n - 1
      <4>1. CASE i < n
        BY <1>1, <3>1, <3>2, <4>1
      <4>2. CASE i >= n
        <5>1. q[n] <= q[i]
          BY <3>2, <4>2
        <5>2. q[i] + windowMs > now
          BY <1>1, <3>2, <5>1
        <5> QED  BY <3>2, <4>2, <5>2
      <4> QED  BY <3>2, <4>1, <4>2
    <3> QED  BY <3>2, <3>3
  <2> QED  BY <2>1, <2>2
<1>4. PICK m \in 0..Len(q) : \A i \in 1..Len(q) : i \in T <=> i > m
  BY <1>3
<1>5. Recent(q) = Filter(q, S)
  BY DEF Recent
<1>6. \A i \in 1..m : i \in 1..Len(q) /\ i \notin T
  BY <1>1, <1>4
<1>7. (\A i \in 1..m : q[i] \notin S) /\ \A i \in 1..Len(q) : i > m => q[i] \in S
  BY <1>2, <1>4, <1>6
<1>8. \A i \in 1..m : q[i] + windowMs <= now
  BY <1>1, <1>6
<1> HIDE DEF S, T
<1>9. /\ Filter(q, S) \in Seq(Times) /\ Len(Filter(q, S)) = Len(q) - m
      /\ \A k \in 1..(Len(q) - m) : Filter(q, S)[k] = q[m + k]
  BY <1>7, FilterTail
<1> QED  BY <1>5, <1>8, <1>9

(* Requests that leave the window leave the entry.                         *)
LEMMA ClientRecent ==
  ASSUME NEW q, NEW a, NEW b, NEW r, now \in Times, ClientOK(q, a, b, r, now)
  PROVE  ClientOK(Recent(q), a, b, r, now)
<1>1. /\ EntryTyped(q, a, b, r) /\ HistoryInOrder(a, now) /\ KeepsLast(q, a) /\ Spaced(a)
      /\ b = 0 => OlderGone(q, a, now)
      /\ BlockTrue(a, b, r, now)
  BY DEF ClientOK
<1>2. /\ q \in Seq(Times) /\ Len(q) \in Nat /\ Len(a) \in Nat /\ Len(q) <= Len(a) /\ Len(q) <= maxRequests
      /\ (\A i \in 1..Len(a) : a[i] \in Nat) /\ now \in Nat
  BY <1>1, LimiterNumbers DEF EntryTyped, KeepsLast, Times
<1> DEFINE d == Len(a) - Len(q)
<1>3. d \in Nat /\ \A i \in 1..Len(q) : q[i] = a[d + i] /\ d + i \in 1..Len(a)
  BY <1>1, <1>2 DEF KeepsLast
<1>4. ASSUME NEW i \in 1..Len(q), NEW j \in 1..Len(q), i <= j PROVE q[i] <= q[j]
  <2> HIDE DEF d
  <2>1. d + i <= d + j /\ d + i \in 1..Len(a) /\ d + j \in 1..Len(a) /\ q[i] = a[d + i] /\ q[j] = a[d + j]
    BY <1>2, <1>3, <1>4
  <2> QED  BY <1>1, <2>1 DEF HistoryInOrder
<1>5. PICK m \in 0..Len(q) :
        /\ Recent(q) \in Seq(Times) /\ Len(Recent(q)) = Len(q) - m
        /\ \A k \in 1..(Len(q) - m) : Recent(q)[k] = q[m + k]
        /\ \A i \in 1..m : q[i] + windowMs <= now
  BY <1>2, <1>4, RecentIsTail
<1> DEFINE p == Recent(q)
<1>6. EntryTyped(p, a, b, r)
  BY <1>1, <1>5 DEF EntryTyped
<1>7. Len(p) = Len(q) - m /\ Len(p) \in Nat /\ Len(a) - Len(p) = d + m /\ m \in Nat /\ Len(p) <= Len(q)
  BY <1>2, <1>5
<1> HIDE DEF d, p
<1>8. ASSUME NEW k \in 1..Len(p) PROVE p[k] = a[(Len(a) - Len(p)) + k]
  <2>1. m + k \in 1..Len(q) /\ k \in 1..(Len(q) - m)
    BY <1>2, <1>7
  <2>2. p[k] = q[m + k] /\ q[m + k] = a[d + (m + k)]
    BY <1>3, <1>5, <2>1 DEF p
  <2>3. d + (m + k) = (Len(a) - Len(p)) + k
    <3>1. d \in Nat /\ m \in Nat /\ k \in Nat /\ Len(a) - Len(p) = d + m
      BY <1>3, <1>7
    <3>2. d + (m + k) = (d + m) + k
      BY <3>1
    <3> QED  BY <3>1, <3>2
  <2> QED  BY <2>2, <2>3
<1>9. KeepsLast(p, a)
  <2>1. Len(p) <= Len(a) /\ Len(p) <= maxRequests
    BY <1>2, <1>7, LimiterNumbers
  <2> QED  BY <1>8, <2>1 DEF KeepsLast
<1>10. ASSUME b = 0, NEW i \in 1..(Len(a) - Len(p)) PROVE a[i] + windowMs <= now
  <2>1. CASE i <= d
    BY <1>1, <1>3, <1>10, <2>1 DEF OlderGone, d
  <2>2. CASE i > d
    <3>1. i - d \in 1..m /\ i - d \in 1..Len(q) /\ d + (i - d) = i
      BY <1>2, <1>3, <1>7, <2>2
    <3>2. q[i - d] = a[i]
      BY <1>3, <3>1
    <3> QED  BY <1>5, <3>1, <3>2
  <2> QED  BY <1>3, <2>1, <2>2
<1>11. b = 0 => OlderGone(p, a, now)
  BY <1>10 DEF OlderGone
<1> QED  BY <1>1, <1>6, <1>9, <1>11 DEF ClientOK, p

(* The cleanup drops an entry whose block is over.                         *)
LEMMA ClientUnblocks ==
  ASSUME BlockOutlastsWindow, NEW q, NEW a, NEW b, NEW r, now \in Times, ClientOK(q, a, b, r, now), b # 0, now >= b
  PROVE  ClientOK(<< >>, a, 0, r, now) /\ r + blockDurationMs <= now /\ \A i \in 1..Len(a) : a[i] + windowMs <= now
<1>1. /\ EntryTyped(q, a, b, r) /\ HistoryInOrder(a, now) /\ KeepsLast(q, a) /\ Spaced(a)
      /\ BlockTrue(a, b, r, now)
  BY DEF ClientOK
<1>2. r # 0 /\ b = r + blockDurationMs /\ \A i \in 1..Len(a) : a[i] <= r
  BY <1>1 DEF BlockTrue
<1>3. Len(a) \in Nat /\ (\A i \in 1..Len(a) : a[i] \in Nat) /\ now \in Nat /\ r \in Nat
  BY <1>1, LimiterNumbers DEF EntryTyped, Times
<1>4. \A i \in 1..Len(a) : a[i] + windowMs <= now
  BY <1>2, <1>3, LimiterNumbers DEF BlockOutlastsWindow
<1>5. Len(<< >>) = 0 /\ << >> \in Seq(Times) /\ Len(a) - 0 = Len(a)
  BY <1>3
<1>6. EntryTyped(<< >>, a, 0, r) /\ KeepsLast(<< >>, a) /\ OlderGone(<< >>, a, now)
  BY <1>1, <1>3, <1>4, <1>5, LimiterNumbers DEF EntryTyped, KeepsLast, OlderGone
<1>7. BlockTrue(a, 0, r, now)
  BY <1>1, <1>2, <1>3, LimiterNumbers DEF BlockTrue
<1> QED  BY <1>1, <1>2, <1>4, <1>6, <1>7 DEF ClientOK

(* A request is let in: there was room, or a block is over.                *)
LEMMA ClientAllowed ==
  ASSUME NEW q, NEW a, NEW r, now \in Times, ClientOK(q, a, 0, r, now), Len(q) < maxRequests
  PROVE  ClientOK(Append(q, now), Append(a, now), 0, r, now)
<1>1. /\ EntryTyped(q, a, 0, r) /\ HistoryInOrder(a, now) /\ KeepsLast(q, a) /\ Spaced(a)
      /\ OlderGone(q, a, now) /\ BlockTrue(a, 0, r, now)
  BY DEF ClientOK
<1>2. /\ Len(q) \in Nat /\ Len(a) \in Nat /\ Len(q) <= Len(a)
      /\ (\A i \in 1..Len(a) : a[i] \in Nat) /\ now \in Nat /\ r \in Nat
      /\ q \in Seq(Times) /\ a \in Seq(Times)
  BY <1>1, LimiterNumbers DEF EntryTyped, KeepsLast, Times
<1> DEFINE p == Append(q, now)
           h == Append(a, now)
<1>3. /\ p \in Seq(Times) /\ Len(p) = Len(q) + 1 /\ p[Len(q) + 1] = now
      /\ \A i \in 1..Len(q) : p[i] = q[i]
  BY <1>2
<1>4. /\ h \in Seq(Times) /\ Len(h) = Len(a) + 1 /\ h[Len(a) + 1] = now
      /\ \A i \in 1..Len(a) : h[i] = a[i]
  BY <1>2
<1> HIDE DEF p, h
<1>5. \A i \in 1..Len(h) : i \in 1..Len(a) \/ i = Len(a) + 1
  BY <1>2, <1>4
<1>6. EntryTyped(p, h, 0, r)
  BY <1>1, <1>3, <1>4 DEF EntryTyped
<1>7. HistoryInOrder(h, now)
  <2>1. \A i \in 1..Len(h) : h[i] <= now
    BY <1>1, <1>2, <1>4, <1>5 DEF HistoryInOrder
  <2>2. ASSUME NEW i \in 1..Len(h), NEW j \in 1..Len(h), i <= j PROVE h[i] <= h[j]
    <3>1. CASE j \in 1..Len(a)
      <4>1. i \in 1..Len(a)
        BY <1>2, <2>2, <3>1
      <4> QED  BY <1>1, <1>4, <2>2, <3>1, <4>1 DEF HistoryInOrder
    <3>2. CASE j = Len(a) + 1
      BY <1>4, <2>1, <3>2
    <3> QED  BY <1>5, <3>1, <3>2
  <2> QED  BY <2>1, <2>2 DEF HistoryInOrder
<1>8. Len(h) - Len(p) = Len(a) - Len(q)
  BY <1>2, <1>3, <1>4
<1>9. ASSUME NEW i \in 1..Len(p) PROVE p[i] = h[(Len(h) - Len(p)) + i]
  <2>1. CASE i \in 1..Len(q)
    <3>1. (Len(a) - Len(q)) + i \in 1..Len(a)
      BY <1>2, <2>1
    <3>2. q[i] = a[(Len(a) - Len(q)) + i]
      BY <1>1, <2>1 DEF KeepsLast
    <3> QED  BY <1>3, <1>4, <1>8, <2>1, <3>1, <3>2
  <2>2. CASE i = Len(q) + 1
    <3>1. (Len(a) - Len(q)) + i = Len(a) + 1
      BY <1>2, <2>2
    <3> QED  BY <1>3, <1>4, <1>8, <2>2, <3>1
  <2> QED  BY <1>2, <1>3, <2>1, <2>2
<1>10. KeepsLast(p, h)
  BY <1>2, <1>3, <1>4, <1>9, LimiterNumbers DEF KeepsLast
<1>11. OlderGone(p, h, now)
  <2> SUFFICES ASSUME NEW i \in 1..(Len(a) - Len(q)) PROVE h[i] + windowMs <= now
    BY <1>8 DEF OlderGone
  <2>1. i \in 1..Len(a) /\ a[i] + windowMs <= now
    BY <1>1, <1>2 DEF OlderGone
  <2> QED  BY <1>4, <2>1
<1>12. Spaced(h)
  <2> SUFFICES ASSUME NEW i \in 1..Len(h), i > maxRequests PROVE h[i - maxRequests] + windowMs <= h[i]
    BY DEF Spaced
  <2>1. CASE i \in 1..Len(a)
    <3>1. i - maxRequests \in 1..Len(a) /\ a[i - maxRequests] + windowMs <= a[i]
      BY <1>1, <1>2, <2>1, LimiterNumbers DEF Spaced
    <3> QED  BY <1>4, <2>1, <3>1
  <2>2. CASE i = Len(a) + 1
    <3>1. i - maxRequests \in 1..(Len(a) - Len(q)) /\ i - maxRequests \in 1..Len(a)
      BY <1>2, <2>2, LimiterNumbers
    <3>2. a[i - maxRequests] + windowMs <= now
      BY <1>1, <3>1 DEF OlderGone
    <3> QED  BY <1>4, <2>2, <3>1, <3>2
  <2> QED  BY <1>5, <2>1, <2>2
<1>13. BlockTrue(h, 0, r, now)
  BY <1>1, <1>2, <1>4, <1>5, LimiterNumbers DEF BlockTrue
<1> QED  BY <1>6, <1>7, <1>10, <1>11, <1>12, <1>13 DEF ClientOK, p, h

(* checkRequest leaves the entry of its client in order.                   *)
LEMMA ClientAsks ==
  ASSUME BlockOutlastsWindow, NEW q, NEW a, NEW b, NEW r, now \in Times, ClientOK(q, a, b, r, now)
  PROVE  LET v == Verdict(q, b)
         IN ClientOK(v.reqs, IF v.ok THEN Append(a, now) ELSE a, v.blocked,
                     IF ~v.ok /\ v.blocked = now + blockDurationMs THEN now ELSE r, now)
<1> DEFINE v == Verdict(q, b)
<1> SUFFICES ClientOK(v.reqs, IF v.ok THEN Append(a, now) ELSE a, v.blocked,
                      IF ~v.ok /\ v.blocked = now + blockDurationMs THEN now ELSE r, now)
  OBVIOUS
<1>0. now \in Nat /\ now >= 1 /\ now <= MaxTime /\ b \in Nat /\ r \in Nat /\ Len(<< >>) = 0 /\ Append(<< >>, now) = <<now>>
  BY LimiterNumbers DEF ClientOK, EntryTyped, Times
<1>1. CASE b # 0 /\ now < b
  <2>1. v = [ok |-> FALSE, reqs |-> q, blocked |-> b]
    BY <1>1 DEF Verdict
  <2>2. b = now + blockDurationMs => r = now
    BY <1>0, <1>1, LimiterNumbers DEF ClientOK, BlockTrue
  <2>3. v.ok = FALSE /\ v.reqs = q /\ v.blocked = b
    BY <2>1
  <2> HIDE DEF v
  <2> QED  BY <2>2, <2>3
<1>2. CASE b # 0 /\ ~(now < b)
  <2>1. v = [ok |-> TRUE, reqs |-> Append(<< >>, now), blocked |-> 0]
    BY <1>0, <1>2, LimiterNumbers DEF Verdict
  <2>2. v.ok = TRUE /\ v.reqs = Append(<< >>, now) /\ v.blocked = 0
    BY <2>1
  <2>3. ClientOK(<< >>, a, 0, r, now)
    BY <1>0, <1>2, ClientUnblocks
  <2>4. ClientOK(Append(<< >>, now), Append(a, now), 0, r, now)
    <3>1. Len(<< >>) < maxRequests
      BY <1>0, LimiterNumbers
    <3> HIDE DEF v
    <3> QED  BY <2>3, <3>1, ClientAllowed
  <2> HIDE DEF v
  <2> QED  BY <2>2, <2>4
<1>3. CASE b = 0
  <2> DEFINE p == Recent(q)
  <2>1. ClientOK(p, a, 0, r, now)
    BY <1>3, ClientRecent
  <2>2. v = IF Len(p) >= maxRequests
            THEN [ok |-> FALSE, reqs |-> p, blocked |-> now + blockDurationMs]
            ELSE [ok |-> TRUE, reqs |-> Append(p, now), blocked |-> 0]
    BY <1>3 DEF Verdict
  <2>3. Len(p) \in Nat
    BY <2>1 DEF ClientOK, EntryTyped
  <2> HIDE DEF v, p
  <2>4. CASE Len(p) >= maxRequests
    <3>1. v.ok = FALSE /\ v.reqs = p /\ v.blocked = now + blockDurationMs
      BY <2>2, <2>4
    <3>2. /\ EntryTyped(p, a, 0, r) /\ HistoryInOrder(a, now) /\ KeepsLast(p, a) /\ Spaced(a)
      BY <2>1 DEF ClientOK
    <3>3. EntryTyped(p, a, now + blockDurationMs, now)
      BY <1>0, <3>2, LimiterNumbers DEF EntryTyped
    <3>4. BlockTrue(a, now + blockDurationMs, now, now)
      BY <1>0, <3>2, LimiterNumbers DEF HistoryInOrder, BlockTrue
    <3>5. now + blockDurationMs # 0
      BY <1>0, LimiterNumbers
    <3>6. ClientOK(p, a, now + blockDurationMs, now, now)
      BY <3>2, <3>3, <3>4, <3>5 DEF ClientOK
    <3> QED  BY <3>1, <3>6
  <2>5. CASE ~(Len(p) >= maxRequests)
    <3>1. v.ok = TRUE /\ v.reqs = Append(p, now) /\ v.blocked = 0
      BY <2>2, <2>5
    <3>2. ClientOK(Append(p, now), Append(a, now), 0, r, now)
      BY <2>1, <2>3, <2>5, ClientAllowed, LimiterNumbers
    <3> QED  BY <3>1, <3>2
  <2> QED  BY <2>4, <2>5
<1> QED  BY <1>1, <1>2, <1>3

(* Requests that are maxRequests apart and a window apart fill no window.  *)
LEMMA ClientWindow ==
  ASSUME NEW q, NEW a, NEW b, NEW r, now \in Times, ClientOK(q, a, b, r, now), NEW u \in Times
  PROVE  Cardinality({i \in DOMAIN a : a[i] <= u /\ u < a[i] + windowMs}) <= maxRequests
<1> DEFINE D == {i \in DOMAIN a : a[i] <= u /\ u < a[i] + windowMs}
<1> SUFFICES Cardinality(D) <= maxRequests
  OBVIOUS
<1>1. a \in Seq(Times) /\ HistoryInOrder(a, now) /\ Spaced(a)
  BY DEF ClientOK, EntryTyped
<1>2. Len(a) \in Nat /\ DOMAIN a = 1..Len(a) /\ (\A i \in 1..Len(a) : a[i] \in Nat) /\ u \in Nat
  BY <1>1, LimiterNumbers DEF Times
<1>3. CASE D = {}
  BY <1>3, FS_EmptySet, LimiterNumbers
<1>4. CASE D # {}
  <2>1. PICK lo \in D : \A i \in D : lo <= i
    <3>1. D \subseteq Nat
      BY <1>2
    <3> HIDE DEF D
    <3> QED  BY <1>4, <3>1, LeastNumber
  <2>2. lo \in 1..Len(a) /\ u < a[lo] + windowMs
    BY <1>2
  <2>3. ASSUME NEW i \in D PROVE i \in lo..(lo + maxRequests - 1)
    <3>1. i \in 1..Len(a) /\ a[i] <= u /\ lo <= i
      BY <1>2, <2>1
    <3>2. SUFFICES ASSUME i >= lo + maxRequests PROVE FALSE
      BY <2>2, <3>1, LimiterNumbers
    <3> DEFINE j == i - maxRequests
    <3>3. j \in 1..Len(a) /\ lo <= j /\ i > maxRequests
      BY <1>2, <2>2, <3>1, <3>2, LimiterNumbers
    <3>4. a[j] + windowMs <= a[i]
      BY <1>1, <3>1, <3>3 DEF Spaced
    <3> HIDE DEF j
    <3>5. a[lo] <= a[j]
      BY <1>1, <2>2, <3>3 DEF HistoryInOrder
    <3>6. a[lo] \in Nat /\ a[j] \in Nat /\ a[i] \in Nat
      BY <1>2, <2>2, <3>1, <3>3
    <3> QED  BY <1>2, <2>2, <3>1, <3>4, <3>5, <3>6, LimiterNumbers
  <2>4. IsFiniteSet(lo..(lo + maxRequests - 1)) /\ Cardinality(lo..(lo + maxRequests - 1)) = maxRequests
    <3>1. lo \in Int /\ lo + maxRequests - 1 \in Int /\ lo <= lo + maxRequests - 1 /\ (lo + maxRequests - 1) - lo + 1 = maxRequests
      BY <2>2, LimiterNumbers
    <3> QED  BY <3>1, FS_Interval
  <2>5. D \subseteq lo..(lo + maxRequests - 1)
    BY <2>3
  <2> HIDE DEF D
  <2> QED  BY <2>4, <2>5, FS_Subset, ZenonT(60)
<1> QED  BY <1>3, <1>4

-----------------------------------------------------------------------------
\* The initial states satisfy the limiter's invariant.
LEMMA LimiterStart == LimiterInit => LimiterInv
<1> SUFFICES ASSUME LimiterInit PROVE LimiterInv
  OBVIOUS
<1>1. now = 1 /\ now \in Times /\ << >> \in Seq(Times) /\ 0 \in 0..MaxTime /\ 0 \in 0..(MaxTime + blockDurationMs)
  BY LimiterNumbers DEF LimiterInit, Times
<1>2. tracked \in Seq(Clients) /\ Len(tracked) <= maxTrackedClients
  BY LimiterNumbers DEF LimiterInit
<1>3. /\ conns \in [Addresses -> SUBSET Clients]
      /\ requests \in [Clients -> Seq(Times)] /\ blockedUntil \in [Clients -> 0..(MaxTime + blockDurationMs)]
      /\ allowed \in [Clients -> Seq(Times)] /\ refusedAt \in [Clients -> 0..MaxTime]
  BY <1>1 DEF LimiterInit
<1>4. \A c \in Clients : requests[c] = << >> /\ allowed[c] = << >> /\ blockedUntil[c] = 0 /\ refusedAt[c] = 0
  BY DEF LimiterInit
<1>5. \A c \in Clients : ClientOK(requests[c], allowed[c], blockedUntil[c], refusedAt[c], now)
  BY <1>1, <1>4, ClientAbsent
<1> QED  BY <1>1, <1>2, <1>3, <1>5 DEF LimiterInv

(* Entries in order make the whole map typed.                              *)
LEMMA LimiterAssembled ==
  ASSUME now' \in Times, tracked' \in Seq(Clients), Len(tracked') <= maxTrackedClients,
         conns' \in [Addresses -> SUBSET Clients],
         requests' = [c \in Clients |-> requests'[c]], blockedUntil' = [c \in Clients |-> blockedUntil'[c]],
         allowed' = [c \in Clients |-> allowed'[c]], refusedAt' = [c \in Clients |-> refusedAt'[c]],
         \A c \in Clients : ClientOK(requests'[c], allowed'[c], blockedUntil'[c], refusedAt'[c], now')
  PROVE  LimiterInv'
<1>1. \A c \in Clients : EntryTyped(requests'[c], allowed'[c], blockedUntil'[c], refusedAt'[c])
  BY DEF ClientOK
<1>2. \A c \in Clients : /\ requests'[c] \in Seq(Times) /\ allowed'[c] \in Seq(Times)
                         /\ blockedUntil'[c] \in 0..(MaxTime + blockDurationMs) /\ refusedAt'[c] \in 0..MaxTime
  BY <1>1 DEF EntryTyped
<1>3. requests' \in [Clients -> Seq(Times)]
  BY <1>2
<1>4. blockedUntil' \in [Clients -> 0..(MaxTime + blockDurationMs)]
  BY <1>2
<1>5. allowed' \in [Clients -> Seq(Times)]
  BY <1>2
<1>6. refusedAt' \in [Clients -> 0..MaxTime]
  BY <1>2
<1>7. \A c \in Clients : ClientOK(requests[c], allowed[c], blockedUntil[c], refusedAt[c], now)'
  BY DEF ClientOK, EntryTyped, HistoryInOrder, KeepsLast, Spaced, OlderGone, BlockTrue
<1> QED  BY <1>3, <1>4, <1>5, <1>6, <1>7 DEF LimiterInv

(* Functions over Clients are what they map.                               *)
LEMMA LimiterMaps ==
  ASSUME LimiterInv
  PROVE  /\ requests = [c \in Clients |-> requests[c]] /\ blockedUntil = [c \in Clients |-> blockedUntil[c]]
         /\ allowed = [c \in Clients |-> allowed[c]] /\ refusedAt = [c \in Clients |-> refusedAt[c]]
BY DEF LimiterInv

\* Every step of the limiter keeps its invariant.
LEMMA LimiterStep ==
  ASSUME BlockOutlastsWindow, LimiterInv, [LimiterNext]_limiterVars
  PROVE  LimiterInv'
<1>1. /\ now \in Times /\ tracked \in Seq(Clients) /\ Len(tracked) <= maxTrackedClients
      /\ conns \in [Addresses -> SUBSET Clients]
      /\ \A c \in Clients : ClientOK(requests[c], allowed[c], blockedUntil[c], refusedAt[c], now)
  BY DEF LimiterInv
<1>2. \A S : Filter(tracked, S) \in Seq(Clients) /\ Len(Filter(tracked, S)) <= maxTrackedClients
  <2> SUFFICES ASSUME NEW S PROVE Filter(tracked, S) \in Seq(Clients) /\ Len(Filter(tracked, S)) <= maxTrackedClients
    OBVIOUS
  <2>1. Filter(tracked, S) \in Seq(Clients) /\ Len(Filter(tracked, S)) <= Len(tracked)
    BY <1>1, FilterKeeps
  <2> QED  BY <1>1, <2>1, LimiterNumbers
<1>3. ASSUME NEW c \in Clients, CheckRequest(c) PROVE LimiterInv'
  <2> DEFINE v     == Verdict(requests[c], blockedUntil[c])
             order == IF c \in Range(tracked) THEN tracked ELSE EnforceClientLimit(Append(tracked, c))
             drop  == Range(tracked) \ Range(order)
             ra    == IF v.ok THEN [allowed EXCEPT ![c] = Append(@, now)] ELSE allowed
             rr    == IF ~v.ok /\ v.blocked = now + blockDurationMs THEN [refusedAt EXCEPT ![c] = now] ELSE refusedAt
  <2>1. /\ tracked' = order
        /\ requests' = Dropped(drop, [requests EXCEPT ![c] = v.reqs], << >>)
        /\ blockedUntil' = Dropped(drop, [blockedUntil EXCEPT ![c] = v.blocked], 0)
        /\ allowed' = Dropped(drop, ra, << >>) /\ refusedAt' = Dropped(drop, rr, 0)
        /\ now' = now /\ conns' = conns
    BY <1>3 DEF CheckRequest
  <2>2. order \in Seq(Clients) /\ Len(order) <= maxTrackedClients
    <3>1. Append(tracked, c) \in Seq(Clients) /\ Len(Append(tracked, c)) \in Nat
      BY <1>1
    <3> DEFINE w == Append(tracked, c)
               n == Len(w)
    <3>2. w \in Seq(Clients) /\ n \in Nat
      BY <3>1
    <3>3. order = IF c \in Range(tracked) THEN tracked ELSE EnforceClientLimit(w)
      OBVIOUS
    <3> HIDE DEF w
    <3>4. CASE n <= maxTrackedClients
      <4>1. EnforceClientLimit(w) = w
        BY <3>4 DEF EnforceClientLimit
      <4> HIDE DEF order
      <4> QED  BY <1>1, <3>2, <3>3, <3>4, <4>1
    <3>5. CASE ~(n <= maxTrackedClients)
      <4>1. EnforceClientLimit(w) = SubSeq(w, n - maxTrackedClients + 1, n)
        BY <3>5 DEF EnforceClientLimit
      <4>2. n - maxTrackedClients + 1 \in 1..n
        BY <3>2, <3>5, LimiterNumbers
      <4>3. SubSeq(w, n - maxTrackedClients + 1, n) \in Seq(Clients)
        BY <3>2, <4>2
      <4>4. Len(SubSeq(w, n - maxTrackedClients + 1, n)) = maxTrackedClients
        BY <3>2, <4>2, LimiterNumbers
      <4>5. EnforceClientLimit(w) \in Seq(Clients) /\ Len(EnforceClientLimit(w)) <= maxTrackedClients
        BY <4>1, <4>3, <4>4, LimiterNumbers
      <4> HIDE DEF order
      <4> QED  BY <1>1, <3>3, <4>5
    <3> QED  BY <3>4, <3>5
  <2>3. ASSUME NEW e \in Clients
        PROVE  ClientOK(requests'[e], allowed'[e], blockedUntil'[e], refusedAt'[e], now)
    <3> HIDE DEF drop, order
    <3>1. CASE e \in drop
      <4>1. requests'[e] = << >> /\ allowed'[e] = << >> /\ blockedUntil'[e] = 0 /\ refusedAt'[e] = 0
        BY <2>1, <3>1 DEF Dropped
      <4> QED  BY <1>1, <4>1, ClientAbsent
    <3>2. CASE e \notin drop /\ e # c
      <4>1. ra[e] = allowed[e] /\ rr[e] = refusedAt[e]
        BY <3>2, LimiterMaps
      <4>2. /\ requests'[e] = requests[e] /\ allowed'[e] = allowed[e]
            /\ blockedUntil'[e] = blockedUntil[e] /\ refusedAt'[e] = refusedAt[e]
        <5> HIDE DEF ra, rr, v
        <5> QED  BY <2>1, <3>2, <4>1, LimiterMaps DEF Dropped
      <4> QED  BY <1>1, <4>2
    <3>3. CASE e \notin drop /\ e = c
      <4>1. /\ ra[c] = IF v.ok THEN Append(allowed[c], now) ELSE allowed[c]
            /\ rr[c] = IF ~v.ok /\ v.blocked = now + blockDurationMs THEN now ELSE refusedAt[c]
        <5> HIDE DEF v
        <5> QED  BY LimiterMaps
      <4>2. /\ requests'[c] = v.reqs /\ allowed'[c] = ra[c]
            /\ blockedUntil'[c] = v.blocked /\ refusedAt'[c] = rr[c]
        <5> HIDE DEF ra, rr, v
        <5> QED  BY <2>1, <3>3, LimiterMaps DEF Dropped
      <4>3. ClientOK(v.reqs, IF v.ok THEN Append(allowed[c], now) ELSE allowed[c], v.blocked,
                     IF ~v.ok /\ v.blocked = now + blockDurationMs THEN now ELSE refusedAt[c], now)
        BY <1>1, ClientAsks
      <4> HIDE DEF ra, rr, v
      <4> QED  BY <3>3, <4>1, <4>2, <4>3
    <3> QED  BY <3>1, <3>2, <3>3
  <2>4. /\ requests' = [e \in Clients |-> requests'[e]] /\ blockedUntil' = [e \in Clients |-> blockedUntil'[e]]
        /\ allowed' = [e \in Clients |-> allowed'[e]] /\ refusedAt' = [e \in Clients |-> refusedAt'[e]]
    <3> HIDE DEF ra, rr, v, drop
    <3> QED  BY <2>1 DEF Dropped
  <2> HIDE DEF order, drop, ra, rr, v
  <2> QED  BY <1>1, <2>1, <2>2, <2>3, <2>4, LimiterAssembled
<1>4. ASSUME NEW c \in Clients, Connect(c) PROVE LimiterInv'
  <2>1. conns' \in [Addresses -> SUBSET Clients] /\ UNCHANGED <<now, tracked, requests, blockedUntil, allowed, refusedAt>>
    BY <1>1, <1>4, LimiterNumbers DEF Connect, clientVars
  <2> QED  BY <1>1, <2>1, LimiterMaps, LimiterAssembled
<1>5. ASSUME NEW c \in Clients, Disconnect(c) PROVE LimiterInv'
  <2>1. conns' \in [Addresses -> SUBSET Clients] /\ now' = now /\ Forget({c})
    BY <1>1, <1>5, LimiterNumbers DEF Disconnect
  <2>2. tracked' \in Seq(Clients) /\ Len(tracked') <= maxTrackedClients
    BY <1>2, <2>1 DEF Forget
  <2>3. /\ requests' = [e \in Clients |-> requests'[e]] /\ blockedUntil' = [e \in Clients |-> blockedUntil'[e]]
        /\ allowed' = [e \in Clients |-> allowed'[e]] /\ refusedAt' = [e \in Clients |-> refusedAt'[e]]
    BY <2>1 DEF Forget, Dropped
  <2>4. ASSUME NEW e \in Clients
        PROVE  ClientOK(requests'[e], allowed'[e], blockedUntil'[e], refusedAt'[e], now)
    <3>1. CASE e = c
      <4>1. requests'[e] = << >> /\ allowed'[e] = << >> /\ blockedUntil'[e] = 0 /\ refusedAt'[e] = 0
        BY <2>1, <3>1 DEF Forget, Dropped
      <4> QED  BY <1>1, <4>1, ClientAbsent
    <3>2. CASE e # c
      <4>1. /\ requests'[e] = requests[e] /\ allowed'[e] = allowed[e]
            /\ blockedUntil'[e] = blockedUntil[e] /\ refusedAt'[e] = refusedAt[e]
        BY <2>1, <3>2 DEF Forget, Dropped
      <4> QED  BY <1>1, <4>1
    <3> QED  BY <3>1, <3>2
  <2> QED  BY <1>1, <2>1, <2>2, <2>3, <2>4, LimiterAssembled
<1>6. CASE Cleanup
  <2> DEFINE drop == {c \in Range(tracked) :
                 Recent(requests[c]) = << >> /\ (blockedUntil[c] = 0 \/ now >= blockedUntil[c])}
  <2>1. /\ tracked' = Filter(tracked, Clients \ drop)
        /\ requests' = [c \in Clients |-> IF c \in Range(tracked) THEN Recent(requests[c]) ELSE requests[c]]
        /\ blockedUntil' = Dropped(drop, blockedUntil, 0)
        /\ now' = now /\ conns' = conns /\ allowed' = allowed /\ refusedAt' = refusedAt
    BY <1>6 DEF Cleanup
  <2>2. \A e \in drop : e \in Range(tracked) /\ Recent(requests[e]) = << >> /\ (blockedUntil[e] = 0 \/ now >= blockedUntil[e])
    OBVIOUS
  <2> HIDE DEF drop
  <2>3. tracked' \in Seq(Clients) /\ Len(tracked') <= maxTrackedClients
    BY <1>2, <2>1
  <2>4. /\ requests' = [e \in Clients |-> requests'[e]] /\ blockedUntil' = [e \in Clients |-> blockedUntil'[e]]
        /\ allowed' = [e \in Clients |-> allowed'[e]] /\ refusedAt' = [e \in Clients |-> refusedAt'[e]]
    BY <2>1, LimiterMaps DEF Dropped
  <2>5. ASSUME NEW e \in Clients
        PROVE  ClientOK(requests'[e], allowed'[e], blockedUntil'[e], refusedAt'[e], now)
    <3>1. /\ allowed'[e] = allowed[e] /\ refusedAt'[e] = refusedAt[e]
          /\ requests'[e] = IF e \in Range(tracked) THEN Recent(requests[e]) ELSE requests[e]
          /\ blockedUntil'[e] = IF e \in drop THEN 0 ELSE blockedUntil[e]
      BY <2>1 DEF Dropped
    <3>2. ClientOK(requests[e], allowed[e], blockedUntil[e], refusedAt[e], now)
      BY <1>1
    <3>3. ClientOK(Recent(requests[e]), allowed[e], blockedUntil[e], refusedAt[e], now)
      BY <1>1, <3>2, ClientRecent
    <3>4. CASE e \notin drop \/ blockedUntil[e] = 0
      BY <3>1, <3>2, <3>3, <3>4
    <3>5. CASE e \in drop /\ blockedUntil[e] # 0
      <4>1. ClientOK(<< >>, allowed[e], 0, refusedAt[e], now)
        BY <1>1, <2>2, <3>2, <3>5, ClientUnblocks
      <4> QED  BY <2>2, <3>1, <3>5, <4>1
    <3> QED  BY <3>4, <3>5
  <2> QED  BY <1>1, <2>1, <2>3, <2>4, <2>5, LimiterAssembled
<1>7. CASE Tick
  <2>1. now' \in Times /\ now <= now' /\ UNCHANGED <<conns, tracked, requests, blockedUntil, allowed, refusedAt>>
    BY <1>1, <1>7, LimiterNumbers DEF Tick, clientVars, Times
  <2>2. \A e \in Clients : ClientOK(requests[e], allowed[e], blockedUntil[e], refusedAt[e], now')
    BY <1>1, <2>1, ClientTick
  <2> QED  BY <1>1, <2>1, <2>2, LimiterMaps, LimiterAssembled
<1>8. CASE UNCHANGED limiterVars
  BY <1>1, <1>8, LimiterMaps, LimiterAssembled DEF limiterVars
<1> QED  BY <1>3, <1>4, <1>5, <1>6, <1>7, <1>8 DEF LimiterNext

\* The invariant implies the window bound and that blocks hold.
LEMMA LimiterSound == LimiterInv => LimiterTypeOK /\ WindowBound /\ BlockHolds
<1> SUFFICES ASSUME LimiterInv PROVE LimiterTypeOK /\ WindowBound /\ BlockHolds
  OBVIOUS
<1>1. LimiterTypeOK
  BY DEF LimiterInv, LimiterTypeOK, Times
<1>2. now \in Times /\ \A c \in Clients : ClientOK(requests[c], allowed[c], blockedUntil[c], refusedAt[c], now)
  BY DEF LimiterInv
<1>3. WindowBound
  BY <1>2, ClientWindow DEF WindowBound, Times
<1>4. \A c \in Clients : DOMAIN allowed[c] = 1..Len(allowed[c])
  BY DEF LimiterInv
<1>5. BlockHolds
  BY <1>2, <1>4 DEF BlockHolds, ClientOK, BlockTrue
<1> QED  BY <1>1, <1>3, <1>5

-----------------------------------------------------------------------------
(* Pairing and polling: the count that lets a code out still holds when    *)
(* the code is inserted, and what a poll has passed it has emitted.        *)
PairRows == [code : Nat, age : Nat]
Polls == [rows : Nat, last : Nat, batch : Nat, next : Nat, polling : BOOLEAN, seen : SUBSET Nat]
RoomKept ==
  /\ IsFiniteSet(Pending) /\ PairingCap
  /\ asking # NoSender => Cardinality(Pending) < MaxPendingPairs
PollPassed == imsg.polling => \A r \in 1..(imsg.next - 1) : r \in imsg.seen
InboundInv ==
  /\ pairs \in [Senders -> PairRows] /\ codes \in Nat /\ imsg \in Polls
  /\ RoomKept /\ PollSkipsNothing /\ PollPassed

\* The initial states satisfy the invariant of pairing codes and poll position.
LEMMA InboundStart == InboundInit => InboundInv
<1> SUFFICES ASSUME InboundInit PROVE InboundInv
  OBVIOUS
<1>1. pairs \in [Senders -> PairRows] /\ codes \in Nat /\ imsg \in Polls
  BY DEF InboundInit, NoCode, PairRows, Polls
<1>2. Pending = {}
  BY DEF InboundInit, NoCode, Pending
<1>3. RoomKept
  BY <1>2, FS_EmptySet, InboundBounds DEF RoomKept, PairingCap, InboundInit
<1>4. PollSkipsNothing /\ PollPassed
  BY DEF InboundInit, PollSkipsNothing, PollPassed
<1> QED  BY <1>1, <1>3, <1>4 DEF InboundInv

(* Fewer pending requests leave as much room.                              *)
LEMMA RoomStays ==
  ASSUME InboundInv, Pending' \subseteq Pending,
         asking' = asking \/ asking' = NoSender \/ Cardinality(Pending') < MaxPendingPairs
  PROVE  RoomKept'
<1>1. IsFiniteSet(Pending) /\ PairingCap /\ (asking # NoSender => Cardinality(Pending) < MaxPendingPairs) /\ MaxPendingPairs \in Nat
  BY InboundBounds DEF InboundInv, RoomKept
<1>2. IsFiniteSet(Pending') /\ Cardinality(Pending') <= Cardinality(Pending)
  BY <1>1, FS_Subset
<1>3. Cardinality(Pending) \in Nat /\ Cardinality(Pending') \in Nat
  BY <1>1, <1>2, FS_CardinalityType
<1>4. PairingCap'
  BY <1>1, <1>2, <1>3 DEF PairingCap
<1> QED  BY <1>1, <1>2, <1>3, <1>4 DEF RoomKept

(* A step that leaves the poll alone.                                      *)
LEMMA PollRests ==
  ASSUME InboundInv, imsg' = imsg
  PROVE  imsg' \in Polls /\ PollSkipsNothing' /\ PollPassed'
BY DEF InboundInv, PollSkipsNothing, PollPassed

(* A step that leaves the pairing store alone.                             *)
LEMMA PairsRest ==
  ASSUME InboundInv, UNCHANGED <<pairs, codes, asking>>
  PROVE  pairs' \in [Senders -> PairRows] /\ codes' \in Nat /\ RoomKept'
<1>1. Pending' = Pending
  BY DEF Pending
<1>2. RoomKept'
  BY <1>1, RoomStays
<1> QED  BY <1>2 DEF InboundInv

\* Every step of pairing and polling keeps the invariant.
LEMMA InboundStep ==
  ASSUME InboundInv, [InboundNext]_inboundVars
  PROVE  InboundInv'
<1>1. pairs \in [Senders -> PairRows] /\ codes \in Nat /\ imsg \in Polls /\ PollSkipsNothing /\ PollPassed
  BY DEF InboundInv
<1>2. NoCode \in PairRows /\ NoCode.code = 0
  BY DEF NoCode, PairRows
<1>3. \A r \in PairRows : r.code \in Nat /\ r.age \in Nat
  BY DEF PairRows
<1>4. ASSUME NEW a, AccessChanges(a) PROVE InboundInv'
  <2>1. UNCHANGED <<pairs, codes, asking>> /\ imsg' = imsg
    BY <1>4 DEF AccessChanges
  <2> QED  BY <2>1, PairsRest, PollRests DEF InboundInv
<1>5. CASE CodeInserted
  <2> DEFINE row == [code |-> codes + 1, age |-> 0]
  <2>1. asking # NoSender /\ codes' = codes + 1 /\ asking' = NoSender /\ imsg' = imsg /\ pairs' = [pairs EXCEPT ![asking] = row]
    BY <1>5 DEF CodeInserted
  <2>2. row \in PairRows
    BY <1>1 DEF PairRows
  <2>3. pairs' \in [Senders -> PairRows] /\ \A s \in Senders : s # asking => pairs'[s] = pairs[s]
    <3> HIDE DEF row
    <3> QED  BY <1>1, <2>1, <2>2
  <2>4. Pending' \subseteq Pending \cup {asking}
    BY <2>3 DEF Pending
  <2>5. IsFiniteSet(Pending) /\ Cardinality(Pending) < MaxPendingPairs /\ MaxPendingPairs \in Nat /\ Cardinality(Pending) \in Nat
    BY <2>1, InboundBounds, FS_CardinalityType DEF InboundInv, RoomKept
  <2>6. IsFiniteSet(Pending \cup {asking}) /\ Cardinality(Pending \cup {asking}) <= Cardinality(Pending) + 1
    BY <2>5, FS_AddElement
  <2>7. IsFiniteSet(Pending') /\ Cardinality(Pending') <= Cardinality(Pending \cup {asking})
    BY <2>4, <2>6, FS_Subset
  <2>8. Cardinality(Pending') \in Nat /\ Cardinality(Pending \cup {asking}) \in Nat
    BY <2>6, <2>7, FS_CardinalityType
  <2>9. Cardinality(Pending') <= MaxPendingPairs
    BY <2>5, <2>6, <2>7, <2>8
  <2>10. RoomKept'
    BY <2>1, <2>7, <2>9 DEF RoomKept, PairingCap
  <2> QED  BY <1>1, <2>1, <2>3, <2>10, PollRests DEF InboundInv
<1>6. CASE CodesAge
  <2>1. asking' = asking /\ codes' = codes /\ imsg' = imsg
    BY <1>6 DEF CodesAge
  <2>2. \A s \in Senders : [pairs[s] EXCEPT !.age = @ + 1] \in PairRows /\ [pairs[s] EXCEPT !.age = @ + 1].code = pairs[s].code
    BY <1>1 DEF PairRows
  <2>3. pairs' = [s \in Senders |-> IF s \in Pending /\ pairs[s].age <= CodeTTL THEN [pairs[s] EXCEPT !.age = @ + 1] ELSE pairs[s]]
    BY <1>6 DEF CodesAge
  <2>4. \A s \in Senders : pairs'[s] \in PairRows /\ pairs'[s].code = pairs[s].code
    BY <1>1, <2>2, <2>3
  <2>5. pairs' \in [Senders -> PairRows]
    BY <2>3, <2>4
  <2>6. Pending' \subseteq Pending
    BY <2>4 DEF Pending
  <2> QED  BY <1>1, <2>1, <2>5, <2>6, RoomStays, PollRests DEF InboundInv
<1>7. ASSUME NEW all, OperatorClears(all) PROVE InboundInv'
  <2>1. asking' = asking /\ codes' = codes /\ imsg' = imsg
        /\ pairs' = [s \in Senders |-> IF all \/ Sweepable(pairs[s]) THEN NoCode ELSE pairs[s]]
    BY <1>7 DEF OperatorClears
  <2>2. \A s \in Senders : pairs'[s] \in {NoCode, pairs[s]}
    BY <2>1
  <2>3. pairs' \in [Senders -> PairRows]
    BY <1>1, <1>2, <2>1
  <2>4. Pending' \subseteq Pending
    BY <1>2, <2>2 DEF Pending
  <2> QED  BY <1>1, <2>1, <2>3, <2>4, RoomStays, PollRests DEF InboundInv
<1>8. ASSUME NEW s \in Senders, OperatorReads(s) PROVE InboundInv'
  <2>1. asking' = asking /\ codes' = codes /\ imsg' = imsg
        /\ (pairs' = [pairs EXCEPT ![s] = NoCode] \/ pairs' = pairs)
    BY <1>8 DEF OperatorReads
  <2>2. pairs' \in [Senders -> PairRows] /\ \A t \in Senders : pairs'[t] \in {NoCode, pairs[t]}
    BY <1>1, <1>2, <2>1
  <2>3. Pending' \subseteq Pending
    BY <1>2, <2>2 DEF Pending
  <2> QED  BY <1>1, <2>1, <2>2, <2>3, RoomStays, PollRests DEF InboundInv
<1>9. CASE OperatorGrants
  <2>1. asking' = asking /\ codes' = codes /\ imsg' = imsg /\ pairs' = [pairs EXCEPT ![operator] = NoCode]
    BY <1>9 DEF OperatorGrants
  <2>2. pairs' \in [Senders -> PairRows] /\ \A t \in Senders : pairs'[t] \in {NoCode, pairs[t]}
    BY <1>1, <1>2, <2>1
  <2>3. Pending' \subseteq Pending
    BY <1>2, <2>2 DEF Pending
  <2> QED  BY <1>1, <2>1, <2>2, <2>3, RoomStays, PollRests DEF InboundInv
<1>10. ASSUME NEW s \in Senders, OperatorRevokes(s) PROVE InboundInv'
  <2>1. UNCHANGED <<pairs, codes, asking>> /\ imsg' = imsg
    BY <1>10 DEF OperatorRevokes
  <2> QED  BY <2>1, PairsRest, PollRests DEF InboundInv
<1>11. ASSUME NEW s \in Senders, Arrives(s) PROVE InboundInv'
  <2>1. imsg' = imsg /\ asking = NoSender
    BY <1>11 DEF Arrives
  <2>2. CASE UNCHANGED pairingVars
    <3>1. UNCHANGED <<pairs, codes, asking>>
      BY <2>2 DEF pairingVars
    <3> QED  BY <2>1, <3>1, PairsRest, PollRests DEF InboundInv
  <2>3. CASE CodeRequested(s)
    <3> DEFINE afterSweep == [t \in Senders |-> IF Sweepable(pairs[t]) THEN NoCode ELSE pairs[t]]
               left  == {t \in Senders : afterSweep[t].code # 0}
               fresh == NeedsFreshCode(s)
    <3>1. /\ codes' = codes /\ pairs' = IF fresh THEN afterSweep ELSE pairs
          /\ asking' = IF fresh /\ UnderPendingCap(Cardinality(left)) /\ codes < MaxCodes THEN s ELSE asking
      BY <2>3 DEF CodeRequested
    <3>2. afterSweep \in [Senders -> PairRows] /\ \A t \in Senders : afterSweep[t] \in {NoCode, pairs[t]}
      BY <1>1, <1>2
    <3> HIDE DEF afterSweep, fresh
    <3>3. pairs' \in [Senders -> PairRows] /\ \A t \in Senders : pairs'[t] \in {NoCode, pairs[t]}
      BY <1>1, <3>1, <3>2
    <3>4. Pending' \subseteq Pending
      BY <1>2, <3>3 DEF Pending
    <3>5. fresh => Pending' = left
      BY <3>1 DEF Pending
    <3> HIDE DEF left
    <3>6. asking' = asking \/ Cardinality(Pending') < MaxPendingPairs
      BY <3>1, <3>5 DEF UnderPendingCap
    <3> QED  BY <1>1, <2>1, <3>1, <3>3, <3>4, <3>6, RoomStays, PollRests DEF InboundInv
  <2> QED  BY <1>11, <2>2, <2>3 DEF Arrives
<1>12. imsg.rows \in Nat /\ imsg.last \in Nat /\ imsg.batch \in Nat /\ imsg.next \in Nat /\ imsg.polling \in BOOLEAN /\ imsg.seen \subseteq Nat
  BY <1>1 DEF Polls
<1>13. CASE RowArrives
  <2>1. UNCHANGED <<pairs, codes, asking>> /\ imsg' = [imsg EXCEPT !.rows = @ + 1]
    BY <1>13 DEF RowArrives
  <2>2. imsg' \in Polls
    BY <1>1, <2>1 DEF Polls
  <2>3. imsg'.last = imsg.last /\ imsg'.seen = imsg.seen /\ imsg'.next = imsg.next /\ imsg'.polling = imsg.polling
    BY <1>1, <2>1 DEF Polls
  <2>4. PollSkipsNothing' /\ PollPassed'
    BY <1>1, <2>3 DEF PollSkipsNothing, PollPassed
  <2> QED  BY <2>1, <2>2, <2>4, PairsRest DEF InboundInv
<1>14. CASE PollStarts
  <2>1. UNCHANGED <<pairs, codes, asking>> /\ imsg' = [imsg EXCEPT !.polling = TRUE, !.batch = imsg.rows, !.next = imsg.last + 1]
    BY <1>14 DEF PollStarts, PollFrom
  <2>2. imsg' \in Polls /\ imsg'.last = imsg.last /\ imsg'.seen = imsg.seen /\ imsg'.next = imsg.last + 1
    <3> DEFINE x == [imsg EXCEPT !.polling = TRUE]
               y == [x EXCEPT !.batch = imsg.rows]
    <3>1. imsg' = [y EXCEPT !.next = imsg.last + 1]
      BY <2>1
    <3>2. x \in Polls /\ x.last = imsg.last /\ x.seen = imsg.seen
      BY <1>1 DEF Polls
    <3> HIDE DEF x
    <3>3. y \in Polls /\ y.last = imsg.last /\ y.seen = imsg.seen
      BY <1>12, <3>2 DEF Polls
    <3> HIDE DEF y
    <3> QED  BY <1>12, <3>1, <3>3 DEF Polls
  <2>3. imsg'.next - 1 = imsg.last
    BY <1>12, <2>2
  <2>4. PollSkipsNothing' /\ PollPassed'
    BY <1>1, <2>2, <2>3 DEF PollSkipsNothing, PollPassed
  <2> QED  BY <2>1, <2>2, <2>4, PairsRest DEF InboundInv
<1>15. ASSUME NEW ok \in BOOLEAN, PollEmits(ok) PROVE InboundInv'
  <2>1. UNCHANGED <<pairs, codes, asking>> /\ imsg.polling
        /\ imsg' = IF ok THEN [imsg EXCEPT !.next = @ + 1, !.seen = @ \cup {imsg.next}] ELSE [imsg EXCEPT !.polling = FALSE]
    BY <1>15 DEF PollEmits
  <2>2. CASE ~ok
    <3>1. imsg' \in Polls /\ imsg'.last = imsg.last /\ imsg'.seen = imsg.seen /\ imsg'.polling = FALSE
      BY <1>1, <2>1, <2>2 DEF Polls
    <3>2. PollSkipsNothing' /\ PollPassed'
      BY <1>1, <3>1 DEF PollSkipsNothing, PollPassed
    <3> QED  BY <2>1, <3>1, <3>2, PairsRest DEF InboundInv
  <2>3. CASE ok
    <3>1. imsg' \in Polls /\ imsg'.last = imsg.last /\ imsg'.seen = imsg.seen \cup {imsg.next} /\ imsg'.next = imsg.next + 1
      <4> DEFINE x == [imsg EXCEPT !.next = imsg.next + 1]
                 w == imsg.seen \cup {imsg.next}
      <4>1. imsg' = [x EXCEPT !.seen = w]
        BY <2>1, <2>3
      <4>2. x \in Polls /\ x.last = imsg.last /\ x.next = imsg.next + 1
        BY <1>1, <1>12 DEF Polls
      <4>3. w \in SUBSET Nat
        BY <1>12
      <4> HIDE DEF x, w
      <4>4. [x EXCEPT !.seen = w] \in Polls /\ [x EXCEPT !.seen = w].last = x.last
            /\ [x EXCEPT !.seen = w].seen = w /\ [x EXCEPT !.seen = w].next = x.next
        BY <4>2, <4>3 DEF Polls
      <4> QED  BY <4>1, <4>2, <4>4 DEF w
    <3>2. PollSkipsNothing'
      BY <1>1, <3>1 DEF PollSkipsNothing
    <3>3. ASSUME NEW r \in 1..(imsg'.next - 1) PROVE r \in imsg'.seen
      <4>1. r \in 1..(imsg.next - 1) \/ r = imsg.next
        BY <1>12, <3>1
      <4> QED  BY <1>1, <2>1, <3>1, <4>1 DEF PollPassed
    <3>4. PollPassed'
      BY <3>3 DEF PollPassed
    <3> QED  BY <2>1, <3>1, <3>2, <3>4, PairsRest DEF InboundInv
  <2> QED  BY <2>2, <2>3
<1>16. CASE PollEnds
  <2> DEFINE l == IF imsg.batch > 0 /\ imsg.batch > imsg.last THEN imsg.batch ELSE imsg.last
  <2>1. UNCHANGED <<pairs, codes, asking>> /\ imsg.polling /\ imsg.next > imsg.batch
        /\ imsg' = [imsg EXCEPT !.polling = FALSE, !.last = l]
    BY <1>16 DEF PollEnds
  <2>2. l \in Nat /\ (l = imsg.last \/ l <= imsg.next - 1)
    BY <1>12, <2>1
  <2>3. \A r \in 1..l : r \in imsg.seen
    <3>1. ASSUME l <= imsg.next - 1, NEW r \in 1..l PROVE r \in imsg.seen
      <4>1. r \in 1..(imsg.next - 1)
        BY <1>12, <2>2, <3>1
      <4> QED  BY <1>1, <2>1, <4>1 DEF PollPassed
    <3>2. CASE l = imsg.last
      BY <1>1, <3>2 DEF PollSkipsNothing
    <3> QED  BY <2>2, <3>1, <3>2
  <2> HIDE DEF l
  <2>4. imsg' \in Polls /\ imsg'.last = l /\ imsg'.seen = imsg.seen /\ imsg'.polling = FALSE
    BY <1>1, <2>1, <2>2 DEF Polls
  <2>5. PollSkipsNothing' /\ PollPassed'
    BY <2>3, <2>4 DEF PollSkipsNothing, PollPassed
  <2> QED  BY <2>1, <2>4, <2>5, PairsRest DEF InboundInv
<1>17. CASE UNCHANGED inboundVars
  <2>1. UNCHANGED <<pairs, codes, asking>> /\ imsg' = imsg
    BY <1>17 DEF inboundVars
  <2> QED  BY <2>1, PairsRest, PollRests DEF InboundInv
<1> QED
  BY <1>4, <1>5, <1>6, <1>7, <1>8, <1>9, <1>10, <1>11, <1>13, <1>14, <1>15, <1>16, <1>17 DEF InboundNext

-----------------------------------------------------------------------------
(* The terminal: the scrollback is the tail of what was committed, nothing *)
(* was committed twice, and what may still be committed (the preview, or   *)
(* the text of a turn without a tool) was not committed yet.               *)
NoMidTurnSends == ~SendMidTurn
Numbered(s, n) ==
  /\ s \in Seq(Nat) /\ \A i \in 1..Len(s) : s[i] <= n
  /\ \A i, j \in 1..Len(s) : i # j => s[i] # s[j]
Apart(s, u) == \A i \in 1..Len(s), j \in 1..Len(u) : s[i] # u[j]
TailOf(s, u) ==
  /\ s \in Seq(Nat) /\ Len(s) <= Len(u)
  /\ \A i \in 1..Len(s) : s[i] = u[(Len(u) - Len(s)) + i]
FlagRows == [streaming : BOOLEAN, toolFired : BOOLEAN, spinner : BOOLEAN]
FlagsOK(f) == f \in FlagRows /\ (f.spinner => f.streaming)
TurnOK(t, n, buf) ==
  /\ t \in [on : BOOLEAN, text : Seq(Nat)] /\ Numbered(t.text, n)
  /\ ~t.on \/ ~buf => t.text = << >>
ScreenInv ==
  /\ pieces \in Nat /\ FlagsOK(flags) /\ TurnOK(screenTurn, pieces, textBuf)
  /\ Numbered(blocks, pieces) /\ TailOf(screen, blocks)
  /\ Numbered(preview, pieces) /\ Apart(preview, blocks)
  /\ ~flags.toolFired => Apart(screenTurn.text, blocks)

\* The length and the elements of a concatenation.
LEMMA ConcatFacts ==
  ASSUME NEW s \in Seq(Nat), NEW u \in Seq(Nat)
  PROVE  /\ s \o u \in Seq(Nat) /\ Len(s) \in Nat /\ Len(u) \in Nat /\ Len(s \o u) = Len(s) + Len(u)
         /\ \A i \in 1..Len(s) : (s \o u)[i] = s[i]
         /\ \A i \in 1..Len(u) : (s \o u)[Len(s) + i] = u[i]
         /\ \A i \in 1..Len(s \o u) : i \in 1..Len(s) \/ (i - Len(s) \in 1..Len(u) /\ (s \o u)[i] = u[i - Len(s)])
<1>1. s \o u \in Seq(Nat) /\ Len(s) \in Nat /\ Len(u) \in Nat /\ Len(s \o u) = Len(s) + Len(u)
  OBVIOUS
<1>2. ASSUME NEW i \in 1..Len(s) PROVE (s \o u)[i] = s[i]
  BY <1>1
<1>3. ASSUME NEW i \in 1..Len(u) PROVE (s \o u)[Len(s) + i] = u[i]
  BY <1>1
<1>4. ASSUME NEW i \in 1..Len(s \o u), i \notin 1..Len(s)
      PROVE  i - Len(s) \in 1..Len(u) /\ (s \o u)[i] = u[i - Len(s)]
  <2>1. i - Len(s) \in 1..Len(u) /\ Len(s) + (i - Len(s)) = i
    BY <1>1, <1>4
  <2>2. (s \o u)[Len(s) + (i - Len(s))] = u[i - Len(s)]
    BY <1>3, <2>1
  <2> QED  BY <2>1, <2>2
<1> QED  BY <1>1, <1>2, <1>3, <1>4

(* Numbered lists that share no number make one.                           *)
LEMMA NumberedJoins ==
  ASSUME NEW n \in Nat, NEW m \in Nat, n <= m, NEW s, NEW u, Numbered(s, n), Numbered(u, m), Apart(u, s)
  PROVE  Numbered(s \o u, m)
<1>1. s \in Seq(Nat) /\ u \in Seq(Nat) /\ (\A i \in 1..Len(s) : s[i] \in Nat) /\ (\A i \in 1..Len(u) : u[i] \in Nat)
  BY DEF Numbered
<1> DEFINE w == s \o u
<1>2. /\ w \in Seq(Nat) /\ Len(s) \in Nat /\ Len(u) \in Nat /\ Len(w) = Len(s) + Len(u)
      /\ \A i \in 1..Len(s) : w[i] = s[i]
      /\ \A i \in 1..Len(w) : i \in 1..Len(s) \/ (i - Len(s) \in 1..Len(u) /\ w[i] = u[i - Len(s)])
  BY <1>1, ConcatFacts
<1> HIDE DEF w
<1>3. ASSUME NEW i \in 1..Len(w) PROVE w[i] <= m
  <2>1. CASE i \in 1..Len(s)
    <3>1. s[i] <= n /\ s[i] \in Nat /\ w[i] = s[i]
      BY <1>1, <1>2, <2>1 DEF Numbered
    <3> QED  BY <3>1
  <2>2. CASE i - Len(s) \in 1..Len(u) /\ w[i] = u[i - Len(s)]
    BY <2>2 DEF Numbered
  <2> QED  BY <1>2, <2>1, <2>2
<1>4. ASSUME NEW i \in 1..Len(w), NEW j \in 1..Len(w), i # j PROVE w[i] # w[j]
  <2>1. CASE i \in 1..Len(s) /\ j \in 1..Len(s)
    BY <1>2, <1>4, <2>1 DEF Numbered
  <2>2. CASE i \in 1..Len(s) /\ j - Len(s) \in 1..Len(u) /\ w[j] = u[j - Len(s)]
    BY <1>2, <2>2 DEF Apart
  <2>3. CASE j \in 1..Len(s) /\ i - Len(s) \in 1..Len(u) /\ w[i] = u[i - Len(s)]
    BY <1>2, <2>3 DEF Apart
  <2>4. CASE /\ i - Len(s) \in 1..Len(u) /\ w[i] = u[i - Len(s)]
             /\ j - Len(s) \in 1..Len(u) /\ w[j] = u[j - Len(s)]
    <3>1. i - Len(s) # j - Len(s)
      BY <1>2, <1>4
    <3> QED  BY <2>4, <3>1 DEF Numbered
  <2> QED  BY <1>2, <2>1, <2>2, <2>3, <2>4
<1> QED  BY <1>2, <1>3, <1>4 DEF Numbered, w

(* The tail of a list stays its tail when both grow by the same.           *)
LEMMA TailGrows ==
  ASSUME NEW s, NEW u \in Seq(Nat), NEW p \in Seq(Nat), TailOf(s, u)
  PROVE  TailOf(s \o p, u \o p)
<1>1. s \in Seq(Nat) /\ Len(s) <= Len(u) /\ \A i \in 1..Len(s) : s[i] = u[(Len(u) - Len(s)) + i]
  BY DEF TailOf
<1> DEFINE x == s \o p
           y == u \o p
<1>2. /\ x \in Seq(Nat) /\ Len(s) \in Nat /\ Len(p) \in Nat /\ Len(x) = Len(s) + Len(p)
      /\ \A i \in 1..Len(s) : x[i] = s[i]
      /\ \A i \in 1..Len(x) : i \in 1..Len(s) \/ (i - Len(s) \in 1..Len(p) /\ x[i] = p[i - Len(s)])
  BY <1>1, ConcatFacts
<1>3. /\ y \in Seq(Nat) /\ Len(u) \in Nat /\ Len(y) = Len(u) + Len(p)
      /\ \A i \in 1..Len(u) : y[i] = u[i]
      /\ \A i \in 1..Len(p) : y[Len(u) + i] = p[i]
  BY <1>1, ConcatFacts
<1> HIDE DEF x, y
<1>4. ASSUME NEW i \in 1..Len(x) PROVE x[i] = y[(Len(y) - Len(x)) + i]
  <2>0. Len(y) - Len(x) = Len(u) - Len(s)
    BY <1>2, <1>3
  <2>1. CASE i \in 1..Len(s)
    <3>1. (Len(u) - Len(s)) + i \in 1..Len(u)
      BY <1>1, <1>2, <1>3, <2>1
    <3> QED  BY <1>1, <1>2, <1>3, <2>0, <2>1, <3>1
  <2>2. CASE i - Len(s) \in 1..Len(p) /\ x[i] = p[i - Len(s)]
    <3>1. Len(u) + (i - Len(s)) = (Len(u) - Len(s)) + i
      BY <1>2, <1>3
    <3> QED  BY <1>3, <2>0, <2>2, <3>1
  <2> QED  BY <1>2, <2>1, <2>2
<1>5. Len(x) <= Len(y)
  BY <1>1, <1>2, <1>3
<1> QED  BY <1>2, <1>4, <1>5 DEF TailOf, x, y

\* A sequence numbered below n is numbered below every larger m.
LEMMA NumberedMore ==
  ASSUME NEW n \in Nat, NEW m \in Nat, n <= m, NEW s, Numbered(s, n)
  PROVE  Numbered(s, m)
<1>1. s \in Seq(Nat) /\ \A i \in 1..Len(s) : s[i] \in Nat
  BY DEF Numbered
<1> QED  BY <1>1 DEF Numbered

(* A new number.                                                           *)
LEMMA NewNumber ==
  ASSUME NEW n \in Nat, NEW s, Numbered(s, n)
  PROVE  /\ Numbered(<<n + 1>>, n + 1) /\ Apart(<<n + 1>>, s) /\ Apart(s, <<n + 1>>)
         /\ Append(s, n + 1) = s \o <<n + 1>> /\ Numbered(Append(s, n + 1), n + 1)
<1>1. s \in Seq(Nat) /\ (\A i \in 1..Len(s) : s[i] \in Nat /\ s[i] <= n) /\ n + 1 \in Nat /\ n <= n + 1
  BY DEF Numbered
<1>2. <<n + 1>> \in Seq(Nat) /\ Len(<<n + 1>>) = 1 /\ <<n + 1>>[1] = n + 1 /\ \A i \in 1..1 : i = 1
  BY <1>1
<1>3. Numbered(<<n + 1>>, n + 1)
  BY <1>1, <1>2 DEF Numbered
<1>4. Apart(<<n + 1>>, s) /\ Apart(s, <<n + 1>>)
  BY <1>1, <1>2 DEF Apart
<1>5. Append(s, n + 1) = s \o <<n + 1>>
  BY <1>1
<1>6. Numbered(s \o <<n + 1>>, n + 1)
  BY <1>1, <1>3, <1>4, NumberedJoins
<1> QED  BY <1>3, <1>4, <1>5, <1>6

(* What shares no number with two lists shares none with their join.       *)
LEMMA ApartJoins ==
  ASSUME NEW s \in Seq(Nat), NEW u \in Seq(Nat), NEW w, Apart(w, s), Apart(w, u)
  PROVE  Apart(w, s \o u)
<1>1. \A i \in 1..Len(s \o u) : \/ i \in 1..Len(s) /\ (s \o u)[i] = s[i]
                                \/ i - Len(s) \in 1..Len(u) /\ (s \o u)[i] = u[i - Len(s)]
  BY ConcatFacts
<1> QED  BY <1>1 DEF Apart
\* Two sequences apart from w are apart from it when joined.
LEMMA JoinApart ==
  ASSUME NEW s \in Seq(Nat), NEW u \in Seq(Nat), NEW w, Apart(s, w), Apart(u, w)
  PROVE  Apart(s \o u, w)
<1>1. \A i \in 1..Len(s \o u) : \/ i \in 1..Len(s) /\ (s \o u)[i] = s[i]
                                \/ i - Len(s) \in 1..Len(u) /\ (s \o u)[i] = u[i - Len(s)]
  BY ConcatFacts
<1> QED  BY <1>1 DEF Apart
\* The empty sequence is apart from everything.
LEMMA NothingApart ==
  ASSUME NEW w, NEW n
  PROVE  Apart(<< >>, w) /\ Numbered(<< >>, n)
<1>1. Len(<< >>) = 0 /\ << >> \in Seq(Nat) /\ 1..0 = {}
  OBVIOUS
<1> QED  BY <1>1 DEF Apart, Numbered

-----------------------------------------------------------------------------
\* The initial states satisfy the invariant of the screen.
LEMMA ScreenStart == ScreenInit => ScreenInv
<1> SUFFICES ASSUME ScreenInit PROVE ScreenInv
  OBVIOUS
<1>1. /\ pieces = 0 /\ blocks = << >> /\ screen = << >> /\ preview = << >> /\ screenTurn = [on |-> FALSE, text |-> << >>]
      /\ flags = [streaming |-> FALSE, toolFired |-> FALSE, spinner |-> FALSE]
  BY DEF ScreenInit, NoTurn
<1>2. FlagsOK(flags)
  BY <1>1 DEF FlagsOK, FlagRows
<1>3. screenTurn \in [on : BOOLEAN, text : Seq(Nat)] /\ screenTurn.text = << >> /\ ~screenTurn.on
  BY <1>1
<1>4. TurnOK(screenTurn, pieces, textBuf)
  BY <1>3, NothingApart DEF TurnOK
<1>5. TailOf(<< >>, << >>)
  BY DEF TailOf
<1> QED  BY <1>1, <1>2, <1>3, <1>4, <1>5, NothingApart DEF ScreenInv

(* A commit of new numbers.                                                *)
LEMMA CommitKeeps ==
  ASSUME ScreenInv, NEW ps, NEW m \in Nat, pieces <= m, Numbered(ps, m), Apart(ps, blocks), Commits(ps)
  PROVE  Numbered(blocks', m) /\ TailOf(screen', blocks') /\ ps \in Seq(Nat) /\ blocks' = blocks \o ps /\ blocks \in Seq(Nat)
<1>1. pieces \in Nat /\ Numbered(blocks, pieces) /\ TailOf(screen, blocks) /\ ps \in Seq(Nat) /\ blocks \in Seq(Nat)
  BY DEF ScreenInv, Numbered
<1>2. screen' = screen \o ps /\ blocks' = blocks \o ps
  BY DEF Commits
<1>3. Numbered(blocks \o ps, m)
  BY <1>1, NumberedJoins
<1>4. TailOf(screen \o ps, blocks \o ps)
  BY <1>1, TailGrows
<1> QED  BY <1>1, <1>2, <1>3, <1>4

(* A notice takes a new number; it is written unless a tool ran, and then  *)
(* the preview is.                                                         *)
LEMMA NoticeKeeps ==
  ASSUME ScreenInv, pieces' = pieces + 1, AddText(<<pieces + 1>>)
  PROVE  /\ pieces' \in Nat /\ pieces <= pieces' /\ Numbered(blocks', pieces') /\ TailOf(screen', blocks')
         /\ Numbered(preview', pieces') /\ Apart(preview', blocks')
         /\ ~flags.toolFired => Apart(screenTurn.text, blocks')
<1>1. /\ pieces \in Nat /\ Numbered(blocks, pieces) /\ TailOf(screen, blocks) /\ Numbered(preview, pieces) /\ Apart(preview, blocks)
      /\ Numbered(screenTurn.text, pieces) /\ (~flags.toolFired => Apart(screenTurn.text, blocks))
      /\ flags.toolFired \in BOOLEAN
  BY DEF ScreenInv, TurnOK, FlagsOK, FlagRows
<1>2. pieces' \in Nat /\ pieces <= pieces' /\ preview' = << >>
  BY <1>1 DEF AddText
<1>3. Numbered(preview', pieces') /\ Apart(preview', blocks')
  BY <1>2, NothingApart
<1>4. CASE flags.toolFired
  <2>1. Commits(preview)
    BY <1>4 DEF AddText
  <2>2. Numbered(preview, pieces')
    BY <1>1, <1>2, NumberedMore
  <2>3. Numbered(blocks', pieces') /\ TailOf(screen', blocks')
    BY <1>1, <1>2, <2>1, <2>2, CommitKeeps
  <2> QED  BY <1>2, <1>3, <1>4, <2>3
<1>5. CASE ~flags.toolFired
  <2> DEFINE one == <<pieces + 1>>
  <2>1. Commits(one)
    BY <1>5 DEF AddText
  <2>2. Numbered(one, pieces') /\ Apart(one, blocks) /\ Apart(screenTurn.text, one)
    BY <1>1, NewNumber
  <2> HIDE DEF one
  <2>3. Numbered(blocks', pieces') /\ TailOf(screen', blocks') /\ blocks' = blocks \o one /\ one \in Seq(Nat) /\ blocks \in Seq(Nat)
    BY <1>1, <1>2, <2>1, <2>2, CommitKeeps
  <2>4. Apart(screenTurn.text, blocks')
    BY <1>1, <1>5, <2>2, <2>3, ApartJoins
  <2> QED  BY <1>2, <1>3, <2>3, <2>4
<1> QED  BY <1>1, <1>4, <1>5

\* What setStreaming and the spinner do to the screen's flags.
LEMMA FlagFacts ==
  ASSUME ScreenInv
  PROVE  /\ flags \in FlagRows /\ flags.toolFired \in BOOLEAN
         /\ FlagsOK(Streaming(flags, TRUE)) /\ ~Streaming(flags, TRUE).toolFired
         /\ FlagsOK(Streaming(flags, FALSE)) /\ Streaming(flags, FALSE).toolFired = flags.toolFired
         /\ FlagsOK([flags EXCEPT !.toolFired = TRUE]) /\ [flags EXCEPT !.toolFired = TRUE].toolFired
         /\ FlagsOK([flags EXCEPT !.spinner = flags.streaming])
         /\ [flags EXCEPT !.spinner = flags.streaming].toolFired = flags.toolFired
<1>1. flags \in FlagRows /\ flags.toolFired \in BOOLEAN /\ flags.streaming \in BOOLEAN /\ (flags.spinner => flags.streaming)
  BY DEF ScreenInv, FlagsOK, FlagRows
<1>2. FlagsOK(Streaming(flags, TRUE)) /\ ~Streaming(flags, TRUE).toolFired
  BY DEF FlagsOK, FlagRows, Streaming
<1>3. FlagsOK(Streaming(flags, FALSE)) /\ Streaming(flags, FALSE).toolFired = flags.toolFired
  <2> DEFINE x == [flags EXCEPT !.streaming = FALSE]
             y == [x EXCEPT !.spinner = FALSE]
  <2>1. Streaming(flags, FALSE) = y
    BY DEF Streaming
  <2>2. x \in FlagRows /\ x.toolFired = flags.toolFired
    BY <1>1 DEF FlagRows
  <2> HIDE DEF x
  <2>3. y \in FlagRows /\ y.toolFired = flags.toolFired /\ y.spinner = FALSE
    BY <2>2 DEF FlagRows
  <2> HIDE DEF y
  <2> QED  BY <2>1, <2>3 DEF FlagsOK
<1>4. FlagsOK([flags EXCEPT !.toolFired = TRUE]) /\ [flags EXCEPT !.toolFired = TRUE].toolFired
  BY <1>1 DEF FlagsOK, FlagRows
<1>5. FlagsOK([flags EXCEPT !.spinner = flags.streaming]) /\ [flags EXCEPT !.spinner = flags.streaming].toolFired = flags.toolFired
  BY <1>1 DEF FlagsOK, FlagRows
<1> QED  BY <1>1, <1>2, <1>3, <1>4, <1>5

(* The parts of the invariant after a step.                                *)
LEMMA ScreenAssembled ==
  ASSUME pieces' \in Nat, FlagsOK(flags'), TurnOK(screenTurn', pieces', textBuf'),
         Numbered(blocks', pieces'), TailOf(screen', blocks'),
         Numbered(preview', pieces'), Apart(preview', blocks'),
         ~flags'.toolFired => Apart(screenTurn'.text, blocks')
  PROVE  ScreenInv'
BY DEF ScreenInv

\* Every step of the screen keeps its invariant when nothing is sent in the middle of a turn.
LEMMA ScreenStep ==
  ASSUME NoMidTurnSends, ScreenInv, [ScreenNext]_screenVars
  PROVE  ScreenInv'
<1>1. /\ pieces \in Nat /\ FlagsOK(flags) /\ TurnOK(screenTurn, pieces, textBuf)
      /\ Numbered(blocks, pieces) /\ TailOf(screen, blocks)
      /\ Numbered(preview, pieces) /\ Apart(preview, blocks)
      /\ (~flags.toolFired => Apart(screenTurn.text, blocks))
  BY DEF ScreenInv
<1>2. /\ screenTurn \in [on : BOOLEAN, text : Seq(Nat)] /\ Numbered(screenTurn.text, pieces)
      /\ (~screenTurn.on \/ ~textBuf => screenTurn.text = << >>)
      /\ blocks \in Seq(Nat) /\ preview \in Seq(Nat) /\ pieces <= pieces
  BY <1>1 DEF TurnOK, Numbered
<1>3. \A n, b : \A o \in BOOLEAN : TurnOK([on |-> o, text |-> << >>], n, b) /\ [on |-> o, text |-> << >>].text = << >>
  <2>1. \A o \in BOOLEAN : [on |-> o, text |-> << >>] \in [on : BOOLEAN, text : Seq(Nat)] /\ [on |-> o, text |-> << >>].text = << >>
    OBVIOUS
  <2> QED  BY <2>1, NothingApart DEF TurnOK
<1>4. ASSUME NEW m \in Nat, pieces <= m
      PROVE  /\ TurnOK(screenTurn, m, textBuf) /\ Numbered(blocks, m) /\ Numbered(preview, m) /\ Numbered(screenTurn.text, m)
  BY <1>1, <1>2, <1>4, NumberedMore DEF TurnOK
<1>5. CASE UserSends
  <2>1. ~screenTurn.on /\ UNCHANGED <<screen, blocks, preview, pieces>>
    BY <1>5 DEF UserSends, NothingCommitted, NoMidTurnSends
  <2>2. screenTurn' = [on |-> TRUE, text |-> << >>] /\ flags' = Streaming(flags, TRUE)
    BY <1>5, <2>1 DEF UserSends
  <2>3. TurnOK(screenTurn', pieces', textBuf') /\ screenTurn'.text = << >>
    BY <1>3, <2>2
  <2>4. Apart(screenTurn'.text, blocks') /\ FlagsOK(flags')
    BY <2>2, <2>3, NothingApart, FlagFacts
  <2> QED  BY <1>1, <2>1, <2>3, <2>4, ScreenAssembled
<1>6. CASE Notifies
  <2>1. pieces' = pieces + 1 /\ AddText(<<pieces + 1>>) /\ UNCHANGED <<screenTurn, flags, textBuf>>
    BY <1>6 DEF Notifies
  <2>2. /\ pieces' \in Nat /\ pieces <= pieces' /\ Numbered(blocks', pieces') /\ TailOf(screen', blocks')
        /\ Numbered(preview', pieces') /\ Apart(preview', blocks')
        /\ (~flags.toolFired => Apart(screenTurn.text, blocks'))
    BY <2>1, NoticeKeeps
  <2>3. TurnOK(screenTurn, pieces', textBuf)
    BY <1>4, <2>2
  <2> QED  BY <1>1, <2>1, <2>2, <2>3, ScreenAssembled
<1>7. CASE Interrupts
  <2>1. pieces' = pieces + 1 /\ AddText(<<pieces + 1>>) /\ UNCHANGED <<screenTurn, textBuf>> /\ flags' = Streaming(flags, FALSE)
    BY <1>7 DEF Interrupts
  <2>2. /\ pieces' \in Nat /\ pieces <= pieces' /\ Numbered(blocks', pieces') /\ TailOf(screen', blocks')
        /\ Numbered(preview', pieces') /\ Apart(preview', blocks')
        /\ (~flags.toolFired => Apart(screenTurn.text, blocks'))
    BY <2>1, NoticeKeeps
  <2>3. TurnOK(screenTurn, pieces', textBuf)
    BY <1>4, <2>2
  <2>4. FlagsOK(flags') /\ flags'.toolFired = flags.toolFired
    BY <2>1, FlagFacts
  <2> QED  BY <1>1, <2>1, <2>2, <2>3, <2>4, ScreenAssembled
<1>8. CASE Clears
  <2>1. preview' = << >> /\ screen' = << >> /\ UNCHANGED <<screenTurn, flags, textBuf, blocks, pieces>>
    BY <1>8 DEF Clears
  <2>2. Numbered(preview', pieces') /\ Apart(preview', blocks')
    BY <2>1, NothingApart
  <2>3. Len(<< >>) = 0 /\ << >> \in Seq(Nat) /\ Len(blocks) \in Nat
    BY <1>2
  <2>4. TailOf(screen', blocks')
    BY <2>1, <2>3 DEF TailOf
  <2> QED  BY <1>1, <2>1, <2>2, <2>4, ScreenAssembled
<1>9. CASE Repaints
  <2>1. screen' = blocks /\ UNCHANGED <<screenTurn, flags, textBuf, preview, blocks, pieces>>
    BY <1>9 DEF Repaints
  <2>2. TailOf(blocks, blocks)
    BY <1>2 DEF TailOf
  <2> QED  BY <1>1, <2>1, <2>2, ScreenAssembled
<1>10. CASE TextArrives
  <2> DEFINE n == pieces + 1
  <2>1. /\ screenTurn.on /\ pieces' = n /\ screenTurn' = [screenTurn EXCEPT !.text = Append(@, n)]
        /\ flags' = (IF textBuf THEN flags ELSE Streaming(flags, TRUE))
        /\ textBuf' = TRUE /\ preview' = Append(preview, n) /\ UNCHANGED <<screen, blocks>>
    BY <1>10 DEF TextArrives, NothingCommitted
  <2>2. n \in Nat /\ pieces <= n
    BY <1>1
  <2>3. /\ Numbered(Append(screenTurn.text, n), n) /\ Append(screenTurn.text, n) = screenTurn.text \o <<n>>
        /\ Numbered(Append(preview, n), n) /\ Append(preview, n) = preview \o <<n>>
        /\ Apart(<<n>>, blocks) /\ <<n>> \in Seq(Nat)
    BY <1>1, <1>2, NewNumber DEF Numbered
  <2> HIDE DEF n
  <2>4. screenTurn'.text = Append(screenTurn.text, n) /\ screenTurn'.on = TRUE /\ screenTurn' \in [on : BOOLEAN, text : Seq(Nat)]
    <3> DEFINE x == Append(screenTurn.text, n)
    <3>1. x \in Seq(Nat)
      BY <2>3 DEF Numbered
    <3>2. screenTurn' = [screenTurn EXCEPT !.text = x]
      BY <2>1
    <3> HIDE DEF x
    <3>3. screenTurn'.text = x /\ screenTurn'.on = screenTurn.on /\ screenTurn' \in [on : BOOLEAN, text : Seq(Nat)]
      BY <1>2, <3>1, <3>2
    <3> QED  BY <2>1, <3>3 DEF x
  <2>5. TurnOK(screenTurn', pieces', textBuf')
    BY <2>1, <2>3, <2>4 DEF TurnOK
  <2>6. Apart(preview', blocks')
    BY <1>1, <1>2, <2>1, <2>3, JoinApart
  <2>7. FlagsOK(flags')
    BY <1>1, <2>1, FlagFacts
  <2>8. ASSUME ~flags'.toolFired PROVE Apart(screenTurn'.text, blocks')
    <3>1. Apart(screenTurn.text, blocks)
      <4>1. CASE textBuf
        BY <1>1, <2>1, <2>8, <4>1
      <4>2. CASE ~textBuf
        BY <1>2, <4>2, NothingApart
      <4> QED  BY <4>1, <4>2
    <3>2. screenTurn.text \in Seq(Nat)
      BY <1>2
    <3> QED  BY <2>1, <2>3, <2>4, <3>1, <3>2, JoinApart
  <2>9. Numbered(blocks', pieces') /\ Numbered(preview', pieces') /\ TailOf(screen', blocks') /\ pieces' \in Nat
    BY <1>1, <1>4, <2>1, <2>2, <2>3
  <2> QED  BY <2>5, <2>6, <2>7, <2>8, <2>9, ScreenAssembled
<1>11. CASE ThinkingArrives
  <2>1. UNCHANGED <<screenTurn, flags, textBuf, preview, pieces, screen, blocks>>
    BY <1>11 DEF ThinkingArrives, NothingCommitted
  <2> QED  BY <1>1, <2>1, ScreenAssembled
<1>12. CASE ToolStarts
  <2>1. Commits(preview) /\ preview' = << >> /\ flags' = [flags EXCEPT !.toolFired = TRUE] /\ UNCHANGED <<screenTurn, textBuf, pieces>>
    BY <1>12 DEF ToolStarts
  <2>2. Numbered(blocks', pieces) /\ TailOf(screen', blocks')
    BY <1>1, <1>2, <2>1, CommitKeeps
  <2>3. Numbered(preview', pieces') /\ Apart(preview', blocks')
    BY <2>1, NothingApart
  <2>4. FlagsOK(flags') /\ flags'.toolFired
    BY <2>1, FlagFacts
  <2> QED  BY <1>1, <2>1, <2>2, <2>3, <2>4, ScreenAssembled
<1>13. CASE ToolEnds
  <2>1. flags' = [flags EXCEPT !.spinner = flags.streaming] /\ UNCHANGED <<screenTurn, textBuf, preview, pieces, screen, blocks>>
    BY <1>13 DEF ToolEnds, SpinsAgain, NothingCommitted
  <2>2. FlagsOK(flags') /\ flags'.toolFired = flags.toolFired
    BY <2>1, FlagFacts
  <2> QED  BY <1>1, <2>1, <2>2, ScreenAssembled
<1>14. ASSUME screenTurn' = [on |-> waiting > 0, text |-> << >>], UNCHANGED pieces
       PROVE  TurnOK(screenTurn', pieces', textBuf') /\ Apart(screenTurn'.text, blocks')
  <2>1. (waiting > 0) \in BOOLEAN
    OBVIOUS
  <2>2. TurnOK(screenTurn', pieces', textBuf') /\ screenTurn'.text = << >>
    BY <1>3, <1>14, <2>1
  <2> QED  BY <2>2, NothingApart
<1>15. CASE TurnDone
  <2>1. /\ screenTurn' = [on |-> waiting > 0, text |-> << >>] /\ UNCHANGED pieces /\ flags' = Streaming(flags, FALSE)
    BY <1>15 DEF TurnDone, NextTurn
  <2>2. FlagsOK(flags')
    BY <2>1, FlagFacts
  <2>3. TurnOK(screenTurn', pieces', textBuf') /\ Apart(screenTurn'.text, blocks')
    BY <1>14, <2>1
  <2>4. CASE screenTurn.text # << >>
    <3> DEFINE ps == IF flags.toolFired THEN preview ELSE screenTurn.text
    <3>1. Commits(ps) /\ preview' = << >>
      BY <1>15, <2>4 DEF TurnDone, AddText
    <3>2. Numbered(ps, pieces) /\ Apart(ps, blocks)
      BY <1>1, <1>2
    <3> HIDE DEF ps
    <3>3. Numbered(blocks', pieces) /\ TailOf(screen', blocks')
      BY <1>1, <1>2, <3>1, <3>2, CommitKeeps
    <3>4. Numbered(preview', pieces') /\ Apart(preview', blocks')
      BY <3>1, NothingApart
    <3> QED  BY <1>1, <2>1, <2>2, <2>3, <3>3, <3>4, ScreenAssembled
  <2>5. CASE screenTurn.text = << >>
    <3>1. UNCHANGED <<screen, blocks, preview>>
      BY <1>15, <2>5 DEF TurnDone, NothingCommitted
    <3> QED  BY <1>1, <2>1, <2>2, <2>3, <3>1, ScreenAssembled
  <2> QED  BY <2>4, <2>5
<1>16. CASE TurnFails
  <2>1. /\ screenTurn' = [on |-> waiting > 0, text |-> << >>] /\ UNCHANGED <<pieces, screen, blocks, preview>> /\ flags' = Streaming(flags, FALSE)
    BY <1>16 DEF TurnFails, NextTurn, NothingCommitted
  <2>2. FlagsOK(flags')
    BY <2>1, FlagFacts
  <2>3. TurnOK(screenTurn', pieces', textBuf') /\ Apart(screenTurn'.text, blocks')
    BY <1>14, <2>1
  <2> QED  BY <1>1, <2>1, <2>2, <2>3, ScreenAssembled
<1>17. CASE AnswerArrives
  <2>1. ~screenTurn.on /\ pieces' = pieces + 1 /\ AddText(<<pieces + 1>>) /\ screenTurn' = screenTurn /\ textBuf' = FALSE /\ flags' = Streaming(flags, FALSE)
    BY <1>17 DEF AnswerArrives
  <2>2. /\ pieces' \in Nat /\ pieces <= pieces' /\ Numbered(blocks', pieces') /\ TailOf(screen', blocks')
        /\ Numbered(preview', pieces') /\ Apart(preview', blocks')
        /\ (~flags.toolFired => Apart(screenTurn.text, blocks'))
    BY <2>1, NoticeKeeps
  <2>3. TurnOK(screenTurn, pieces', FALSE)
    BY <1>2, <1>4, <2>1, <2>2 DEF TurnOK
  <2>4. FlagsOK(flags') /\ flags'.toolFired = flags.toolFired
    BY <2>1, FlagFacts
  <2> QED  BY <1>1, <2>1, <2>2, <2>3, <2>4, ScreenAssembled
<1>18. CASE SocketCloses
  <2>1. /\ flags' = Streaming(flags, FALSE) /\ preview' = << >> /\ screenTurn' = [on |-> FALSE, text |-> << >>]
        /\ UNCHANGED <<screen, blocks, textBuf, pieces>>
    BY <1>18 DEF SocketCloses, NothingCommitted, NoTurn
  <2>2. FlagsOK(flags')
    BY <2>1, FlagFacts
  <2>3. TurnOK(screenTurn', pieces', textBuf') /\ screenTurn'.text = << >>
    BY <1>3, <2>1
  <2>4. Numbered(preview', pieces') /\ Apart(preview', blocks') /\ Apart(screenTurn'.text, blocks')
    BY <2>1, <2>3, NothingApart
  <2> QED  BY <1>1, <2>1, <2>2, <2>3, <2>4, ScreenAssembled
<1>19. CASE UNCHANGED screenVars
  <2>1. UNCHANGED <<screenTurn, flags, textBuf, preview, pieces, screen, blocks>>
    BY <1>19 DEF screenVars
  <2> QED  BY <1>1, <2>1, ScreenAssembled
<1> QED
  BY <1>5, <1>6, <1>7, <1>8, <1>9, <1>10, <1>11, <1>12, <1>13, <1>15, <1>16, <1>17, <1>18, <1>19 DEF ScreenNext

(* The tail of a list without repetitions has none.                        *)
LEMMA ScreenSound == ScreenInv => ShownOnce /\ SpinnerHasTurn
<1> SUFFICES ASSUME ScreenInv PROVE ShownOnce /\ SpinnerHasTurn
  OBVIOUS
<1>1. TailOf(screen, blocks) /\ Numbered(blocks, pieces)
  BY DEF ScreenInv
<1>2. screen \in Seq(Nat) /\ blocks \in Seq(Nat) /\ Len(screen) \in Nat /\ Len(blocks) \in Nat /\ Len(screen) <= Len(blocks)
  BY <1>1 DEF TailOf, Numbered
<1> DEFINE d == Len(blocks) - Len(screen)
<1>3. d \in Nat /\ d + Len(screen) = Len(blocks)
  BY <1>2
<1>4. ASSUME NEW i \in 1..Len(screen), NEW j \in 1..Len(screen), i # j PROVE screen[i] # screen[j]
  <2>1. screen[i] = blocks[d + i] /\ screen[j] = blocks[d + j]
    BY <1>1 DEF TailOf
  <2> HIDE DEF d
  <2>2. d + i \in 1..Len(blocks) /\ d + j \in 1..Len(blocks) /\ d + i # d + j
    BY <1>2, <1>3, <1>4
  <2> QED  BY <1>1, <2>1, <2>2 DEF Numbered
<1>5. ShownOnce
  BY <1>4 DEF ShownOnce
<1>6. SpinnerHasTurn
  BY DEF ScreenInv, FlagsOK, SpinnerHasTurn
<1> QED  BY <1>5, <1>6

-----------------------------------------------------------------------------
(* Conversions of messages.                                                *)
ConversionsInv == TypedTextArrives /\ SyntheticIsPlaceholder /\ TextSentOnce

\* Before the first event nothing is converted.
LEMMA ConversionsStart == MessagesInit => ConversionsInv
BY DEF MessagesInit, ConversionsInv, TypedTextArrives, SyntheticIsPlaceholder, TextSentOnce

(* The text is in the body of what was typed.                              *)
LEMMA BodyTyped ==
  ASSUME NEW e
  PROVE  /\ e.typed => Body(e) \in {"typed", "place and typed"}
         /\ \A b, i : Message(e, b, i).body = b /\ (Message(e, b, i).synthetic <=> b = "placeholder")
         /\ Dropped_.body = "dropped" /\ Dropped_.synthetic = FALSE
BY DEF Body, Message, Marked, Dropped_

(* What an adapter owes a converted message, and what a send does.         *)
ArrivesTyped(a, e) ==
  /\ e.typed /\ ~e.own /\ ~e.unaddressed
  /\ a = "whatsapp" => e.file \in {"none", "image"}
  /\ a = "line" => e.file = "none" /\ ~e.place
WellConverted(a, e, m) ==
  /\ ArrivesTyped(a, e) => m.body \in {"typed", "place and typed"}
  /\ m.synthetic <=> m.body = "placeholder"

\* A well converted event keeps the invariant.
LEMMA ConvertedKeeps ==
  ASSUME ConversionsInv, NEW a, NEW e, NEW m, Converts(a, e, m), WellConverted(a, e, m)
  PROVE  ConversionsInv'
<1>1. converted'.event = e /\ converted'.message = m /\ converted'.adapter = a /\ delivered' = delivered
  BY DEF Converts
<1>2. TypedTextArrives'
  BY <1>1 DEF WellConverted, ArrivesTyped, TypedTextArrives
<1>3. SyntheticIsPlaceholder'
  BY <1>1 DEF WellConverted, SyntheticIsPlaceholder
<1>4. TextSentOnce'
  BY <1>1 DEF ConversionsInv, TextSentOnce
<1> QED  BY <1>2, <1>3, <1>4 DEF ConversionsInv

\* A send with at most one text keeps the invariant.
LEMMA SentKeeps ==
  ASSUME ConversionsInv, NEW a, NEW o, NEW s, Sends(a, o, s), s.texts <= 1
  PROVE  ConversionsInv'
<1>1. delivered'.sent = s /\ converted' = converted
  BY DEF Sends
<1> QED  BY <1>1 DEF ConversionsInv, TypedTextArrives, SyntheticIsPlaceholder, TextSentOnce

\* Every conversion of an event or a reply keeps the invariant.
LEMMA ConversionsStep ==
  ASSUME ConversionsInv, [MessagesNext]_messageVars
  PROVE  ConversionsInv'
<1>1. CASE UNCHANGED messageVars
  BY <1>1 DEF messageVars, ConversionsInv, TypedTextArrives, SyntheticIsPlaceholder, TextSentOnce
<1>2. ASSUME NEW e \in InboundEvents
      PROVE  /\ NoPlace(e).typed = e.typed /\ NoPlace(e).file = e.file /\ NoPlace(e).place = FALSE
             /\ e.typed \in BOOLEAN /\ e.place \in BOOLEAN /\ e.own \in BOOLEAN /\ e.unaddressed \in BOOLEAN
  BY DEF NoPlace, InboundEvents
<1>3. ASSUME NEW e \in InboundEvents
      PROVE  /\ WellConverted("telegram", e, FromTelegram(e)) /\ WellConverted("discord", e, FromDiscord(e))
             /\ WellConverted("slack", e, FromSlack(e)) /\ WellConverted("signal", e, FromSignal(e))
             /\ WellConverted("googlechat", e, FromGoogleChat(e)) /\ WellConverted("imessage", e, FromIMessage(e))
  <2> DEFINE n == NoPlace(e)
  <2>1. n.typed = e.typed /\ e.typed \in BOOLEAN
    BY <1>2
  <2>2. /\ e.typed => Body(e) \in {"typed", "place and typed"}
        /\ n.typed => Body(n) \in {"typed", "place and typed"}
        /\ \A b, i : Message(e, b, i).body = b /\ (Message(e, b, i).synthetic <=> b = "placeholder")
        /\ Dropped_.body = "dropped" /\ Dropped_.synthetic = FALSE
    BY BodyTyped
  <2>3. e.typed => ~Empty(e) /\ ~Empty(n)
    BY <2>1 DEF Empty
  <2> HIDE DEF n
  <2>4. WellConverted("telegram", e, FromTelegram(e))
    <3> DEFINE m == Message(e, Body(e), e.file \in {"image", "document"} /\ Loaded(e))
    <3>1. FromTelegram(e) = IF Empty(e) \/ e.unaddressed THEN Dropped_ ELSE m
      BY DEF FromTelegram
    <3>2. m.body = Body(e) /\ (m.synthetic <=> m.body = "placeholder")
      BY DEF Message, Marked
    <3> HIDE DEF m
    <3>3. CASE Empty(e) \/ e.unaddressed
      <4>1. FromTelegram(e) = Dropped_
        BY <3>1, <3>3
      <4> QED  BY <2>2, <2>3, <3>3, <4>1 DEF WellConverted, ArrivesTyped
    <3>4. CASE ~(Empty(e) \/ e.unaddressed)
      <4>1. FromTelegram(e) = m
        BY <3>1, <3>4
      <4> QED  BY <2>2, <3>2, <4>1 DEF WellConverted, ArrivesTyped
    <3> QED  BY <3>3, <3>4
  <2>5. WellConverted("discord", e, FromDiscord(e))
    BY <2>1, <2>2, <2>3 DEF WellConverted, ArrivesTyped, FromDiscord, n
  <2>6. WellConverted("slack", e, FromSlack(e))
    BY <2>1, <2>2, <2>3 DEF WellConverted, ArrivesTyped, FromSlack, n
  <2>7. WellConverted("signal", e, FromSignal(e))
    BY <2>1, <2>2 DEF WellConverted, ArrivesTyped, FromSignal
  <2>8. WellConverted("googlechat", e, FromGoogleChat(e))
    BY <2>1, <2>2, <2>3 DEF WellConverted, ArrivesTyped, FromGoogleChat, n
  <2>9. WellConverted("imessage", e, FromIMessage(e))
    BY <2>1, <2>2, <2>3 DEF WellConverted, ArrivesTyped, FromIMessage, n
  <2> QED  BY <2>4, <2>5, <2>6, <2>7, <2>8, <2>9
<1>4. ASSUME NEW e \in InboundEvents PROVE WellConverted("whatsapp", e, FromWhatsApp(e))
  <2> DEFINE r == WhatsAppReads(e)
  <2>1. r.typed = (e.typed /\ e.file \in {"none", "image"})
    BY DEF WhatsAppReads, InboundEvents
  <2>2. FromWhatsApp(e) = IF e.own \/ Empty(r) THEN Dropped_ ELSE Message(r, Body(r), r.file \in {"image", "document"} /\ Loaded(e))
    BY DEF FromWhatsApp
  <2> HIDE DEF r
  <2>3. /\ r.typed => Body(r) \in {"typed", "place and typed"}
        /\ \A b, i : Message(r, b, i).body = b /\ (Message(r, b, i).synthetic <=> b = "placeholder")
        /\ Dropped_.body = "dropped" /\ Dropped_.synthetic = FALSE
    BY BodyTyped
  <2>4. r.typed => ~Empty(r)
    BY DEF Empty
  <2> DEFINE m == Message(r, Body(r), r.file \in {"image", "document"} /\ Loaded(e))
  <2>5. m.body = Body(r) /\ (m.synthetic <=> m.body = "placeholder")
    BY <2>3
  <2>6. FromWhatsApp(e) = IF e.own \/ Empty(r) THEN Dropped_ ELSE m
    BY <2>2
  <2> HIDE DEF m
  <2>7. CASE e.own \/ Empty(r)
    <3>1. FromWhatsApp(e) = Dropped_
      BY <2>6, <2>7
    <3>2. ~ArrivesTyped("whatsapp", e)
      BY <2>1, <2>4, <2>7 DEF ArrivesTyped
    <3> QED  BY <2>3, <3>1, <3>2 DEF WellConverted
  <2>8. CASE ~(e.own \/ Empty(r))
    <3>1. FromWhatsApp(e) = m
      BY <2>6, <2>8
    <3>2. ArrivesTyped("whatsapp", e) => r.typed
      BY <2>1 DEF ArrivesTyped
    <3> QED  BY <2>3, <2>5, <3>1, <3>2 DEF WellConverted
  <2> QED  BY <2>7, <2>8
<1>5. ASSUME NEW e \in InboundEvents PROVE WellConverted("line", e, FromLine(e))
  <2> DEFINE k == LineKind(e)
  <2>1. e.file = "none" /\ ~e.place => k = e
    BY DEF LineKind
  <2>2. FromLine(e) = IF Empty(k) THEN Dropped_ ELSE Message(k, Body(k), k.file \in {"image", "document"} /\ Loaded(e))
    BY DEF FromLine
  <2> HIDE DEF k
  <2>3. /\ k.typed => Body(k) \in {"typed", "place and typed"}
        /\ \A b, i : Message(k, b, i).body = b /\ (Message(k, b, i).synthetic <=> b = "placeholder")
        /\ Dropped_.body = "dropped" /\ Dropped_.synthetic = FALSE
    BY BodyTyped
  <2>4. k.typed => ~Empty(k)
    BY DEF Empty
  <2> DEFINE m == Message(k, Body(k), k.file \in {"image", "document"} /\ Loaded(e))
  <2>5. m.body = Body(k) /\ (m.synthetic <=> m.body = "placeholder")
    BY <2>3
  <2>6. FromLine(e) = IF Empty(k) THEN Dropped_ ELSE m
    BY <2>2
  <2> HIDE DEF m
  <2>7. CASE Empty(k)
    <3>1. FromLine(e) = Dropped_
      BY <2>6, <2>7
    <3>2. ~ArrivesTyped("line", e)
      BY <2>1, <2>4, <2>7 DEF ArrivesTyped
    <3> QED  BY <2>3, <3>1, <3>2 DEF WellConverted
  <2>8. CASE ~(Empty(k))
    <3>1. FromLine(e) = m
      BY <2>6, <2>8
    <3>2. ArrivesTyped("line", e) => k.typed
      BY <2>1 DEF ArrivesTyped
    <3> QED  BY <2>3, <2>5, <3>1, <3>2 DEF WellConverted
  <2> QED  BY <2>7, <2>8
<1>6. ASSUME NEW e \in InboundEvents,
             \/ Converts("telegram", e, FromTelegram(e)) \/ Converts("discord", e, FromDiscord(e))
             \/ Converts("slack", e, FromSlack(e))       \/ Converts("whatsapp", e, FromWhatsApp(e))
             \/ Converts("signal", e, FromSignal(e))     \/ Converts("line", e, FromLine(e))
             \/ Converts("googlechat", e, FromGoogleChat(e)) \/ Converts("imessage", e, FromIMessage(e))
      PROVE  ConversionsInv'
  BY <1>3, <1>4, <1>5, <1>6, ConvertedKeeps
<1>7. \A b : Once(b) <= 1
  BY DEF Once
<1>8. \A t, f : Sent(t, f).texts = t
  BY DEF Sent
<1>9. ASSUME NEW o \in OutboundMessages
      PROVE  /\ ByTelegram(o).texts <= 1 /\ ByWhatsApp(o).texts <= 1 /\ ByDiscord(o).texts <= 1 /\ BySignal(o).texts <= 1
             /\ ByIMessage(o).texts <= 1 /\ ByLine(o).texts <= 1 /\ BySlack(o).texts <= 1 /\ ByGoogleChat(o).texts <= 1
  BY <1>7, <1>8 DEF ByTelegram, ByWhatsApp, ByDiscord, BySignal, ByIMessage, ByLine, BySlack, ByGoogleChat
<1>10. ASSUME NEW o \in OutboundMessages,
              \/ Sends("telegram", o, ByTelegram(o)) \/ Sends("discord", o, ByDiscord(o))
              \/ Sends("slack", o, BySlack(o))       \/ Sends("whatsapp", o, ByWhatsApp(o))
              \/ Sends("signal", o, BySignal(o))     \/ Sends("line", o, ByLine(o))
              \/ Sends("googlechat", o, ByGoogleChat(o)) \/ Sends("imessage", o, ByIMessage(o))
       PROVE  ConversionsInv'
  BY <1>9, <1>10, SentKeeps
<1> QED  BY <1>1, <1>6, <1>10 DEF MessagesNext

-----------------------------------------------------------------------------
(* The parts side by side (MCStores): a step of the whole is a step of a   *)
(* part or leaves it alone.                                                *)
LEMMA IngressPartsStep ==
  ASSUME [StoresNext]_allVars
  PROVE  /\ [LimiterNext]_limiterVars /\ [InboundNext]_inboundVars
         /\ [ScreenNext]_screenVars /\ [MessagesNext]_messageVars
<1>1. CASE UNCHANGED allVars
  BY <1>1 DEF allVars
<1>2. CASE StoresNext
  BY <1>2 DEF StoresNext, StepWebhooks, StepLimiter, StepMessages, StepAccess, StepScreen, StepThreads, StepGoals, StepSkills,
              StepMemory, StepHooks, StepVault, StepCredentials, StepMembers, StepNotes, Rest
<1> QED  BY <1>1, <1>2

(* No client gets more than its window or anything during its block, no    *)
(* channel more pairing requests than its cap, and no poll steps over a    *)
(* message (security.ts, pairing-store.ts, imessage/channel.ts), provided  *)
(* a block lasts at least as long as the window.                           *)
THEOREM IngressIsBounded ==
  ASSUME BlockOutlastsWindow
  PROVE  StoresSpec => []IngressSound
<1>1. StoresInit => LimiterInv /\ InboundInv
  BY LimiterStart, InboundStart DEF StoresInit
<1>2. LimiterInv /\ InboundInv /\ [StoresNext]_allVars => (LimiterInv /\ InboundInv)'
  BY IngressPartsStep, LimiterStep, InboundStep
<1>3. LimiterInv /\ InboundInv => IngressSound
  BY LimiterSound DEF InboundInv, RoomKept, IngressSound
<1> QED  BY <1>1, <1>2, <1>3, PTL DEF StoresSpec

(* Typed text survives the conversion of every adapter and is sent once,   *)
(* and the terminal shows a reply once (channels/*, chat-tui.ts), provided *)
(* nothing is sent while a turn runs.                                      *)
THEOREM MessagesAreSound ==
  ASSUME NoMidTurnSends
  PROVE  StoresSpec => []MessagesSound
<1>1. StoresInit => ScreenInv /\ ConversionsInv
  BY ScreenStart, ConversionsStart DEF StoresInit
<1>2. ScreenInv /\ ConversionsInv /\ [StoresNext]_allVars => (ScreenInv /\ ConversionsInv)'
  BY IngressPartsStep, ScreenStep, ConversionsStep
<1>3. ScreenInv /\ ConversionsInv => MessagesSound
  BY ScreenSound DEF ConversionsInv, MessagesSound
<1> QED  BY <1>1, <1>2, <1>3, PTL DEF StoresSpec

-----------------------------------------------------------------------------
(* The hooks of an agent: what the tracker and the loop guard remember.    *)
(* The last k elements of a list are t.                                    *)
EndsWith(s, t, k) == k <= Len(s) /\ \A i \in 1..Len(s) : i > Len(s) - k => s[i] = t

(* What Consecutive counts.                                                *)
LEMMA ConsecutiveCounts ==
  ASSUME NEW X, NEW s \in Seq(X), NEW t
  PROVE  /\ Consecutive(s, t) \in Nat
         /\ \A k \in Nat : EndsWith(s, t, k) <=> k < Consecutive(s, t)
<1> DEFINE T == {m \in Nat : m <= Len(s) /\ \A k \in 1..Len(s) : k > m => s[k] = t}
           run == {i \in 1..Len(s) : \A k \in i..Len(s) : s[k] = t}
<1>1. Len(s) \in Nat /\ Len(s) \in T
  OBVIOUS
<1>2. PICK m \in T : \A n \in T : m <= n
  <2>1. T \subseteq Nat /\ T # {}
    BY <1>1
  <2> HIDE DEF T
  <2> QED  BY <2>1, LeastNumber
<1>3. m \in Nat /\ m <= Len(s) /\ \A k \in 1..Len(s) : k > m => s[k] = t
  BY <1>2
<1>4. m # 0 => s[m] # t
  <2> SUFFICES ASSUME m # 0, s[m] = t PROVE FALSE
    OBVIOUS
  <2>1. m - 1 \in Nat /\ m - 1 <= Len(s) /\ \A k \in 1..Len(s) : k > m - 1 => s[k] = t
    BY <1>3
  <2>2. m - 1 \in T
    BY <2>1
  <2> HIDE DEF T
  <2>3. m <= m - 1
    BY <1>2, <2>2
  <2> QED  BY <1>3, <2>3
<1>5. run = (m + 1)..Len(s)
  <2>1. ASSUME NEW i \in run PROVE i \in (m + 1)..Len(s)
    <3>1. i \in 1..Len(s) /\ \A k \in i..Len(s) : s[k] = t
      BY <2>1
    <3>2. i > m
      <4> SUFFICES ASSUME i <= m PROVE FALSE
        BY <1>3, <3>1
      <4>1. m \in i..Len(s) /\ m # 0
        BY <1>3, <3>1
      <4>2. s[m] = t
        BY <3>1, <4>1
      <4> QED  BY <1>4, <4>1, <4>2
    <3> QED  BY <1>1, <1>3, <3>1, <3>2
  <2>2. ASSUME NEW i \in (m + 1)..Len(s) PROVE i \in run
    <3>1. i \in 1..Len(s) /\ \A k \in i..Len(s) : k \in 1..Len(s) /\ k > m
      BY <1>1, <1>3
    <3> QED  BY <1>3, <3>1
  <2> HIDE DEF run
  <2> QED  BY <2>1, <2>2
<1>6. Cardinality(run) = Len(s) - m
  <2>1. m + 1 \in Int /\ Len(s) \in Int
    BY <1>1, <1>3
  <2>2. Cardinality((m + 1)..Len(s)) = IF m + 1 > Len(s) THEN 0 ELSE Len(s) - (m + 1) + 1
    BY <2>1, FS_Interval
  <2> HIDE DEF run
  <2> QED  BY <1>1, <1>3, <1>5, <2>2
<1>7. Consecutive(s, t) = 1 + Cardinality(run)
  BY DEF Consecutive
<1> HIDE DEF run, T
<1>8. Consecutive(s, t) = 1 + (Len(s) - m)
  BY <1>6, <1>7
<1>9. ASSUME NEW k \in Nat, k <= Len(s) - m PROVE EndsWith(s, t, k)
  BY <1>1, <1>3, <1>9 DEF EndsWith
<1>10. ASSUME NEW k \in Nat, k > Len(s) - m, EndsWith(s, t, k) PROVE FALSE
  <2>1. m # 0 /\ m \in 1..Len(s) /\ m > Len(s) - k
    BY <1>1, <1>3, <1>10 DEF EndsWith
  <2> QED  BY <1>4, <1>10, <2>1 DEF EndsWith
<1> QED  BY <1>1, <1>3, <1>8, <1>9, <1>10

(* The run that goes on is the one the interceptor knows, the tracker has  *)
(* no other as running, and an evicted thread has none.                    *)
HookInv ==
  /\ hookRun \in [HookRuns -> {"no", "on", "over"}] /\ trackedRuns \in [HookRuns -> {"none", "running", "busy", "completed"}]
  /\ \A r \in HookRuns : hookRun[r] = "on" => r = agentId /\ ~threadGone
  /\ \A q \in HookRuns : trackedRuns[q] \in {"running", "busy"} => hookRun[q] = "on"

(* e: the calls that were let through, n: the loop guard's entries.        *)
LoopOK(e, n) ==
  /\ e \in Seq(HookTools) /\ n \in Seq(HookTools)
  /\ \A t \in HookTools : \A k \in Nat : EndsWith(e, t, k) => EndsWith(n, t, k)
  /\ \A i \in 1..Len(e) : ~ EndsWith(SubSeq(e, 1, i - 1), e[i], LoopThreshold - 1)
LoopInv ==
  /\ DOMAIN executed = HookRuns /\ DOMAIN recent = HookRuns
  /\ \A r \in HookRuns : LoopOK(executed[r], recent[r])

\* An agent no run of which has started.
LEMMA HooksStart ==
  ASSUME HooksInit
  PROVE  HookInv /\ LoopInv
<1>1. HookInv
  BY DEF HooksInit, HookInv
<1>2. LoopOK(<< >>, << >>)
  <2>1. << >> \in Seq(HookTools) /\ Len(<< >>) = 0
    OBVIOUS
  <2> QED  BY <2>1 DEF LoopOK
<1> QED  BY <1>1, <1>2 DEF HooksInit, LoopInv

(* Every step of the interceptors keeps the tracker true to the runs, as   *)
(* long as a run starts only when the last one ended.                      *)
LEMMA HookStep ==
  ASSUME ~RunsOverlap, HookInv, [HooksNext]_hookVars
  PROVE  HookInv'
<1> USE DEF HookInv
<1>1. CASE UNCHANGED hookVars
  BY <1>1 DEF hookVars
<1>2. ASSUME NEW r \in HookRuns, RunStarts(r) PROVE HookInv'
  BY <1>2 DEF RunStarts, StartTracking
<1>3. ASSUME NEW r \in HookRuns, ModelCalled(r) PROVE HookInv'
  BY <1>3 DEF ModelCalled
<1>4. ASSUME NEW r \in HookRuns, UpdateActivity(r) PROVE HookInv'
  BY <1>4 DEF UpdateActivity
<1>5. ASSUME NEW r \in HookRuns, RunFinishes(r) PROVE HookInv'
  BY <1>5 DEF RunFinishes, Finish
<1>6. ASSUME NEW r \in HookRuns, NEW t \in HookTools, ToolCalled(r, t) PROVE HookInv'
  BY <1>6 DEF ToolCalled
<1>7. ASSUME NEW r \in HookRuns, NEW t \in HookTools, NEW ok \in BOOLEAN, ToolReturns(r, t, ok) PROVE HookInv'
  BY <1>7 DEF ToolReturns
<1>8. CASE CleanupRuns
  BY <1>8 DEF CleanupRuns
<1>9. CASE FlushHooks
  BY <1>9 DEF FlushHooks
<1> QED  BY <1>1, <1>2, <1>3, <1>4, <1>5, <1>6, <1>7, <1>8, <1>9 DEF HooksNext

(* Cutting a list to the window keeps its last part.                       *)
LEMMA WindowEnds ==
  ASSUME NEW s \in Seq(HookTools), NEW t \in HookTools, NEW k \in Nat, k <= LoopWindow, EndsWith(s, t, k)
  PROVE  WindowOf(s) \in Seq(HookTools) /\ EndsWith(WindowOf(s), t, k)
<1>1. LoopWindow \in Nat /\ LoopWindow > 0 /\ Len(s) \in Nat
  BY HooksAssumption
<1>2. CASE Len(s) <= LoopWindow
  BY <1>1, <1>2 DEF WindowOf
<1>3. CASE Len(s) > LoopWindow
  <2> DEFINE m == Len(s) - LoopWindow
             w == SubSeq(s, m + 1, Len(s))
  <2>1. WindowOf(s) = w
    BY <1>1, <1>3 DEF WindowOf
  <2>2. w \in Seq(HookTools) /\ Len(w) = LoopWindow /\ \A i \in 1..LoopWindow : w[i] = s[m + i]
    BY <1>1, <1>3
  <2> HIDE DEF w
  <2>3. ASSUME NEW i \in 1..LoopWindow, i > LoopWindow - k PROVE w[i] = t
    <3>1. m + i \in 1..Len(s) /\ m + i > Len(s) - k
      BY <1>1, <1>3, <2>3
    <3>2. s[m + i] = t
      BY <3>1 DEF EndsWith
    <3> QED  BY <2>2, <3>2
  <2> QED  BY <2>1, <2>2, <2>3, <1>1 DEF EndsWith
<1> QED  BY <1>1, <1>2, <1>3

(* One more element makes the last part of a list longer, or ends it.      *)
LEMMA MoreEnds ==
  ASSUME NEW s \in Seq(HookTools), NEW t \in HookTools, NEW a, a = Append(s, t)
  PROVE  /\ a \in Seq(HookTools)
         /\ \A k \in Nat : EndsWith(s, t, k) <=> EndsWith(a, t, k + 1)
         /\ \A u, k : k \in Nat /\ k > 0 /\ u # t => ~ EndsWith(a, u, k)
<1>1. a \in Seq(HookTools) /\ Len(s) \in Nat /\ Len(a) = Len(s) + 1 /\ a[Len(s) + 1] = t /\ \A i \in 1..Len(s) : a[i] = s[i]
  OBVIOUS
<1>2. ASSUME NEW k \in Nat PROVE EndsWith(s, t, k) => EndsWith(a, t, k + 1)
  <2> SUFFICES ASSUME EndsWith(s, t, k), NEW i \in 1..Len(a), i > Len(a) - (k + 1) PROVE a[i] = t
    BY <1>1 DEF EndsWith
  <2>1. i = Len(s) + 1 \/ (i \in 1..Len(s) /\ i > Len(s) - k)
    BY <1>1
  <2> QED  BY <1>1, <2>1 DEF EndsWith
<1>3. ASSUME NEW k \in Nat PROVE EndsWith(a, t, k + 1) => EndsWith(s, t, k)
  BY <1>1 DEF EndsWith
<1>4. ASSUME NEW u, NEW k, k \in Nat /\ k > 0 /\ u # t PROVE ~ EndsWith(a, u, k)
  BY <1>1, <1>4 DEF EndsWith
<1> QED  BY <1>1, <1>2, <1>3, <1>4

(* No tail of the calls let through repeats one as often as the threshold. *)
LEMMA LoopShort ==
  ASSUME NEW e, NEW n, LoopOK(e, n), NEW t \in HookTools, NEW k \in Nat, EndsWith(e, t, k)
  PROVE  k < LoopThreshold
<1> SUFFICES ASSUME k >= LoopThreshold PROVE FALSE
  BY HooksAssumption
<1>1. LoopThreshold \in Nat /\ LoopThreshold >= 2
  BY HooksAssumption
<1>2. e \in Seq(HookTools) /\ Len(e) \in Nat /\ \A i \in 1..Len(e) : ~ EndsWith(SubSeq(e, 1, i - 1), e[i], LoopThreshold - 1)
  BY DEF LoopOK
<1>3. k <= Len(e) /\ \A i \in 1..Len(e) : i > Len(e) - k => e[i] = t
  BY DEF EndsWith
<1> DEFINE p == SubSeq(e, 1, Len(e) - 1)
<1>4. Len(p) = Len(e) - 1 /\ \A i \in 1..(Len(e) - 1) : p[i] = e[i]
  BY <1>1, <1>2, <1>3
<1> HIDE DEF p
<1>5. Len(e) \in 1..Len(e) /\ e[Len(e)] = t
  BY <1>1, <1>2, <1>3
<1>6. EndsWith(p, t, LoopThreshold - 1)
  <2>1. ASSUME NEW i \in 1..Len(p), i > Len(p) - (LoopThreshold - 1) PROVE p[i] = t
    <3>1. i \in 1..(Len(e) - 1)
      BY <1>4
    <3>2. i \in 1..Len(e) /\ i > Len(e) - k
      BY <1>1, <1>2, <1>4, <2>1, <3>1
    <3> QED  BY <1>3, <1>4, <3>1, <3>2
  <2> QED  BY <1>1, <1>2, <1>3, <1>4, <2>1 DEF EndsWith
<1> QED  BY <1>2, <1>5, <1>6 DEF p

(* A call that is let through.                                             *)
LEMMA LoopAllowed ==
  ASSUME NEW e, NEW n, LoopOK(e, n), NEW t \in HookTools, Consecutive(n, t) < LoopThreshold
  PROVE  LoopOK(Append(e, t), WindowOf(Append(n, t)))
<1> DEFINE a == Append(e, t)
           b == Append(n, t)
<1>1. LoopThreshold \in Nat /\ LoopThreshold >= 2 /\ LoopWindow \in Nat /\ LoopWindow >= LoopThreshold
  BY HooksAssumption
<1>2. /\ e \in Seq(HookTools) /\ n \in Seq(HookTools) /\ Len(e) \in Nat
      /\ \A u \in HookTools : \A k \in Nat : EndsWith(e, u, k) => EndsWith(n, u, k)
      /\ \A i \in 1..Len(e) : ~ EndsWith(SubSeq(e, 1, i - 1), e[i], LoopThreshold - 1)
  BY DEF LoopOK
<1>3. Len(a) = Len(e) + 1 /\ a[Len(e) + 1] = t /\ \A i \in 1..Len(e) : a[i] = e[i]
  BY <1>2
<1>4. \A i \in 1..(Len(e) + 1) : SubSeq(a, 1, i - 1) = SubSeq(e, 1, i - 1)
  BY <1>2
<1> HIDE DEF a, b
<1>5. /\ a \in Seq(HookTools)
      /\ \A k \in Nat : EndsWith(e, t, k) <=> EndsWith(a, t, k + 1)
      /\ \A u, k : k \in Nat /\ k > 0 /\ u # t => ~ EndsWith(a, u, k)
  BY <1>2, MoreEnds DEF a
<1>6. /\ b \in Seq(HookTools)
      /\ \A k \in Nat : EndsWith(n, t, k) <=> EndsWith(b, t, k + 1)
  BY <1>2, MoreEnds DEF b
<1>7. WindowOf(b) \in Seq(HookTools) /\ \A u \in HookTools : \A k \in Nat :
         k <= LoopWindow /\ EndsWith(b, u, k) => EndsWith(WindowOf(b), u, k)
  <2>1. EndsWith(b, t, 0)
    BY <1>6 DEF EndsWith
  <2>2. WindowOf(b) \in Seq(HookTools)
    BY <1>1, <1>6, <2>1, WindowEnds
  <2>3. ASSUME NEW u \in HookTools, NEW k \in Nat, k <= LoopWindow, EndsWith(b, u, k) PROVE EndsWith(WindowOf(b), u, k)
    BY <1>1, <1>6, <2>3, WindowEnds
  <2> QED  BY <2>2, <2>3
<1>8. \A k \in Nat : EndsWith(n, t, k) <=> k < Consecutive(n, t)
  BY <1>2, ConsecutiveCounts
<1>9. Consecutive(n, t) \in Nat
  BY <1>2, ConsecutiveCounts
<1>10. ASSUME NEW u \in HookTools, NEW k \in Nat, EndsWith(a, u, k) PROVE EndsWith(WindowOf(b), u, k)
  <2>1. CASE k = 0
    <3>1. EndsWith(b, u, 0)
      BY <1>6 DEF EndsWith
    <3> QED  BY <1>1, <1>7, <2>1, <3>1
  <2>2. CASE k # 0
    <3>0. k > 0
      BY <2>2
    <3>1. u = t
      <4> SUFFICES ASSUME u # t PROVE FALSE
        OBVIOUS
      <4>1. ~ EndsWith(a, u, k)
        BY ONLY <1>5, <3>0, u # t, k \in Nat
      <4> QED  BY ONLY <1>10, <4>1
    <3>2. k - 1 \in Nat /\ (k - 1) + 1 = k
      BY <2>2
    <3>3. EndsWith(e, t, k - 1)
      BY <1>5, <1>10, <3>1, <3>2
    <3>4. EndsWith(n, t, k - 1)
      BY <1>2, <3>2, <3>3
    <3>5. k - 1 < LoopThreshold
      BY <1>1, <1>8, <1>9, <3>2, <3>4
    <3>6. EndsWith(b, t, k)
      BY <1>6, <3>2, <3>4
    <3> QED  BY <1>1, <1>7, <3>1, <3>5, <3>6
  <2> QED  BY <2>1, <2>2
<1>11. ASSUME NEW i \in 1..Len(a) PROVE ~ EndsWith(SubSeq(a, 1, i - 1), a[i], LoopThreshold - 1)
  <2>1. CASE i \in 1..Len(e)
    <3>1. SubSeq(a, 1, i - 1) = SubSeq(e, 1, i - 1) /\ a[i] = e[i]
      BY <1>2, <1>3, <1>4, <2>1
    <3> QED  BY <1>2, <2>1, <3>1
  <2>2. CASE i = Len(e) + 1
    <3>1. SubSeq(a, 1, i - 1) = SubSeq(e, 1, Len(e)) /\ SubSeq(e, 1, Len(e)) = e
      BY <1>2, <1>4, <2>2
    <3>2. LoopThreshold - 1 \in Nat
      BY <1>1
    <3>3. ~ EndsWith(e, t, LoopThreshold - 1)
      <4> SUFFICES ASSUME EndsWith(e, t, LoopThreshold - 1) PROVE FALSE
        OBVIOUS
      <4>1. LoopThreshold - 1 < Consecutive(n, t)
        BY <1>2, <1>8, <3>2
      <4> QED  BY <1>1, <1>9, <4>1
    <3> QED  BY <1>3, <2>2, <3>1, <3>3
  <2> QED  BY <1>2, <1>3, <2>1, <2>2
<1> QED  BY <1>5, <1>7, <1>10, <1>11 DEF LoopOK, a, b

(* A call that was blocked: it is noted, and nothing was let through.      *)
LEMMA LoopBlocked ==
  ASSUME NEW e, NEW n, LoopOK(e, n), NEW t \in HookTools, Consecutive(n, t) >= LoopThreshold
  PROVE  LoopOK(e, WindowOf(Append(n, t)))
<1> DEFINE b == Append(n, t)
<1>1. LoopThreshold \in Nat /\ LoopThreshold >= 2 /\ LoopWindow \in Nat /\ LoopWindow >= LoopThreshold
  BY HooksAssumption
<1>2. /\ e \in Seq(HookTools) /\ n \in Seq(HookTools) /\ Len(e) \in Nat /\ Len(n) \in Nat
      /\ \A u \in HookTools : \A k \in Nat : EndsWith(e, u, k) => EndsWith(n, u, k)
      /\ \A i \in 1..Len(e) : ~ EndsWith(SubSeq(e, 1, i - 1), e[i], LoopThreshold - 1)
  BY DEF LoopOK
<1> HIDE DEF b
<1>3. b \in Seq(HookTools) /\ \A k \in Nat : EndsWith(n, t, k) <=> EndsWith(b, t, k + 1)
  BY <1>2, MoreEnds DEF b
<1>4. WindowOf(b) \in Seq(HookTools) /\ \A u \in HookTools : \A k \in Nat :
         k <= LoopWindow /\ EndsWith(b, u, k) => EndsWith(WindowOf(b), u, k)
  <2>1. EndsWith(b, t, 0)
    BY <1>3 DEF EndsWith
  <2>2. WindowOf(b) \in Seq(HookTools)
    BY <1>1, <1>3, <2>1, WindowEnds
  <2>3. ASSUME NEW u \in HookTools, NEW k \in Nat, k <= LoopWindow, EndsWith(b, u, k) PROVE EndsWith(WindowOf(b), u, k)
    BY <1>1, <1>3, <2>3, WindowEnds
  <2> QED  BY <2>2, <2>3
<1>5. EndsWith(n, t, 1)
  <2>1. Consecutive(n, t) \in Nat /\ \A k \in Nat : EndsWith(n, t, k) <=> k < Consecutive(n, t)
    BY <1>2, ConsecutiveCounts
  <2> QED  BY <1>1, <2>1
<1>6. ASSUME NEW u \in HookTools, NEW k \in Nat, EndsWith(e, u, k) PROVE EndsWith(WindowOf(b), u, k)
  <2>1. CASE k = 0
    <3>1. EndsWith(b, u, 0)
      BY <1>3 DEF EndsWith
    <3> QED  BY <1>1, <1>4, <2>1, <3>1
  <2>2. CASE k # 0
    <3>1. k < LoopThreshold
      BY <1>6, LoopShort
    <3>2. EndsWith(n, u, k)
      BY <1>2, <1>6
    <3>3. u = t
      BY <1>2, <1>5, <2>2, <3>2 DEF EndsWith
    <3>4. EndsWith(b, t, k)
      <4>1. k - 1 \in Nat /\ (k - 1) + 1 = k
        BY <2>2
      <4>2. EndsWith(n, t, k - 1)
        BY <1>2, <3>2, <3>3, <4>1 DEF EndsWith
      <4> QED  BY <1>3, <4>1, <4>2
    <3> QED  BY <1>1, <1>4, <3>1, <3>3, <3>4
  <2> QED  BY <2>1, <2>2
<1> QED  BY <1>2, <1>4, <1>6 DEF LoopOK, b

\* Every step keeps what the loop guard remembers true to what it let through.
LEMMA LoopStep ==
  ASSUME LoopInv, [HooksNext]_hookVars
  PROVE  LoopInv'
<1>1. CASE UNCHANGED <<executed, recent>>
  BY <1>1 DEF LoopInv
<1>2. ASSUME NEW r \in HookRuns, NEW t \in HookTools, ToolCalled(r, t) PROVE LoopInv'
  <2>1. /\ DOMAIN executed = HookRuns /\ DOMAIN recent = HookRuns
        /\ \A q \in HookRuns : LoopOK(executed[q], recent[q])
    BY DEF LoopInv
  <2>2. recent' = [recent EXCEPT ![r] = WindowOf(Append(recent[r], t))]
    BY <1>2 DEF ToolCalled, Noted
  <2>3. Consecutive(recent[r], t) \in Nat /\ LoopThreshold \in Nat
    BY <2>1, ConsecutiveCounts, HooksAssumption DEF LoopOK
  <2>4. CASE Consecutive(recent[r], t) >= LoopThreshold
    <3>1. executed' = executed
      BY <1>2, <2>4 DEF ToolCalled
    <3>2. LoopOK(executed[r], WindowOf(Append(recent[r], t)))
      BY <2>1, <2>4, LoopBlocked
    <3> QED  BY <2>1, <2>2, <3>1, <3>2 DEF LoopInv
  <2>5. CASE ~ (Consecutive(recent[r], t) >= LoopThreshold)
    <3>1. executed' = [executed EXCEPT ![r] = Append(executed[r], t)]
      BY <1>2, <2>5 DEF ToolCalled
    <3>2. Consecutive(recent[r], t) < LoopThreshold
      BY <2>3, <2>5
    <3>3. LoopOK(Append(executed[r], t), WindowOf(Append(recent[r], t)))
      BY <2>1, <3>2, LoopAllowed
    <3> QED  BY <2>1, <2>2, <3>1, <3>3 DEF LoopInv
  <2> QED  BY <2>4, <2>5
<1> QED  BY <1>1, <1>2 DEF HooksNext, hookVars, RunStarts, ModelCalled, UpdateActivity, RunFinishes, ToolReturns, CleanupRuns, FlushHooks

(* What the two invariants say of the run.                                 *)
LEMMA HooksSafe ==
  ASSUME HookInv, LoopInv
  PROVE  LoopBounded /\ EvictionLeavesNothing
<1>1. EvictionLeavesNothing
  BY DEF HookInv, EvictionLeavesNothing
<1>2. ASSUME NEW r \in HookRuns, NEW i \in 1..Len(executed[r])
      PROVE  Consecutive(SubSeq(executed[r], 1, i - 1), executed[r][i]) < LoopThreshold
  <2> DEFINE e == executed[r]
             p == SubSeq(e, 1, i - 1)
  <2>1. e \in Seq(HookTools) /\ ~ EndsWith(p, e[i], LoopThreshold - 1)
    BY DEF LoopInv, LoopOK
  <2>2. p \in Seq(HookTools)
    BY <2>1
  <2> HIDE DEF p
  <2>3. Consecutive(p, e[i]) \in Nat /\ \A k \in Nat : EndsWith(p, e[i], k) <=> k < Consecutive(p, e[i])
    BY <2>2, ConsecutiveCounts
  <2>4. LoopThreshold \in Nat /\ LoopThreshold >= 2 /\ LoopThreshold - 1 \in Nat
    BY HooksAssumption
  <2>5. ~ (LoopThreshold - 1 < Consecutive(p, e[i]))
    BY <2>1, <2>3, <2>4
  <2>6. Consecutive(p, e[i]) < LoopThreshold
    BY <2>3, <2>4, <2>5
  <2> QED  BY <2>6 DEF p
<1> QED  BY <1>1, <1>2 DEF LoopBounded

-----------------------------------------------------------------------------
(* What an agent is built from: texts read through caches.                 *)
(* An entry of a cache and what it says of the edits of its file: it is    *)
(* within its age limit, and the edit after the one it holds came later.   *)
CacheOK(c, r, n, m, t) ==
  /\ c.cached \in BOOLEAN /\ c.at \in Nat /\ c.v \in Nat
  /\ c.cached => c.at <= t /\ t < c.at + m /\ c.v <= n /\ (c.v < n => r[c.v + 1] >= c.at)
FileOK(f, r, t) ==
  /\ f.v \in Nat /\ r \in Seq(Nat) /\ Len(r) = f.v /\ \A i \in 1..Len(r) : r[i] <= t
(* What was taken from a file at time t0, edit v.                          *)
TakenOK(f, r, m, v, t0) == v \in Nat /\ v <= f.v /\ (v < f.v => r[v + 1] + m > t0)

(* The caches are true to the files, and so is what was taken from them.   *)
PromptInv ==
  /\ memberNow \in Nat
  /\ DOMAIN memberFiles = MemberFiles /\ DOMAIN replaced = MemberFiles /\ DOMAIN promptCache = MemberFiles
  /\ \A k \in MemberFiles : /\ FileOK(memberFiles[k], replaced[k], memberNow)
                            /\ CacheOK(promptCache[k], replaced[k], memberFiles[k].v, MaxAge[k], memberNow)
  /\ built.at \in Nat /\ built.at <= memberNow /\ DOMAIN built.read \subseteq MemberFiles
  /\ \A k \in DOMAIN built.read : TakenOK(memberFiles[k], replaced[k], MaxAge[k], built.read[k], built.at)
  /\ TakenOK(memberFiles["skills"], replaced["skills"], MaxAge["skills"], built.skills, built.at)
  /\ outputsSeen.at \in Nat /\ outputsSeen.at <= memberNow
  /\ TakenOK(memberFiles["outputs"], replaced["outputs"], MaxAge["outputs"], outputsSeen.v, outputsSeen.at)

\* The age limits, and the files they are for.
LEMMA AgesPositive ==
  /\ \A k \in MemberFiles : MaxAge[k] \in Nat /\ MaxAge[k] > 0
  /\ "skills" \in MemberFiles /\ "outputs" \in MemberFiles /\ RoleFiles \subseteq MemberFiles
BY MemberBounds DEF MaxAge, MemberFiles

\* Two lists of one.
LEMMA PairOf ==
  ASSUME NEW x, NEW y
  PROVE  <<x>> \o <<y>> = <<x, y>>
<1> DEFINE X == {x, y}
           s == <<x>> \o <<y>>
           u == <<x, y>>
<1>1. <<x>> \in Seq(X) /\ <<y>> \in Seq(X) /\ Len(<<x>>) = 1 /\ Len(<<y>>) = 1
  OBVIOUS
<1>2. s \in Seq(X) /\ Len(s) = 2 /\ s[1] = x /\ s[2] = y
  BY <1>1
<1>3. u \in Seq(X) /\ Len(u) = 2 /\ u[1] = x /\ u[2] = y
  OBVIOUS
<1> HIDE DEF s, u
<1>4. \A i \in 1..2 : s[i] = u[i]
  BY <1>2, <1>3
<1>5. s = [i \in 1..2 |-> s[i]] /\ u = [i \in 1..2 |-> u[i]]
  BY <1>2, <1>3
<1>6. s = u
  BY <1>4, <1>5
<1> QED  BY <1>6 DEF s, u

(* The texts of an agent's role and the ones it tries.                     *)
Orders == {<<"custom", "main">>, <<"custom", "worker">>, <<"main">>, <<"worker">>, <<"proactive", "main">>}

\* Which texts each kind of member tries, in order.
LEMMA OrderIs ==
  ASSUME NEW kind
  PROVE  /\ IsProactive(kind) => RoleOrder(kind) = <<"proactive", "main">>
         /\ ~ IsProactive(kind) /\ kind = "main" => RoleOrder(kind) \in {<<"custom", "main">>, <<"main">>}
         /\ ~ IsProactive(kind) /\ kind = "research" => RoleOrder(kind) = <<"worker">>
         /\ ~ IsProactive(kind) /\ kind # "main" => RoleOrder(kind) \in {<<"custom", "worker">>, <<"worker">>}
         /\ RoleOrder(kind) \in Orders
<1>1. IsProactive(kind) => kind # "main" /\ kind # "research"
  BY DEF IsProactive
<1>2. << >> \o <<"proactive", "main">> = <<"proactive", "main">> /\ << >> \o <<"main">> = <<"main">> /\ << >> \o <<"worker">> = <<"worker">>
  OBVIOUS
<1>3. <<"custom">> \o <<"main">> = <<"custom", "main">> /\ <<"custom">> \o <<"worker">> = <<"custom", "worker">>
  BY PairOf
<1> QED  BY <1>1, <1>2, <1>3 DEF RoleOrder, Orders

(* The texts that are tried are a first part of that order.                *)
LEMMA TriedFiles ==
  ASSUME NEW kind
  PROVE  /\ RoleTried(kind) \in Seq(RoleFiles) /\ Len(RoleTried(kind)) >= 1
         /\ RoleTried(kind)[1] = RoleOrder(kind)[1]
         /\ \A i \in 1..Len(RoleTried(kind)) : \E j \in 1..Len(RoleOrder(kind)) : RoleTried(kind)[i] = RoleOrder(kind)[j]
         /\ ToSet(RoleTried(kind)) \subseteq MemberFiles
<1> DEFINE order == RoleOrder(kind)
           found == {i \in DOMAIN order : ReadThrough(order[i], {}).there}
           n == CHOOSE i \in found : \A j \in found : i <= j
<1>1. order \in Seq(RoleFiles) /\ Len(order) \in 1..2
  <2>1. order \in Orders
    BY OrderIs
  <2> HIDE DEF order
  <2>2. \A x, y \in RoleFiles : <<x, y>> \in Seq(RoleFiles) /\ Len(<<x, y>>) \in 1..2 /\ <<x>> \in Seq(RoleFiles) /\ Len(<<x>>) \in 1..2
    OBVIOUS
  <2>3. \A o \in Orders : \E x, y \in RoleFiles : o \in {<<x, y>>, <<x>>}
    BY DEF Orders, RoleFiles
  <2> QED  BY <2>1, <2>2, <2>3
<1> HIDE DEF order
<1>2. RoleTried(kind) = IF found = {} THEN order ELSE SubSeq(order, 1, n)
  BY DEF RoleTried, order
<1>3. CASE found = {}
  <2>1. ToSet(order) \subseteq MemberFiles
    BY <1>1 DEF ToSet, MemberFiles
  <2> QED  BY <1>1, <1>2, <1>3, <2>1 DEF order
<1>4. CASE found # {}
  <2>1. found \subseteq 1..Len(order) /\ found \subseteq Nat
    BY <1>1
  <2> HIDE DEF found
  <2>2. \E i \in found : \A j \in found : i <= j
    BY <1>4, <2>1, LeastNumber
  <2>3. n \in 1..Len(order)
    BY <2>1, <2>2
  <2> HIDE DEF n
  <2> DEFINE p == SubSeq(order, 1, n)
  <2>4. p \in Seq(RoleFiles) /\ Len(p) = n /\ \A i \in 1..n : p[i] = order[i]
    BY <1>1, <2>3
  <2> HIDE DEF p
  <2>5. RoleTried(kind) = p
    BY <1>2, <1>4 DEF p
  <2>6. ToSet(p) \subseteq MemberFiles
    BY <2>4 DEF ToSet, MemberFiles
  <2>7. \A i \in 1..n : i \in 1..Len(order)
    BY <1>1, <2>3
  <2> QED  BY <1>1, <2>3, <2>4, <2>5, <2>6, <2>7 DEF order
<1> QED  BY <1>3, <1>4

\* Nothing was read yet.
LEMMA PromptStart ==
  ASSUME MembersInit
  PROVE  PromptInv
<1>1. << >> \in Seq(Nat) /\ Len(<< >>) = 0
  OBVIOUS
<1>2. \A k \in MemberFiles : FileOK(memberFiles[k], replaced[k], memberNow)
  BY <1>1 DEF MembersInit, FileOK
<1>3. \A k \in MemberFiles : CacheOK(promptCache[k], replaced[k], memberFiles[k].v, MaxAge[k], memberNow)
  BY DEF MembersInit, CacheOK, NotCached
<1>4. \A k \in MemberFiles : TakenOK(memberFiles[k], replaced[k], MaxAge[k], 0, 0)
  BY DEF MembersInit, TakenOK
<1>5. built.at = 0 /\ built.skills = 0 /\ built.read = << >> /\ DOMAIN << >> = {} /\ outputsSeen.at = 0 /\ outputsSeen.v = 0
  BY DEF MembersInit, NotBuilt
<1>6. memberNow = 0 /\ DOMAIN memberFiles = MemberFiles /\ DOMAIN replaced = MemberFiles /\ DOMAIN promptCache = MemberFiles
  BY DEF MembersInit
<1> QED  BY <1>2, <1>3, <1>4, <1>5, <1>6, AgesPositive DEF PromptInv

(* What a read through a cache returns.                                    *)
LEMMA ReadTaken ==
  ASSUME PromptInv, NEW k \in MemberFiles, NEW names
  PROVE  /\ ReadThrough(k, names).v \in Nat
         /\ TakenOK(memberFiles[k], replaced[k], MaxAge[k], ReadThrough(k, names).v, memberNow)
         /\ CacheOK(ReadThrough(k, names), replaced[k], memberFiles[k].v, MaxAge[k], memberNow)
<1> DEFINE c == promptCache[k]
           x == ReadThrough(k, names)
<1>1. FileOK(memberFiles[k], replaced[k], memberNow) /\ CacheOK(c, replaced[k], memberFiles[k].v, MaxAge[k], memberNow) /\ memberNow \in Nat
  BY DEF PromptInv
<1>2. MaxAge[k] \in Nat /\ MaxAge[k] > 0
  BY AgesPositive
<1> HIDE DEF c
<1>3. CASE c.cached
  <2>1. x = c
    BY <1>3 DEF ReadThrough, FreshIn, c
  <2>2. c.at <= memberNow /\ memberNow < c.at + MaxAge[k] /\ c.v <= memberFiles[k].v /\ c.v \in Nat /\ c.at \in Nat
        /\ (c.v < memberFiles[k].v => replaced[k][c.v + 1] >= c.at)
    BY <1>1, <1>3 DEF CacheOK
  <2>3. ASSUME c.v < memberFiles[k].v PROVE replaced[k][c.v + 1] + MaxAge[k] > memberNow
    <3>1. c.v + 1 \in 1..Len(replaced[k]) /\ replaced[k] \in Seq(Nat)
      BY <1>1, <2>2, <2>3 DEF FileOK
    <3>2. replaced[k][c.v + 1] \in Nat
      BY <3>1
    <3> QED  BY <1>1, <1>2, <2>2, <2>3, <3>2
  <2> HIDE DEF x
  <2> QED  BY <1>1, <2>1, <2>2, <2>3 DEF TakenOK, x
<1>4. CASE ~ c.cached
  <2>1. x.at = memberNow /\ x.v = memberFiles[k].v /\ x.cached = TRUE
    BY <1>4 DEF ReadThrough, FreshIn, c
  <2> HIDE DEF x
  <2>2. memberFiles[k].v \in Nat
    BY <1>1 DEF FileOK
  <2>3. CacheOK(x, replaced[k], memberFiles[k].v, MaxAge[k], memberNow)
    <3>1. x.cached \in BOOLEAN /\ x.at \in Nat /\ x.v \in Nat
      BY <1>1, <2>1, <2>2
    <3>2. x.at <= memberNow /\ memberNow < x.at + MaxAge[k] /\ x.v <= memberFiles[k].v /\ ~ (x.v < memberFiles[k].v)
      BY <1>1, <1>2, <2>1, <2>2
    <3> QED  BY <3>1, <3>2 DEF CacheOK
  <2>4. TakenOK(memberFiles[k], replaced[k], MaxAge[k], x.v, memberNow)
    BY <2>1, <2>2 DEF TakenOK
  <2> QED  BY <2>1, <2>2, <2>3, <2>4 DEF x
<1> QED  BY <1>3, <1>4

(* An edit replaces what was in force until now.                           *)
LEMMA EditKeeps ==
  ASSUME NEW f, NEW r, NEW t \in Nat, NEW m \in Nat, m > 0, FileOK(f, r, t), NEW there
  PROVE  /\ FileOK([v |-> f.v + 1, there |-> there], Append(r, t), t)
         /\ \A c : CacheOK(c, r, f.v, m, t) => CacheOK(c, Append(r, t), f.v + 1, m, t)
         /\ \A v, t0 : t0 \in Nat /\ t0 <= t /\ TakenOK(f, r, m, v, t0)
                         => TakenOK([v |-> f.v + 1, there |-> there], Append(r, t), m, v, t0)
<1> DEFINE a == Append(r, t)
           g == [v |-> f.v + 1, there |-> there]
<1>1. f.v \in Nat /\ r \in Seq(Nat) /\ Len(r) = f.v /\ \A i \in 1..Len(r) : r[i] <= t
  BY DEF FileOK
<1>2. a \in Seq(Nat) /\ Len(a) = f.v + 1 /\ a[f.v + 1] = t /\ (\A i \in 1..f.v : a[i] = r[i]) /\ g.v = f.v + 1
  BY <1>1
<1> HIDE DEF a, g
<1>3. FileOK(g, a, t)
  <2>1. ASSUME NEW i \in 1..Len(a) PROVE a[i] <= t
    <3>1. i \in 1..f.v \/ i = f.v + 1
      BY <1>1, <1>2
    <3>2. CASE i \in 1..f.v
      <4>1. a[i] = r[i] /\ r[i] <= t
        BY <1>1, <1>2, <3>2
      <4> QED  BY <4>1
    <3>3. CASE i = f.v + 1
      <4>1. a[i] = t /\ t \in Nat
        BY <1>2, <3>3
      <4> QED  BY <4>1
    <3> QED  BY <3>1, <3>2, <3>3
  <2>2. g.v \in Nat
    BY <1>1, <1>2
  <2> QED  BY <1>2, <2>1, <2>2 DEF FileOK
<1>4. ASSUME NEW c, CacheOK(c, r, f.v, m, t) PROVE CacheOK(c, a, f.v + 1, m, t)
  <2>1. /\ c.cached \in BOOLEAN /\ c.at \in Nat /\ c.v \in Nat
        /\ c.cached => c.at <= t /\ t < c.at + m /\ c.v <= f.v /\ (c.v < f.v => r[c.v + 1] >= c.at)
    BY <1>4 DEF CacheOK
  <2>2. ASSUME c.cached PROVE c.at <= t /\ t < c.at + m /\ c.v <= f.v + 1 /\ a[c.v + 1] >= c.at
    <3>1. CASE c.v < f.v
      <4>1. c.v + 1 \in 1..f.v
        BY <1>1, <2>1, <3>1
      <4>2. a[c.v + 1] = r[c.v + 1]
        BY <1>2, <4>1
      <4> QED  BY <1>1, <2>1, <2>2, <3>1, <4>2
    <3>2. CASE c.v = f.v
      BY <1>1, <1>2, <2>1, <2>2, <3>2
    <3> QED  BY <1>1, <2>1, <2>2, <3>1, <3>2
  <2> QED  BY <2>1, <2>2 DEF CacheOK
<1>5. ASSUME NEW v, NEW t0, t0 \in Nat /\ t0 <= t /\ TakenOK(f, r, m, v, t0) PROVE TakenOK(g, a, m, v, t0)
  <2>1. v \in Nat /\ v <= f.v /\ (v < f.v => r[v + 1] + m > t0)
    BY <1>5 DEF TakenOK
  <2>2. CASE v < f.v
    <3>1. a[v + 1] = r[v + 1]
      <4>1. v + 1 \in 1..f.v
        BY <1>1, <2>1, <2>2
      <4> QED  BY <1>2, <4>1
    <3> QED  BY <1>1, <1>2, <2>1, <2>2, <3>1 DEF TakenOK
  <2>3. CASE v = f.v
    BY <1>1, <1>2, <1>5, <2>1, <2>3 DEF TakenOK
  <2> QED  BY <1>1, <2>1, <2>2, <2>3
<1> QED  BY <1>3, <1>4, <1>5 DEF a, g

\* Time passes: what is past its age limit is dropped.
LEMMA PromptTick ==
  ASSUME PromptInv, MemberTick
  PROVE  PromptInv'
<1>1. /\ memberNow' = memberNow + 1 /\ UNCHANGED <<memberFiles, replaced, built, outputsSeen>>
      /\ promptCache' = [k \in MemberFiles |-> IF CacheAged(k) THEN NotCached ELSE promptCache[k]]
  BY DEF MemberTick
<1>2. /\ memberNow \in Nat
      /\ \A k \in MemberFiles : /\ FileOK(memberFiles[k], replaced[k], memberNow)
                                /\ CacheOK(promptCache[k], replaced[k], memberFiles[k].v, MaxAge[k], memberNow)
  BY DEF PromptInv
<1>3. ASSUME NEW k \in MemberFiles PROVE FileOK(memberFiles[k], replaced[k], memberNow + 1)
  BY <1>2 DEF FileOK
<1>4. ASSUME NEW k \in MemberFiles
      PROVE  CacheOK(promptCache'[k], replaced[k], memberFiles[k].v, MaxAge[k], memberNow + 1)
  <2>1. CASE CacheAged(k)
    <3>1. promptCache'[k] = NotCached
      BY <1>1, <2>1
    <3> QED  BY <3>1 DEF CacheOK, NotCached
  <2>2. CASE ~ CacheAged(k)
    <3>1. promptCache'[k] = promptCache[k]
      BY <1>1, <2>2
    <3>2. MaxAge[k] \in Nat
      BY AgesPositive
    <3>3. ~ (memberNow + 1 - promptCache[k].at >= MaxAge[k])
      BY <2>2 DEF CacheAged
    <3> HIDE DEF CacheAged
    <3>4. /\ promptCache[k].cached \in BOOLEAN /\ promptCache[k].at \in Nat /\ promptCache[k].v \in Nat
          /\ promptCache[k].cached => /\ promptCache[k].at <= memberNow /\ promptCache[k].v <= memberFiles[k].v
                                      /\ (promptCache[k].v < memberFiles[k].v => replaced[k][promptCache[k].v + 1] >= promptCache[k].at)
      BY <1>2 DEF CacheOK
    <3>5. promptCache[k].cached => promptCache[k].at <= memberNow + 1 /\ memberNow + 1 < promptCache[k].at + MaxAge[k]
      BY <1>2, <3>2, <3>3, <3>4
    <3> QED  BY <3>1, <3>4, <3>5 DEF CacheOK
  <2> QED  BY <2>1, <2>2
<1>5. DOMAIN promptCache' = MemberFiles
  BY <1>1
<1> QED  BY <1>1, <1>2, <1>3, <1>4, <1>5 DEF PromptInv

\* A file is written, replaced or removed.
LEMMA PromptEdit ==
  ASSUME PromptInv, NEW k \in MemberFiles, NEW there \in BOOLEAN, FileEdited(k, there)
  PROVE  PromptInv'
<1>1. /\ memberFiles' = [memberFiles EXCEPT ![k] = [v |-> memberFiles[k].v + 1, there |-> there]]
      /\ replaced' = [replaced EXCEPT ![k] = Append(replaced[k], memberNow)]
      /\ UNCHANGED <<memberNow, promptCache, built, outputsSeen>>
  BY DEF FileEdited
<1>2. /\ memberNow \in Nat
      /\ DOMAIN memberFiles = MemberFiles /\ DOMAIN replaced = MemberFiles /\ DOMAIN promptCache = MemberFiles
      /\ \A j \in MemberFiles : /\ FileOK(memberFiles[j], replaced[j], memberNow)
                                /\ CacheOK(promptCache[j], replaced[j], memberFiles[j].v, MaxAge[j], memberNow)
  BY DEF PromptInv
<1>3. \A j \in MemberFiles : MaxAge[j] \in Nat /\ MaxAge[j] > 0
  BY AgesPositive
<1>4. /\ memberFiles'[k] = [v |-> memberFiles[k].v + 1, there |-> there] /\ replaced'[k] = Append(replaced[k], memberNow)
      /\ memberFiles'[k].v = memberFiles[k].v + 1
      /\ \A j \in MemberFiles : j # k => memberFiles'[j] = memberFiles[j] /\ replaced'[j] = replaced[j]
      /\ DOMAIN memberFiles' = MemberFiles /\ DOMAIN replaced' = MemberFiles
  BY <1>1, <1>2
<1>5. ASSUME NEW j \in MemberFiles
      PROVE  FileOK(memberFiles'[j], replaced'[j], memberNow) /\ CacheOK(promptCache[j], replaced'[j], memberFiles'[j].v, MaxAge[j], memberNow)
  <2>1. CASE j = k
    BY <1>2, <1>3, <1>4, <2>1, EditKeeps
  <2>2. CASE j # k
    BY <1>2, <1>4, <2>2
  <2> QED  BY <2>1, <2>2
<1>6. ASSUME NEW j \in MemberFiles, NEW v, NEW t0 \in Nat, t0 <= memberNow, TakenOK(memberFiles[j], replaced[j], MaxAge[j], v, t0)
      PROVE  TakenOK(memberFiles'[j], replaced'[j], MaxAge[j], v, t0)
  <2>1. CASE j = k
    BY <1>2, <1>3, <1>4, <1>6, <2>1, EditKeeps
  <2>2. CASE j # k
    BY <1>4, <1>6, <2>2
  <2> QED  BY <2>1, <2>2
<1>7. /\ built.at \in Nat /\ built.at <= memberNow /\ DOMAIN built.read \subseteq MemberFiles
      /\ \A j \in DOMAIN built.read : TakenOK(memberFiles[j], replaced[j], MaxAge[j], built.read[j], built.at)
      /\ TakenOK(memberFiles["skills"], replaced["skills"], MaxAge["skills"], built.skills, built.at)
      /\ outputsSeen.at \in Nat /\ outputsSeen.at <= memberNow
      /\ TakenOK(memberFiles["outputs"], replaced["outputs"], MaxAge["outputs"], outputsSeen.v, outputsSeen.at)
  BY DEF PromptInv
<1>8. \A j \in DOMAIN built.read : TakenOK(memberFiles'[j], replaced'[j], MaxAge[j], built.read[j], built.at)
  BY <1>6, <1>7
<1>9. /\ TakenOK(memberFiles'["skills"], replaced'["skills"], MaxAge["skills"], built.skills, built.at)
      /\ TakenOK(memberFiles'["outputs"], replaced'["outputs"], MaxAge["outputs"], outputsSeen.v, outputsSeen.at)
  BY <1>6, <1>7, AgesPositive
<1> QED  BY <1>1, <1>2, <1>4, <1>5, <1>7, <1>8, <1>9 DEF PromptInv

\* A member is built: every text, and the owners of skills, come from a read.
LEMMA PromptMade ==
  ASSUME PromptInv, NEW kind, NEW self, NEW preloads, NEW listed, Build(kind, self, preloads, listed)
  PROVE  PromptInv'
<1> DEFINE tried == ToSet(RoleTried(kind))
           owners == SkillOwners(Roster(kind, self), listed)
<1>1. /\ promptCache' = [k \in MemberFiles |->
                          IF k \in tried THEN ReadThrough(k, {})
                          ELSE IF k = "skills" /\ owners.cached THEN owners ELSE promptCache[k]]
      /\ built'.at = memberNow /\ built'.read = [k \in tried |-> ReadThrough(k, {}).v]
      /\ built'.skills = owners.v
      /\ UNCHANGED <<memberNow, memberFiles, replaced, outputsSeen>>
  BY DEF Build
<1>2. tried \subseteq MemberFiles
  BY TriedFiles
<1> HIDE DEF tried
<1>3. /\ memberNow \in Nat /\ DOMAIN memberFiles = MemberFiles /\ DOMAIN replaced = MemberFiles
      /\ \A k \in MemberFiles : /\ FileOK(memberFiles[k], replaced[k], memberNow)
                                /\ CacheOK(promptCache[k], replaced[k], memberFiles[k].v, MaxAge[k], memberNow)
      /\ outputsSeen.at \in Nat /\ outputsSeen.at <= memberNow
      /\ TakenOK(memberFiles["outputs"], replaced["outputs"], MaxAge["outputs"], outputsSeen.v, outputsSeen.at)
  BY DEF PromptInv
<1>4. /\ TakenOK(memberFiles["skills"], replaced["skills"], MaxAge["skills"], owners.v, memberNow)
      /\ owners.cached => CacheOK(owners, replaced["skills"], memberFiles["skills"].v, MaxAge["skills"], memberNow)
  <2>1. CASE Roster(kind, self) # {} /\ listed
    <3>1. owners = ReadThrough("skills", Roster(kind, self))
      BY <2>1 DEF SkillOwners
    <3> QED  BY <3>1, ReadTaken, AgesPositive
  <2>2. CASE ~ (Roster(kind, self) # {} /\ listed)
    <3>1. owners.v = memberFiles["skills"].v /\ owners.cached = FALSE
      BY <2>2 DEF SkillOwners, NotCached
    <3>2. memberFiles["skills"].v \in Nat
      BY <1>3, AgesPositive DEF FileOK
    <3> QED  BY <3>1, <3>2 DEF TakenOK
  <2> QED  BY <2>1, <2>2
<1> HIDE DEF owners
<1>5. ASSUME NEW k \in MemberFiles
      PROVE  CacheOK(promptCache'[k], replaced[k], memberFiles[k].v, MaxAge[k], memberNow)
  <2>1. CASE k \in tried
    BY <1>1, <2>1, ReadTaken
  <2>2. CASE k \notin tried /\ k = "skills" /\ owners.cached
    BY <1>1, <1>4, <2>2
  <2>3. CASE k \notin tried /\ ~ (k = "skills" /\ owners.cached)
    BY <1>1, <1>3, <2>3
  <2> QED  BY <2>1, <2>2, <2>3
<1>6. \A k \in tried : TakenOK(memberFiles[k], replaced[k], MaxAge[k], built'.read[k], memberNow)
  BY <1>1, <1>2, ReadTaken
<1>7. DOMAIN promptCache' = MemberFiles /\ DOMAIN built'.read = tried /\ memberNow <= memberNow
  BY <1>1, <1>3
<1> QED  BY <1>1, <1>2, <1>3, <1>4, <1>5, <1>6, <1>7 DEF PromptInv

\* A turn is shown the workers' outputs.
LEMMA PromptShown ==
  ASSUME PromptInv, NEW listed, PromptTurn(listed)
  PROVE  PromptInv'
<1>1. CASE UNCHANGED <<promptCache, outputsSeen>>
  BY <1>1 DEF PromptInv, PromptTurn
<1>2. CASE ~ UNCHANGED <<promptCache, outputsSeen>>
  <2> DEFINE x == ReadThrough("outputs", {})
  <2>1. /\ promptCache' = [promptCache EXCEPT !["outputs"] = x] /\ outputsSeen' = [at |-> memberNow, v |-> x.v]
        /\ UNCHANGED <<memberNow, memberFiles, replaced, built>>
    BY <1>2 DEF PromptTurn, WorkerOutputs
  <2>2. /\ TakenOK(memberFiles["outputs"], replaced["outputs"], MaxAge["outputs"], x.v, memberNow)
        /\ CacheOK(x, replaced["outputs"], memberFiles["outputs"].v, MaxAge["outputs"], memberNow)
    BY ReadTaken, AgesPositive
  <2> HIDE DEF x
  <2>3. outputsSeen'.at = memberNow /\ outputsSeen'.v = x.v
    BY <2>1
  <2>4. memberNow \in Nat /\ memberNow <= memberNow
    BY DEF PromptInv
  <2>5. /\ DOMAIN memberFiles = MemberFiles /\ DOMAIN replaced = MemberFiles /\ DOMAIN promptCache = MemberFiles
        /\ \A k \in MemberFiles : /\ FileOK(memberFiles[k], replaced[k], memberNow)
                                  /\ CacheOK(promptCache[k], replaced[k], memberFiles[k].v, MaxAge[k], memberNow)
    BY DEF PromptInv
  <2>6. ASSUME NEW k \in MemberFiles PROVE CacheOK(promptCache'[k], replaced[k], memberFiles[k].v, MaxAge[k], memberNow)
    <3>1. CASE k = "outputs"
      BY <2>1, <2>2, <2>5, <3>1
    <3>2. CASE k # "outputs"
      BY <2>1, <2>5, <3>2
    <3> QED  BY <3>1, <3>2
  <2>7. DOMAIN promptCache' = MemberFiles
    BY <2>1, <2>5
  <2>8. /\ built.at \in Nat /\ built.at <= memberNow /\ DOMAIN built.read \subseteq MemberFiles
        /\ \A k \in DOMAIN built.read : TakenOK(memberFiles[k], replaced[k], MaxAge[k], built.read[k], built.at)
        /\ TakenOK(memberFiles["skills"], replaced["skills"], MaxAge["skills"], built.skills, built.at)
    BY DEF PromptInv
  <2> QED  BY <2>1, <2>2, <2>3, <2>4, <2>5, <2>6, <2>7, <2>8 DEF PromptInv
<1> QED  BY <1>1, <1>2

\* Every step of the members keeps the invariant of the caches.
LEMMA PromptStep ==
  ASSUME PromptInv, [MembersNext]_memberVars
  PROVE  PromptInv'
<1>1. CASE UNCHANGED memberVars
  BY <1>1 DEF memberVars, PromptInv
<1>2. CASE MembersNext
  BY <1>2, PromptTick, PromptEdit, PromptMade, PromptShown DEF MembersNext
<1> QED  BY <1>1, <1>2

\* The invariant says that no prompt is older than its caches allow.
LEMMA PromptSafe ==
  ASSUME PromptInv
  PROVE  PromptFresh
BY DEF PromptInv, PromptFresh, InForce, TakenOK

-----------------------------------------------------------------------------
(* What an agent is offered, and told of.                                  *)
(* Joining two lists without repetitions: all names of both, none twice.   *)
LEMMA JoinedKeeps ==
  ASSUME NEW X, NEW s \in Seq(X), NEW t \in Seq(X), Distinct(s), Distinct(t)
  PROVE  Joined(s, t) \in Seq(X) /\ Distinct(Joined(s, t)) /\ ToSet(Joined(s, t)) = ToSet(s) \cup ToSet(t)
<1> DEFINE S == ToSet(t) \ ToSet(s)
           f == Filter(t, S)
           j == s \o f
<1>0. f = Filter(t, S)
  OBVIOUS
<1> HIDE DEF S, f
<1>1. /\ f \in Seq(X) /\ Len(f) \in Nat
      /\ \A k \in 1..Len(f) : \E i \in 1..Len(t) : f[k] = t[i] /\ t[i] \in S
      /\ \A i \in 1..Len(t) : t[i] \in S => \E k \in 1..Len(f) : f[k] = t[i]
  <2>1. /\ Filter(t, S) \in Seq(X) /\ Len(Filter(t, S)) <= Len(t)
        /\ \A k \in 1..Len(Filter(t, S)) : \E i \in 1..Len(t) : Filter(t, S)[k] = t[i] /\ t[i] \in S
        /\ \A i \in 1..Len(t) : t[i] \in S => \E k \in 1..Len(Filter(t, S)) : Filter(t, S)[k] = t[i]
    BY FilterKeeps
  <2> QED  BY <1>0, <2>1
<1>2. Distinct(f)
  BY <1>0, FilterDistinct
<1>3. Joined(s, t) = j
  BY <1>0 DEF Joined, S
<1>4. /\ j \in Seq(X) /\ Len(j) = Len(s) + Len(f) /\ Len(s) \in Nat /\ DOMAIN j = 1..Len(j)
      /\ \A i \in 1..Len(s) : j[i] = s[i]
      /\ \A i \in 1..Len(j) : i > Len(s) => i - Len(s) \in 1..Len(f) /\ j[i] = f[i - Len(s)]
      /\ \A i \in 1..Len(f) : Len(s) + i \in 1..Len(j) /\ j[Len(s) + i] = f[i]
  BY <1>1
<1>5. \A k \in 1..Len(f) : f[k] \notin ToSet(s) /\ f[k] \in ToSet(t)
  BY <1>1 DEF S
<1> HIDE DEF j
<1>6. \A i \in 1..Len(s) : s[i] \in ToSet(s)
  BY DEF ToSet
<1>7. Distinct(j)
  <2> SUFFICES ASSUME NEW a \in 1..Len(j), NEW b \in 1..Len(j), j[a] = j[b] PROVE a = b
    BY DEF Distinct
  <2>1. CASE a <= Len(s) /\ b <= Len(s)
    BY <1>4, <2>1 DEF Distinct
  <2>2. CASE a > Len(s) /\ b > Len(s)
    <3>1. a - Len(s) \in 1..Len(f) /\ b - Len(s) \in 1..Len(f) /\ f[a - Len(s)] = f[b - Len(s)]
      BY <1>4, <2>2
    <3>2. a - Len(s) = b - Len(s)
      BY <1>2, <3>1 DEF Distinct
    <3> QED  BY <1>4, <3>2
  <2>3. CASE a <= Len(s) /\ b > Len(s)
    <3>1. a \in 1..Len(s) /\ j[a] \in ToSet(s)
      BY <1>4, <1>6, <2>3
    <3>2. b - Len(s) \in 1..Len(f) /\ j[b] = f[b - Len(s)]
      BY <1>4, <2>3
    <3> QED  BY <1>5, <3>1, <3>2
  <2>4. CASE a > Len(s) /\ b <= Len(s)
    <3>1. b \in 1..Len(s) /\ j[b] \in ToSet(s)
      BY <1>4, <1>6, <2>4
    <3>2. a - Len(s) \in 1..Len(f) /\ j[a] = f[a - Len(s)]
      BY <1>4, <2>4
    <3> QED  BY <1>5, <3>1, <3>2
  <2> QED  BY <1>4, <2>1, <2>2, <2>3, <2>4
<1>8. ASSUME NEW x \in ToSet(j) PROVE x \in ToSet(s) \cup ToSet(t)
  <2>1. PICK i \in 1..Len(j) : x = j[i]
    BY <1>4 DEF ToSet
  <2>2. CASE i <= Len(s)
    <3>1. i \in 1..Len(s)
      BY <1>4, <2>2
    <3> QED  BY <1>4, <1>6, <2>1, <3>1
  <2>3. CASE i > Len(s)
    BY <1>4, <1>5, <2>1, <2>3
  <2> QED  BY <1>4, <2>2, <2>3
<1>9. ASSUME NEW x \in ToSet(s) PROVE x \in ToSet(j)
  <2>1. PICK i \in 1..Len(s) : x = s[i]
    BY DEF ToSet
  <2>2. i \in 1..Len(j) /\ j[i] = x
    BY <1>1, <1>4, <2>1
  <2> QED  BY <1>4, <2>2 DEF ToSet
<1>10. ASSUME NEW x \in ToSet(t), x \notin ToSet(s) PROVE x \in ToSet(j)
  <2>1. PICK i \in 1..Len(t) : x = t[i]
    BY DEF ToSet
  <2>2. PICK k \in 1..Len(f) : f[k] = x
    BY <1>1, <1>10, <2>1 DEF S
  <2>3. Len(s) + k \in 1..Len(j) /\ j[Len(s) + k] = x
    BY <1>4, <2>2
  <2> QED  BY <1>4, <2>3 DEF ToSet
<1> QED  BY <1>3, <1>4, <1>7, <1>8, <1>9, <1>10

\* Every tool the model names.
KnownTools ==
  {"time", "memory", "execute_code", "mcp1", "mcp2", "mcp3", "mcp4", "send_message", "send_poll", "ask_user", "react",
   "spawn_background_task", "delegate_task", "search_conversation_history", "connect_service", "skill_manage",
   "manage_schedule", "plan", "code_agent", "handoff_task", "notify_teammate"}

\* The lists of tools the program has: no name twice in any.
LEMMA ToolLists ==
  /\ UniversalTools \in Seq(KnownTools) /\ Distinct(UniversalTools)
  /\ DeclaredTools \in Seq(KnownTools) /\ Distinct(DeclaredTools)
  /\ PreloadedMcp \in Seq(KnownTools) /\ Distinct(PreloadedMcp) /\ << >> \in Seq(KnownTools) /\ Distinct(<< >>)
  /\ MainControl \in Seq(KnownTools) /\ Distinct(MainControl)
  /\ WorkerControl \in Seq(KnownTools) /\ Distinct(WorkerControl)
<1>1. UniversalTools \in Seq(KnownTools) /\ Distinct(UniversalTools)
  BY DEF UniversalTools, Distinct, KnownTools
<1>2. DeclaredTools \in Seq(KnownTools) /\ Distinct(DeclaredTools)
  BY DEF DeclaredTools, Distinct, KnownTools
<1>3. PreloadedMcp \in Seq(KnownTools) /\ Distinct(PreloadedMcp)
  BY DEF PreloadedMcp, Distinct, KnownTools
<1>4. << >> \in Seq(KnownTools) /\ Distinct(<< >>)
  BY DEF Distinct
<1>5. MainControl \in Seq(KnownTools) /\ Distinct(MainControl)
  BY DEF MainControl, Distinct, KnownTools
<1>6. WorkerControl \in Seq(KnownTools) /\ Distinct(WorkerControl)
  BY DEF WorkerControl, Distinct, KnownTools
<1> QED  BY <1>1, <1>2, <1>3, <1>4, <1>5, <1>6

\* The names in each of the lists.
LEMMA BaseSets ==
  ToSet(UniversalTools) = {"time", "memory"} /\ ToSet(DeclaredTools) = {"time", "execute_code"}
<1>1. ToSet(UniversalTools) = {"time", "memory"}
  BY DEF UniversalTools, ToSet
<1>2. ToSet(DeclaredTools) = {"time", "execute_code"}
  BY DEF DeclaredTools, ToSet
<1> QED  BY <1>1, <1>2

\* The tools of the servers that are preloaded.
LEMMA McpSets ==
  ToSet(PreloadedMcp) = {"mcp1", "mcp2", "mcp3"} /\ ToSet(<< >>) = {}
<1>1. ToSet(PreloadedMcp) = {"mcp1", "mcp2", "mcp3"}
  BY DEF PreloadedMcp, ToSet
<1>2. ToSet(<< >>) = {}
  BY DEF ToSet
<1> QED  BY <1>1, <1>2

\* The control tools of a main agent.
LEMMA MainSet ==
  ToSet(MainControl) = {"send_message", "send_poll", "ask_user", "react", "spawn_background_task", "delegate_task",
    "search_conversation_history", "connect_service", "skill_manage", "manage_schedule", "plan", "code_agent"}
BY DEF MainControl, ToSet

\* The control tools of a worker.
LEMMA WorkerSet ==
  ToSet(WorkerControl) =
    {"delegate_task", "spawn_background_task", "handoff_task", "notify_teammate", "skill_manage", "plan"}
BY DEF WorkerControl, ToSet

\* What the control tools of a kind are.
LEMMA ControlIs ==
  ASSUME NEW kind \in MemberKinds
  PROVE  /\ ControlTools(kind) \in Seq(KnownTools) /\ Distinct(ControlTools(kind))
         /\ "mcp4" \notin ToSet(ControlTools(kind))
         /\ kind \in {"main", "fireOnThread"} => ToSet(ControlTools(kind)) = ToSet(MainControl)
         /\ kind = "worker" => ToSet(ControlTools(kind)) = ToSet(WorkerControl)
<1>1. "mcp4" \notin ToSet(MainControl) /\ "mcp4" \notin ToSet(WorkerControl)
  BY MainSet, WorkerSet
<1>2. CASE kind = "fire"
  <2> DEFINE S == ToSet(MainControl) \ PROACTIVE_DISABLED_CONTROL_TOOLS
  <2>1. ControlTools(kind) = Filter(MainControl, S)
    BY <1>2 DEF ControlTools
  <2> HIDE DEF S
  <2>2. /\ Filter(MainControl, S) \in Seq(KnownTools)
        /\ \A k \in 1..Len(Filter(MainControl, S)) : \E i \in 1..Len(MainControl) : Filter(MainControl, S)[k] = MainControl[i] /\ MainControl[i] \in S
    BY ToolLists, FilterKeeps
  <2>3. Distinct(Filter(MainControl, S))
    BY ToolLists, FilterDistinct
  <2>4. ToSet(Filter(MainControl, S)) \subseteq S
    BY <2>2 DEF ToSet
  <2>5. "mcp4" \notin S
    BY <1>1 DEF S
  <2> QED  BY <1>2, <2>1, <2>2, <2>3, <2>4, <2>5
<1>3. CASE kind \in {"main", "fireOnThread"}
  <2>1. ControlTools(kind) = MainControl
    BY <1>3 DEF ControlTools
  <2> QED  BY <1>1, <1>3, <2>1, ToolLists
<1>4. CASE kind \in {"worker", "research"}
  <2>1. ControlTools(kind) = WorkerControl
    BY <1>4 DEF ControlTools
  <2> QED  BY <1>1, <1>4, <2>1, ToolLists
<1> QED  BY <1>2, <1>3, <1>4 DEF MemberKinds

\* The names of an agent's tools.
LEMMA NamesAre ==
  ASSUME NEW kind \in MemberKinds, NEW mcp \in {PreloadedMcp, << >>}
  PROVE  /\ ToolNames(kind, mcp) \in Seq(KnownTools) /\ Distinct(ToolNames(kind, mcp))
         /\ "mcp4" \notin ToSet(ToolNames(kind, mcp))
         /\ {"time", "memory", "execute_code"} \cup ToSet(ControlTools(kind)) \subseteq ToSet(ToolNames(kind, mcp))
<1> DEFINE u == Joined(UniversalTools, DeclaredTools)
           m == Joined(u, mcp)
           n == Joined(m, ControlTools(kind))
<1>1. u \in Seq(KnownTools) /\ Distinct(u) /\ ToSet(u) = ToSet(UniversalTools) \cup ToSet(DeclaredTools)
  BY ToolLists, JoinedKeeps
<1>2. mcp \in Seq(KnownTools) /\ Distinct(mcp) /\ "mcp4" \notin ToSet(mcp)
  <2>1. CASE mcp = PreloadedMcp
    BY <2>1, ToolLists, McpSets
  <2>2. CASE mcp = << >>
    BY <2>2, ToolLists, McpSets
  <2> QED  BY <2>1, <2>2
<1> HIDE DEF u
<1>3. m \in Seq(KnownTools) /\ Distinct(m) /\ ToSet(m) = ToSet(u) \cup ToSet(mcp)
  BY <1>1, <1>2, JoinedKeeps
<1> HIDE DEF m
<1>4. n \in Seq(KnownTools) /\ Distinct(n) /\ ToSet(n) = ToSet(m) \cup ToSet(ControlTools(kind))
  BY <1>3, ControlIs, JoinedKeeps
<1> HIDE DEF n
<1>5. "mcp4" \notin ToSet(u) /\ {"time", "memory", "execute_code"} \subseteq ToSet(u)
  BY <1>1, BaseSets
<1>6. "mcp4" \notin ToSet(n) /\ {"time", "memory", "execute_code"} \cup ToSet(ControlTools(kind)) \subseteq ToSet(n)
  BY <1>2, <1>3, <1>4, <1>5, ControlIs
<1>7. ToolNames(kind, mcp) = n
  BY DEF ToolNames, n, m, u
<1> QED  BY <1>4, <1>6, <1>7

\* The places in a list that was joined.
LEMMA JoinAt ==
  ASSUME NEW X, NEW s \in Seq(X), NEW t \in Seq(X)
  PROVE  /\ s \o t \in Seq(X) /\ Len(s \o t) = Len(s) + Len(t)
         /\ \A i \in 1..Len(s) : (s \o t)[i] = s[i]
         /\ \A i \in 1..Len(t) : (s \o t)[Len(s) + i] = t[i]
OBVIOUS

(* The tools that are sent and the ones loaded on demand are the names in  *)
(* their order and then the dynamic tool: nothing is lost to the cap.      *)
LEMMA NothingSpilled ==
  ASSUME NEW kind \in MemberKinds, kind # "research", NEW mcp \in {PreloadedMcp, << >>}
  PROVE  /\ StaticTools(kind, mcp) \o DynamicTools(kind, mcp) = Append(ToolNames(kind, mcp), "mcp4")
         /\ Len(StaticTools(kind, mcp)) <= ToolCap /\ ToSet(StaticTools(kind, mcp)) \subseteq ToSet(ToolNames(kind, mcp))
<1> DEFINE n == ToolNames(kind, mcp)
           cut == IF Len(n) < ToolCap THEN Len(n) ELSE ToolCap
           st == SubSeq(n, 1, cut)
           rest == SubSeq(n, ToolCap + 1, Len(n))
           ld == rest \o DynamicMcp
           S == ToSet(ld) \ ToSet(st)
           all == st \o ld
<1>1. n \in Seq(KnownTools) /\ Distinct(n) /\ "mcp4" \notin ToSet(n) /\ Len(n) \in Nat
  BY NamesAre
<1>2. StaticTools(kind, mcp) = st /\ DynamicTools(kind, mcp) = Filter(ld, S)
  BY DEF StaticTools, DynamicTools
<1> HIDE DEF n
<1>3. ToolCap \in Nat /\ cut \in 0..Len(n) /\ cut <= ToolCap
  BY <1>1, MemberBounds
<1>4. st \in Seq(KnownTools) /\ Len(st) = cut /\ \A i \in 1..cut : st[i] = n[i]
  BY <1>1, <1>3
<1>5. rest \in Seq(KnownTools) /\ Len(rest) = Len(n) - cut /\ \A i \in 1..(Len(n) - cut) : rest[i] = n[cut + i]
  <2>1. CASE Len(n) < ToolCap
    BY <1>1, <1>3, <2>1
  <2>2. CASE ~ (Len(n) < ToolCap)
    BY <1>1, <1>3, <2>2
  <2> QED  BY <2>1, <2>2
<1> HIDE DEF st, rest
<1>6. DynamicMcp \in Seq(KnownTools) /\ Len(DynamicMcp) = 1 /\ DynamicMcp[1] = "mcp4"
  BY DEF DynamicMcp, KnownTools
<1> HIDE DEF cut
<1>7. /\ ld \in Seq(KnownTools) /\ Len(ld) = Len(n) - cut + 1 /\ ld[Len(n) - cut + 1] = "mcp4"
      /\ \A i \in 1..(Len(n) - cut) : ld[i] = n[cut + i]
  <2>1. /\ ld \in Seq(KnownTools) /\ Len(ld) = Len(rest) + 1 /\ ld[Len(rest) + 1] = DynamicMcp[1]
        /\ \A i \in 1..Len(rest) : ld[i] = rest[i]
    BY <1>5, <1>6, JoinAt
  <2> QED  BY <1>1, <1>3, <1>5, <1>6, <2>1
<1> HIDE DEF ld
<1>8. ToSet(st) \subseteq ToSet(n) /\ \A x \in ToSet(st) : \E i \in 1..cut : x = n[i]
  BY <1>1, <1>3, <1>4 DEF ToSet
<1>9. ASSUME NEW i \in 1..Len(ld) PROVE ld[i] \in S
  <2>1. ld[i] \in ToSet(ld)
    BY <1>7 DEF ToSet
  <2>2. CASE i = Len(n) - cut + 1
    BY <1>1, <1>7, <1>8, <2>1, <2>2
  <2>3. CASE i \in 1..(Len(n) - cut)
    <3>1. cut + i \in 1..Len(n) /\ cut + i > cut /\ ld[i] = n[cut + i]
      BY <1>1, <1>3, <1>7, <2>3
    <3>2. \A j \in 1..cut : j \in 1..Len(n) /\ j # cut + i
      BY <1>1, <1>3, <3>1
    <3>3. \A j \in 1..cut : n[j] # n[cut + i]
      BY <1>1, <3>1, <3>2 DEF Distinct
    <3> QED  BY <1>8, <2>1, <3>1, <3>3
  <2> QED  BY <1>1, <1>3, <1>7, <2>2, <2>3
<1> HIDE DEF S
<1>10. Filter(ld, S) = ld
  BY <1>7, <1>9, FilterAll
<1>11. all = Append(n, "mcp4")
  <2> DEFINE b == Append(n, "mcp4")
  <2>1. b \in Seq(KnownTools) /\ Len(b) = Len(n) + 1 /\ b[Len(n) + 1] = "mcp4" /\ \A i \in 1..Len(n) : b[i] = n[i]
    BY <1>1 DEF KnownTools
  <2>2. /\ all \in Seq(KnownTools) /\ Len(all) = Len(n) + 1
        /\ \A i \in 1..cut : all[i] = st[i]
        /\ \A i \in 1..(Len(n) + 1) : i > cut => all[i] = ld[i - cut]
    <3>1. /\ all \in Seq(KnownTools) /\ Len(all) = Len(st) + Len(ld)
          /\ \A i \in 1..Len(st) : all[i] = st[i]
          /\ \A i \in 1..Len(ld) : all[Len(st) + i] = ld[i]
      BY <1>4, <1>7, JoinAt
    <3>2. ASSUME NEW i \in 1..(Len(n) + 1), i > cut PROVE all[i] = ld[i - cut]
      <4>1. i - cut \in 1..Len(ld) /\ cut + (i - cut) = i
        BY <1>1, <1>3, <1>7, <3>2
      <4> QED  BY <1>4, <3>1, <4>1
    <3> QED  BY <1>1, <1>3, <1>4, <1>7, <3>1, <3>2
  <2> HIDE DEF b, all
  <2>3. ASSUME NEW i \in 1..(Len(n) + 1) PROVE all[i] = b[i]
    <3>1. CASE i \in 1..cut
      <4>1. i \in 1..Len(n)
        BY <1>1, <1>3, <3>1
      <4> QED  BY <1>4, <2>1, <2>2, <3>1, <4>1
    <3>2. CASE i > cut /\ i <= Len(n)
      <4>1. i - cut \in 1..(Len(n) - cut) /\ cut + (i - cut) = i
        BY <1>1, <1>3, <3>2
      <4> QED  BY <1>1, <1>7, <2>1, <2>2, <3>2, <4>1
    <3>3. CASE i = Len(n) + 1
      <4>1. i > cut /\ i - cut = Len(n) - cut + 1
        BY <1>1, <1>3, <3>3
      <4> QED  BY <1>1, <1>7, <2>1, <2>2, <3>3, <4>1
    <3> QED  BY <1>1, <1>3, <3>1, <3>2, <3>3
  <2>4. all = [i \in 1..(Len(n) + 1) |-> all[i]] /\ b = [i \in 1..(Len(n) + 1) |-> b[i]]
    BY <1>1, <2>1, <2>2
  <2>5. all = b
    BY <2>3, <2>4
  <2> QED  BY <2>5 DEF b
<1>12. StaticTools(kind, mcp) \o DynamicTools(kind, mcp) = all
  BY <1>2, <1>10
<1> QED  BY <1>2, <1>3, <1>4, <1>8, <1>11, <1>12 DEF n

(* What a member was built as: who has a team, and who can come to have    *)
(* the text for conversations.                                             *)
BuiltOK(b) ==
  /\ b.kind \in MemberKinds /\ b.mcp \in BOOLEAN
  /\ b.team => b.kind \in {"main", "fireOnThread", "worker"}
  /\ b.role = "main" => b.kind \in {"main", "fireOnThread"} \/ (b.kind = "fire" /\ "proactive" \in DOMAIN b.read)
BuiltInv == built = NotBuilt \/ BuiltOK(built)

\* What createTeamMember records of the member it builds.
LEMMA BuiltMade ==
  ASSUME NEW kind \in MemberKinds, NEW self, NEW preloads \in BOOLEAN, NEW listed, Build(kind, self, preloads, listed)
  PROVE  BuiltOK(built')
<1> DEFINE tried == RoleTried(kind)
<1>1. /\ built'.kind = kind /\ built'.mcp = preloads /\ built'.team = (Roster(kind, self) # {})
      /\ built'.role = RoleTaken(kind) /\ built'.read = [k \in ToSet(tried) |-> ReadThrough(k, {}).v]
  BY DEF Build
<1>2. DOMAIN built'.read = ToSet(tried)
  BY <1>1
<1>3. built'.team => kind \in {"main", "fireOnThread", "worker"}
  BY <1>1 DEF Roster, MemberKinds
<1>4. /\ tried \in Seq(RoleFiles) /\ Len(tried) >= 1 /\ tried[1] = RoleOrder(kind)[1]
      /\ \A i \in 1..Len(tried) : \E j \in 1..Len(RoleOrder(kind)) : tried[i] = RoleOrder(kind)[j]
  BY TriedFiles
<1> HIDE DEF tried
<1>5. ASSUME built'.role = "main" PROVE \E j \in 1..Len(RoleOrder(kind)) : RoleOrder(kind)[j] = "main"
  <2>1. tried[Len(tried)] = "main"
    BY <1>1, <1>5 DEF RoleTaken, Last, tried
  <2> QED  BY <1>4, <2>1
<1>6. ASSUME kind \in {"worker", "research"} PROVE \A j \in 1..Len(RoleOrder(kind)) : RoleOrder(kind)[j] # "main"
  <2>1. RoleOrder(kind) = <<"custom", "worker">> \/ RoleOrder(kind) = <<"worker">>
    BY <1>6, OrderIs DEF IsProactive
  <2> QED  BY <2>1
<1>7. ASSUME kind = "fire" PROVE "proactive" \in ToSet(tried)
  <2>1. tried[1] = "proactive"
    BY <1>4, <1>7, OrderIs DEF IsProactive
  <2> QED  BY <1>4, <2>1 DEF ToSet
<1> QED  BY <1>1, <1>2, <1>3, <1>5, <1>6, <1>7 DEF BuiltOK, MemberKinds

\* Every step of the members keeps that.
LEMMA BuiltStep ==
  ASSUME BuiltInv, [MembersNext]_memberVars
  PROVE  BuiltInv'
<1>1. CASE UNCHANGED built
  BY <1>1 DEF BuiltInv
<1>2. ASSUME NEW preloads \in BOOLEAN, NEW listed \in BOOLEAN, NEW kind \in MemberKinds, NEW self, Build(kind, self, preloads, listed)
      PROVE  BuiltInv'
  BY <1>2, BuiltMade DEF BuiltInv
<1>3. "worker" \in MemberKinds
  BY DEF MemberKinds
<1> QED  BY <1>1, <1>2, <1>3 DEF MembersNext, memberVars, MemberTick, FileEdited, PromptTurn

(* What the tools of a member must be: no name twice, the cap kept, and    *)
(* everything its kind has.                                                *)
OffersWell(tools, kind) ==
  LET all == tools.static \o tools.dynamic
  IN /\ IsInjective(all) /\ Len(tools.static) <= ToolCap
     /\ ToSet(tools.static) \subseteq ToSet(all)
     /\ kind # "research" => {"time", "memory", "execute_code"} \cup ToSet(ControlTools(kind)) \subseteq ToSet(all)

\* A research agent is built without tools.
LEMMA NoneOffered ==
  ASSUME NEW tools, tools.static = << >>, tools.dynamic = << >>
  PROVE  OffersWell(tools, "research")
<1>1. << >> \o << >> = << >> /\ Len(<< >>) <= ToolCap
  BY MemberBounds
<1>2. IsInjective(<< >>)
  BY DEF IsInjective
<1> QED  BY <1>1, <1>2 DEF OffersWell

\* What is offered to a member of each kind.
LEMMA OfferedIs ==
  ASSUME NEW kind \in MemberKinds, NEW preloads \in BOOLEAN
  PROVE  OffersWell(ToolsOf[kind][preloads], kind)
<1> DEFINE mcp == IF preloads THEN PreloadedMcp ELSE << >>
           n == ToolNames(kind, mcp)
           st == StaticTools(kind, mcp)
           dy == DynamicTools(kind, mcp)
<1>1. ToolsOf[kind][preloads] = [static |-> st, dynamic |-> dy]
  BY DEF ToolsOf
<1>2. mcp \in {PreloadedMcp, << >>}
  OBVIOUS
<1>3. CASE kind = "research"
  <2>1. st = << >> /\ dy = << >>
    BY <1>3 DEF StaticTools, DynamicTools
  <2>2. ToolsOf[kind][preloads].static = << >> /\ ToolsOf[kind][preloads].dynamic = << >>
    BY <1>1, <2>1
  <2>3. OffersWell(ToolsOf[kind][preloads], "research")
    BY <2>2, NoneOffered
  <2>4. kind = "research"
    BY <1>3
  <2> QED  BY <2>3, <2>4
<1>4. CASE kind # "research"
  <2> DEFINE b == Append(n, "mcp4")
  <2> HIDE DEF mcp
  <2>1. st \o dy = b /\ Len(st) <= ToolCap /\ ToSet(st) \subseteq ToSet(n)
    BY <1>2, <1>4, NothingSpilled
  <2>2. /\ n \in Seq(KnownTools) /\ Distinct(n) /\ "mcp4" \notin ToSet(n)
        /\ {"time", "memory", "execute_code"} \cup ToSet(ControlTools(kind)) \subseteq ToSet(n)
    BY <1>2, NamesAre
  <2> HIDE DEF n, st, dy
  <2>3. /\ Len(n) \in Nat /\ DOMAIN n = 1..Len(n) /\ DOMAIN b = 1..(Len(n) + 1)
        /\ b[Len(n) + 1] = "mcp4" /\ \A i \in 1..Len(n) : b[i] = n[i]
    BY <2>2
  <2> HIDE DEF b
  <2>4. ToSet(n) \subseteq ToSet(b)
    BY <2>3 DEF ToSet
  <2>5. \A i \in 1..Len(n) : n[i] # "mcp4"
    BY <2>2, <2>3 DEF ToSet
  <2>6. IsInjective(b)
    <3> SUFFICES ASSUME NEW i \in 1..(Len(n) + 1), NEW j \in 1..(Len(n) + 1), b[i] = b[j] PROVE i = j
      BY <2>3 DEF IsInjective
    <3>1. \A k \in 1..(Len(n) + 1) : k \in 1..Len(n) \/ k = Len(n) + 1
      BY <2>3
    <3> QED  BY <2>2, <2>3, <2>5, <3>1 DEF Distinct
  <2>7. ToolsOf[kind][preloads].static = st /\ ToolsOf[kind][preloads].dynamic = dy
    BY <1>1
  <2> QED  BY <2>1, <2>2, <2>4, <2>6, <2>7 DEF OffersWell
<1> QED  BY <1>3, <1>4

(* The tools a prompt tells of are among the offered ones, unless a fire   *)
(* was lent the text for conversations.                                    *)
LEMMA ToldIsOffered ==
  ASSUME BuiltOK(built), NEW has, NEW all, has \subseteq all,
         built.kind # "research" => {"time", "memory", "execute_code"} \cup ToSet(ControlTools(built.kind)) \subseteq all,
         ~ (built.kind = "fire" /\ built.role = "main" /\ "proactive" \in DOMAIN built.read)
  PROVE  ToldTools(built.kind, has, built.team, built.role) \subseteq all
<1>1. /\ built.kind \in MemberKinds
      /\ built.team => built.kind \in {"main", "fireOnThread", "worker"}
      /\ built.role = "main" => built.kind \in {"main", "fireOnThread"}
  BY DEF BuiltOK
<1>2. built.kind \in {"main", "fireOnThread"} =>
        {"memory", "connect_service", "execute_code", "delegate_task", "spawn_background_task", "manage_schedule",
         "skill_manage", "ask_user"} \subseteq all
  BY <1>1, ControlIs, MainSet
<1>3. built.kind = "worker" => {"delegate_task", "spawn_background_task", "execute_code", "skill_manage"} \subseteq all
  BY <1>1, ControlIs, WorkerSet
<1>4. built.kind = "main" => OpenSections(has) \subseteq all
  BY <1>2 DEF OpenSections, AgentsMdGates, Delegation
<1>5. MainBlocks(has) \subseteq all
  BY DEF MainBlocks
<1>6. built.kind = "worker" => WorkerBlocks(has) \subseteq all
  BY <1>3 DEF WorkerBlocks, Delegation
<1>7. built.team => Delegation \subseteq all
  BY <1>1, <1>2, <1>3 DEF Delegation
<1>8. built.role = "main" => Delegation \cup {"ask_user"} \subseteq all
  BY <1>1, <1>2 DEF Delegation
<1> QED  BY <1>4, <1>5, <1>6, <1>7, <1>8 DEF ToldTools

\* The invariant gives the property.
LEMMA BuiltSafe ==
  ASSUME BuiltInv
  PROVE  PromptMatchesTools
<1> SUFFICES ASSUME built # NotBuilt PROVE PromptMatchesTools
  BY DEF PromptMatchesTools
<1>1. BuiltOK(built) /\ built.kind \in MemberKinds /\ built.mcp \in BOOLEAN
  BY DEF BuiltInv, BuiltOK
<1> DEFINE tools == ToolsOf[built.kind][built.mcp]
           all == tools.static \o tools.dynamic
<1>2. /\ IsInjective(all) /\ Len(tools.static) <= ToolCap /\ ToSet(tools.static) \subseteq ToSet(all)
      /\ built.kind # "research" => {"time", "memory", "execute_code"} \cup ToSet(ControlTools(built.kind)) \subseteq ToSet(all)
  BY <1>1, OfferedIs DEF OffersWell
<1>3. <<built.kind, built.mcp>> \in NamedApart
  BY <1>1, <1>2 DEF NamedApart
<1>4. ASSUME ~ (built.kind = "fire" /\ built.role = "main" /\ "proactive" \in DOMAIN built.read)
      PROVE  ToldTools(built.kind, ToSet(tools.static), built.team, built.role) \subseteq ToSet(all)
  <2> HIDE DEF tools, all
  <2> QED  BY <1>1, <1>2, <1>4, ToldIsOffered
<1> QED  BY <1>2, <1>3, <1>4 DEF PromptMatchesTools

\* A step of the whole is a step of these parts or leaves them alone.
LEMMA RunPartsStep ==
  ASSUME [StoresNext]_allVars
  PROVE  [MembersNext]_memberVars /\ [HooksNext]_hookVars
<1>1. CASE UNCHANGED allVars
  BY <1>1 DEF allVars
<1>2. CASE StoresNext
  BY <1>2 DEF StoresNext, StepWebhooks, StepLimiter, StepMessages, StepAccess, StepScreen, StepThreads, StepGoals, StepSkills,
              StepMemory, StepHooks, StepVault, StepCredentials, StepMembers, StepNotes, Rest
<1> QED  BY <1>1, <1>2

(* The run of an agent: its prompt is no older than its caches allow and   *)
(* speaks of no tool it is not offered (factory.ts), no call gets through  *)
(* the loop guard as often in a row as its threshold                       *)
(* (tool-loop-dedup.ts), and an evicted thread leaves no tracked run       *)
(* (harness-interceptor.ts), provided a run of an agent starts only when   *)
(* the last one has ended.                                                 *)
THEOREM AgentRunsAreSound ==
  ASSUME ~ RunsOverlap
  PROVE  StoresSpec => []AgentRunSound
<1> DEFINE I == PromptInv /\ BuiltInv /\ HookInv /\ LoopInv
<1>1. StoresInit => I
  BY PromptStart, HooksStart DEF StoresInit, BuiltInv, MembersInit
<1>2. I /\ [StoresNext]_allVars => I'
  BY RunPartsStep, PromptStep, BuiltStep, HookStep, LoopStep
<1>3. I => AgentRunSound
  BY PromptSafe, BuiltSafe, HooksSafe DEF AgentRunSound
<1> QED  BY <1>1, <1>2, <1>3, PTL DEF StoresSpec
=============================================================================
