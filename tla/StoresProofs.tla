---------------------------- MODULE StoresProofs ----------------------------
(***************************************************************************)
(* Theorems about what the program keeps and lets in: webhooks, memory,    *)
(* secrets and conversations, for every value of the constants unless a    *)
(* theorem names a hypothesis.  The invariants of the parts are proved of  *)
(* the part's own next-state relation; the last theorem of each part lifts *)
(* them to the behaviours of MCStores.                                     *)
(***************************************************************************)
EXTENDS MCStores, FiniteSetTheorems, TLAPS

-----------------------------------------------------------------------------
(* Webhooks: an event wakes the agent once.                                *)


(* InjectedOnce speaks of the second injection; that the caches remember   *)
(* the first one is what makes it inductive.                               *)
IngressInv == TypeOK /\ CachesRemember /\ InjectedOnce

(* What Append adds to the range of a sequence.                            *)
LEMMA AppendRange ==
  ASSUME NEW S, NEW s \in Seq(S), NEW x \in S
  PROVE  Range(Append(s, x)) = Range(s) \cup {x}
<1>1. Append(s, x) \in Seq(S) /\ Len(Append(s, x)) = Len(s) + 1
  OBVIOUS
<1>2. ASSUME NEW y \in Range(Append(s, x))
      PROVE  y \in Range(s) \cup {x}
  BY <1>1 DEF Range
<1>3. ASSUME NEW y \in Range(s)
      PROVE  y \in Range(Append(s, x))
  BY <1>1 DEF Range
<1>4. x \in Range(Append(s, x))
  <2>1. Append(s, x)[Len(s) + 1] = x /\ Len(s) + 1 \in DOMAIN Append(s, x)
    BY <1>1
  <2> QED  BY <2>1 DEF Range
<1> QED  BY <1>2, <1>3, <1>4

(* What Tail takes from it: at most the head.                              *)
LEMMA TailRange ==
  ASSUME NEW S, NEW s \in Seq(S), Len(s) > 0
  PROVE  /\ Tail(s) \in Seq(S) /\ Len(Tail(s)) = Len(s) - 1
         /\ Head(s) \in S
         /\ Range(s) \subseteq Range(Tail(s)) \cup {Head(s)}
<1>1. /\ Tail(s) \in Seq(S) /\ Len(Tail(s)) = Len(s) - 1
      /\ Head(s) \in S /\ Head(s) = s[1]
  OBVIOUS
<1>2. ASSUME NEW y \in Range(s), y # Head(s)
      PROVE  y \in Range(Tail(s))
  <2>1. PICK i \in 1..Len(s) : s[i] = y
    BY DEF Range
  <2>2. i - 1 \in 1..Len(Tail(s)) /\ Tail(s)[i - 1] = y
    BY <1>1, <1>2, <2>1
  <2>3. i - 1 \in DOMAIN Tail(s)
    BY <1>1, <2>2
  <2> QED  BY <2>2, <2>3, Zenon DEF Range
<1> QED  BY <1>1, <1>2

(* markProcessed keeps the cache typed and within its size, and loses      *)
(* nothing but what it notes as forgotten.                                 *)
LEMMA MarkKeeps ==
  ASSUME TypeOK, NEW d \in Deliveries, attempts < MaxAttempts, MarkProcessed(d)
  PROVE  /\ processed' \in Seq(RequestIds) /\ Len(processed') <= MAX_DEDUP_ENTRIES
         /\ forgotServer \subseteq forgotServer' /\ forgotServer' \subseteq Deliveries
         /\ \A x \in RequestIds : x \in Range(processed) \cup {RequestId(d)}
                                    => x \in Range(processed') \/ x[1] \in forgotServer'
<1> DEFINE full == Append(processed, RequestId(d))
<1>1. RequestId(d) \in RequestIds
  BY WebhookAssumption DEF RequestId, RequestIds, TypeOK
<1>2. /\ full \in Seq(RequestIds) /\ Len(full) = Len(processed) + 1 /\ Len(full) > 0
      /\ Range(full) = Range(processed) \cup {RequestId(d)}
  <2>1. processed \in Seq(RequestIds)
    BY DEF TypeOK
  <2>2. full \in Seq(RequestIds) /\ Len(full) = Len(processed) + 1 /\ Len(full) > 0
    BY <1>1, <2>1
  <2> QED  BY <1>1, <2>1, <2>2, AppendRange
<1>3. CASE Len(full) > MAX_DEDUP_ENTRIES
  <2>1. processed' = Tail(full) /\ forgotServer' = forgotServer \cup {Head(full)[1]}
    BY <1>3 DEF MarkProcessed
  <2>2. /\ Tail(full) \in Seq(RequestIds) /\ Len(Tail(full)) = Len(full) - 1
        /\ Head(full) \in RequestIds
        /\ Range(full) \subseteq Range(Tail(full)) \cup {Head(full)}
    BY <1>2, TailRange
  <2>3. Head(full)[1] \in Deliveries
    BY <2>2 DEF RequestIds
  <2>4. Len(processed') <= MAX_DEDUP_ENTRIES
    BY <1>2, <2>1, <2>2, WebhookAssumption DEF TypeOK
  <2> QED  BY <1>2, <2>1, <2>2, <2>3, <2>4 DEF TypeOK
<1>4. CASE ~(Len(full) > MAX_DEDUP_ENTRIES)
  <2>1. processed' = full /\ forgotServer' = forgotServer
    BY <1>4 DEF MarkProcessed
  <2>2. Len(processed') <= MAX_DEDUP_ENTRIES
    BY <1>2, <1>4, <2>1, WebhookAssumption DEF TypeOK
  <2> QED  BY <1>2, <2>1, <2>2 DEF TypeOK
<1> QED  BY <1>3, <1>4

(* The endpoint injects at most once, and only a delivery its cache does   *)
(* not know.                                                               *)
LEMMA EndpointInjects ==
  ASSUME TypeOK, NEW d \in Deliveries, attempts < MaxAttempts, Endpoint(d)
  PROVE  /\ recentDeliveries \subseteq recentDeliveries' /\ recentDeliveries' \subseteq Deliveries
         /\ answer' \in [Deliveries -> Answers]
         /\ worker' \in BOOLEAN
         /\ \/ injected' = injected
            \/ /\ d \notin recentDeliveries /\ d \in recentDeliveries'
               /\ injected' = [injected EXCEPT ![d] = @ + 1]
<1>1. CASE d \in recentDeliveries
  <2>1. /\ answer' = [answer EXCEPT ![d] = "suppressed"]
        /\ recentDeliveries' = recentDeliveries /\ worker' = worker /\ injected' = injected
    BY <1>1 DEF Endpoint, Respond
  <2>2. answer' \in [Deliveries -> Answers]
    BY <2>1 DEF TypeOK, Answers
  <2> QED  BY <2>1, <2>2 DEF TypeOK
<1>2. CASE d \notin recentDeliveries
  <2>1. recentDeliveries' = recentDeliveries \cup {d}
    BY <1>2 DEF Endpoint
  <2>2. \E a \in Answers : answer' = [answer EXCEPT ![d] = a]
    BY <1>2 DEF Endpoint, Respond, Answers
  <2>3. answer' \in [Deliveries -> Answers]
    BY <2>2 DEF TypeOK
  <2>4. worker' = worker \/ worker' = (worker \/ conf.target)
    BY <1>2 DEF Endpoint
  <2>5. worker' \in BOOLEAN
    BY <2>4 DEF TypeOK
  <2>6. injected' = injected \/ injected' = [injected EXCEPT ![d] = @ + 1]
    BY <1>2 DEF Endpoint
  <2>7. recentDeliveries' \subseteq Deliveries
    BY <2>1 DEF TypeOK
  <2> QED  BY <1>2, <2>1, <2>3, <2>5, <2>6, <2>7
<1> QED  BY <1>1, <1>2

(* The first state: nothing was injected.                                  *)
THEOREM InitIngress == Init => IngressInv
<1> SUFFICES ASSUME Init PROVE IngressInv
  OBVIOUS
<1>1. << >> \in Seq(RequestIds) /\ Len(<< >>) = 0
  OBVIOUS
<1>2. /\ answer \in [Deliveries -> Answers] /\ injected \in [Deliveries -> Nat]
      /\ attempts \in 0..MaxAttempts
  BY WebhookAssumption DEF Init, Answers
<1>3. route \in BOOLEAN /\ worker \in BOOLEAN
  BY DEF Init
<1>4. processed \in Seq(RequestIds) /\ Len(processed) <= MAX_DEDUP_ENTRIES
  BY <1>1, WebhookAssumption DEF Init
<1>5. TypeOK
  BY <1>2, <1>3, <1>4 DEF Init, TypeOK
<1>6. CachesRemember /\ InjectedOnce
  BY DEF Init, CachesRemember, InjectedOnce
<1> QED  BY <1>5, <1>6 DEF IngressInv

(* A request keeps the invariant: an injection needs the request id to be  *)
(* new to the server's cache and the delivery to the router's.             *)
LEMMA RequestKeeps ==
  ASSUME IngressInv, NEW d \in Deliveries, HandleRequest(d)
  PROVE  IngressInv'
<1> USE DEF IngressInv
<1>0. /\ attempts < MaxAttempts /\ attempts' = attempts + 1
      /\ conf' = conf /\ route' = route /\ forgotRouter' = forgotRouter
  BY DEF HandleRequest
<1>1. attempts' \in 0..MaxAttempts
  BY <1>0, WebhookAssumption DEF TypeOK
<1>2. CASE RequestId(d) \in Range(processed)
  <2>1. /\ answer' = [answer EXCEPT ![d] = "duplicate"]
        /\ processed' = processed /\ forgotServer' = forgotServer
        /\ recentDeliveries' = recentDeliveries /\ worker' = worker /\ injected' = injected
    BY <1>2 DEF HandleRequest, Respond
  <2>2. answer' \in [Deliveries -> Answers]
    BY <2>1 DEF TypeOK, Answers
  <2>3. TypeOK'
    BY <1>0, <1>1, <2>1, <2>2 DEF TypeOK
  <2>4. CachesRemember' /\ InjectedOnce'
    BY <1>0, <2>1 DEF CachesRemember, InjectedOnce
  <2> QED  BY <2>3, <2>4
<1>3. CASE RequestId(d) \notin Range(processed)
  <2>1. /\ processed' \in Seq(RequestIds) /\ Len(processed') <= MAX_DEDUP_ENTRIES
        /\ forgotServer \subseteq forgotServer' /\ forgotServer' \subseteq Deliveries
        /\ \A x \in RequestIds : x \in Range(processed) \cup {RequestId(d)}
                                   => x \in Range(processed') \/ x[1] \in forgotServer'
    BY <1>0, <1>3, MarkKeeps DEF HandleRequest
  <2>2. /\ recentDeliveries \subseteq recentDeliveries' /\ recentDeliveries' \subseteq Deliveries
        /\ answer' \in [Deliveries -> Answers]
        /\ worker' \in BOOLEAN
        /\ \/ injected' = injected
           \/ /\ d \notin recentDeliveries /\ d \in recentDeliveries'
              /\ injected' = [injected EXCEPT ![d] = @ + 1]
    <3>1. CASE route
      BY <1>0, <1>3, <3>1, EndpointInjects DEF HandleRequest
    <3>2. CASE ~route
      <4>1. /\ answer' = [answer EXCEPT ![d] = "unknown"]
            /\ recentDeliveries' = recentDeliveries /\ worker' = worker
            /\ injected' = injected
        BY <1>3, <3>2 DEF HandleRequest, Respond
      <4>2. answer' \in [Deliveries -> Answers]
        BY <4>1 DEF TypeOK, Answers
      <4> QED  BY <4>1, <4>2 DEF TypeOK
    <3> QED  BY <3>1, <3>2
  <2>3. \A e \in Deliveries : <<e, 0>> \in RequestIds /\ <<e, 0>>[1] = e
    BY WebhookAssumption DEF RequestIds
  <2>4. ~conf.fresh => RequestId(d) = <<d, 0>>
    BY DEF RequestId
  <2>5. ASSUME NEW e \in Deliveries, injected'[e] > 0
        PROVE  e \in recentDeliveries' \cup forgotRouter /\ (conf.fresh \/ <<e, 0>> \in Range(processed') \/ e \in forgotServer')
    <3>1. CASE injected[e] > 0
      <4>1. e \in recentDeliveries \cup forgotRouter /\ (conf.fresh \/ <<e, 0>> \in Range(processed) \/ e \in forgotServer)
        BY <1>0, <3>1 DEF CachesRemember
      <4>2. <<e, 0>> \in Range(processed) => <<e, 0>> \in Range(processed') \/ e \in forgotServer'
        BY <2>1, <2>3
      <4> QED  BY <2>1, <2>2, <4>1, <4>2
    <3>2. CASE ~(injected[e] > 0)
      <4>1. e = d /\ d \in recentDeliveries'
        BY <1>0, <2>2, <2>5, <3>2 DEF TypeOK
      <4>2. ~conf.fresh => <<d, 0>> \in Range(processed') \/ d \in forgotServer'
        BY <2>1, <2>3, <2>4
      <4> QED  BY <4>1, <4>2
    <3> QED  BY <3>1, <3>2
  <2>6. CachesRemember'
    <3>1. conf' = conf /\ forgotRouter' = forgotRouter
      BY <1>0
    <3> QED  BY <2>5, <3>1 DEF CachesRemember
  <2>7. InjectedOnce'
    <3>1. CASE injected' = injected
      BY <1>0, <2>1, <3>1 DEF InjectedOnce
    <3>2. CASE /\ d \notin recentDeliveries
               /\ injected' = [injected EXCEPT ![d] = @ + 1]
      <4>1. injected[d] > 0 => d \in forgotRouter /\ (conf.fresh \/ d \in forgotServer)
        BY <1>3, <2>4, <3>2 DEF CachesRemember
      <4>2. injected'[d] > 1 => injected[d] > 0
        BY <3>2 DEF TypeOK
      <4>3. \A e \in Deliveries \ {d} : injected'[e] = injected[e]
        BY <3>2 DEF TypeOK
      <4> QED  BY <1>0, <2>1, <4>1, <4>2, <4>3 DEF InjectedOnce
    <3> QED  BY <2>2, <3>1, <3>2
  <2>8. injected' \in [Deliveries -> Nat]
    BY <2>2 DEF TypeOK
  <2>9. TypeOK'
    BY <1>0, <1>1, <2>1, <2>2, <2>8 DEF TypeOK
  <2> QED  BY <2>6, <2>7, <2>9
<1> QED  BY <1>2, <1>3

(* Expiry of the server's cache: what leaves it is noted.                  *)
LEMMA ExpireKeeps ==
  ASSUME IngressInv, ExpireProcessed
  PROVE  IngressInv'
<1> USE DEF IngressInv
<1>1. /\ processed \in Seq(RequestIds) /\ Len(processed) > 0
      /\ processed' = Tail(processed)
      /\ forgotServer' = forgotServer \cup {Head(processed)[1]}
      /\ UNCHANGED <<conf, route, recentDeliveries, worker, attempts, answer, injected,
                     forgotRouter>>
  BY DEF ExpireProcessed, TypeOK
<1>2. /\ Tail(processed) \in Seq(RequestIds) /\ Len(Tail(processed)) = Len(processed) - 1
      /\ Head(processed) \in RequestIds
      /\ Range(processed) \subseteq Range(Tail(processed)) \cup {Head(processed)}
  BY <1>1, TailRange
<1>3. Head(processed)[1] \in Deliveries
  BY <1>2 DEF RequestIds
<1>4. Len(processed') <= MAX_DEDUP_ENTRIES
  BY <1>1, <1>2, WebhookAssumption DEF TypeOK
<1>5. TypeOK'
  BY <1>1, <1>2, <1>3, <1>4 DEF TypeOK
<1>6. \A e : <<e, 0>>[1] = e
  OBVIOUS
<1>7. CachesRemember'
  BY <1>1, <1>2, <1>6 DEF CachesRemember
<1>8. InjectedOnce'
  BY <1>1 DEF InjectedOnce
<1> QED  BY <1>5, <1>7, <1>8

(* Every step keeps the invariant.                                         *)
THEOREM StepIngress == IngressInv /\ [Next]_vars => IngressInv'
<1> SUFFICES ASSUME IngressInv, [Next]_vars PROVE IngressInv'
  OBVIOUS
<1>1. ASSUME NEW d \in Deliveries, HandleRequest(d) PROVE IngressInv'
  BY <1>1, RequestKeeps
<1>2. ASSUME NEW d \in Deliveries, ExpireDelivery(d) PROVE IngressInv'
  <2>1. TypeOK'
    BY <1>2 DEF ExpireDelivery, IngressInv, TypeOK
  <2>2. CachesRemember' /\ InjectedOnce'
    BY <1>2 DEF ExpireDelivery, IngressInv, CachesRemember, InjectedOnce
  <2> QED  BY <2>1, <2>2 DEF IngressInv
<1>3. CASE ExpireProcessed
  BY <1>3, ExpireKeeps
<1>4. CASE AddRuntimeRoute \/ RemoveRuntimeRoute \/ WorkerComesAndGoes
  <2>1. route' \in BOOLEAN /\ worker' \in BOOLEAN
    BY <1>4 DEF AddRuntimeRoute, RemoveRuntimeRoute, WorkerComesAndGoes, IngressInv, TypeOK
  <2>2. UNCHANGED <<conf, processed, recentDeliveries, attempts, answer, injected,
                    forgotServer, forgotRouter>>
    BY <1>4 DEF AddRuntimeRoute, RemoveRuntimeRoute, WorkerComesAndGoes, histVars
  <2> QED  BY <2>1, <2>2 DEF IngressInv, TypeOK, CachesRemember, InjectedOnce
<1>5. CASE UNCHANGED vars
  BY <1>5 DEF vars, histVars, IngressInv, TypeOK, CachesRemember, InjectedOnce
<1> QED  BY <1>1, <1>2, <1>3, <1>4, <1>5 DEF Next

(* The inductive invariant holds throughout.                               *)
THEOREM Ingress == Spec => []IngressInv
BY InitIngress, StepIngress, PTL DEF Spec

(* An event wakes the agent once, however often its provider repeats it    *)
(* and whatever the caches expire or evict: base-webhook.ts markProcessed  *)
(* and webhook-router.ts's own cache, for any size and any deliveries.     *)
THEOREM WakesOnce == Spec => []InjectedOnce
<1>1. IngressInv => InjectedOnce
  BY DEF IngressInv
<1> QED  BY <1>1, Ingress, PTL

-----------------------------------------------------------------------------
(* Memory: an entry leaves the file by a call that names it.               *)

(* The lock file keeps calls apart unless it ages under a living holder,   *)
(* or two of them find the lock of a dead one: the second to delete it     *)
(* deletes the first one's (file-provider.ts withFileLock).                *)
LockSafe ==
  ~HooksSlow /\ (MemCrash => \A c, d, e \in MemCalls : c = d \/ c = e \/ d = e)

MemPlaces == {"idle", "wait", "breaking", "refuse", "hold", "hooks", "done", "dead"}
MemRows == [at : MemPlaces, ask : Asks \cup {NoAsk}, to : SUBSET Entries]
MemTypeOK ==
  /\ file \subseteq Entries /\ memCalls \in [MemCalls -> MemRows] /\ lockFile \in MemCalls \cup {NoCall}
  /\ ingest \in [at : {"idle", "writing", "done"}, to : SUBSET Entries]
  /\ \A c \in MemCalls : memCalls[c].at \in {"wait", "breaking"} => memCalls[c].ask \in Asks

Inside(c) == memCalls[c].at \in {"refuse", "hold", "hooks"}
LockOwned == \A c \in MemCalls : Inside(c) => lockFile = c
DeadNeedCrash == \A c \in MemCalls : memCalls[c].at = "dead" => MemCrash
OldIsDead == oldLock => \E d \in MemCalls : memCalls[d].at = "dead"
BreakersFoundDead ==
  \A c \in MemCalls : memCalls[c].at = "breaking" => \E d \in MemCalls : memCalls[d].at = "dead"

(* What a call is about to take from the file beyond what it names, the    *)
(* extraction has put there since the call read it.                        *)
WritesWhatItRead ==
  \A c \in MemCalls : memCalls[c].at = "hold" =>
    (file \ memCalls[c].to) \ Named(memCalls[c].ask) \subseteq ingest.to

MemInv ==
  /\ MemTypeOK /\ LockOwned /\ DeadNeedCrash /\ OldIsDead /\ BreakersFoundDead
  /\ WritesWhatItRead /\ EntryKept

(* An edit takes only what its request names, and leaves entries.          *)
LEMMA EditTakesNamed ==
  ASSUME NEW S \in SUBSET Entries, NEW a \in Asks
  PROVE  /\ Edited(S, a) \in SUBSET Entries /\ S \ Edited(S, a) \subseteq Named(a)
         /\ Projected(S, a) \in SUBSET Entries /\ S \ Projected(S, a) \subseteq Named(a)
<1>1. \/ a.op = "add" /\ a.new \in Entries
      \/ a.op = "remove" /\ a.old \in Entries
      \/ a.op = "upsert" /\ a.new \in Entries /\ a.key \in MemKeys
      \/ a.op = "replace" /\ a.new \in Entries /\ a.old \in Entries
  <2>1. \/ \E e \in Entries : a \in {Ask("add", FreeForm, e, NoEntry), Ask("remove", FreeForm, NoEntry, e)}
        \/ \E k \in MemKeys, e \in Entries : a = Ask("upsert", k, e, NoEntry)
        \/ \E e \in Entries, old \in Entries : a = Ask("replace", FreeForm, e, old)
    <3> DEFINE A == UNION {{Ask("add", FreeForm, e, NoEntry), Ask("remove", FreeForm, NoEntry, e)} : e \in Entries}
               B == {Ask("upsert", k, e, NoEntry) : k \in MemKeys, e \in Entries}
               C == {Ask("replace", FreeForm, e, old) : e \in Entries, old \in Entries}
    <3>1. a \in A \/ a \in B \/ a \in C
      BY DEF Asks
    <3>2. CASE a \in A
      <4> HIDE DEF Ask
      <4>1. PICK S0 \in {{Ask("add", FreeForm, e, NoEntry), Ask("remove", FreeForm, NoEntry, e)} : e \in Entries} : a \in S0
        BY <3>2, Zenon
      <4> QED  BY <4>1, Zenon
    <3>3. CASE a \in B
      BY <3>3
    <3>4. CASE a \in C
      BY <3>4
    <3> HIDE DEF A, B, C
    <3> QED  BY <3>1, <3>2, <3>3, <3>4
  <2> QED  BY <2>1 DEF Ask
<1>2. CASE a.op = "add" /\ a.new \in Entries
  <2>1. Edited(S, a) = Added(S, a.new)
    BY <1>2 DEF Edited
  <2> QED  BY <1>2, <2>1 DEF Added, Projected
<1>3. CASE a.op = "remove" /\ a.old \in Entries
  <2>1. Edited(S, a) = S \ {a.old}
    BY <1>3 DEF Edited
  <2>2. Named(a) = {a.old}
    BY <1>3 DEF Named
  <2> QED  BY <2>1, <2>2 DEF Projected
<1>4. CASE a.op = "upsert" /\ a.new \in Entries /\ a.key \in MemKeys
  <2>1. Edited(S, a) = Upserted(S, a.key, a.new)
    BY <1>4 DEF Edited
  <2>2. Named(a) = Keyed(Entries, a.key)
    BY <1>4 DEF Named
  <2>3. SlotEntry(a.key, a.new) \in Entries
    BY <1>4 DEF SlotEntry, Entries
  <2>4. Edited(S, a) \in SUBSET Entries /\ S \ Edited(S, a) \subseteq Named(a)
    <3> DEFINE x == CHOOSE s \in Keyed(S, a.key) : TRUE
    <3>1. CASE Keyed(S, a.key) = {}
      BY <2>1, <2>3, <3>1 DEF Upserted
    <3>2. CASE Keyed(S, a.key) # {}
      <4>1. x \in Keyed(S, a.key)
        BY <3>2
      <4>2. x \in Keyed(Entries, a.key)
        BY <4>1 DEF Keyed
      <4>3. Edited(S, a) = (S \ {x}) \cup {SlotEntry(a.key, a.new)}
        BY <2>1, <3>2 DEF Upserted
      <4> QED  BY <2>2, <2>3, <4>2, <4>3
    <3> QED  BY <3>1, <3>2
  <2> QED  BY <2>4 DEF Projected
<1>5. CASE a.op = "replace" /\ a.new \in Entries /\ a.old \in Entries
  <2>1. Edited(S, a) = Replaced(S, a.old, a.new)
    BY <1>5 DEF Edited
  <2>2. Named(a) = {a.old}
    BY <1>5 DEF Named
  <2> QED  BY <1>5, <2>1, <2>2 DEF Replaced, Projected
<1> QED  BY <1>1, <1>2, <1>3, <1>4, <1>5

\* The initial states satisfy the invariant of the entry file.
LEMMA MemStart == MemInit => MemInv
<1> SUFFICES ASSUME MemInit PROVE MemInv
  OBVIOUS
<1>1. \A c \in MemCalls : memCalls[c] = [at |-> "idle", ask |-> NoAsk, to |-> {}]
  BY DEF MemInit
<1>2. [at |-> "idle", ask |-> NoAsk, to |-> {}] \in MemRows
  BY DEF MemRows, MemPlaces
<1>3. MemTypeOK
  BY <1>1, <1>2 DEF MemTypeOK, MemInit
<1> QED  BY <1>1, <1>3 DEF MemInv, LockOwned, Inside, DeadNeedCrash, OldIsDead, BreakersFoundDead,
                           WritesWhatItRead, EntryKept, MemInit

(* A step of one call: the others stay where they are.                     *)
OnlyMoves(c, at, ask, to) ==
  /\ memCalls'[c] = [at |-> at, ask |-> ask, to |-> to]
  /\ \A d \in MemCalls \ {c} : memCalls'[d] = memCalls[d]
  /\ memCalls' \in [MemCalls -> MemRows]

\* A call that writes its row leaves the rows of the other calls alone.
LEMMA Moves ==
  ASSUME MemTypeOK, NEW c \in MemCalls, NEW at \in MemPlaces, NEW ask \in Asks \cup {NoAsk},
         NEW to \in SUBSET Entries, memCalls' = [memCalls EXCEPT ![c] = [at |-> at, ask |-> ask, to |-> to]]
  PROVE  OnlyMoves(c, at, ask, to)
  BY DEF MemTypeOK, OnlyMoves, MemRows

\* The fields of a call's row and what EXCEPT makes of them.
LEMMA RowFields ==
  ASSUME MemTypeOK, NEW c \in MemCalls
  PROVE  /\ memCalls[c].at \in MemPlaces /\ memCalls[c].ask \in Asks \cup {NoAsk} /\ memCalls[c].to \in SUBSET Entries
         /\ \A x : [memCalls[c] EXCEPT !.at = x] = [at |-> x, ask |-> memCalls[c].ask, to |-> memCalls[c].to]
         /\ \A x, y : [memCalls[c] EXCEPT !.at = x, !.to = y] = [at |-> x, ask |-> memCalls[c].ask, to |-> y]
<1>1. memCalls[c] \in MemRows
  BY DEF MemTypeOK
<1>2. \A r \in MemRows : \A x : [r EXCEPT !.at = x] = [at |-> x, ask |-> r.ask, to |-> r.to]
  BY DEF MemRows
<1>3. \A r \in MemRows : \A x, y : [r EXCEPT !.at = x, !.to = y] = [at |-> x, ask |-> r.ask, to |-> y]
  <2> SUFFICES ASSUME NEW r \in MemRows, NEW x, NEW y
               PROVE  [r EXCEPT !.at = x, !.to = y] = [at |-> x, ask |-> r.ask, to |-> y]
    OBVIOUS
  <2>1. [r EXCEPT !.at = x, !.to = y] = [[r EXCEPT !.at = x] EXCEPT !.to = y]
    OBVIOUS
  <2>2. [r EXCEPT !.at = x] = [at |-> x, ask |-> r.ask, to |-> r.to]
    BY DEF MemRows
  <2>3. [[at |-> x, ask |-> r.ask, to |-> r.to] EXCEPT !.to = y] = [at |-> x, ask |-> r.ask, to |-> y]
    OBVIOUS
  <2> QED  BY <2>1, <2>2, <2>3
<1>4. \A r \in MemRows : r.at \in MemPlaces /\ r.ask \in Asks \cup {NoAsk} /\ r.to \in SUBSET Entries
  BY DEF MemRows
<1> QED  BY <1>1, <1>2, <1>3, <1>4

\* Every step of the memory calls keeps the invariant while no live lock is broken.
LEMMA MemStep ==
  ASSUME LockSafe, MemInv, [MemNext]_memVars
  PROVE  MemInv'
<1> USE DEF MemPlaces
<1>t. MemTypeOK
  BY DEF MemInv
<1>1. ASSUME NEW c \in MemCalls, NEW a \in Asks, CallBegins(c, a) PROVE MemInv'
  <2>1. OnlyMoves(c, "wait", a, {})
    BY <1>t, <1>1, Moves DEF CallBegins
  <2> QED
    BY <1>1, <2>1 DEF CallBegins, OnlyMoves, MemInv, MemTypeOK, LockOwned, Inside, DeadNeedCrash, OldIsDead,
                 BreakersFoundDead, WritesWhatItRead, EntryKept
<1>2. ASSUME NEW c \in MemCalls, Locks(c) PROVE MemInv'
  <2> DEFINE a == memCalls[c].ask
             p == Projected(file, a)
             x == IF p = file THEN "refuse" ELSE "hold"
  <2>1. a \in Asks /\ file \in SUBSET Entries
    BY <1>2, <1>t DEF Locks, MemTypeOK
  <2>2. p \in SUBSET Entries /\ file \ p \subseteq Named(a)
    BY <2>1, EditTakesNamed
  <2>3. OnlyMoves(c, x, a, p)
    <3>1. memCalls' = [memCalls EXCEPT ![c] = [at |-> x, ask |-> a, to |-> p]]
      BY <1>2, <1>t, RowFields DEF Locks
    <3>2. x \in MemPlaces
      OBVIOUS
    <3> HIDE DEF x, a, p
    <3> QED  BY <1>t, <2>1, <2>2, <3>1, <3>2, Moves
  <2>4. \A d \in MemCalls : ~Inside(d)
    BY <1>2, MemAssumption DEF Locks, MemInv, LockOwned
  <2>5. x \in {"refuse", "hold"}
    OBVIOUS
  <2> HIDE DEF x, a, p
  <2>6. LockOwned'
    BY <1>2, <2>3, <2>4 DEF LockOwned, Inside, Locks, OnlyMoves
  <2>7. WritesWhatItRead'
    <3>1. memCalls'[c].to = p /\ memCalls'[c].ask = a
      BY <2>3 DEF OnlyMoves
    <3>3. file' = file
      BY <1>2 DEF Locks
    <3>2. \A d \in MemCalls \ {c} : memCalls'[d].at # "hold"
      BY <2>3, <2>4 DEF OnlyMoves, Inside
    <3> QED  BY <2>2, <3>1, <3>2, <3>3 DEF WritesWhatItRead
  <2>8. \A d \in MemCalls : memCalls[d].at = "dead" <=> memCalls'[d].at = "dead"
    BY <1>2, <2>3, <2>5 DEF OnlyMoves, Locks
  <2>9. \A d \in MemCalls : memCalls'[d].at \in {"wait", "breaking"} => d # c
    BY <2>3, <2>5 DEF OnlyMoves
  <2> QED
    BY <1>2, <2>3, <2>6, <2>7, <2>8, <2>9 DEF Locks, OnlyMoves, MemInv, MemTypeOK, DeadNeedCrash, OldIsDead,
                 BreakersFoundDead, EntryKept
<1>3. ASSUME NEW c \in MemCalls, SeesStale(c) PROVE MemInv'
  <2>1. OnlyMoves(c, "breaking", memCalls[c].ask, memCalls[c].to)
    BY <1>3, <1>t, RowFields, Moves DEF SeesStale
  <2>2. \A d \in MemCalls : memCalls[d].at = "dead" <=> memCalls'[d].at = "dead"
    BY <1>3, <2>1 DEF OnlyMoves, SeesStale
  <2>3. memCalls[c].at = "wait" /\ oldLock /\ UNCHANGED <<file, lockFile, oldLock, ingest, lost>>
    BY <1>3 DEF SeesStale, Stale
  <2> QED
    BY <2>1, <2>2, <2>3 DEF OnlyMoves, MemInv, MemTypeOK, LockOwned, Inside, DeadNeedCrash, OldIsDead,
                 BreakersFoundDead, WritesWhatItRead, EntryKept
<1>4. ASSUME NEW c \in MemCalls, Breaks(c) PROVE MemInv'
  <2>1. OnlyMoves(c, "wait", memCalls[c].ask, memCalls[c].to)
    BY <1>4, <1>t, RowFields, Moves DEF Breaks
  <2>2. PICK d \in MemCalls : memCalls[d].at = "dead"
    BY <1>4 DEF Breaks, MemInv, BreakersFoundDead
  <2>3. \A e \in MemCalls : e = c \/ e = d
    BY <1>4, <2>2 DEF MemInv, DeadNeedCrash, LockSafe, Breaks
  <2>4. \A e \in MemCalls : ~Inside(e) /\ (memCalls[e].at = "dead" <=> memCalls'[e].at = "dead")
    BY <1>4, <2>1, <2>2, <2>3 DEF Inside, Breaks, OnlyMoves
  <2>5. memCalls[c].at = "breaking" /\ lockFile' = NoCall /\ ~oldLock' /\ UNCHANGED <<file, ingest, lost>>
    BY <1>4 DEF Breaks
  <2>6. MemTypeOK'
    BY <2>1, <2>5, <1>t DEF OnlyMoves, MemTypeOK
  <2>7. LockOwned' /\ WritesWhatItRead'
    BY <2>1, <2>4 DEF OnlyMoves, LockOwned, Inside, WritesWhatItRead
  <2> QED  BY <2>1, <2>4, <2>5, <2>6, <2>7 DEF OnlyMoves, MemInv, DeadNeedCrash, OldIsDead, BreakersFoundDead, EntryKept
<1>5. ASSUME NEW c \in MemCalls, GivesUpLock(c) PROVE MemInv'
  <2>1. OnlyMoves(c, "done", memCalls[c].ask, memCalls[c].to)
    BY <1>5, <1>t, RowFields, Moves DEF GivesUpLock
  <2>2. \A e \in MemCalls : memCalls[e].at = "dead" <=> memCalls'[e].at = "dead"
    BY <1>5, <2>1 DEF GivesUpLock, OnlyMoves
  <2>3. memCalls[c].at = "wait" /\ UNCHANGED <<file, lockFile, oldLock, ingest, lost>>
    BY <1>5 DEF GivesUpLock
  <2> QED
    <3>1. MemTypeOK'
      BY <2>1, <2>3, <1>t DEF OnlyMoves, MemTypeOK
    <3>2. LockOwned' /\ WritesWhatItRead'
      BY <2>1, <2>3 DEF OnlyMoves, MemInv, LockOwned, Inside, WritesWhatItRead
    <3> QED  BY <2>1, <2>2, <2>3, <3>1, <3>2 DEF OnlyMoves, MemInv, DeadNeedCrash, OldIsDead, BreakersFoundDead, EntryKept
<1>6. ASSUME NEW c \in MemCalls, WritesFile(c) PROVE MemInv'
  <2>1. OnlyMoves(c, "hooks", memCalls[c].ask, memCalls[c].to)
    BY <1>6, <1>t, RowFields, Moves DEF WritesFile
  <2>2. \A e \in MemCalls : memCalls[e].at = "dead" <=> memCalls'[e].at = "dead"
    BY <1>6, <2>1 DEF WritesFile, OnlyMoves
  <2>3. memCalls[c].at = "hold" /\ UNCHANGED <<lockFile, oldLock, ingest>> /\ file' \in SUBSET Entries
    BY <1>6, <1>t, RowFields DEF WritesFile
  <2>4. \A e \in MemCalls \ {c} : ~Inside(e)
    BY <2>3 DEF MemInv, LockOwned, Inside
  <2>5. lost' = {}
    BY <1>6, <2>3 DEF WritesFile, MemInv, WritesWhatItRead, EntryKept
  <2>6. LockOwned' /\ WritesWhatItRead'
    BY <2>1, <2>3, <2>4 DEF MemInv, LockOwned, Inside, WritesWhatItRead, OnlyMoves
  <2> QED
    BY <2>1, <2>2, <2>3, <2>5, <2>6 DEF OnlyMoves, MemInv, MemTypeOK, DeadNeedCrash, OldIsDead,
                 BreakersFoundDead, EntryKept
<1>7. ASSUME NEW c \in MemCalls, Refuses(c) \/ \E ok \in BOOLEAN : HooksDone(c, ok) PROVE MemInv'
  <2>1. OnlyMoves(c, "done", memCalls[c].ask, memCalls[c].to)
    <3>1. memCalls' = [memCalls EXCEPT ![c].at = "done"]
      BY <1>7 DEF Refuses, HooksDone
    <3> QED  BY <1>t, <3>1, RowFields, Moves
  <2>2. Inside(c) /\ UNCHANGED <<file, ingest, lost>> /\ oldLock' = FALSE
    BY <1>7 DEF Refuses, HooksDone, Inside
  <2>3. \A e \in MemCalls : /\ memCalls[e].at = "dead" <=> memCalls'[e].at = "dead"
                            /\ ~Inside(e)'
    BY <2>1, <2>2 DEF OnlyMoves, Inside, MemInv, LockOwned
  <2> QED
    <3>1. MemTypeOK'
      <4>1. lockFile' = NoCall
        BY <1>7 DEF Refuses, HooksDone
      <4> QED  BY <2>1, <2>2, <4>1, <1>t DEF OnlyMoves, MemTypeOK
    <3>2. LockOwned' /\ WritesWhatItRead'
      BY <2>3 DEF LockOwned, Inside, WritesWhatItRead
    <3> QED  BY <2>1, <2>2, <2>3, <3>1, <3>2 DEF OnlyMoves, MemInv, DeadNeedCrash, OldIsDead, BreakersFoundDead, EntryKept
<1>8. CASE LockAges
  <2>1. /\ lockFile # NoCall /\ memCalls[lockFile].at = "dead" /\ UNCHANGED <<file, lockFile, memCalls, ingest, lost>>
    BY <1>8 DEF LockAges, LockSafe
  <2>2. lockFile \in MemCalls
    BY <1>t, <2>1 DEF MemTypeOK
  <2>3. OldIsDead'
    BY <2>1, <2>2 DEF OldIsDead
  <2> QED
    BY <2>1, <2>3 DEF MemInv, MemTypeOK, LockOwned, Inside, DeadNeedCrash,
                 BreakersFoundDead, WritesWhatItRead, EntryKept
<1>9. CASE ProcessDies
  <2>1. \A c \in MemCalls :
          /\ memCalls'[c].ask = memCalls[c].ask /\ memCalls'[c].to = memCalls[c].to
          /\ memCalls'[c] \in MemRows
          /\ \/ memCalls'[c].at = "dead"
             \/ memCalls'[c].at = memCalls[c].at /\ memCalls[c].at \in {"idle", "done"}
    <3> SUFFICES ASSUME NEW c \in MemCalls
                 PROVE  /\ memCalls'[c].ask = memCalls[c].ask /\ memCalls'[c].to = memCalls[c].to
                        /\ memCalls'[c] \in MemRows
                        /\ \/ memCalls'[c].at = "dead"
                           \/ memCalls'[c].at = memCalls[c].at /\ memCalls[c].at \in {"idle", "done"}
      OBVIOUS
    <3>1. memCalls[c] \in MemRows
      BY <1>t DEF MemTypeOK
    <3>2. memCalls'[c] = IF memCalls[c].at \in {"idle", "done"} THEN memCalls[c] ELSE [memCalls[c] EXCEPT !.at = "dead"]
      BY <1>9 DEF ProcessDies
    <3>3. \A r \in MemRows : /\ [r EXCEPT !.at = "dead"] \in MemRows /\ [r EXCEPT !.at = "dead"].at = "dead"
                            /\ [r EXCEPT !.at = "dead"].ask = r.ask /\ [r EXCEPT !.at = "dead"].to = r.to
      BY DEF MemRows
    <3> QED  BY <3>1, <3>2, <3>3
  <2>2. memCalls' \in [MemCalls -> MemRows]
    <3>1. DOMAIN memCalls' = MemCalls /\ memCalls' = [c \in MemCalls |-> memCalls'[c]]
      BY <1>9 DEF ProcessDies
    <3> QED  BY <2>1, <3>1
  <2>3. ingest' \in [at : {"idle", "writing", "done"}, to : SUBSET Entries] /\ ingest'.to = ingest.to
    BY <1>9, <1>t DEF ProcessDies, MemTypeOK
  <2>4. MemCrash /\ UNCHANGED <<file, lockFile, oldLock, lost>>
    BY <1>9 DEF ProcessDies
  <2>5. \A c \in MemCalls : memCalls[c].at = "dead" => memCalls'[c].at = "dead"
    BY <2>1
  <2> QED
    BY <2>1, <2>2, <2>3, <2>4, <2>5 DEF MemInv, MemTypeOK, LockOwned, Inside, DeadNeedCrash, OldIsDead,
                 BreakersFoundDead, WritesWhatItRead, EntryKept
<1>10. CASE IngestWrites
  <2>1. ingest' \in [at : {"idle", "writing", "done"}, to : SUBSET Entries] /\ ingest'.to = ingest.to
    BY <1>10, <1>t DEF IngestWrites, MemTypeOK
  <2>2. file' = ingest.to /\ UNCHANGED <<lockFile, oldLock, memCalls, lost>>
    BY <1>10 DEF IngestWrites
  <2> QED
    BY <2>1, <2>2 DEF MemInv, MemTypeOK, LockOwned, Inside, DeadNeedCrash, OldIsDead,
                 BreakersFoundDead, WritesWhatItRead, EntryKept
<1>11. ASSUME NEW e \in Entries, IngestReads(e) PROVE MemInv'
  <2>1. ingest' \in [at : {"idle", "writing", "done"}, to : SUBSET Entries] /\ file \subseteq ingest'.to
    BY <1>11, <1>t DEF IngestReads, MemTypeOK
  <2>2. UNCHANGED <<file, lockFile, oldLock, memCalls, lost>>
    BY <1>11 DEF IngestReads
  <2> QED
    BY <2>1, <2>2 DEF MemInv, MemTypeOK, LockOwned, Inside, DeadNeedCrash, OldIsDead,
                 BreakersFoundDead, WritesWhatItRead, EntryKept
<1>12. CASE UNCHANGED <<file, lockFile, oldLock, memCalls, ingest, lost>>
  BY <1>12 DEF MemInv, MemTypeOK, LockOwned, Inside, DeadNeedCrash, OldIsDead,
                 BreakersFoundDead, WritesWhatItRead, EntryKept
<1>13. ASSUME NEW e \in Entries, NEW old \in Entries, SmartRemembers(e, old) PROVE MemInv'
  BY <1>12, <1>13 DEF SmartRemembers
<1>14. CASE UNCHANGED memVars
  BY <1>12, <1>14 DEF memVars
<1> QED  BY <1>1, <1>2, <1>3, <1>4, <1>5, <1>6, <1>7, <1>8, <1>9, <1>10, <1>11, <1>13, <1>14 DEF MemNext

-----------------------------------------------------------------------------
(* The vault: secrets stay readable and in the scope of their token.       *)

(* Commands that overlap may both initialise the vault, so what is proved  *)
(* of the key is proved of commands run one after the other.               *)
OneOperator == \A o, p \in Operators : o = p

SecretRows == [val : Nat, dek : Nat]
TokenRows == [at : {"none", "live", "revoked", "expired"}, hosts : SUBSET Patterns, names : SUBSET (SecretNames \cup {"*"})]
TunnelRows ==
  [at : {"none", "open", "done", "refused"}, token : (1..MaxTokens) \cup {0}, host : Hosts \cup {"none"}, got : SUBSET SecretNames]
CommandRows ==
  {NoVaultCommand} \cup [kind : {"init"}, pw : Passwords] \cup [kind : {"change"}, pw : Passwords, new : Passwords]
    \cup [kind : {"wrap"}, pw : Passwords, dek : Nat]

KeysTypeOK ==
  /\ meta \in [pw : Passwords \cup {"none"}, dek : Nat] /\ deks \in Nat
  /\ secrets \in [SecretNames -> SecretRows] /\ commands \in [Operators -> CommandRows]
ScopesTypeOK ==
  /\ rules \subseteq Patterns \X SecretNames
  /\ tokens \in [1..MaxTokens -> TokenRows] /\ tunnels \in [1..MaxTunnels -> TunnelRows]

(* The key a command is about to write is the one in force, and before     *)
(* there is one no secret is sealed.                                       *)
WrapsKeyInForce == \A o \in Operators : commands[o].kind = "wrap" /\ Initialised => commands[o].dek = meta.dek
SealedNeedsKey == \A s \in SecretNames : secrets[s].val # 0 => Initialised
KeysInv == KeysTypeOK /\ WrapsKeyInForce /\ SealedNeedsKey /\ SecretsReadable

(* A tunnel keeps to the host its token allows, and the scope of a token   *)
(* that was minted does not change.                                        *)
TunnelsInScope ==
  \A c \in 1..MaxTunnels : tunnels[c].at # "none" =>
    /\ tunnels[c].token \in 1..MaxTokens /\ tokens[tunnels[c].token].at # "none"
    /\ Matches(tunnels[c].host, tokens[tunnels[c].token].hosts)
ScopesInv == ScopesTypeOK /\ TunnelsInScope /\ ForwardedInScope

\* The initial states satisfy the invariant of the vault's keys.
LEMMA KeysStart == VaultInit => KeysInv
<1> SUFFICES ASSUME VaultInit PROVE KeysInv
  OBVIOUS
<1>1. secrets \in [SecretNames -> SecretRows] /\ \A s \in SecretNames : secrets[s].val = 0
  BY DEF VaultInit, SecretRows
<1>2. commands \in [Operators -> CommandRows] /\ \A o \in Operators : commands[o].kind = "none"
  BY DEF VaultInit, CommandRows, NoVaultCommand
<1>3. meta \in [pw : Passwords \cup {"none"}, dek : Nat] /\ deks \in Nat
  BY DEF VaultInit
<1> QED  BY <1>1, <1>2, <1>3 DEF KeysInv, KeysTypeOK, WrapsKeyInForce, SealedNeedsKey, SecretsReadable

\* The initial states satisfy the invariant of rules, tokens and tunnels.
LEMMA ScopesStart == VaultInit => ScopesInv
<1> SUFFICES ASSUME VaultInit PROVE ScopesInv
  OBVIOUS
<1>1. tokens \in [1..MaxTokens -> TokenRows]
  BY DEF VaultInit, TokenRows, FreeToken
<1>2. tunnels \in [1..MaxTunnels -> TunnelRows] /\ \A c \in 1..MaxTunnels : tunnels[c].at = "none"
  BY DEF VaultInit, TunnelRows, FreeTunnel
<1> QED  BY <1>1, <1>2 DEF ScopesInv, ScopesTypeOK, TunnelsInScope, ForwardedInScope, VaultInit

(* A command of the only operator: what it becomes, and no other.          *)
LEMMA CommandMoves ==
  ASSUME KeysInv, NEW o \in Operators, NEW x \in CommandRows, OneOperator, UNCHANGED <<meta, secrets>>,
         commands' = [commands EXCEPT ![o] = x], deks' \in Nat,
         x.kind = "wrap" /\ Initialised => x.dek = meta.dek
  PROVE  KeysInv'
<1>1. commands' \in [Operators -> CommandRows] /\ commands'[o] = x
  BY DEF KeysInv, KeysTypeOK
<1>2. \A p \in Operators : commands'[p] = x
  BY <1>1 DEF OneOperator
<1> QED  BY <1>1, <1>2 DEF KeysInv, KeysTypeOK, WrapsKeyInForce, SealedNeedsKey, SecretsReadable, Initialised

(* Secrets change under a vault that is open: each is what it was, gone,   *)
(* or sealed by the key in force.                                          *)
LEMMA SecretsSealed ==
  ASSUME KeysInv, UNCHANGED <<meta, commands, deks>>, secrets' \in [SecretNames -> SecretRows],
         \A s \in SecretNames : \/ secrets'[s] = secrets[s] \/ secrets'[s].val = 0
                                \/ Initialised /\ secrets'[s].dek = meta.dek
  PROVE  KeysInv'
  BY DEF KeysInv, KeysTypeOK, WrapsKeyInForce, SealedNeedsKey, SecretsReadable, Initialised

\* Every step of the vault keeps the invariant of its keys when one operator works at a time.
LEMMA KeysStep ==
  ASSUME OneOperator, KeysInv, [VaultNext]_vaultVars
  PROVE  KeysInv'
<1>k. KeysTypeOK /\ meta.dek \in Nat
  BY DEF KeysInv, KeysTypeOK
<1>1. ASSUME NEW o \in Operators, NEW c \in CommandRows, c.kind # "wrap", Begins(o, c) PROVE KeysInv'
  <2>1. deks' \in Nat /\ commands' = [commands EXCEPT ![o] = c] /\ UNCHANGED <<meta, secrets>>
    BY <1>1, <1>k DEF Begins, KeysTypeOK
  <2> QED  BY <1>1, <2>1, CommandMoves
<1>2. ASSUME NEW o \in Operators, NEW pw \in Passwords,
             InitAsked(o, pw) \/ \E new \in Passwords : ChangeAsked(o, pw, new)
      PROVE  KeysInv'
  <2>1. [kind |-> "init", pw |-> pw] \in CommandRows /\ \A new \in Passwords : [kind |-> "change", pw |-> pw, new |-> new] \in CommandRows
    BY DEF CommandRows
  <2> QED  BY <1>1, <1>2, <2>1 DEF InitAsked, ChangeAsked
<1>3. ASSUME NEW o \in Operators, InitDerives(o) PROVE KeysInv'
  <2> DEFINE x == [kind |-> "wrap", pw |-> commands[o].pw, dek |-> deks + 1]
  <2>1. commands[o] \in CommandRows /\ commands[o].kind = "init" /\ ~Initialised /\ deks \in Nat
    BY <1>3, <1>k DEF InitDerives, KeysTypeOK
  <2>2. commands[o].pw \in Passwords
    BY <2>1 DEF CommandRows, NoVaultCommand
  <2>3. x \in CommandRows
    BY <2>1, <2>2 DEF CommandRows
  <2>4. commands' = [commands EXCEPT ![o] = x] /\ deks' \in Nat /\ UNCHANGED <<meta, secrets>>
    BY <1>3, <2>1 DEF InitDerives
  <2> QED  BY <2>1, <2>3, <2>4, CommandMoves
<1>4. ASSUME NEW o \in Operators, ChangeDerives(o) PROVE KeysInv'
  <2> DEFINE x == [kind |-> "wrap", pw |-> commands[o].new, dek |-> meta.dek]
  <2>1. commands[o] \in CommandRows /\ commands[o].kind = "change"
    BY <1>4, <1>k DEF ChangeDerives, KeysTypeOK
  <2>2. commands[o].new \in Passwords
    BY <2>1 DEF CommandRows, NoVaultCommand
  <2>3. x \in CommandRows
    BY <1>k, <2>2 DEF CommandRows
  <2>4. commands' = [commands EXCEPT ![o] = x] /\ deks' \in Nat /\ UNCHANGED <<meta, secrets>>
    BY <1>4, <1>k DEF ChangeDerives, RewrapKey, KeysTypeOK
  <2> QED  BY <2>3, <2>4, CommandMoves
<1>5. ASSUME NEW o \in Operators, InitRefused(o) \/ ChangeRefused(o) PROVE KeysInv'
  <2>1. commands' = [commands EXCEPT ![o] = NoVaultCommand] /\ deks' \in Nat /\ UNCHANGED <<meta, secrets>>
    BY <1>5, <1>k DEF InitRefused, ChangeRefused, Ends, KeysTypeOK
  <2>2. NoVaultCommand \in CommandRows /\ NoVaultCommand.kind # "wrap"
    BY DEF CommandRows, NoVaultCommand
  <2> QED  BY <2>1, <2>2, CommandMoves
<1>6. ASSUME NEW o \in Operators, MetaWritten(o) PROVE KeysInv'
  <2>1. commands[o] \in CommandRows /\ commands[o].kind = "wrap"
    BY <1>6, <1>k DEF MetaWritten, KeysTypeOK
  <2>2. commands[o].pw \in Passwords /\ commands[o].dek \in Nat
    BY <2>1 DEF CommandRows, NoVaultCommand
  <2>3. /\ meta' = [pw |-> commands[o].pw, dek |-> commands[o].dek]
        /\ commands' = [commands EXCEPT ![o] = NoVaultCommand] /\ UNCHANGED <<secrets, deks>>
    BY <1>6 DEF MetaWritten, Ends
  <2>4. meta' \in [pw : Passwords \cup {"none"}, dek : Nat] /\ meta'.dek = commands[o].dek
    BY <2>2, <2>3
  <2>5. commands' \in [Operators -> CommandRows] /\ \A p \in Operators : commands'[p].kind # "wrap"
    <3>1. NoVaultCommand \in CommandRows /\ NoVaultCommand.kind # "wrap"
      BY DEF CommandRows, NoVaultCommand
    <3> QED  BY <1>k, <2>3, <3>1 DEF KeysTypeOK, OneOperator
  <2>6. \A s \in SecretNames : secrets[s].val # 0 => meta'.dek = meta.dek
    BY <2>1, <2>4 DEF KeysInv, SealedNeedsKey, WrapsKeyInForce
  <2> QED
    BY <1>k, <2>3, <2>4, <2>5, <2>6 DEF KeysInv, KeysTypeOK, WrapsKeyInForce, SealedNeedsKey, SecretsReadable, Initialised
<1>7. ASSUME NEW s \in SecretNames, NEW pw \in Passwords,
             VaultPut(s, pw) \/ \E h \in Patterns, ok \in BOOLEAN : VaultAdd(s, h, pw, ok)
      PROVE  KeysInv'
  <2> DEFINE x == [val |-> secrets[s].val + 1, dek |-> meta.dek]
  <2>1. UNCHANGED <<meta, commands, deks>> /\ Initialised /\ (secrets' = secrets \/ secrets' = [secrets EXCEPT ![s] = x])
    BY <1>7 DEF VaultPut, VaultAdd, Kept, Unseals, Put, NextVal
  <2>2. secrets \in [SecretNames -> SecretRows] /\ x \in SecretRows
    BY <1>k DEF KeysTypeOK, SecretRows
  <2>3. x.dek = meta.dek
    OBVIOUS
  <2> HIDE DEF x
  <2>4. secrets' \in [SecretNames -> SecretRows] /\ \A u \in SecretNames : secrets'[u] = secrets[u] \/ secrets'[u] = x
    BY <2>1, <2>2
  <2> QED  BY <2>1, <2>3, <2>4, SecretsSealed
<1>8. ASSUME NEW S \in SUBSET SecretNames, NEW pw \in Passwords, VaultImport(S, pw) PROVE KeysInv'
  <2>1. UNCHANGED <<meta, commands, deks>> /\ Initialised /\ secrets' = Import(S)
    BY <1>8 DEF VaultImport, Kept, Unseals
  <2>2. [val |-> 1, dek |-> meta.dek] \in SecretRows /\ \A u \in SecretNames : secrets[u] \in SecretRows
    BY <1>k DEF SecretRows, KeysTypeOK
  <2>3. /\ secrets' \in [SecretNames -> SecretRows]
        /\ \A u \in SecretNames : secrets'[u] = secrets[u] \/ secrets'[u] = [val |-> 1, dek |-> meta.dek]
    BY <2>1, <2>2 DEF Import
  <2> QED  BY <2>1, <2>3, SecretsSealed
<1>9. ASSUME NEW s \in SecretNames, VaultRm(s) PROVE KeysInv'
  <2>1. UNCHANGED <<meta, commands, deks>> /\ secrets' = [secrets EXCEPT ![s] = [val |-> 0, dek |-> 0]]
    BY <1>9 DEF VaultRm, Kept
  <2>2. [val |-> 0, dek |-> 0] \in SecretRows /\ secrets \in [SecretNames -> SecretRows]
    BY <1>k DEF SecretRows, KeysTypeOK
  <2>3. /\ secrets' \in [SecretNames -> SecretRows]
        /\ \A u \in SecretNames : secrets'[u] = secrets[u] \/ secrets'[u] = [val |-> 0, dek |-> 0]
    BY <2>1, <2>2
  <2> QED  BY <2>1, <2>3, SecretsSealed
<1>10. CASE UNCHANGED <<meta, secrets, commands, deks>>
  BY <1>10 DEF KeysInv, KeysTypeOK, WrapsKeyInForce, SealedNeedsKey, SecretsReadable, Initialised
<1>11. ASSUME \/ \E scope : Mint(scope)
              \/ \E r : RuleEdit(r)
              \/ \E t, how : TokenEnds(t, how)
              \/ \E c : RequestForwarded(c) \/ RequestRefused(c) \/ \E t, h : TunnelOpens(c, t, h)
              \/ UNCHANGED vaultVars
       PROVE  UNCHANGED <<meta, secrets, commands, deks>>
  BY <1>11 DEF Mint, RuleEdit, TokenEnds, RequestForwarded, RequestRefused, TunnelOpens, Kept, vaultVars
<1> QED  BY <1>2, <1>3, <1>4, <1>5, <1>6, <1>7, <1>8, <1>9, <1>10, <1>11 DEF VaultNext

(* Tokens may end and tunnels rest: the scopes stand.                      *)
LEMMA ScopesStep ==
  ASSUME ScopesInv, [VaultNext]_vaultVars
  PROVE  ScopesInv'
<1>s. ScopesTypeOK
  BY DEF ScopesInv
<1>1. ASSUME NEW x, UNCHANGED <<tokens, tunnels>>, rules' = x, x \in SUBSET (Patterns \X SecretNames) PROVE ScopesInv'
  BY <1>1 DEF ScopesInv, ScopesTypeOK, TunnelsInScope, ForwardedInScope
<1>2. UNCHANGED <<rules, tokens, tunnels>> => ScopesInv'
  BY <1>1, <1>s DEF ScopesTypeOK
<1>3. ASSUME NEW o \in Operators, InitDerives(o) \/ InitRefused(o) \/ ChangeDerives(o) \/ ChangeRefused(o) \/ MetaWritten(o)
      PROVE  ScopesInv'
  BY <1>2, <1>3 DEF InitDerives, InitRefused, ChangeDerives, ChangeRefused, MetaWritten, Ends
<1>4. ASSUME NEW o, NEW pw, InitAsked(o, pw) \/ \E new : ChangeAsked(o, pw, new) PROVE ScopesInv'
  BY <1>2, <1>4 DEF InitAsked, ChangeAsked, Begins
<1>5. ASSUME NEW s \in SecretNames, NEW pw, VaultPut(s, pw) \/ VaultRm(s) PROVE ScopesInv'
  BY <1>2, <1>5 DEF VaultPut, VaultRm, Kept
<1>6. ASSUME NEW s \in SecretNames, NEW h \in Patterns, NEW pw, NEW ok, VaultAdd(s, h, pw, ok) \/ RuleEdit(<<h, s>>)
      PROVE  ScopesInv'
  <2>1. UNCHANGED <<tokens, tunnels>> /\ rules' \in {rules, rules \cup {<<h, s>>}, rules \ {<<h, s>>}}
    BY <1>6 DEF VaultAdd, RuleEdit, AddRule, RemoveRule, Kept
  <2> QED  BY <1>1, <1>s, <2>1 DEF ScopesTypeOK
<1>7. ASSUME NEW S \in SUBSET SecretNames, NEW pw, VaultImport(S, pw) PROVE ScopesInv'
  <2>1. UNCHANGED <<tokens, tunnels>> /\ rules' = rules \cup {<<"*", s>> : s \in S}
    BY <1>7 DEF VaultImport, Kept
  <2>2. \A s \in S : <<"*", s>> \in Patterns \X SecretNames
    BY DEF Patterns
  <2>3. rules' \in SUBSET (Patterns \X SecretNames)
    BY <1>s, <2>1, <2>2 DEF ScopesTypeOK
  <2> QED  BY <1>1, <2>1, <2>3
<1>8. ASSUME NEW hosts \in SUBSET Patterns, NEW names \in SUBSET (SecretNames \cup {"*"}),
             Mint([hosts |-> hosts, names |-> names])
      PROVE  ScopesInv'
  <2> DEFINE x == [at |-> "live", hosts |-> hosts, names |-> names]
  <2>1. PICK t \in 1..MaxTokens : tokens[t].at = "none" /\ tokens' = [tokens EXCEPT ![t] = x]
    BY <1>8 DEF Mint, MintToken
  <2>2. UNCHANGED <<rules, tunnels>>
    BY <1>8 DEF Mint, Kept
  <2>3. x \in TokenRows
    BY DEF TokenRows
  <2> HIDE DEF x
  <2>4. tokens' \in [1..MaxTokens -> TokenRows] /\ \A u \in 1..MaxTokens : u # t => tokens'[u] = tokens[u]
    BY <1>s, <2>1, <2>3 DEF ScopesTypeOK
  <2>5. \A c \in 1..MaxTunnels : tunnels[c].at # "none" => tunnels[c].token # t
    BY <2>1 DEF ScopesInv, TunnelsInScope
  <2>6. \A c \in 1..MaxTunnels : tunnels[c].at # "none" =>
          tunnels[c].token \in 1..MaxTokens /\ tokens'[tunnels[c].token] = tokens[tunnels[c].token]
    BY <2>4, <2>5 DEF ScopesInv, TunnelsInScope
  <2> QED  BY <1>s, <2>2, <2>4, <2>6 DEF ScopesInv, ScopesTypeOK, TunnelsInScope, ForwardedInScope, Matches
<1>9. ASSUME NEW t \in 1..MaxTokens, NEW how \in {"revoked", "expired"}, TokenEnds(t, how) PROVE ScopesInv'
  <2>1. tokens' = [tokens EXCEPT ![t].at = how] /\ UNCHANGED <<rules, tunnels>>
    BY <1>9 DEF TokenEnds, Kept
  <2>2. /\ tokens' \in [1..MaxTokens -> TokenRows]
        /\ \A u \in 1..MaxTokens : /\ tokens'[u].hosts = tokens[u].hosts /\ tokens'[u].names = tokens[u].names
                                   /\ tokens[u].at # "none" => tokens'[u].at # "none"
    BY <1>s, <2>1 DEF ScopesTypeOK, TokenRows
  <2> QED  BY <1>s, <2>1, <2>2 DEF ScopesInv, ScopesTypeOK, TunnelsInScope, ForwardedInScope, Matches
<1>10. ASSUME NEW c \in 1..MaxTunnels, NEW t \in 1..MaxTokens, NEW h \in Hosts, TunnelOpens(c, t, h) PROVE ScopesInv'
  <2> DEFINE x == [at |-> "open", token |-> t, host |-> h, got |-> {}]
  <2>1. tunnels' = [tunnels EXCEPT ![c] = x] /\ UNCHANGED <<rules, tokens>>
    BY <1>10 DEF TunnelOpens
  <2>2. x \in TunnelRows
    BY DEF TunnelRows
  <2>3. tunnels' \in [1..MaxTunnels -> TunnelRows] /\ \A d \in 1..MaxTunnels : tunnels'[d] = IF d = c THEN x ELSE tunnels[d]
    BY <1>s, <2>1, <2>2 DEF ScopesTypeOK
  <2>4. tokens[t].at # "none" /\ Matches(h, tokens[t].hosts)
    BY <1>10 DEF TunnelOpens, Verifies, VerifyToken
  <2> QED  BY <1>s, <2>1, <2>3, <2>4 DEF ScopesInv, ScopesTypeOK, TunnelsInScope, ForwardedInScope, Matches
<1>11. ASSUME NEW c \in 1..MaxTunnels, RequestForwarded(c) \/ RequestRefused(c) PROVE ScopesInv'
  <2> DEFINE x == [tunnels[c] EXCEPT !.at = "done", !.got = Substitutes(c)]
             y == [tunnels[c] EXCEPT !.at = "refused"]
  <2>1. (tunnels' = [tunnels EXCEPT ![c] = x] \/ tunnels' = [tunnels EXCEPT ![c] = y]) /\ UNCHANGED <<rules, tokens>>
    BY <1>11 DEF RequestForwarded, RequestRefused
  <2>2. tunnels[c] \in TunnelRows /\ tunnels[c].at = "open"
    BY <1>11, <1>s DEF ScopesTypeOK, RequestForwarded, RequestRefused
  <2>3. Substitutes(c) \in SUBSET SecretNames /\ \A s \in Substitutes(c) : Matches(s, tokens[tunnels[c].token].names)
    BY DEF Substitutes, SubstitutesAll
  <2>4. \A r \in TunnelRows, g \in SUBSET SecretNames :
          LET u == [r EXCEPT !.at = "done", !.got = g]
          IN u \in TunnelRows /\ u.at = "done" /\ u.token = r.token /\ u.host = r.host /\ u.got = g
    BY DEF TunnelRows
  <2>5. \A r \in TunnelRows :
          LET u == [r EXCEPT !.at = "refused"]
          IN u \in TunnelRows /\ u.at = "refused" /\ u.token = r.token /\ u.host = r.host
    BY DEF TunnelRows
  <2>6. /\ x \in TunnelRows /\ x.at = "done" /\ x.token = tunnels[c].token /\ x.host = tunnels[c].host
        /\ x.got = Substitutes(c)
        /\ y \in TunnelRows /\ y.at = "refused" /\ y.token = tunnels[c].token /\ y.host = tunnels[c].host
    BY <2>2, <2>3, <2>4, <2>5, ZenonT(60)
  <2> HIDE DEF x, y
  <2>7. /\ tunnels' \in [1..MaxTunnels -> TunnelRows]
        /\ \A d \in 1..MaxTunnels : IF d = c THEN tunnels'[d] \in {x, y} ELSE tunnels'[d] = tunnels[d]
    BY <1>s, <2>1, <2>6 DEF ScopesTypeOK
  <2>8. TunnelsInScope'
    BY <2>1, <2>2, <2>6, <2>7 DEF ScopesInv, TunnelsInScope, Matches
  <2>9. ForwardedInScope'
    BY <2>1, <2>2, <2>3, <2>6, <2>7 DEF ScopesInv, TunnelsInScope, ForwardedInScope, Matches
  <2> QED  BY <1>s, <2>1, <2>7, <2>8, <2>9 DEF ScopesInv, ScopesTypeOK
<1>12. Mint(RuleScope) => ScopesInv'
  <2>1. CASE rules = {}
    BY <1>8, <2>1 DEF RuleScope, Patterns
  <2>2. CASE rules # {}
    <3>1. {r[1] : r \in rules} \in SUBSET Patterns /\ {r[2] : r \in rules} \in SUBSET (SecretNames \cup {"*"})
      BY <1>s DEF ScopesTypeOK
    <3> QED  BY <1>8, <2>2, <3>1 DEF RuleScope
  <2> QED  BY <2>1, <2>2
<1>13. ASSUME NEW s \in SecretNames, NEW h \in Patterns, Mint([hosts |-> {h}, names |-> {s}]) PROVE ScopesInv'
  BY <1>8, <1>13
<1>14. UNCHANGED vaultVars => ScopesInv'
  BY <1>2 DEF vaultVars
<1> QED
  BY <1>3, <1>4, <1>5, <1>6, <1>7, <1>9, <1>10, <1>11, <1>12, <1>13, <1>14 DEF VaultNext

-----------------------------------------------------------------------------
(* Credentials: nobody spends a refresh token that another refresh retired.*)

(* The MCP child takes no lock, so it is safe beside a provider that does  *)
(* not rotate only (spotify-auth.ts refresh).                              *)
ChildrenOnlyUnrotated == \A s \in Settings : ~(s[1] /\ s[2])

Creds == [token : Nat, left : 0..3]
RefresherRows == [at : {"idle", "want", "asking", "answered"}, cred : Creds]
CredTypeOK ==
  /\ setting \in Settings /\ issued \in Nat
  /\ store \in Creds /\ refresher \in [RefreshPaths -> RefresherRows]
  /\ child \in [at : {"off", "up", "answered"}, cred : Creds]
  /\ userCmd \in [at : {"idle", "callback", "granted", "revoking", "deleting"}, token : Nat]
  /\ credLock \in [by : RefreshPaths \cup {Nobody}, dead : BOOLEAN, old : BOOLEAN]

(* No token is known before it is issued.                                  *)
TokensIssued ==
  /\ store.token <= issued /\ child.cred.token <= issued /\ userCmd.token <= issued
  /\ \A p \in RefreshPaths : refresher[p].cred.token <= issued

(* One refresh at a time talks to the provider: the one whose lock file it *)
(* is, and a lock file is old only when its maker is dead.                 *)
InExchange(p) == refresher[p].at \in {"asking", "answered"}
LockKept ==
  /\ \A p \in RefreshPaths : InExchange(p) => credLock.by = p /\ ~credLock.dead
  /\ credLock.old => credLock.dead

(* A token is accounted for when the provider would take it, or its loss   *)
(* is known.  The token in the file may be neither only while the answer   *)
(* that replaces it is on its way to the file.                             *)
Accounted(t) == t = 0 \/ t \in valid \/ t \in spentWell
StoreAccounted ==
  Accounted(store.token) \/ (Rotates /\ \E p \in RefreshPaths : refresher[p].at = "answered")
HoldersAccounted ==
  /\ \A p \in RefreshPaths : InExchange(p) => Accounted(refresher[p].cred.token)
  /\ child.at # "off" => Accounted(child.cred.token)
  /\ userCmd.at = "granted" => Accounted(userCmd.token)

(* A refresh that waits works from the file; when that is gone, its token  *)
(* was given up with it.                                                   *)
WaitersAccounted ==
  \A p \in RefreshPaths : refresher[p].at = "want" /\ store = NoCred =>
    refresher[p].cred.token = 0 \/ refresher[p].cred.token \in spentWell

(* What is on its way to the file is a credential; no child runs beside a  *)
(* provider that rotates; a new login's token is nobody else's yet.        *)
AnswersAreCreds ==
  /\ \A p \in RefreshPaths : refresher[p].at = "answered" => refresher[p].cred.left = 2
  /\ child.at = "answered" => child.cred.left # 3
ChildUnrotated == Rotates => child.at = "off"
GrantIsFresh ==
  Rotates /\ userCmd.at = "granted" /\ userCmd.token # 0 =>
    /\ store.token # userCmd.token
    /\ \A p \in RefreshPaths : refresher[p].cred.token # userCmd.token

CredInv ==
  /\ CredTypeOK /\ TokensIssued /\ LockKept /\ StoreAccounted /\ HoldersAccounted /\ WaitersAccounted
  /\ AnswersAreCreds /\ ChildUnrotated /\ GrantIsFresh /\ RotationSafe

\* The initial states satisfy the invariant of the credential file.
LEMMA CredStart == CredInit => CredInv
<1> SUFFICES ASSUME CredInit PROVE CredInv
  OBVIOUS
<1>1. Creds = [token : Nat, left : 0..3] /\ NoCred \in Creds /\ Credential(1, 2) \in Creds
  BY DEF Creds, NoCred, Credential
<1>2. \A p \in RefreshPaths : refresher[p] = RefreshIdle
  BY DEF CredInit
<1>3. RefreshIdle \in RefresherRows /\ RefreshIdle.at = "idle" /\ RefreshIdle.cred.token = 0
  BY <1>1 DEF RefreshIdle, RefresherRows, NoCred, Credential
<1>4. child \in [at : {"off", "up", "answered"}, cred : Creds] /\ child.at = "off" /\ child.cred.token = 0
  BY <1>1 DEF CredInit, ChildOff, NoCred, Credential
<1>5. userCmd.at = "idle" /\ userCmd \in [at : {"idle", "callback", "granted", "revoking", "deleting"}, token : Nat] /\ userCmd.token = 0
  BY DEF CredInit, NoCredCommand
<1>6. credLock \in [by : RefreshPaths \cup {Nobody}, dead : BOOLEAN, old : BOOLEAN] /\ ~credLock.old
  BY DEF CredInit, NoLock
<1>7. store = Credential(1, 2) /\ store.token = 1 /\ store # NoCred /\ valid = {1} /\ issued = 1 /\ refused = {} /\ setting \in Settings
  BY DEF CredInit, NoCred, Credential
<1>8. CredTypeOK
  BY <1>1, <1>2, <1>3, <1>4, <1>5, <1>6, <1>7 DEF CredTypeOK, CredInit
<1>9. TokensIssued
  BY <1>2, <1>3, <1>4, <1>5, <1>7 DEF TokensIssued
<1> QED
  BY <1>2, <1>3, <1>4, <1>5, <1>6, <1>7, <1>8, <1>9
     DEF CredInv, LockKept, InExchange, StoreAccounted, HoldersAccounted, Accounted, WaitersAccounted, AnswersAreCreds,
         ChildUnrotated, GrantIsFresh, RotationSafe

(* What Aged leaves of a credential.                                       *)
LEMMA AgedKeeps ==
  ASSUME NEW c \in Creds
  PROVE  Aged(c) \in Creds /\ Aged(c).token = c.token /\ (Aged(c) = NoCred => c = NoCred) /\ (c.left # 3 => Aged(c).left # 3)
<1>1. CASE c = NoCred \/ c.left = 0
  BY <1>1 DEF Aged
<1>2. CASE ~(c = NoCred \/ c.left = 0)
  <2>1. Aged(c) = [c EXCEPT !.left = c.left - 1]
    BY <1>2 DEF Aged
  <2>2. c.left \in 1..3 /\ c.left - 1 \in 0..2
    BY <1>2 DEF Creds
  <2>3. \A r \in Creds : \A n \in 0..2 : /\ [r EXCEPT !.left = n] \in Creds
                                        /\ [r EXCEPT !.left = n].token = r.token /\ [r EXCEPT !.left = n].left = n
    BY DEF Creds
  <2> DEFINE n == c.left - 1
  <2>6. n \in 0..2 /\ n = c.left - 1 /\ Aged(c) = [c EXCEPT !.left = n]
    BY <2>1, <2>2
  <2> HIDE DEF n
  <2>7. /\ [c EXCEPT !.left = n] \in Creds
        /\ [c EXCEPT !.left = n].token = c.token /\ [c EXCEPT !.left = n].left = n
    BY <2>3, <2>6
  <2>4. Aged(c) \in Creds /\ Aged(c).token = c.token /\ Aged(c).left = c.left - 1
    BY <2>6, <2>7
  <2>5. NoCred.left = 3
    BY DEF NoCred, Credential
  <2> QED  BY <2>2, <2>4, <2>5
<1> QED  BY <1>1, <1>2

(* What an exchange does to the provider's tokens.                         *)
LEMMA Spending ==
  ASSUME CredInv, NEW t \in Nat, t <= issued, Spend(t)
  PROVE  /\ issued' \in Nat /\ issued <= issued' /\ t \in valid
         /\ Successor(t) \in valid' /\ Successor(t) \in Nat /\ Successor(t) <= issued'
         /\ Rotates => Successor(t) > issued
         /\ ~Rotates => \A u : Accounted(u) => u = 0 \/ u \in valid' \/ u \in spentWell
         /\ \A u : u # t /\ Accounted(u) => u = 0 \/ u \in valid' \/ u \in spentWell
<1>1. issued \in Nat
  BY DEF CredInv, CredTypeOK
<1>2. CASE Rotates
  <2>1. Successor(t) = issued + 1 /\ valid' = (valid \ {t}) \cup {issued + 1} /\ issued' = issued + 1 /\ t \in valid
    BY <1>2 DEF Spend, Successor
  <2> QED  BY <1>1, <1>2, <2>1 DEF Accounted
<1>3. CASE ~Rotates
  <2>1. Successor(t) = t /\ valid' = valid \cup {t} /\ issued' = issued /\ t \in valid
    BY <1>3 DEF Spend, Successor
  <2> QED  BY <1>1, <1>3, <2>1 DEF Accounted
<1> QED  BY <1>2, <1>3
(* A step that touches no token, no holder and no lock.                    *)
LEMMA CredRests ==
  ASSUME CredInv, UNCHANGED <<setting, store, valid, spentWell, issued, credLock, refresher, child, userCmd, refused>>
  PROVE  CredInv'
  BY DEF CredInv, CredTypeOK, TokensIssued, LockKept, InExchange, StoreAccounted, Accounted, Rotates, HoldersAccounted,
         WaitersAccounted, AnswersAreCreds, ChildUnrotated, GrantIsFresh, RotationSafe

(* One refresh moves and no token changes hands with the provider.         *)
LEMMA RefresherMoves ==
  ASSUME CredInv, NEW p \in RefreshPaths, NEW x \in RefresherRows, refresher' = [refresher EXCEPT ![p] = x],
         UNCHANGED <<setting, issued, valid, child, userCmd>>,
         store' \in Creds, store'.token <= issued, x.cred.token <= issued,
         spentWell \subseteq spentWell',
         credLock' \in [by : RefreshPaths \cup {Nobody}, dead : BOOLEAN, old : BOOLEAN],
         (LockKept /\ StoreAccounted)',
         refused' = {},
         x.at \in {"asking", "answered"} => Accounted(x.cred.token),
         \A q \in RefreshPaths : refresher'[q].at = "want" /\ store' = NoCred =>
            refresher'[q].cred.token = 0 \/ refresher'[q].cred.token \in spentWell',
         x.at = "answered" => x.cred.left = 2,
         Rotates /\ userCmd.at = "granted" /\ userCmd.token # 0 =>
            store'.token # userCmd.token /\ x.cred.token # userCmd.token
  PROVE  CredInv'
<1>1. refresher' \in [RefreshPaths -> RefresherRows] /\ refresher'[p] = x /\ \A q \in RefreshPaths \ {p} : refresher'[q] = refresher[q]
  BY DEF CredInv, CredTypeOK
<1>2. CredTypeOK' /\ TokensIssued'
  BY <1>1 DEF CredInv, CredTypeOK, TokensIssued
<1>3. HoldersAccounted'
  BY <1>1 DEF CredInv, HoldersAccounted, InExchange, Accounted
<1>4. WaitersAccounted' /\ AnswersAreCreds'
  BY <1>1 DEF CredInv, WaitersAccounted, AnswersAreCreds
<1>5. ChildUnrotated' /\ GrantIsFresh'
  BY <1>1 DEF CredInv, ChildUnrotated, GrantIsFresh, Rotates
<1> QED  BY <1>2, <1>3, <1>4, <1>5 DEF CredInv, RotationSafe

(* The refreshes under the lock.                                           *)
LEMMA RefreshKeeps ==
  ASSUME CredInv, NEW p \in RefreshPaths,
         \/ CommandBegins(p) \/ Acquires(p) \/ BreaksStaleLock(p) \/ WaitTimesOut(p)
         \/ Exchanges(p) \/ SavesRefreshed(p) \/ ExchangeRefused(p) \/ ExchangeFails(p)
  PROVE  CredInv'
<1>t. /\ CredTypeOK /\ TokensIssued /\ refresher[p] \in RefresherRows /\ refused = {}
      /\ refresher[p].cred \in Creds /\ refresher[p].cred.token <= issued /\ store.token <= issued
  BY DEF CredInv, CredTypeOK, TokensIssued, RefresherRows, RotationSafe
<1>i. /\ RefreshIdle \in RefresherRows /\ RefreshIdle.at = "idle" /\ RefreshIdle.cred.token = 0
      /\ issued \in Nat /\ 0 <= issued
  BY <1>t DEF RefreshIdle, RefresherRows, NoCred, Credential, Creds, CredTypeOK
<1>l. NoLock \in [by : RefreshPaths \cup {Nobody}, dead : BOOLEAN, old : BOOLEAN] /\ NoLock.by = Nobody /\ ~NoLock.old
  BY DEF NoLock
<1>p. Nobody \notin RefreshPaths
  BY DEF Nobody, RefreshPaths
<1>r. ASSUME NEW x \in RefresherRows, refresher' = [refresher EXCEPT ![p] = x]
      PROVE  refresher'[p] = x /\ \A q \in RefreshPaths \ {p} : refresher'[q] = refresher[q]
  BY <1>t, <1>r DEF CredTypeOK
<1>1. CASE CommandBegins(p)
  <2> DEFINE x == [at |-> "want", cred |-> store]
  <2>1. /\ store # NoCred /\ refresher[p].at = "idle" /\ refresher' = [refresher EXCEPT ![p] = x]
        /\ UNCHANGED <<setting, store, valid, spentWell, issued, credLock, child, userCmd, refused>>
    BY <1>1 DEF CommandBegins
  <2>2. x \in RefresherRows /\ x.at = "want" /\ x.cred = store
    BY <1>t DEF RefresherRows, CredTypeOK
  <2> HIDE DEF x
  <2>3. LockKept'
    BY <1>r, <2>1, <2>2 DEF CredInv, LockKept, InExchange
  <2>4. StoreAccounted'
    BY <1>r, <2>1, <2>2 DEF CredInv, StoreAccounted, Accounted, Rotates
  <2>5. Rotates /\ userCmd.at = "granted" /\ userCmd.token # 0 => store.token # userCmd.token
    BY DEF CredInv, GrantIsFresh
  <2> QED  BY <1>t, <1>r, <2>1, <2>2, <2>3, <2>4, <2>5, RefresherMoves DEF CredTypeOK
<1>2. CASE Acquires(p) /\ Due(p, Latest(p))
  <2> DEFINE x == [at |-> "asking", cred |-> Latest(p)]
             l == [NoLock EXCEPT !.by = p]
  <2>1. /\ credLock = NoLock /\ refresher[p].at = "want" /\ refresher' = [refresher EXCEPT ![p] = x] /\ credLock' = l
        /\ UNCHANGED <<setting, store, valid, spentWell, issued, child, userCmd, refused>>
    BY <1>2 DEF Acquires
  <2>2. Latest(p) \in Creds /\ Latest(p).token <= issued
    BY <1>t DEF Latest, CredTypeOK
  <2>3. x \in RefresherRows /\ x.at = "asking" /\ x.cred = Latest(p)
    BY <2>2 DEF RefresherRows
  <2>4. l \in [by : RefreshPaths \cup {Nobody}, dead : BOOLEAN, old : BOOLEAN] /\ l.by = p /\ ~l.dead /\ ~l.old
    BY DEF NoLock
  <2> HIDE DEF x, l
  <2>5. \A q \in RefreshPaths : ~InExchange(q)
    BY <1>l, <1>p, <2>1 DEF CredInv, LockKept
  <2>6. LockKept'
    BY <1>r, <2>1, <2>3, <2>4, <2>5 DEF LockKept, InExchange
  <2>7. Accounted(store.token)
    BY <2>5 DEF CredInv, StoreAccounted, InExchange
  <2>8. StoreAccounted'
    BY <2>1, <2>7 DEF StoreAccounted, Accounted
  <2>9. Accounted(Latest(p).token)
    BY <2>1, <2>7 DEF CredInv, WaitersAccounted, Accounted, Latest
  <2>10. Rotates /\ userCmd.at = "granted" /\ userCmd.token # 0 => store.token # userCmd.token /\ Latest(p).token # userCmd.token
    BY DEF CredInv, GrantIsFresh, Latest
  <2>11. \A q \in RefreshPaths : refresher'[q].at = "want" /\ store = NoCred =>
            refresher'[q].cred.token = 0 \/ refresher'[q].cred.token \in spentWell
    BY <1>r, <2>1, <2>3 DEF CredInv, WaitersAccounted
  <2> QED
    BY <1>t, <2>1, <2>2, <2>3, <2>4, <2>6, <2>8, <2>9, <2>10, <2>11, RefresherMoves DEF CredTypeOK
<1>3. CASE (Acquires(p) /\ ~Due(p, Latest(p))) \/ WaitTimesOut(p)
  <2>1. /\ refresher[p].at = "want" /\ refresher' = [refresher EXCEPT ![p] = RefreshIdle]
        /\ UNCHANGED <<setting, store, valid, spentWell, issued, credLock, child, userCmd, refused>>
    BY <1>3 DEF Acquires, WaitTimesOut
  <2>3. LockKept'
    BY <1>r, <1>i, <2>1 DEF CredInv, LockKept, InExchange
  <2>4. StoreAccounted'
    BY <1>r, <1>i, <2>1 DEF CredInv, StoreAccounted, Accounted, Rotates
  <2>5. \A q \in RefreshPaths : refresher'[q].at = "want" /\ store = NoCred =>
            refresher'[q].cred.token = 0 \/ refresher'[q].cred.token \in spentWell
    BY <1>r, <1>i, <2>1 DEF CredInv, WaitersAccounted
  <2>6. Rotates /\ userCmd.at = "granted" /\ userCmd.token # 0 => store.token # userCmd.token
    BY DEF CredInv, GrantIsFresh
  <2> QED  BY <1>t, <1>i, <2>1, <2>3, <2>4, <2>5, <2>6, RefresherMoves DEF CredTypeOK
<1>4. CASE BreaksStaleLock(p)
  <2>1. credLock.dead /\ credLock' = NoLock
        /\ UNCHANGED <<setting, store, valid, spentWell, issued, refresher, child, userCmd, refused>>
    BY <1>4 DEF BreaksStaleLock, CredInv, LockKept
  <2>2. \A q \in RefreshPaths : ~InExchange(q)
    BY <2>1 DEF CredInv, LockKept
  <2>3. LockKept' /\ CredTypeOK'
    BY <1>l, <1>t, <2>1, <2>2 DEF LockKept, CredTypeOK, InExchange
  <2> QED
    BY <2>1, <2>3 DEF CredInv, TokensIssued, InExchange, StoreAccounted, Accounted, Rotates, HoldersAccounted,
                WaitersAccounted, AnswersAreCreds, ChildUnrotated, GrantIsFresh, RotationSafe
<1>5. CASE Exchanges(p)
  <2> DEFINE t == refresher[p].cred.token
             x == [at |-> "answered", cred |-> Credential(Successor(t), 2)]
  <2>1. /\ refresher[p].at = "asking" /\ Spend(t) /\ refresher' = [refresher EXCEPT ![p] = x]
        /\ UNCHANGED <<setting, store, spentWell, credLock, child, userCmd, refused>>
    BY <1>5 DEF Exchanges
  <2>2. t \in Nat /\ t <= issued
    BY <1>t DEF Creds
  <2>3. /\ issued' \in Nat /\ issued <= issued'
        /\ Successor(t) \in valid' /\ Successor(t) \in Nat /\ Successor(t) <= issued'
        /\ Rotates => Successor(t) > issued
        /\ ~Rotates => \A u : Accounted(u) => u = 0 \/ u \in valid' \/ u \in spentWell
        /\ \A u : u # t /\ Accounted(u) => u = 0 \/ u \in valid' \/ u \in spentWell
    BY <2>1, <2>2, Spending
  <2>4. x \in RefresherRows /\ x.at = "answered" /\ x.cred.token = Successor(t) /\ x.cred.left = 2
    BY <2>3 DEF RefresherRows, Credential, Creds
  <2>5. refresher'[p] = x /\ \A q \in RefreshPaths \ {p} : refresher'[q] = refresher[q]
    BY <1>r, <2>1, <2>4
  <2>6. refresher' \in [RefreshPaths -> RefresherRows]
    BY <1>t, <2>1, <2>4 DEF CredTypeOK
  <2>7. \A q \in RefreshPaths \ {p} : ~InExchange(q)
    BY <2>1 DEF CredInv, LockKept, InExchange
  <2>8. Rotates' <=> Rotates
    BY <2>1 DEF Rotates
  <2>9. Rotates /\ userCmd.at = "granted" /\ userCmd.token # 0 => t # userCmd.token
    BY DEF CredInv, GrantIsFresh
  <2> HIDE DEF x, t
  <2>10. CredTypeOK'
    BY <1>t, <2>1, <2>3, <2>6 DEF CredTypeOK
  <2>11. TokensIssued'
    <3>1. \A q \in RefreshPaths : refresher[q].cred.token \in Nat
      BY <1>t DEF CredTypeOK, RefresherRows, Creds
    <3>2. store.token \in Nat /\ child.cred.token \in Nat /\ userCmd.token \in Nat
      BY <1>t DEF CredTypeOK, Creds
    <3> QED  BY <1>t, <1>i, <2>1, <2>3, <2>4, <2>5, <3>1, <3>2 DEF TokensIssued
  <2>12. LockKept'
    BY <2>1, <2>5, <2>7 DEF CredInv, LockKept, InExchange
  <2>13. StoreAccounted'
    <3>1. CASE Rotates
      BY <2>4, <2>5, <2>8, <3>1 DEF StoreAccounted
    <3>2. CASE ~Rotates
      BY <2>1, <2>3, <3>2 DEF CredInv, StoreAccounted, Accounted
    <3> QED  BY <3>1, <3>2
  <2>14. HoldersAccounted'
    <3>1. \A q \in RefreshPaths : InExchange(q)' => Accounted(refresher[q].cred.token)'
      BY <2>3, <2>4, <2>5, <2>7 DEF InExchange, Accounted
    <3>2. child.at # "off" => Accounted(child.cred.token)'
      BY <2>1, <2>3 DEF CredInv, ChildUnrotated, HoldersAccounted, Accounted
    <3>3. userCmd.at = "granted" => Accounted(userCmd.token)'
      BY <2>1, <2>3, <2>9 DEF CredInv, HoldersAccounted, Accounted
    <3> QED  BY <2>1, <3>1, <3>2, <3>3 DEF HoldersAccounted
  <2>15. WaitersAccounted' /\ AnswersAreCreds'
    BY <2>1, <2>4, <2>5 DEF CredInv, WaitersAccounted, AnswersAreCreds
  <2>16. GrantIsFresh' /\ ChildUnrotated'
    BY <1>t, <1>i, <2>1, <2>3, <2>4, <2>5, <2>8 DEF CredInv, GrantIsFresh, ChildUnrotated, TokensIssued
  <2> QED
    BY <2>1, <2>10, <2>11, <2>12, <2>13, <2>14, <2>15, <2>16 DEF CredInv, RotationSafe
<1>6. ASSUME InExchange(p), CommandEnds(p), UNCHANGED <<setting, issued, valid, child, userCmd, refused>>,
             \/ refresher[p].at = "answered" /\ store' = refresher[p].cred /\ spentWell' = spentWell
             \/ store' = store /\ spentWell' = spentWell \cup Swallowed(p)
             \/ store' = store /\ spentWell' = spentWell /\ refresher[p].at = "asking"
      PROVE  CredInv'
  <2>1. credLock' = NoLock /\ refresher' = [refresher EXCEPT ![p] = RefreshIdle] /\ spentWell \subseteq spentWell'
    BY <1>6 DEF CommandEnds
  <2>2. \A q \in RefreshPaths : ~InExchange(q)'
    BY <1>6, <1>r, <1>i, <2>1 DEF CredInv, LockKept, InExchange
  <2>3. LockKept'
    BY <1>l, <2>1, <2>2 DEF LockKept
  <2>4. \A u : Accounted(u) => Accounted(u)'
    BY <1>6, <2>1 DEF Accounted
  <2>5. Accounted(store.token)'
    <3>1. CASE store' = refresher[p].cred
      BY <1>6, <2>4, <3>1 DEF CredInv, HoldersAccounted, Accounted
    <3>2. CASE store' = store
      <4>1. refresher[p].at = "answered" => Accounted(store.token)'
        BY <1>6, <3>1, <3>2 DEF Swallowed, Accounted
      <4>2. refresher[p].at = "asking" => \A q \in RefreshPaths : refresher[q].at # "answered"
        BY <1>6 DEF CredInv, LockKept, InExchange
      <4>3. refresher[p].at = "asking" => Accounted(store.token)
        BY <4>2 DEF CredInv, StoreAccounted
      <4> QED  BY <1>6, <2>4, <3>2, <4>1, <4>3 DEF InExchange, Accounted
    <3> QED  BY <1>6, <3>1, <3>2
  <2>6. StoreAccounted'
    BY <2>5 DEF StoreAccounted
  <2>7. \A q \in RefreshPaths : refresher'[q].at = "want" /\ store' = NoCred =>
            refresher'[q].cred.token = 0 \/ refresher'[q].cred.token \in spentWell'
    <3>1. refresher[p].at = "answered" => refresher[p].cred # NoCred
      BY DEF CredInv, AnswersAreCreds, NoCred, Credential
    <3>2. store' = NoCred => store = NoCred
      BY <1>6, <3>1
    <3> QED  BY <1>r, <1>i, <2>1, <3>2 DEF CredInv, WaitersAccounted
  <2>8. Rotates /\ userCmd.at = "granted" /\ userCmd.token # 0 => store'.token # userCmd.token
    BY <1>6 DEF CredInv, GrantIsFresh
  <2>9. store' \in Creds /\ store'.token <= issued /\ refused' = {}
    BY <1>6, <1>t DEF CredTypeOK
  <2> QED  BY <1>6, <1>i, <1>l, <2>1, <2>3, <2>6, <2>7, <2>8, <2>9, RefresherMoves
<1>7. CASE SavesRefreshed(p)
  BY <1>6, <1>7 DEF SavesRefreshed, InExchange
<1>8. CASE ExchangeFails(p)
  BY <1>6, <1>8 DEF ExchangeFails, InExchange
<1>9. CASE ExchangeRefused(p)
  <2>1. Blamed(refresher[p].cred.token) = {}
    BY <1>9 DEF ExchangeRefused, CredInv, HoldersAccounted, Accounted, InExchange, Blamed
  <2>2. refused' = refused /\ refresher[p].at = "asking" /\ CommandEnds(p)
        /\ UNCHANGED <<setting, issued, valid, child, userCmd, store, spentWell>>
    BY <1>9, <2>1 DEF ExchangeRefused
  <2> QED  BY <1>6, <2>2 DEF InExchange
<1> QED  BY <1>1, <1>2, <1>3, <1>4, <1>5, <1>7, <1>8, <1>9

(* A step of the child, the user, the clock or a death: it takes no refresh *)
(* further, and a token that was accounted for stays so.                    *)
LEMMA OutsideRefresh ==
  ASSUME CredInv, UNCHANGED setting, issued' \in Nat, issued <= issued',
         \A u : Accounted(u) => u = 0 \/ u \in valid' \/ u \in spentWell',
         spentWell \subseteq spentWell',
         store' \in Creds, store'.token <= issued',
         child' \in [at : {"off", "up", "answered"}, cred : Creds], child'.cred.token <= issued',
         userCmd' \in [at : {"idle", "callback", "granted", "revoking", "deleting"}, token : Nat], userCmd'.token <= issued',
         credLock' \in [by : RefreshPaths \cup {Nobody}, dead : BOOLEAN, old : BOOLEAN],
         refresher' \in [RefreshPaths -> RefresherRows],
         \A p \in RefreshPaths : refresher'[p] = refresher[p] \/ refresher'[p] = RefreshIdle,
         LockKept', StoreAccounted', ChildUnrotated', GrantIsFresh',
         child'.at # "off" => child'.cred.token = 0 \/ child'.cred.token \in valid' \/ child'.cred.token \in spentWell',
         child'.at = "answered" => child'.cred.left # 3,
         userCmd'.at = "granted" => userCmd'.token = 0 \/ userCmd'.token \in valid' \/ userCmd'.token \in spentWell',
         store' = NoCred => store = NoCred \/ 1..issued \subseteq spentWell',
         refused' = {}
  PROVE  CredInv'
<1>i. RefreshIdle.at = "idle" /\ RefreshIdle.cred.token = 0
  BY DEF RefreshIdle, NoCred, Credential
<1>n. \A p \in RefreshPaths : refresher[p].cred.token \in Nat /\ refresher[p].cred.token <= issued
  BY DEF CredInv, CredTypeOK, TokensIssued, RefresherRows, Creds
<1>g. issued \in Nat
  BY DEF CredInv, CredTypeOK
<1>1. CredTypeOK'
  BY DEF CredInv, CredTypeOK
<1>2. TokensIssued'
  BY <1>i, <1>n, <1>g DEF TokensIssued
<1>3. HoldersAccounted'
  BY <1>i DEF CredInv, HoldersAccounted, InExchange, Accounted
<1>4. WaitersAccounted'
  <2> SUFFICES ASSUME NEW p \in RefreshPaths, refresher'[p].at = "want", store' = NoCred
               PROVE  refresher'[p].cred.token = 0 \/ refresher'[p].cred.token \in spentWell'
    BY DEF WaitersAccounted
  <2>1. refresher'[p] = refresher[p]
    BY <1>i
  <2>2. CASE store = NoCred
    BY <2>1, <2>2 DEF CredInv, WaitersAccounted
  <2>3. CASE 1..issued \subseteq spentWell'
    <3>1. refresher[p].cred.token = 0 \/ refresher[p].cred.token \in 1..issued
      BY <1>n, <1>g
    <3> QED  BY <2>1, <2>3, <3>1
  <2> QED  BY <2>2, <2>3
<1>5. AnswersAreCreds'
  BY <1>i DEF CredInv, AnswersAreCreds
<1> QED  BY <1>1, <1>2, <1>3, <1>4, <1>5 DEF CredInv, RotationSafe

\* Every step of the token's users keeps the invariant of the credential file.
LEMMA CredStep ==
  ASSUME CredInv, ChildrenOnlyUnrotated, [CredNext]_credVars
  PROVE  CredInv'
<1> DEFINE ChildRows == [at : {"off", "up", "answered"}, cred : Creds]
           CmdRows == [at : {"idle", "callback", "granted", "revoking", "deleting"}, token : Nat]
           LockRows == [by : RefreshPaths \cup {Nobody}, dead : BOOLEAN, old : BOOLEAN]
<1>t. /\ issued \in Nat /\ store \in Creds /\ refresher \in [RefreshPaths -> RefresherRows] /\ child \in ChildRows
      /\ userCmd \in CmdRows /\ credLock \in LockRows
      /\ store.token <= issued /\ child.cred.token <= issued /\ userCmd.token <= issued /\ refused = {} /\ setting \in Settings
  BY DEF CredInv, CredTypeOK, TokensIssued, RotationSafe
<1>c. /\ \A s \in Creds : s.token \in Nat
      /\ \A n \in Nat : Credential(n, 2) \in Creds /\ Credential(n, 2).token = n /\ Credential(n, 2).left = 2 /\ Credential(n, 2) # NoCred
      /\ NoCred \in Creds /\ NoCred.token = 0
  BY DEF Creds, Credential, NoCred
<1>f. ChildOff \in ChildRows /\ ChildOff.at = "off" /\ ChildOff.cred = NoCred
  BY <1>c DEF ChildOff
<1>u. NoCredCommand \in CmdRows /\ NoCredCommand.at = "idle" /\ NoCredCommand.token = 0
  BY DEF NoCredCommand
<1>k. \A r \in ChildRows : r.cred \in Creds /\ r.at \in {"off", "up", "answered"}
  OBVIOUS
<1>m. \A r \in CmdRows : r.token \in Nat
  OBVIOUS
<1>x. \A r \in CmdRows : [r EXCEPT !.at = "deleting"] \in CmdRows /\ [r EXCEPT !.at = "deleting"].at = "deleting"
                        /\ [r EXCEPT !.at = "deleting"].token = r.token
  OBVIOUS
<1>y. \A r \in ChildRows : /\ [r EXCEPT !.at = "up"] \in ChildRows /\ [r EXCEPT !.at = "up"].at = "up" /\ [r EXCEPT !.at = "up"].cred = r.cred
                          /\ \A c \in Creds : /\ [r EXCEPT !.cred = c] \in ChildRows /\ [r EXCEPT !.cred = c].at = r.at
                                              /\ [r EXCEPT !.cred = c].cred = c
  OBVIOUS
<1>w. \A c \in Creds : [at |-> "up", cred |-> c] \in ChildRows /\ [at |-> "answered", cred |-> c] \in ChildRows
  OBVIOUS
<1>z. \A r \in LockRows : /\ [r EXCEPT !.old = TRUE] \in LockRows /\ [r EXCEPT !.old = TRUE].by = r.by /\ [r EXCEPT !.old = TRUE].dead = r.dead
                         /\ [r EXCEPT !.dead = TRUE] \in LockRows /\ [r EXCEPT !.dead = TRUE].by = r.by /\ [r EXCEPT !.dead = TRUE].dead
                         /\ [r EXCEPT !.dead = TRUE].old = r.old
  OBVIOUS
<1>d. /\ LockKept /\ StoreAccounted /\ HoldersAccounted /\ AnswersAreCreds /\ ChildUnrotated /\ GrantIsFresh
  BY DEF CredInv
<1>r. UNCHANGED refresher => /\ refresher' \in [RefreshPaths -> RefresherRows]
                             /\ \A p \in RefreshPaths : refresher'[p] = refresher[p] \/ refresher'[p] = RefreshIdle
  BY <1>t
<1>a. valid \subseteq valid' /\ spentWell \subseteq spentWell' => \A u : Accounted(u) => u = 0 \/ u \in valid' \/ u \in spentWell'
  BY DEF Accounted
<1>l. UNCHANGED <<refresher, credLock>> => LockKept'
  BY <1>d DEF LockKept, InExchange
<1>s. /\ UNCHANGED <<setting, refresher>> /\ valid \subseteq valid' /\ spentWell \subseteq spentWell' /\ store'.token = store.token
      => StoreAccounted'
  BY <1>d DEF StoreAccounted, Accounted, Rotates
<1>v. UNCHANGED <<setting, refresher, userCmd>> /\ store'.token = store.token => GrantIsFresh'
  BY <1>d DEF GrantIsFresh, Rotates
<1>h. child.at # "off" => ~Rotates
  BY <1>d DEF ChildUnrotated
<1>o. ~Rotates => Accounted(store.token)
  BY <1>d DEF StoreAccounted
<1>1. CASE TimePasses
  <2>1. /\ store' = Aged(store) /\ child' = [child EXCEPT !.cred = Aged(child.cred)]
        /\ UNCHANGED <<setting, valid, spentWell, issued, credLock, refresher, userCmd, refused>>
    BY <1>1 DEF TimePasses
  <2>2. store' \in Creds /\ store'.token = store.token /\ (store' = NoCred => store = NoCred)
    BY <1>t, <2>1, AgedKeeps
  <2>3. child.cred \in Creds
    BY <1>t, <1>k
  <2>4. Aged(child.cred) \in Creds /\ Aged(child.cred).token = child.cred.token /\ (child.cred.left # 3 => Aged(child.cred).left # 3)
    BY <2>3, AgedKeeps
  <2>5. child' \in ChildRows /\ child'.at = child.at /\ child'.cred = Aged(child.cred)
    BY <1>t, <1>y, <2>1, <2>4
  <2>6. ChildUnrotated'
    BY <1>d, <2>1, <2>5 DEF ChildUnrotated, Rotates
  <2>7. child'.at # "off" => child'.cred.token = 0 \/ child'.cred.token \in valid' \/ child'.cred.token \in spentWell'
    BY <1>d, <2>1, <2>4, <2>5 DEF HoldersAccounted, Accounted
  <2>8. child'.at = "answered" => child'.cred.left # 3
    BY <1>d, <2>4, <2>5 DEF AnswersAreCreds
  <2>9. userCmd'.at = "granted" => userCmd'.token = 0 \/ userCmd'.token \in valid' \/ userCmd'.token \in spentWell'
    BY <1>d, <2>1 DEF HoldersAccounted, Accounted
  <2> QED
    BY <1>t, <1>r, <1>a, <1>l, <1>s, <1>v, <2>1, <2>2, <2>4, <2>5, <2>6, <2>7, <2>8, <2>9, OutsideRefresh
<1>2. CASE TickFindsNoToken
  BY <1>2, CredRests DEF TickFindsNoToken
<1>3. CASE GatewayDies
  <2>1. /\ spentWell' = spentWell \cup UNION {Swallowed(p) : p \in InGateway}
        /\ refresher' = [p \in RefreshPaths |-> IF p \in InGateway THEN RefreshIdle ELSE refresher[p]]
        /\ credLock' = IF credLock.by \in InGateway THEN [credLock EXCEPT !.dead = TRUE] ELSE credLock
        /\ child' = ChildOff
        /\ UNCHANGED <<setting, store, valid, issued, userCmd, refused>>
    BY <1>3 DEF GatewayDies
  <2>i. RefreshIdle \in RefresherRows /\ RefreshIdle.at = "idle" /\ RefreshIdle.cred.token = 0
    BY <1>c DEF RefreshIdle, RefresherRows
  <2>2. /\ refresher' \in [RefreshPaths -> RefresherRows]
        /\ \A p \in RefreshPaths : refresher'[p] = IF p \in InGateway THEN RefreshIdle ELSE refresher[p]
    BY <1>t, <2>1, <2>i
  <2>3. credLock' \in LockRows /\ credLock'.by = credLock.by /\ credLock'.old = credLock.old
        /\ (credLock.by \notin InGateway => credLock'.dead = credLock.dead) /\ (credLock.dead => credLock'.dead)
    BY <1>t, <1>z, <2>1
  <2>4. LockKept'
    BY <1>d, <2>2, <2>3, <2>i DEF LockKept, InExchange
  <2>5. StoreAccounted'
    <3>1. CASE Accounted(store.token)
      BY <2>1, <3>1 DEF StoreAccounted, Accounted
    <3>2. CASE Rotates /\ \E p \in RefreshPaths : refresher[p].at = "answered"
      <4>1. PICK p \in RefreshPaths : refresher[p].at = "answered"
        BY <3>2
      <4>2. CASE p \in InGateway
        <5>1. store.token \in Swallowed(p)
          BY <4>1 DEF Swallowed
        <5> QED  BY <2>1, <4>2, <5>1 DEF StoreAccounted, Accounted
      <4>3. CASE p \notin InGateway
        BY <2>1, <2>2, <3>2, <4>1, <4>3 DEF StoreAccounted, Rotates
      <4> QED  BY <4>2, <4>3
    <3> QED  BY <1>d, <3>1, <3>2 DEF StoreAccounted
  <2>6. ChildUnrotated'
    BY <1>f, <2>1 DEF ChildUnrotated
  <2>7. GrantIsFresh'
    BY <1>d, <2>1, <2>2, <2>i DEF GrantIsFresh, Rotates
  <2>8. userCmd'.at = "granted" => userCmd'.token = 0 \/ userCmd'.token \in valid' \/ userCmd'.token \in spentWell'
    BY <1>d, <2>1 DEF HoldersAccounted, Accounted
  <2>9. /\ child' \in ChildRows /\ child'.at = "off" /\ child'.cred.token <= issued
        /\ spentWell \subseteq spentWell' /\ store' = store /\ issued' = issued
    BY <1>c, <1>f, <1>t, <2>1
  <2>10. \A u : Accounted(u) => u = 0 \/ u \in valid' \/ u \in spentWell'
    BY <2>1 DEF Accounted
  <2>11. \A p \in RefreshPaths : refresher'[p] = refresher[p] \/ refresher'[p] = RefreshIdle
    BY <2>2
  <2> QED
    BY <1>t, <2>1, <2>2, <2>3, <2>4, <2>5, <2>6, <2>7, <2>8, <2>9, <2>10, <2>11, OutsideRefresh
<1>4. CASE LockGetsOld
  <2>1. credLock.dead /\ credLock' = [credLock EXCEPT !.old = TRUE]
        /\ UNCHANGED <<setting, store, valid, spentWell, issued, refresher, child, userCmd, refused>>
    BY <1>4 DEF LockGetsOld, StaleLock
  <2>2. credLock' \in LockRows /\ credLock'.by = credLock.by /\ credLock'.dead = credLock.dead
    BY <1>t, <1>z, <2>1
  <2>3. LockKept'
    BY <1>d, <2>1, <2>2 DEF LockKept, InExchange
  <2>4. CredTypeOK'
    BY <2>1, <2>2 DEF CredInv, CredTypeOK
  <2> QED
    BY <2>1, <2>3, <2>4 DEF CredInv, TokensIssued, InExchange, StoreAccounted, Accounted, Rotates, HoldersAccounted,
                WaitersAccounted, AnswersAreCreds, ChildUnrotated, GrantIsFresh, RotationSafe
<1>5. ASSUME NEW p \in RefreshPaths,
             \/ CommandBegins(p) \/ Acquires(p) \/ BreaksStaleLock(p) \/ WaitTimesOut(p)
             \/ Exchanges(p) \/ SavesRefreshed(p) \/ ExchangeRefused(p) \/ ExchangeFails(p)
      PROVE  CredInv'
  BY <1>5, RefreshKeeps
<1>6. CASE ChildSpawns
  <2>1. /\ ~Rotates /\ child' = [at |-> "up", cred |-> store]
        /\ UNCHANGED <<setting, store, valid, spentWell, issued, credLock, refresher, userCmd, refused>>
    BY <1>6, <1>t DEF ChildSpawns, ChildRuns, Rotates, ChildrenOnlyUnrotated
  <2>2. child' \in ChildRows /\ child'.at = "up" /\ child'.cred = store
    BY <1>t, <1>w, <2>1
  <2>3. ChildUnrotated'
    BY <2>1 DEF ChildUnrotated, Rotates
  <2>4. userCmd'.at = "granted" => userCmd'.token = 0 \/ userCmd'.token \in valid' \/ userCmd'.token \in spentWell'
    BY <1>d, <2>1 DEF HoldersAccounted, Accounted
  <2>5. child'.cred.token = 0 \/ child'.cred.token \in valid' \/ child'.cred.token \in spentWell'
    BY <1>o, <2>1, <2>2 DEF Accounted
  <2> QED
    BY <1>t, <1>r, <1>a, <1>l, <1>s, <1>v, <2>1, <2>2, <2>3, <2>4, <2>5, OutsideRefresh
<1>7. CASE ChildExchanges
  <2> DEFINE t == child.cred.token
  <2>0. child.at = "up" /\ ~Rotates /\ t \in Nat /\ t <= issued
    BY <1>7, <1>h, <1>t, <1>k, <1>c DEF ChildExchanges
  <2>1. /\ t \in valid /\ valid' = valid /\ issued' = issued /\ child' = [at |-> "answered", cred |-> Credential(t, 2)]
        /\ UNCHANGED <<setting, store, spentWell, credLock, refresher, userCmd, refused>>
    <3>1. Spend(t) /\ child' = [at |-> "answered", cred |-> Credential(Successor(t), 2)]
          /\ UNCHANGED <<setting, store, spentWell, credLock, refresher, userCmd, refused>>
      BY <1>7 DEF ChildExchanges
    <3>2. Successor(t) = t /\ t \in valid /\ valid' = valid \cup {t} /\ issued' = issued
      BY <2>0, <3>1 DEF Spend, Successor
    <3> QED  BY <3>1, <3>2
  <2>2. child' \in ChildRows /\ child'.at = "answered" /\ child'.cred.token = t /\ child'.cred.left = 2
    BY <1>c, <1>w, <2>0, <2>1
  <2> HIDE DEF t
  <2>3. ChildUnrotated'
    BY <2>0, <2>1 DEF ChildUnrotated, Rotates
  <2>4. userCmd'.at = "granted" => userCmd'.token = 0 \/ userCmd'.token \in valid' \/ userCmd'.token \in spentWell'
    BY <1>d, <2>1 DEF HoldersAccounted, Accounted
  <2> QED
    BY <1>t, <1>r, <1>a, <1>l, <1>s, <1>v, <2>0, <2>1, <2>2, <2>3, <2>4, OutsideRefresh
<1>8. CASE ChildPersists
  <2>1. /\ child.at = "answered" /\ ~Rotates /\ child' = [child EXCEPT !.at = "up"]
        /\ store' = (IF store = NoCred THEN store ELSE child.cred)
        /\ UNCHANGED <<setting, valid, spentWell, issued, credLock, refresher, userCmd, refused>>
    BY <1>8, <1>h DEF ChildPersists
  <2>2. child' \in ChildRows /\ child'.at = "up" /\ child'.cred = child.cred
    BY <1>t, <1>y, <2>1
  <2>3. /\ store' \in Creds /\ store'.token <= issued
    BY <1>t, <1>k, <2>1
  <2>4. store' = NoCred => store = NoCred
    BY <1>d, <2>1 DEF AnswersAreCreds, NoCred, Credential
  <2>5. Accounted(child.cred.token)
    BY <1>d, <2>1 DEF HoldersAccounted
  <2>6. StoreAccounted'
    BY <1>o, <2>1, <2>5 DEF StoreAccounted, Accounted
  <2>7. ChildUnrotated' /\ GrantIsFresh'
    BY <2>1 DEF ChildUnrotated, GrantIsFresh, Rotates
  <2>8. userCmd'.at = "granted" => userCmd'.token = 0 \/ userCmd'.token \in valid' \/ userCmd'.token \in spentWell'
    BY <1>d, <2>1 DEF HoldersAccounted, Accounted
  <2>9. child'.cred.token = 0 \/ child'.cred.token \in valid' \/ child'.cred.token \in spentWell'
    BY <2>1, <2>2, <2>5 DEF Accounted
  <2> QED
    BY <1>t, <1>r, <1>a, <1>l, <2>1, <2>2, <2>3, <2>4, <2>6, <2>7, <2>8, <2>9, OutsideRefresh
<1>9. CASE ChildRefused \/ ChildExits
  <2>1. child.at # "off" /\ child' = ChildOff /\ spentWell \subseteq spentWell'
        /\ UNCHANGED <<setting, store, valid, issued, credLock, refresher, userCmd>>
    BY <1>9 DEF ChildRefused, ChildExits
  <2>2. refused' = {}
    <3>1. CASE ChildExits
      BY <1>t, <3>1 DEF ChildExits
    <3>2. CASE ChildRefused
      <4>1. Accounted(child.cred.token) /\ child.cred.token \notin valid
        BY <1>d, <2>1, <3>2 DEF HoldersAccounted, ChildRefused
      <4>2. Blamed(child.cred.token) = {}
        BY <4>1 DEF Accounted, Blamed
      <4> QED  BY <1>t, <3>2, <4>2 DEF ChildRefused
    <3> QED  BY <1>9, <3>1, <3>2
  <2>3. child' \in ChildRows /\ child'.at = "off" /\ child'.cred.token <= issued
    BY <1>c, <1>f, <1>t, <2>1
  <2>4. ChildUnrotated'
    BY <2>3 DEF ChildUnrotated
  <2>5. userCmd'.at = "granted" => userCmd'.token = 0 \/ userCmd'.token \in valid' \/ userCmd'.token \in spentWell'
    BY <1>d, <2>1 DEF HoldersAccounted, Accounted
  <2> QED
    BY <1>t, <1>r, <1>a, <1>l, <1>s, <1>v, <2>1, <2>2, <2>3, <2>4, <2>5, OutsideRefresh
<1>10. CASE LoginBegins \/ LoginFails \/ RevokeBegins
  <2>1. userCmd' \in CmdRows /\ userCmd'.at # "granted" /\ userCmd'.token <= issued
        /\ UNCHANGED <<setting, store, valid, spentWell, issued, credLock, refresher, child, refused>>
    <3>1. CASE LoginBegins
      BY <1>t, <3>1 DEF LoginBegins, NoCredCommand
    <3>2. CASE LoginFails
      BY <1>t, <1>u, <3>2 DEF LoginFails
    <3>3. CASE RevokeBegins
      <4>1. userCmd' = [at |-> "revoking", token |-> store.token] /\ store.token \in Nat
        BY <1>c, <1>t, <3>3 DEF RevokeBegins
      <4> QED  BY <1>t, <3>3, <4>1 DEF RevokeBegins
    <3> QED  BY <1>10, <3>1, <3>2, <3>3
  <2>2. GrantIsFresh' /\ ChildUnrotated'
    BY <1>d, <2>1 DEF GrantIsFresh, ChildUnrotated, Rotates
  <2>3. /\ child'.at # "off" => child'.cred.token = 0 \/ child'.cred.token \in valid' \/ child'.cred.token \in spentWell'
        /\ child'.at = "answered" => child'.cred.left # 3
    BY <1>d, <2>1 DEF HoldersAccounted, Accounted, AnswersAreCreds
  <2> QED
    BY <1>t, <1>r, <1>a, <1>l, <1>s, <2>1, <2>2, <2>3, OutsideRefresh
<1>11. ASSUME NEW r \in BOOLEAN, LoginGranted(r)
       PROVE  CredInv'
  <2>1. /\ issued' = IF r THEN issued + 1 ELSE issued
        /\ valid' = valid \cup (IF r THEN {issued + 1} ELSE {})
        /\ userCmd' = [at |-> "granted", token |-> IF r THEN issued + 1 ELSE 0]
        /\ UNCHANGED <<setting, store, spentWell, credLock, refresher, child, refused>>
    BY <1>11 DEF LoginGranted
  <2>2. userCmd' \in CmdRows /\ userCmd'.at = "granted" /\ userCmd'.token = (IF r THEN issued + 1 ELSE 0)
    BY <1>t, <2>1
  <2>3. /\ issued' \in Nat /\ issued <= issued' /\ userCmd'.token <= issued'
        /\ userCmd'.token = 0 \/ userCmd'.token \in valid'
        /\ userCmd'.token = 0 \/ userCmd'.token = issued + 1
    BY <1>t, <2>1, <2>2
  <2>4. \A p \in RefreshPaths : refresher[p].cred.token \in Nat /\ refresher[p].cred.token <= issued
    BY DEF CredInv, CredTypeOK, TokensIssued, RefresherRows, Creds
  <2>5. GrantIsFresh'
    BY <1>c, <1>t, <2>1, <2>3, <2>4 DEF GrantIsFresh
  <2>6. ChildUnrotated'
    BY <1>d, <2>1 DEF ChildUnrotated, Rotates
  <2>7. /\ child'.at # "off" => child'.cred.token = 0 \/ child'.cred.token \in valid' \/ child'.cred.token \in spentWell'
        /\ child'.at = "answered" => child'.cred.left # 3
    BY <1>d, <2>1 DEF HoldersAccounted, Accounted, AnswersAreCreds
  <2>8. store'.token <= issued' /\ child'.cred.token <= issued'
    BY <1>c, <1>k, <1>t, <2>1
  <2> QED
    BY <1>t, <1>r, <1>a, <1>l, <1>s, <2>1, <2>2, <2>3, <2>5, <2>6, <2>7, <2>8, OutsideRefresh
<1>12. CASE LoginSaves
  <2>1. /\ userCmd.at = "granted" /\ store' = Credential(userCmd.token, 2) /\ userCmd' = NoCredCommand
        /\ UNCHANGED <<setting, valid, spentWell, issued, credLock, refresher, child, refused>>
    BY <1>12 DEF LoginSaves
  <2>2. store' \in Creds /\ store'.token = userCmd.token /\ store' # NoCred
    BY <1>c, <1>m, <1>t, <2>1
  <2>3. StoreAccounted'
    BY <1>d, <2>1, <2>2 DEF HoldersAccounted, StoreAccounted, Accounted
  <2>4. GrantIsFresh' /\ ChildUnrotated'
    BY <1>d, <1>u, <2>1 DEF GrantIsFresh, ChildUnrotated, Rotates
  <2>5. /\ child'.at # "off" => child'.cred.token = 0 \/ child'.cred.token \in valid' \/ child'.cred.token \in spentWell'
        /\ child'.at = "answered" => child'.cred.left # 3
    BY <1>d, <2>1 DEF HoldersAccounted, Accounted, AnswersAreCreds
  <2> QED
    BY <1>t, <1>u, <1>r, <1>a, <1>l, <2>1, <2>2, <2>3, <2>4, <2>5, OutsideRefresh
<1>13. ASSUME NEW ok \in BOOLEAN, RevokeAnswered(ok)
       PROVE  CredInv'
  <2>1. /\ valid' = (IF ok THEN valid \ {userCmd.token} ELSE valid)
        /\ spentWell' = (IF ok THEN spentWell \cup {userCmd.token} ELSE spentWell)
        /\ userCmd' = [userCmd EXCEPT !.at = "deleting"]
        /\ UNCHANGED <<setting, store, issued, credLock, refresher, child, refused>>
    BY <1>13 DEF RevokeAnswered
  <2>2. userCmd' \in CmdRows /\ userCmd'.at = "deleting" /\ userCmd'.token = userCmd.token
    BY <1>t, <1>x, <2>1
  <2>3. spentWell \subseteq spentWell' /\ \A u : Accounted(u) => u = 0 \/ u \in valid' \/ u \in spentWell'
    BY <2>1 DEF Accounted
  <2>4. StoreAccounted'
    BY <1>d, <2>1, <2>3 DEF StoreAccounted, Accounted, Rotates
  <2>5. GrantIsFresh' /\ ChildUnrotated'
    BY <1>d, <2>1, <2>2 DEF GrantIsFresh, ChildUnrotated, Rotates
  <2>6. /\ child'.at # "off" => child'.cred.token = 0 \/ child'.cred.token \in valid' \/ child'.cred.token \in spentWell'
        /\ child'.at = "answered" => child'.cred.left # 3
    BY <1>d, <2>1, <2>3 DEF HoldersAccounted, AnswersAreCreds
  <2> QED
    BY <1>t, <1>r, <1>l, <2>1, <2>2, <2>3, <2>4, <2>5, <2>6, OutsideRefresh
<1>14. CASE RevokeDeletes
  <2>1. /\ store' = NoCred /\ userCmd' = NoCredCommand /\ spentWell' = spentWell \cup 1..issued
        /\ UNCHANGED <<setting, valid, issued, credLock, refresher, child, refused>>
    BY <1>14 DEF RevokeDeletes
  <2>2. spentWell \subseteq spentWell' /\ 1..issued \subseteq spentWell'
    BY <2>1
  <2>3. StoreAccounted'
    BY <1>c, <2>1 DEF StoreAccounted, Accounted
  <2>4. GrantIsFresh' /\ ChildUnrotated'
    BY <1>d, <1>u, <2>1 DEF GrantIsFresh, ChildUnrotated, Rotates
  <2>5. /\ child'.at # "off" => child'.cred.token = 0 \/ child'.cred.token \in valid' \/ child'.cred.token \in spentWell'
        /\ child'.at = "answered" => child'.cred.left # 3
    BY <1>d, <2>1 DEF HoldersAccounted, Accounted, AnswersAreCreds
  <2> QED
    BY <1>t, <1>c, <1>u, <1>r, <1>a, <1>l, <2>1, <2>2, <2>3, <2>4, <2>5, OutsideRefresh
<1>15. CASE UNCHANGED credVars
  BY <1>15, CredRests DEF credVars
<1> QED
  BY <1>1, <1>2, <1>3, <1>4, <1>5, <1>6, <1>7, <1>8, <1>9, <1>10, <1>11, <1>12, <1>13, <1>14, <1>15 DEF CredNext

-----------------------------------------------------------------------------
(* Conversations: sessions, the pool of cached threads and the resume flag.*)
SessionRows ==
  [st : {"none", "open", "closed"}, peer : Peers \cup {"none"}, label : Labels \cup {NoLabel}, turns : Nat]
SessionIds == Sessions \cup {NoSession}

(* Rows are used in order, a row that is not used has no label, and a      *)
(* peer's pointer names a row of that peer.                                *)
RowsInOrder == \E k \in 0..MaxSession : \A s \in Sessions : sess[s].st # "none" <=> s <= k
PointerOwn == \A p \in Peers : activeSession[p] # NoSession =>
                sess[activeSession[p]].st # "none" /\ sess[activeSession[p]].peer = p
SessionsInv ==
  /\ sess \in [Sessions -> SessionRows] /\ activeSession \in [Peers -> SessionIds]
  /\ RowsInOrder /\ PointerOwn /\ OpenIsActive
  /\ \A s \in Sessions : /\ sess[s].st = "none" => sess[s].label = NoLabel
                         /\ sess[s].st # "none" => sess[s].peer \in Peers

(* What a step leaves of the rows that were in use.                        *)
RowsStay == \A s \in Sessions : sess[s].st # "none" => sess'[s].st # "none" /\ sess'[s].peer = sess[s].peer

\* The next session id is unused and the used ids are the ones below it.
LEMMA NextIsFree ==
  ASSUME SessionsInv
  PROVE  /\ NextSession \in Nat \ {0}
         /\ NextSession \in Sessions => /\ sess[NextSession].st = "none"
                                        /\ \A s \in Sessions : sess[s].st # "none" <=> s <= NextSession - 1
<1>1. PICK k \in 0..MaxSession : \A s \in Sessions : sess[s].st # "none" <=> s <= k
  BY DEF SessionsInv, RowsInOrder
<1>2. MaxSession \in Nat /\ Sessions = 1..MaxSession
  BY SessionBounds DEF Sessions
<1>3. {s \in Sessions : sess[s].st # "none"} = 1..k
  BY <1>1, <1>2
<1>4. Cardinality(1..k) = k
  BY <1>2, FS_Interval
<1>5. NextSession = 1 + k
  BY <1>3, <1>4 DEF NextSession
<1> QED  BY <1>1, <1>2, <1>5

\* What getActiveSession returns: the peer's own open session, or none.
LEMMA ActiveFacts ==
  ASSUME SessionsInv, NEW p \in Peers
  PROVE  /\ GetActiveSession(p) \in SessionIds
         /\ GetActiveSession(p) # NoSession =>
              GetActiveSession(p) = activeSession[p] /\ sess[GetActiveSession(p)].st = "open" /\ sess[GetActiveSession(p)].peer = p
         /\ \A s \in Sessions : sess[s].st = "open" /\ sess[s].peer = p => GetActiveSession(p) = s
<1>1. activeSession[p] \in SessionIds /\ NoSession \notin Sessions /\ NoSession \in SessionIds
  BY SessionBounds DEF SessionsInv, SessionIds, Sessions, NoSession
<1>2. activeSession[p] # NoSession => sess[activeSession[p]].peer = p
  BY DEF SessionsInv, PointerOwn
<1>3. \A s \in Sessions : sess[s].st = "open" /\ sess[s].peer = p => activeSession[p] = s
  BY DEF SessionsInv, OpenIsActive
<1> QED  BY <1>1, <1>2, <1>3 DEF GetActiveSession

(* A new session: the active one is closed and the next row opened.        *)
LEMMA OpenKeeps ==
  ASSUME SessionsInv, NEW p \in Peers, NEW label \in Labels \cup {NoLabel}, NextSession \in Sessions,
         sess' = OpenRow(CloseRow(sess, GetActiveSession(p)), p, label),
         activeSession' = [activeSession EXCEPT ![p] = NextSession]
  PROVE  /\ SessionsInv' /\ RowsStay
         /\ sess'[NextSession].st # "none" /\ sess'[NextSession].peer = p
<1> DEFINE n == NextSession
           a == GetActiveSession(p)
           rows == CloseRow(sess, a)
           new == [st |-> "open", peer |-> p, label |-> label, turns |-> 0]
<1>1. n \in Sessions /\ sess[n].st = "none" /\ \A s \in Sessions : sess[s].st # "none" <=> s <= n - 1
  BY NextIsFree
<1>2. /\ a \in SessionIds
      /\ a # NoSession => a = activeSession[p] /\ sess[a].st = "open" /\ sess[a].peer = p
      /\ \A s \in Sessions : sess[s].st = "open" /\ sess[s].peer = p => a = s
  BY ActiveFacts
<1>3. sess' = [rows EXCEPT ![n] = new]
  BY DEF OpenRow
<1>4. new \in SessionRows /\ new.st = "open" /\ new.peer = p
  BY DEF SessionRows
<1> HIDE DEF n, a, new
<1>5. \A r \in SessionRows : /\ [r EXCEPT !.st = "closed"] \in SessionRows /\ [r EXCEPT !.st = "closed"].st = "closed"
                             /\ [r EXCEPT !.st = "closed"].peer = r.peer /\ [r EXCEPT !.st = "closed"].label = r.label
  BY DEF SessionRows
<1>6. /\ sess \in [Sessions -> SessionRows] /\ activeSession \in [Peers -> SessionIds]
      /\ NoSession \notin Sessions
  BY SessionBounds DEF SessionsInv, Sessions, NoSession
<1>7. rows \in [Sessions -> SessionRows] /\ \A s \in Sessions : rows[s] = IF s = a THEN [sess[s] EXCEPT !.st = "closed"] ELSE sess[s]
  BY <1>2, <1>5, <1>6 DEF CloseRow, SessionIds
<1> HIDE DEF rows
<1>8. /\ sess' \in [Sessions -> SessionRows] /\ sess'[n] = new
      /\ \A s \in Sessions \ {n} : sess'[s] = rows[s]
  BY <1>1, <1>3, <1>4, <1>7
<1>9. a # n
  BY <1>1, <1>2, <1>6
<1>10. \A s \in Sessions \ {n} : /\ sess'[s].peer = sess[s].peer /\ sess'[s].label = sess[s].label
                                 /\ (sess'[s].st = "none" <=> sess[s].st = "none")
                                 /\ (sess'[s].st = "open" => sess[s].st = "open" /\ s # a)
  <2> SUFFICES ASSUME NEW s \in Sessions \ {n}
               PROVE  /\ sess'[s].peer = sess[s].peer /\ sess'[s].label = sess[s].label
                      /\ (sess'[s].st = "none" <=> sess[s].st = "none")
                      /\ (sess'[s].st = "open" => sess[s].st = "open" /\ s # a)
    OBVIOUS
  <2>1. sess[s] \in SessionRows /\ sess'[s] = rows[s]
    BY <1>6, <1>8
  <2>2. CASE s = a
    <3>1. sess'[s] = [sess[s] EXCEPT !.st = "closed"] /\ sess[s].st # "none"
      BY <1>2, <1>6, <1>7, <2>1, <2>2
    <3> QED  BY <1>5, <2>1, <2>2, <3>1
  <2>3. CASE s # a
    BY <1>7, <2>1, <2>3
  <2> QED  BY <2>2, <2>3
<1>11. RowsStay /\ sess'[n].st # "none" /\ sess'[n].peer = p
  BY <1>1, <1>4, <1>8, <1>10 DEF RowsStay
<1>12. /\ activeSession' \in [Peers -> SessionIds] /\ activeSession'[p] = n
       /\ \A q \in Peers \ {p} : activeSession'[q] = activeSession[q]
  BY <1>1, <1>6 DEF SessionIds, n
<1>13. RowsInOrder'
  <2>1. MaxSession \in Nat /\ Sessions = 1..MaxSession /\ n \in 0..MaxSession
    BY <1>1, SessionBounds DEF Sessions
  <2>2. \A s \in Sessions : sess'[s].st # "none" <=> s <= n
    BY <1>1, <1>10, <1>11, <2>1
  <2> QED  BY <2>1, <2>2 DEF RowsInOrder
<1>14. PointerOwn'
  <2> SUFFICES ASSUME NEW q \in Peers, activeSession'[q] # NoSession
               PROVE  sess'[activeSession'[q]].st # "none" /\ sess'[activeSession'[q]].peer = q
    BY DEF PointerOwn
  <2>1. CASE q = p
    BY <1>11, <1>12, <2>1
  <2>2. CASE q # p
    <3>1. activeSession[q] \in Sessions /\ sess[activeSession[q]].st # "none" /\ sess[activeSession[q]].peer = q
      BY <1>6, <1>12, <2>2 DEF SessionsInv, PointerOwn, SessionIds
    <3> QED  BY <1>11, <1>12, <2>2, <3>1 DEF RowsStay
  <2> QED  BY <2>1, <2>2
<1>15. OpenIsActive'
  <2> SUFFICES ASSUME NEW s \in Sessions, sess'[s].st = "open"
               PROVE  activeSession'[sess'[s].peer] = s
    BY DEF OpenIsActive
  <2>1. CASE s = n
    BY <1>4, <1>8, <1>12, <2>1
  <2>2. CASE s # n
    <3>1. sess[s].st = "open" /\ s # a /\ sess'[s].peer = sess[s].peer
      BY <1>10, <2>2
    <3>2. sess[s].peer # p /\ sess[s].peer \in Peers /\ activeSession[sess[s].peer] = s
      BY <1>2, <3>1 DEF SessionsInv, OpenIsActive
    <3> QED  BY <1>12, <3>1, <3>2
  <2> QED  BY <2>1, <2>2
<1>16. \A s \in Sessions : /\ sess'[s].st = "none" => sess'[s].label = NoLabel
                           /\ sess'[s].st # "none" => sess'[s].peer \in Peers
  BY <1>10, <1>11 DEF SessionsInv
<1> QED  BY <1>8, <1>11, <1>12, <1>13, <1>14, <1>15, <1>16 DEF SessionsInv, n

(* Switching branches: the pointer's row is closed and the target opened.  *)
LEMMA SwitchKeeps ==
  ASSUME SessionsInv, NEW p \in Peers, NEW label \in Labels, NEW target \in Labelled(p, label),
         sess' = SwitchRows(p, target), activeSession' = [activeSession EXCEPT ![p] = target]
  PROVE  SessionsInv' /\ RowsStay
<1> DEFINE a == IF activeSession[p] = target THEN NoSession ELSE activeSession[p]
           rows == CloseRow(sess, a)
<1>1. target \in Sessions /\ sess[target].peer = p /\ sess[target].st # "none"
  BY SessionBounds DEF Labelled, SessionsInv
<1>2. /\ sess \in [Sessions -> SessionRows] /\ activeSession \in [Peers -> SessionIds]
      /\ NoSession \notin Sessions
  BY SessionBounds DEF SessionsInv, Sessions, NoSession
<1>3. /\ \A r \in SessionRows : /\ [r EXCEPT !.st = "closed"] \in SessionRows /\ [r EXCEPT !.st = "closed"].st = "closed"
                                /\ [r EXCEPT !.st = "closed"].peer = r.peer /\ [r EXCEPT !.st = "closed"].label = r.label
      /\ \A r \in SessionRows : /\ [r EXCEPT !.st = "open"] \in SessionRows /\ [r EXCEPT !.st = "open"].st = "open"
                                /\ [r EXCEPT !.st = "open"].peer = r.peer /\ [r EXCEPT !.st = "open"].label = r.label
  BY DEF SessionRows
<1>4. a \in SessionIds /\ a # target /\ (a # NoSession => a = activeSession[p] /\ sess[a].st # "none")
  BY <1>1, <1>2 DEF SessionIds, SessionsInv, PointerOwn
<1>5. \A s \in Sessions : s # target /\ sess[s].st = "open" /\ sess[s].peer = p => s = a
  <2>1. \A s \in Sessions : sess[s].st = "open" /\ sess[s].peer = p => activeSession[p] = s
    BY DEF SessionsInv, OpenIsActive
  <2> QED  BY <2>1
<1>6. sess' = [rows EXCEPT ![target].st = "open"]
  BY DEF SwitchRows
<1> HIDE DEF a
<1>7. rows \in [Sessions -> SessionRows] /\ \A s \in Sessions : rows[s] = IF s = a THEN [sess[s] EXCEPT !.st = "closed"] ELSE sess[s]
  BY <1>2, <1>3, <1>4 DEF CloseRow, SessionIds
<1> HIDE DEF rows
<1>8. /\ sess' \in [Sessions -> SessionRows] /\ sess'[target] = [rows[target] EXCEPT !.st = "open"]
      /\ \A s \in Sessions \ {target} : sess'[s] = rows[s]
  BY <1>1, <1>3, <1>6, <1>7
<1>9. sess'[target].st = "open" /\ sess'[target].peer = p
  BY <1>1, <1>2, <1>3, <1>4, <1>7, <1>8
<1>10. \A s \in Sessions \ {target} : /\ sess'[s].peer = sess[s].peer /\ sess'[s].label = sess[s].label
                                      /\ (sess'[s].st = "none" <=> sess[s].st = "none")
                                      /\ (sess'[s].st = "open" => sess[s].st = "open" /\ s # a)
  <2> SUFFICES ASSUME NEW s \in Sessions \ {target}
               PROVE  /\ sess'[s].peer = sess[s].peer /\ sess'[s].label = sess[s].label
                      /\ (sess'[s].st = "none" <=> sess[s].st = "none")
                      /\ (sess'[s].st = "open" => sess[s].st = "open" /\ s # a)
    OBVIOUS
  <2>1. sess[s] \in SessionRows /\ sess'[s] = rows[s]
    BY <1>2, <1>8
  <2>2. CASE s = a
    <3>1. sess'[s] = [sess[s] EXCEPT !.st = "closed"] /\ sess[s].st # "none"
      BY <1>4, <1>2, <1>7, <2>1, <2>2
    <3>2. sess'[s].st = "closed" /\ sess'[s].peer = sess[s].peer /\ sess'[s].label = sess[s].label
      BY <2>1, <3>1 DEF SessionRows
    <3> QED  BY <3>1, <3>2
  <2>3. CASE s # a
    BY <1>7, <2>1, <2>3
  <2> QED  BY <2>2, <2>3
<1>11. RowsStay
  BY <1>1, <1>9, <1>10 DEF RowsStay
<1>12. /\ activeSession' \in [Peers -> SessionIds] /\ activeSession'[p] = target
       /\ \A q \in Peers \ {p} : activeSession'[q] = activeSession[q]
  BY <1>1, <1>2 DEF SessionIds
<1>13. RowsInOrder'
  <2>1. PICK k \in 0..MaxSession : \A s \in Sessions : sess[s].st # "none" <=> s <= k
    BY DEF SessionsInv, RowsInOrder
  <2>2. \A s \in Sessions : sess'[s].st # "none" <=> s <= k
    BY <1>1, <1>9, <1>10, <2>1
  <2> QED  BY <2>2 DEF RowsInOrder
<1>14. PointerOwn'
  <2> SUFFICES ASSUME NEW q \in Peers, activeSession'[q] # NoSession
               PROVE  sess'[activeSession'[q]].st # "none" /\ sess'[activeSession'[q]].peer = q
    BY DEF PointerOwn
  <2>1. CASE q = p
    BY <1>9, <1>12, <2>1
  <2>2. CASE q # p
    <3>1. activeSession[q] \in Sessions /\ sess[activeSession[q]].st # "none" /\ sess[activeSession[q]].peer = q
      BY <1>2, <1>12, <2>2 DEF SessionsInv, PointerOwn, SessionIds
    <3> QED  BY <1>11, <1>12, <2>2, <3>1 DEF RowsStay
  <2> QED  BY <2>1, <2>2
<1>15. OpenIsActive'
  <2> SUFFICES ASSUME NEW s \in Sessions, sess'[s].st = "open"
               PROVE  activeSession'[sess'[s].peer] = s
    BY DEF OpenIsActive
  <2>1. CASE s = target
    BY <1>9, <1>12, <2>1
  <2>2. CASE s # target
    <3>1. sess[s].st = "open" /\ s # a /\ sess'[s].peer = sess[s].peer
      BY <1>10, <2>2
    <3>2. sess[s].peer # p /\ sess[s].peer \in Peers /\ activeSession[sess[s].peer] = s
      BY <1>5, <2>2, <3>1 DEF SessionsInv, OpenIsActive
    <3> QED  BY <1>12, <3>1, <3>2
  <2> QED  BY <2>1, <2>2
<1>16. \A s \in Sessions : /\ sess'[s].st = "none" => sess'[s].label = NoLabel
                           /\ sess'[s].st # "none" => sess'[s].peer \in Peers
  BY <1>9, <1>10 DEF SessionsInv
<1> QED  BY <1>8, <1>11, <1>12, <1>13, <1>14, <1>15, <1>16 DEF SessionsInv

(* A counted turn touches a row.                                           *)
LEMMA TouchKeeps ==
  ASSUME SessionsInv, NEW s \in Sessions, sess' = TouchSession(sess, s), UNCHANGED activeSession
  PROVE  SessionsInv' /\ RowsStay
<1>1. sess \in [Sessions -> SessionRows]
  BY DEF SessionsInv
<1>2. \A r \in SessionRows : /\ [r EXCEPT !.turns = r.turns + 1] \in SessionRows /\ [r EXCEPT !.turns = r.turns + 1].st = r.st
                             /\ [r EXCEPT !.turns = r.turns + 1].peer = r.peer /\ [r EXCEPT !.turns = r.turns + 1].label = r.label
  BY DEF SessionRows
<1>3. /\ sess' \in [Sessions -> SessionRows] /\ sess'[s] = [sess[s] EXCEPT !.turns = sess[s].turns + 1]
      /\ \A t \in Sessions \ {s} : sess'[t] = sess[t]
  BY <1>1, <1>2 DEF TouchSession
<1>4. \A t \in Sessions : sess'[t].st = sess[t].st /\ sess'[t].peer = sess[t].peer /\ sess'[t].label = sess[t].label
  <2> SUFFICES ASSUME NEW t \in Sessions
               PROVE  sess'[t].st = sess[t].st /\ sess'[t].peer = sess[t].peer /\ sess'[t].label = sess[t].label
    OBVIOUS
  <2>1. sess[t] \in SessionRows
    BY <1>1
  <2>2. CASE t = s
    <3>1. sess'[t] = [sess[t] EXCEPT !.turns = sess[t].turns + 1]
      BY <1>3, <2>2
    <3> QED  BY <1>2, <2>1, <3>1
  <2>3. CASE t # s
    BY <1>3, <2>3
  <2> QED  BY <2>2, <2>3
<1>5. RowsInOrder'
  BY <1>4 DEF SessionsInv, RowsInOrder
<1>6. PointerOwn'
  <2> SUFFICES ASSUME NEW q \in Peers, activeSession[q] # NoSession
               PROVE  sess'[activeSession[q]].st # "none" /\ sess'[activeSession[q]].peer = q
    BY DEF PointerOwn
  <2>1. activeSession[q] \in Sessions
    BY DEF SessionsInv, SessionIds
  <2> QED  BY <1>4, <2>1 DEF SessionsInv, PointerOwn
<1> QED  BY <1>3, <1>4, <1>5, <1>6 DEF SessionsInv, OpenIsActive, RowsStay

TurnRows ==
  [pc : {"idle", "recap", "opening", "running"}, s : SessionIds, n : Nat, role : {"none", "user", "system"},
   held : {"no", "yes", "lru", "command"}, seen : SUBSET Nat]
ThreadCommands == [kind : {"none", "new", "compact", "branch"}, s : SessionIds, src : SessionIds, seen : SUBSET Nat]
ThreadsTypeOK ==
  /\ turn \in [Peers -> TurnRows] /\ turnCount \in Nat /\ history \in [Sessions -> SUBSET Nat]
  /\ command \in [Peers -> ThreadCommands]
  /\ \A p \in Peers : command[p].kind = "branch" => command[p].src \in Sessions
  /\ pool \in Seq(Sessions) /\ activeTurns \in [Sessions -> Nat]

(* A turn runs in a session of its own peer; the counter of a session is   *)
(* the number of turns that hold its entry, and none holds an entry that   *)
(* is not in the pool; a running turn has its flag set.                    *)
InOwn(p, rows) == turn[p].s \in Sessions /\ rows[turn[p].s].st # "none" /\ rows[turn[p].s].peer = p
TurnsOwn == \A p \in Peers : turn[p].pc # "idle" => InOwn(p, sess)
RunsOn(s) == {p \in Peers : turn[p].pc = "running" /\ turn[p].held = "yes" /\ turn[p].s = s}
CountsTrue ==
  \A s \in Sessions : /\ IsFiniteSet(RunsOn(s)) /\ activeTurns[s] = Cardinality(RunsOn(s))
                      /\ s \notin Range(pool) => RunsOn(s) = {}
FlagsTrue == ResumeFlagTrue /\ \A p \in Peers : turn[p].pc = "running" => p \in resumePending
ThreadsInv == SessionsInv /\ ThreadsTypeOK /\ TurnsOwn /\ CountsTrue /\ PoolWithinCap /\ FlagsTrue

\* The initial states satisfy the invariant of sessions and thread pool.
LEMMA ThreadsStart == ThreadsInit => ThreadsInv
<1> SUFFICES ASSUME ThreadsInit PROVE ThreadsInv
  OBVIOUS
<1>b. MaxSession \in Nat /\ MaxThreads \in Nat /\ Sessions = 1..MaxSession /\ NoSession = 0
  BY SessionBounds DEF Sessions, NoSession
<1>1. NoRow \in SessionRows /\ NoRow.st = "none" /\ NoRow.label = NoLabel
  BY DEF NoRow, SessionRows
<1>2. \A s \in Sessions : sess[s] = NoRow
  BY DEF ThreadsInit
<1>3. SessionsInv
  <2>1. sess \in [Sessions -> SessionRows] /\ activeSession \in [Peers -> SessionIds] /\ \A p \in Peers : activeSession[p] = NoSession
    BY <1>1 DEF ThreadsInit, SessionIds
  <2>2. RowsInOrder
    <3>1. 0 \in 0..MaxSession /\ \A s \in Sessions : sess[s].st # "none" <=> s <= 0
      BY <1>b, <1>1, <1>2
    <3> QED  BY <3>1 DEF RowsInOrder
  <2> QED  BY <1>1, <1>2, <2>1, <2>2 DEF SessionsInv, PointerOwn, OpenIsActive
<1>4. Idle \in TurnRows /\ Idle.pc = "idle"
  BY DEF Idle, TurnRows, SessionIds
<1>5. NoCommand \in ThreadCommands /\ NoCommand.kind = "none"
  BY DEF NoCommand, ThreadCommands, SessionIds
<1>6. /\ \A p \in Peers : turn[p] = Idle /\ command[p] = NoCommand
      /\ turn \in [Peers -> TurnRows] /\ command \in [Peers -> ThreadCommands]
  BY <1>4, <1>5 DEF ThreadsInit
<1>7. pool = << >> /\ Range(pool) = {} /\ Len(pool) = 0 /\ pool \in Seq(Sessions)
  BY DEF ThreadsInit, Range
<1>8. ThreadsTypeOK
  BY <1>5, <1>6, <1>7 DEF ThreadsTypeOK, ThreadsInit
<1>9. CountsTrue
  <2>1. \A s \in Sessions : RunsOn(s) = {} /\ activeTurns[s] = 0
    BY <1>4, <1>6 DEF RunsOn, ThreadsInit
  <2> QED  BY <2>1, FS_EmptySet DEF CountsTrue
<1> QED  BY <1>b, <1>3, <1>4, <1>6, <1>7, <1>8, <1>9 DEF ThreadsInv, TurnsOwn, PoolWithinCap, FlagsTrue, ResumeFlagTrue, ThreadsInit

\* A turn's session stays its peer's when rows keep their owners.
LEMMA OwnKept ==
  ASSUME TurnsOwn, RowsStay,
         \A q \in Peers : \/ turn'[q].pc = "idle" \/ (turn[q].pc # "idle" /\ turn'[q].s = turn[q].s)
                          \/ (turn'[q].s \in Sessions /\ sess'[turn'[q].s].st # "none" /\ sess'[turn'[q].s].peer = q)
  PROVE  TurnsOwn'
  BY DEF TurnsOwn, InOwn, RowsStay

(* A turn that is not counted moves to where it is not counted.            *)
LEMMA UncountedMoves ==
  ASSUME ThreadsInv, NEW p \in Peers, NEW x \in TurnRows, turn' = [turn EXCEPT ![p] = x],
         UNCHANGED <<pool, activeTurns>>,
         p \notin RunsOn(turn[p].s), x.pc # "running" \/ x.held # "yes"
  PROVE  CountsTrue' /\ PoolWithinCap'
<1>1. turn'[p] = x /\ \A q \in Peers \ {p} : turn'[q] = turn[q]
  BY DEF ThreadsInv, ThreadsTypeOK
<1>2. \A s \in Sessions : RunsOn(s)' = RunsOn(s)
  <2> SUFFICES ASSUME NEW s \in Sessions PROVE RunsOn(s)' = RunsOn(s)
    OBVIOUS
  <2>1. p \notin RunsOn(s) /\ p \notin RunsOn(s)'
    BY <1>1 DEF RunsOn
  <2>2. \A q \in Peers \ {p} : q \in RunsOn(s)' <=> q \in RunsOn(s)
    BY <1>1 DEF RunsOn
  <2>3. RunsOn(s) \subseteq Peers /\ RunsOn(s)' \subseteq Peers
    BY DEF RunsOn
  <2> QED  BY <2>1, <2>2, <2>3
<1> QED  BY <1>2 DEF ThreadsInv, CountsTrue, PoolWithinCap

(* RemoveAt takes one element out.                                         *)
LEMMA RemoveAtKeeps ==
  ASSUME NEW X, NEW q \in Seq(X), NEW i \in 1..Len(q)
  PROVE  /\ RemoveAt(q, i) \in Seq(X) /\ Len(RemoveAt(q, i)) = Len(q) - 1
         /\ Range(RemoveAt(q, i)) \subseteq Range(q) /\ Range(q) \subseteq Range(RemoveAt(q, i)) \cup {q[i]}
<1> DEFINE a == SubSeq(q, 1, i - 1)
           b == SubSeq(q, i + 1, Len(q))
           r == RemoveAt(q, i)
<1>0. Len(q) \in Nat /\ i \in Nat /\ i >= 1 /\ i <= Len(q)
  OBVIOUS
<1>1. a \in Seq(X) /\ Len(a) = i - 1 /\ \A j \in 1..(i - 1) : a[j] = q[j]
  BY <1>0
<1>2. b \in Seq(X) /\ Len(b) = Len(q) - i /\ \A j \in 1..(Len(q) - i) : b[j] = q[i + j]
  BY <1>0
<1>3. r = a \o b
  BY DEF RemoveAt
<1> HIDE DEF a, b, r
<1>4. /\ r \in Seq(X) /\ Len(r) = Len(q) - 1
      /\ \A j \in 1..(Len(q) - 1) : r[j] = IF j <= i - 1 THEN a[j] ELSE b[j - (i - 1)]
  <2>1. a \in Seq(X) /\ b \in Seq(X) /\ Len(a) = i - 1 /\ Len(b) = Len(q) - i
    BY <1>1, <1>2
  <2>2. /\ a \o b \in Seq(X) /\ Len(a \o b) = Len(a) + Len(b)
        /\ \A j \in 1..(Len(a) + Len(b)) : (a \o b)[j] = IF j <= Len(a) THEN a[j] ELSE b[j - Len(a)]
    <3>1. Len(a) \in Nat /\ Len(b) \in Nat /\ a \o b \in Seq(X) /\ Len(a \o b) = Len(a) + Len(b)
      BY <2>1
    <3>2. ASSUME NEW j \in 1..(Len(a) + Len(b))
          PROVE  (a \o b)[j] = IF j <= Len(a) THEN a[j] ELSE b[j - Len(a)]
      BY <2>1, <3>1
    <3> QED  BY <3>1, <3>2
  <2>3. Len(a) + Len(b) = Len(q) - 1
    BY <1>0, <2>1
  <2> QED  BY <1>3, <2>1, <2>2, <2>3
<1>5. \A j \in 1..(Len(q) - 1) : r[j] = IF j <= i - 1 THEN q[j] ELSE q[j + 1]
  <2> SUFFICES ASSUME NEW j \in 1..(Len(q) - 1) PROVE r[j] = IF j <= i - 1 THEN q[j] ELSE q[j + 1]
    OBVIOUS
  <2>1. CASE j <= i - 1
    BY <1>0, <1>1, <1>4, <2>1
  <2>2. CASE ~(j <= i - 1)
    <3>1. j - (i - 1) \in 1..(Len(q) - i) /\ i + (j - (i - 1)) = j + 1
      BY <1>0, <2>2
    <3> QED  BY <1>2, <1>4, <2>2, <3>1
  <2> QED  BY <2>1, <2>2
<1>6. ASSUME NEW y \in Range(r) PROVE y \in Range(q)
  <2>1. PICK j \in 1..(Len(q) - 1) : y = r[j]
    BY <1>0, <1>4 DEF Range
  <2>2. y = q[j] \/ y = q[j + 1]
    BY <1>5, <2>1
  <2>3. j \in DOMAIN q /\ j + 1 \in DOMAIN q
    BY <1>0
  <2> QED  BY <2>2, <2>3 DEF Range
<1>7. ASSUME NEW y \in Range(q), y # q[i] PROVE y \in Range(r)
  <2>1. PICK j \in 1..Len(q) : y = q[j]
    BY <1>0 DEF Range
  <2>2. CASE j < i
    <3>1. j \in 1..(Len(q) - 1) /\ j <= i - 1 /\ j \in DOMAIN r
      BY <1>0, <1>4, <2>2
    <3>2. y = r[j]
      BY <1>5, <2>1, <3>1
    <3> QED  BY <3>1, <3>2 DEF Range
  <2>3. CASE j > i
    <3>1. j - 1 \in 1..(Len(q) - 1) /\ ~(j - 1 <= i - 1) /\ j - 1 \in DOMAIN r /\ (j - 1) + 1 = j
      BY <1>0, <1>4, <2>3
    <3>2. y = r[j - 1]
      BY <1>5, <2>1, <3>1
    <3> QED  BY <3>1, <3>2 DEF Range
  <2>4. j # i
    BY <1>7, <2>1
  <2> QED  BY <1>0, <2>2, <2>3, <2>4
<1> QED  BY <1>4, <1>6, <1>7 DEF r

(* The entry of a turn is put last in the pool, and the pool shrunk.       *)
Opened(s) == IF s \in Range(pool) THEN Moved(pool, s) ELSE WithoutVictim(Append(pool, s))
\* Opening a thread keeps the pool within its cap, and a thread outside it has no turn counted on it.
LEMMA PoolOpens ==
  ASSUME ThreadsInv, NEW s \in Sessions
  PROVE  /\ Opened(s) \in Seq(Sessions) /\ Len(Opened(s)) <= MaxThreads
         /\ \A t \in Sessions \ Range(Opened(s)) : RunsOn(t) = {}
<1>0. pool \in Seq(Sessions) /\ Len(pool) <= MaxThreads /\ MaxThreads \in Nat /\ CountsTrue
  BY SessionBounds DEF ThreadsInv, ThreadsTypeOK, PoolWithinCap
<1>a. ASSUME NEW u \in Seq(Sessions) PROVE Append(u, s) \in Seq(Sessions) /\ Len(Append(u, s)) = Len(u) + 1
                                           /\ Range(Append(u, s)) = Range(u) \cup {s} /\ Append(u, s)[Len(u) + 1] = s
  BY AppendRange
<1>1. CASE s \in Range(pool)
  <2> DEFINE i == CHOOSE j \in DOMAIN pool : pool[j] = s
             r == RemoveAt(pool, i)
  <2>1. i \in 1..Len(pool) /\ pool[i] = s
    BY <1>0, <1>1 DEF Range
  <2>2. Opened(s) = Append(r, s)
    BY <1>1 DEF Opened, Moved
  <2> HIDE DEF i
  <2>3. r \in Seq(Sessions) /\ Len(r) = Len(pool) - 1 /\ Range(pool) \subseteq Range(r) \cup {s}
    BY <1>0, <2>1, RemoveAtKeeps
  <2> HIDE DEF r
  <2>4. Range(pool) \subseteq Range(Opened(s)) /\ Opened(s) \in Seq(Sessions) /\ Len(Opened(s)) = Len(pool)
    BY <1>0, <1>a, <2>2, <2>3
  <2> QED  BY <1>0, <2>4 DEF CountsTrue
<1>2. CASE s \notin Range(pool)
  <2> DEFINE q == Append(pool, s)
  <2>1. q \in Seq(Sessions) /\ Len(q) = Len(pool) + 1 /\ Range(q) = Range(pool) \cup {s} /\ q[Len(pool) + 1] = s
    BY <1>0, <1>a
  <2>2. Opened(s) = WithoutVictim(q) /\ activeTurns[s] = 0
    BY <1>0, <1>2, FS_EmptySet DEF Opened, CountsTrue
  <2> HIDE DEF q
  <2>3. Len(pool) + 1 \in Victims(q)
    BY <1>0, <2>1, <2>2 DEF Victims
  <2>4. CASE Len(q) <= MaxThreads
    <3>1. Opened(s) = q
      BY <2>2, <2>4 DEF WithoutVictim
    <3> QED  BY <1>0, <2>1, <2>4, <3>1 DEF CountsTrue
  <2>5. CASE ~(Len(q) <= MaxThreads)
    <3> DEFINE v == CHOOSE i \in Victims(q) : \A j \in Victims(q) : i <= j
    <3>1. Victims(q) \subseteq Nat /\ Victims(q) # {}
      BY <2>1, <2>3 DEF Victims
    <3>2. v \in Victims(q)
      BY <3>1, LeastNumber
    <3>3. Opened(s) = RemoveAt(q, v)
      BY <2>2, <2>3, <2>5 DEF WithoutVictim
    <3> HIDE DEF v
    <3>4. v \in 1..Len(q) /\ activeTurns[q[v]] = 0 /\ q[v] \in Sessions
      BY <2>1, <3>2 DEF Victims
    <3>5. RunsOn(q[v]) = {}
      BY <1>0, <3>4, FS_EmptySet DEF CountsTrue
    <3>6. Opened(s) \in Seq(Sessions) /\ Len(Opened(s)) = Len(q) - 1 /\ Range(q) \subseteq Range(Opened(s)) \cup {q[v]}
      BY <2>1, <3>3, <3>4, RemoveAtKeeps
    <3>7. Len(Opened(s)) <= MaxThreads
      BY <1>0, <2>1, <3>6
    <3>8. ASSUME NEW t \in Sessions \ Range(Opened(s)) PROVE RunsOn(t) = {}
      <4>1. t = q[v] \/ t \notin Range(pool)
        BY <2>1, <3>6
      <4> QED  BY <1>0, <3>5, <4>1 DEF CountsTrue
    <3> QED  BY <3>6, <3>7, <3>8
  <2> QED  BY <2>4, <2>5
<1> QED  BY <1>1, <1>2

\* The opening of a turn keeps the invariant.
LEMMA OpensKeeps ==
  ASSUME ThreadsInv, NEW p \in Peers, TurnOpens(p)
  PROVE  ThreadsInv'
<1> DEFINE s == turn[p].s
           q == Opened(s)
           h == IF s \in Range(q) THEN "yes" ELSE "lru"
           x == [[[turn[p] EXCEPT !.pc = "running"] EXCEPT !.held = h] EXCEPT !.seen = history[s]]
<1>t. /\ SessionsInv /\ ThreadsTypeOK /\ TurnsOwn /\ CountsTrue /\ FlagsTrue /\ turn[p] \in TurnRows
  BY DEF ThreadsInv, ThreadsTypeOK
<1>1. turn[p].pc = "opening" /\ s \in Sessions /\ sess[s].st # "none" /\ sess[s].peer = p
  BY <1>t DEF TurnOpens, TurnsOwn, InOwn
<1>2. /\ pool' = q
      /\ activeTurns' = [t \in Sessions |-> IF t \notin Range(q) THEN 0 ELSE IF t = s THEN activeTurns[t] + 1 ELSE activeTurns[t]]
      /\ resumePending' = resumePending \cup {p}
      /\ UNCHANGED <<sess, activeSession, turnCount, history, command, cutOff>>
      /\ turn' = [turn EXCEPT ![p].pc = "running", ![p].held = h, ![p].seen = history[s]]
  BY DEF TurnOpens, Opened
<1>3. q \in Seq(Sessions) /\ Len(q) <= MaxThreads /\ \A t \in Sessions \ Range(q) : RunsOn(t) = {}
  BY <1>1, PoolOpens
<1>4. h \in {"yes", "lru"} /\ (h = "yes" <=> s \in Range(q)) /\ history[s] \in SUBSET Nat
  BY <1>1, <1>t DEF ThreadsTypeOK
<1>5. x \in TurnRows /\ x.pc = "running" /\ x.s = s /\ x.held = h
  <2> HIDE DEF h, q
  <2>1. [turn[p] EXCEPT !.pc = "running"] \in TurnRows /\ [turn[p] EXCEPT !.pc = "running"].s = s
        /\ [turn[p] EXCEPT !.pc = "running"].pc = "running"
    BY <1>t DEF TurnRows
  <2>2. \A r \in TurnRows : \A g \in {"yes", "lru"} :
          /\ [r EXCEPT !.held = g] \in TurnRows /\ [r EXCEPT !.held = g].s = r.s /\ [r EXCEPT !.held = g].pc = r.pc
          /\ [r EXCEPT !.held = g].held = g
    BY DEF TurnRows
  <2>3. \A r \in TurnRows : \A g \in SUBSET Nat :
          /\ [r EXCEPT !.seen = g] \in TurnRows /\ [r EXCEPT !.seen = g].s = r.s /\ [r EXCEPT !.seen = g].pc = r.pc
          /\ [r EXCEPT !.seen = g].held = r.held
    BY DEF TurnRows
  <2> DEFINE y == [[turn[p] EXCEPT !.pc = "running"] EXCEPT !.held = h]
  <2>4. y \in TurnRows /\ y.s = s /\ y.pc = "running" /\ y.held = h
    BY <1>4, <2>1, <2>2
  <2> HIDE DEF y
  <2>5. x = [y EXCEPT !.seen = history[s]]
    BY DEF y
  <2> HIDE DEF x, s
  <2> QED  BY <1>4, <2>3, <2>4, <2>5
<1>6. /\ turn' \in [Peers -> TurnRows] /\ turn'[p] = x /\ \A r \in Peers \ {p} : turn'[r] = turn[r]
  <2> HIDE DEF h, q, s
  <2>1. turn' = [turn EXCEPT ![p] = x]
    BY <1>2
  <2> HIDE DEF x
  <2> QED  BY <1>t, <1>5, <2>1 DEF ThreadsTypeOK
<1> HIDE DEF x, q, h
<1>7. \A t \in Sessions : RunsOn(t)' = IF t = s /\ h = "yes" THEN RunsOn(t) \cup {p} ELSE RunsOn(t)
  <2> SUFFICES ASSUME NEW t \in Sessions PROVE RunsOn(t)' = IF t = s /\ h = "yes" THEN RunsOn(t) \cup {p} ELSE RunsOn(t)
    OBVIOUS
  <2>1. p \notin RunsOn(t) /\ (p \in RunsOn(t)' <=> t = s /\ h = "yes")
    BY <1>1, <1>5, <1>6 DEF RunsOn
  <2>2. \A r \in Peers \ {p} : r \in RunsOn(t)' <=> r \in RunsOn(t)
    BY <1>6 DEF RunsOn
  <2>3. RunsOn(t) \subseteq Peers /\ RunsOn(t)' \subseteq Peers
    BY DEF RunsOn
  <2> QED  BY <2>1, <2>2, <2>3
<1>8. CountsTrue'
  <2> SUFFICES ASSUME NEW t \in Sessions
               PROVE  /\ IsFiniteSet(RunsOn(t)') /\ activeTurns'[t] = Cardinality(RunsOn(t)')
                      /\ t \notin Range(q) => RunsOn(t)' = {}
    BY <1>2 DEF CountsTrue
  <2>1. IsFiniteSet(RunsOn(t)) /\ activeTurns[t] = Cardinality(RunsOn(t)) /\ p \notin RunsOn(t)
    BY <1>1, <1>t DEF CountsTrue, RunsOn
  <2>2. CASE t \notin Range(q)
    <3>1. RunsOn(t)' = {} /\ activeTurns'[t] = 0
      BY <1>2, <1>3, <1>4, <1>7, <2>2
    <3> QED  BY <3>1, FS_EmptySet
  <2>3. CASE t \in Range(q) /\ t = s
    <3>1. RunsOn(t)' = RunsOn(t) \cup {p} /\ activeTurns'[t] = activeTurns[t] + 1
      BY <1>2, <1>4, <1>7, <2>3
    <3> QED  BY <2>1, <2>3, <3>1, FS_AddElement
  <2>4. CASE t \in Range(q) /\ t # s
    BY <1>2, <1>7, <2>1, <2>4
  <2> QED  BY <2>2, <2>3, <2>4
<1>9. activeTurns' \in [Sessions -> Nat]
  BY <1>2, <1>t DEF ThreadsTypeOK
<1>10. SessionsInv' /\ RowsStay
  BY <1>2, <1>t DEF SessionsInv, RowsInOrder, PointerOwn, OpenIsActive, RowsStay
<1>11. TurnsOwn'
  BY <1>1, <1>2, <1>5, <1>6, <1>10, <1>t, OwnKept
<1>12. FlagsTrue'
  BY <1>2, <1>5, <1>6, <1>t DEF FlagsTrue, ResumeFlagTrue
<1>13. ThreadsTypeOK' /\ PoolWithinCap'
  BY <1>2, <1>3, <1>6, <1>9, <1>t DEF ThreadsTypeOK, PoolWithinCap
<1> QED  BY <1>8, <1>10, <1>11, <1>12, <1>13 DEF ThreadsInv

\* The end of a turn, in each of its ways, keeps the invariant.
LEMMA EndsKeeps ==
  ASSUME ThreadsInv, NEW p \in Peers, NEW how \in {"ok", "error", "abort"}, TurnEnds(p, how)
  PROVE  ThreadsInv'
<1> DEFINE s == turn[p].s
           a == GetActiveSession(p)
           counted == how = "ok" /\ turn[p].role = "user" /\ a # NoSession
<1>t. /\ SessionsInv /\ ThreadsTypeOK /\ TurnsOwn /\ CountsTrue /\ FlagsTrue /\ turn[p] \in TurnRows
  BY DEF ThreadsInv, ThreadsTypeOK
<1>1. turn[p].pc = "running" /\ s \in Sessions /\ turn[p].seen \in SUBSET Nat /\ turn[p].n \in Nat
  BY <1>t DEF TurnEnds, TurnsOwn, InOwn, TurnRows
<1>2. /\ sess' = IF counted THEN TouchSession(sess, a) ELSE sess
      /\ history' = IF how = "ok" THEN [history EXCEPT ![s] = turn[p].seen \cup {turn[p].n}] ELSE history
      /\ activeTurns' = (IF turn[p].held = "yes" THEN [activeTurns EXCEPT ![s] = activeTurns[s] - 1] ELSE activeTurns)
      /\ resumePending' = (IF how = "abort" THEN resumePending ELSE resumePending \ {p})
      /\ cutOff' = IF how = "abort" THEN cutOff \cup {p} ELSE cutOff \ {p}
      /\ turn' = [turn EXCEPT ![p] = Idle]
      /\ UNCHANGED <<activeSession, pool, turnCount, command>>
  BY DEF TurnEnds, Uncount, ClearsFlag
<1>3. Idle \in TurnRows /\ Idle.pc = "idle"
  BY DEF Idle, TurnRows, SessionIds
<1>4. turn' \in [Peers -> TurnRows] /\ turn'[p] = Idle /\ \A r \in Peers \ {p} : turn'[r] = turn[r]
  BY <1>2, <1>3, <1>t DEF ThreadsTypeOK
<1>5. \A t \in Sessions : RunsOn(t)' = RunsOn(t) \ {p}
  <2> SUFFICES ASSUME NEW t \in Sessions PROVE RunsOn(t)' = RunsOn(t) \ {p}
    OBVIOUS
  <2>1. p \notin RunsOn(t)'
    BY <1>3, <1>4 DEF RunsOn
  <2>2. \A r \in Peers \ {p} : r \in RunsOn(t)' <=> r \in RunsOn(t)
    BY <1>4 DEF RunsOn
  <2>3. RunsOn(t) \subseteq Peers /\ RunsOn(t)' \subseteq Peers
    BY DEF RunsOn
  <2> QED  BY <2>1, <2>2, <2>3
<1>6. CountsTrue' /\ activeTurns' \in [Sessions -> Nat]
  <2>1. \A t \in Sessions : p \in RunsOn(t) <=> t = s /\ turn[p].held = "yes"
    BY <1>1 DEF RunsOn
  <2>2. \A t \in Sessions : IsFiniteSet(RunsOn(t)) /\ activeTurns[t] = Cardinality(RunsOn(t)) /\ activeTurns[t] \in Nat
    BY <1>t DEF CountsTrue, ThreadsTypeOK
  <2>3. \A t \in Sessions : activeTurns'[t] = IF p \in RunsOn(t) THEN activeTurns[t] - 1 ELSE activeTurns[t]
    BY <1>1, <1>2, <1>t, <2>1 DEF ThreadsTypeOK
  <2>4. ASSUME NEW t \in Sessions
        PROVE  /\ IsFiniteSet(RunsOn(t)') /\ activeTurns'[t] = Cardinality(RunsOn(t)')
               /\ Cardinality(RunsOn(t)') \in Nat
    BY <1>5, <2>2, <2>3, FS_RemoveElement, FS_CardinalityType
  <2>5. \A t \in Sessions : t \notin Range(pool) => RunsOn(t)' = {}
    BY <1>5, <1>t DEF CountsTrue
  <2>6. activeTurns' \in [Sessions -> Nat]
    <3>1. activeTurns' = [t \in Sessions |-> activeTurns'[t]]
      BY <1>2, <1>t DEF ThreadsTypeOK
    <3> QED  BY <2>4, <3>1
  <2> QED  BY <1>2, <2>4, <2>5, <2>6 DEF CountsTrue
<1>7. SessionsInv' /\ RowsStay
  <2>1. CASE counted
    <3>1. a \in Sessions
      BY <1>t, <2>1, ActiveFacts DEF SessionIds
    <3> QED  BY <1>2, <1>t, <2>1, <3>1, TouchKeeps
  <2>2. CASE ~counted
    BY <1>2, <1>t, <2>2 DEF SessionsInv, RowsInOrder, PointerOwn, OpenIsActive, RowsStay
  <2> QED  BY <2>1, <2>2
<1>8. TurnsOwn'
  BY <1>3, <1>4, <1>7, <1>t, OwnKept
<1>9. FlagsTrue'
  BY <1>1, <1>2, <1>3, <1>4, <1>t DEF FlagsTrue, ResumeFlagTrue
<1>10. ThreadsTypeOK'
  <2>1. history' \in [Sessions -> SUBSET Nat]
    BY <1>1, <1>2, <1>t DEF ThreadsTypeOK
  <2> QED  BY <1>2, <1>4, <1>6, <1>t, <2>1 DEF ThreadsTypeOK
<1> QED  BY <1>2, <1>6, <1>7, <1>8, <1>9, <1>10 DEF ThreadsInv, PoolWithinCap

(* The entries of a peer leave the pool; its turn no longer holds one.     *)
LEMMA EvictKeeps ==
  ASSUME ThreadsInv, NEW p \in Peers, EvictPeerThreads(p, sess)
  PROVE  /\ CountsTrue' /\ PoolWithinCap' /\ pool' \in Seq(Sessions) /\ activeTurns' \in [Sessions -> Nat]
         /\ turn' \in [Peers -> TurnRows] /\ \A q \in Peers : turn'[q].pc = turn[q].pc /\ turn'[q].s = turn[q].s
<1> DEFINE mine == {s \in Sessions : sess[s].peer = p}
           h == IF turn[p].held = "yes" THEN "command" ELSE turn[p].held
<1>t. /\ SessionsInv /\ ThreadsTypeOK /\ TurnsOwn /\ CountsTrue /\ turn[p] \in TurnRows /\ pool \in Seq(Sessions)
      /\ Len(pool) <= MaxThreads /\ MaxThreads \in Nat
  BY SessionBounds DEF ThreadsInv, ThreadsTypeOK, PoolWithinCap
<1>1. /\ pool' = Filter(pool, Sessions \ mine)
      /\ activeTurns' = [s \in Sessions |-> IF s \in mine THEN 0 ELSE activeTurns[s]]
      /\ turn' = [turn EXCEPT ![p].held = h]
  BY DEF EvictPeerThreads
<1>2. /\ pool' \in Seq(Sessions) /\ Len(pool') <= Len(pool)
      /\ \A i \in 1..Len(pool) : pool[i] \in Sessions \ mine => \E k \in 1..Len(pool') : pool'[k] = pool[i]
  <2> DEFINE S == Sessions \ mine
  <2>1. pool' = Filter(pool, S)
    BY <1>1
  <2> HIDE DEF S
  <2>2. /\ Filter(pool, S) \in Seq(Sessions) /\ Len(Filter(pool, S)) <= Len(pool)
        /\ \A i \in 1..Len(pool) : pool[i] \in S => \E k \in 1..Len(Filter(pool, S)) : Filter(pool, S)[k] = pool[i]
    BY <1>t, FilterKeeps
  <2>3. /\ pool' \in Seq(Sessions) /\ Len(pool') <= Len(pool)
        /\ \A i \in 1..Len(pool) : pool[i] \in S => \E k \in 1..Len(pool') : pool'[k] = pool[i]
    BY <2>1, <2>2
  <2> QED  BY <2>3 DEF S
<1>3. \A s \in Range(pool) : s \notin mine => s \in Range(pool')
  <2> SUFFICES ASSUME NEW s \in Range(pool), s \notin mine PROVE s \in Range(pool')
    OBVIOUS
  <2>1. PICK i \in 1..Len(pool) : pool[i] = s
    BY <1>t DEF Range
  <2>2. PICK k \in 1..Len(pool') : pool'[k] = s
    BY <1>2, <1>t, <2>1
  <2> QED  BY <1>2, <2>2 DEF Range
<1>4. h \in {"no", "lru", "command"}
  BY <1>t DEF TurnRows
<1>5. /\ turn' \in [Peers -> TurnRows] /\ turn'[p].pc = turn[p].pc /\ turn'[p].s = turn[p].s /\ turn'[p].held = h
      /\ \A q \in Peers \ {p} : turn'[q] = turn[q]
  <2> HIDE DEF h
  <2> DEFINE x == [turn[p] EXCEPT !.held = h]
  <2>1. x \in TurnRows /\ x.pc = turn[p].pc /\ x.s = turn[p].s /\ x.held = h
    BY <1>4, <1>t DEF TurnRows
  <2>2. turn' = [turn EXCEPT ![p] = x]
    BY <1>1
  <2> HIDE DEF x
  <2> QED  BY <1>t, <2>1, <2>2 DEF ThreadsTypeOK
<1>6. \A s \in mine : RunsOn(s)' = {}
  <2> SUFFICES ASSUME NEW s \in mine, NEW q \in RunsOn(s)' PROVE FALSE
    OBVIOUS
  <2>1. q \in Peers /\ turn'[q].pc = "running" /\ turn'[q].held = "yes" /\ turn'[q].s = s
    BY DEF RunsOn
  <2>2. q # p
    BY <1>4, <1>5, <2>1
  <2>3. sess[s].peer = q
    BY <1>5, <1>t, <2>1, <2>2 DEF TurnsOwn, InOwn
  <2> QED  BY <2>2, <2>3
<1>7. \A s \in Sessions \ mine : RunsOn(s)' = RunsOn(s)
  <2> SUFFICES ASSUME NEW s \in Sessions \ mine PROVE RunsOn(s)' = RunsOn(s)
    OBVIOUS
  <2>1. p \notin RunsOn(s)
    BY <1>t DEF RunsOn, TurnsOwn, InOwn
  <2>2. p \notin RunsOn(s)'
    BY <1>4, <1>5 DEF RunsOn
  <2>3. \A r \in Peers \ {p} : r \in RunsOn(s)' <=> r \in RunsOn(s)
    BY <1>5 DEF RunsOn
  <2>4. RunsOn(s) \subseteq Peers /\ RunsOn(s)' \subseteq Peers
    BY DEF RunsOn
  <2> QED  BY <2>1, <2>2, <2>3, <2>4
<1>8. CountsTrue'
  <2> SUFFICES ASSUME NEW s \in Sessions
               PROVE  /\ IsFiniteSet(RunsOn(s)') /\ activeTurns'[s] = Cardinality(RunsOn(s)')
                      /\ s \notin Range(pool') => RunsOn(s)' = {}
    BY DEF CountsTrue
  <2>1. CASE s \in mine
    BY <1>1, <1>6, <2>1, FS_EmptySet
  <2>2. CASE s \notin mine
    BY <1>1, <1>3, <1>7, <1>t, <2>2 DEF CountsTrue
  <2> QED  BY <2>1, <2>2
<1>9. activeTurns' \in [Sessions -> Nat]
  BY <1>1, <1>t DEF ThreadsTypeOK
<1>10. PoolWithinCap'
  BY <1>2, <1>t DEF PoolWithinCap
<1>11. \A q \in Peers : turn'[q].pc = turn[q].pc /\ turn'[q].s = turn[q].s
  BY <1>5
<1> QED  BY <1>2, <1>5, <1>8, <1>9, <1>10, <1>11

(* A step that leaves the turns alone.                                     *)
LEMMA TurnsRest ==
  ASSUME ThreadsInv, SessionsInv', RowsStay, UNCHANGED <<pool, activeTurns, turn, turnCount, history, resumePending, cutOff>>,
         command' \in [Peers -> ThreadCommands], \A p \in Peers : command'[p].kind = "branch" => command'[p].src \in Sessions
  PROVE  ThreadsInv'
<1>1. TurnsOwn /\ TurnsOwn' /\ ThreadsTypeOK'
  <2>1. TurnsOwn
    BY DEF ThreadsInv
  <2> QED  BY <2>1, OwnKept DEF ThreadsInv, ThreadsTypeOK
<1>2. CountsTrue'
  BY DEF ThreadsInv, CountsTrue, RunsOn
<1> QED  BY <1>1, <1>2 DEF ThreadsInv, PoolWithinCap, FlagsTrue, ResumeFlagTrue

\* Every step of sessions, pool, turns and commands keeps the invariant.
LEMMA ThreadsStep ==
  ASSUME ThreadsInv, [ThreadsNext]_threadVars
  PROVE  ThreadsInv'
<1>t. /\ SessionsInv /\ ThreadsTypeOK /\ TurnsOwn /\ FlagsTrue /\ command \in [Peers -> ThreadCommands]
      /\ turn \in [Peers -> TurnRows] /\ NoLabel \in Labels \cup {NoLabel}
      /\ \A p \in Peers : command[p].kind = "branch" => command[p].src \in Sessions
  BY DEF ThreadsInv, ThreadsTypeOK
<1>n. NoCommand \in ThreadCommands /\ NoCommand.kind = "none" /\ Idle \in TurnRows /\ Idle.pc = "idle" /\ Idle.held = "no"
  BY DEF NoCommand, ThreadCommands, SessionIds, Idle, TurnRows
<1>s. UNCHANGED <<sess, activeSession>> => SessionsInv' /\ RowsStay
  BY <1>t DEF SessionsInv, RowsInOrder, PointerOwn, OpenIsActive, RowsStay
<1>c. ASSUME NEW p \in Peers, NEW k \in ThreadCommands, command' = [command EXCEPT ![p] = k], k.kind = "branch" => k.src \in Sessions
      PROVE  command' \in [Peers -> ThreadCommands] /\ \A q \in Peers : command'[q].kind = "branch" => command'[q].src \in Sessions
  BY <1>t, <1>c
<1>1. ASSUME NEW p \in Peers, NEW role \in {"user", "system"}, NEW e \in BOOLEAN, InvokeStart(p, role, e)
      PROVE  ThreadsInv'
  <2> DEFINE old == GetActiveSession(p)
             rotates == old = NoSession \/ e
             s == IF rotates THEN NextSession ELSE old
             queued == recaps \cup (IF rotates /\ old # NoSession THEN {s} ELSE {})
             waits == role = "user" /\ s \in queued
             w == IF waits THEN "recap" ELSE "opening"
             x == [Idle EXCEPT !.pc = w, !.s = s, !.n = turnCount + 1, !.role = role]
  <2>1. /\ turn[p].pc = "idle" /\ s \in Sessions /\ turnCount' = turnCount + 1 /\ turn' = [turn EXCEPT ![p] = x]
        /\ IF rotates THEN Rotate(p) ELSE UNCHANGED <<sess, activeSession>>
        /\ UNCHANGED <<pool, activeTurns, history, command, resumePending, cutOff>>
    BY <1>1 DEF InvokeStart
  <2>2. w \in {"recap", "opening"} /\ turnCount \in Nat
    BY <1>t DEF ThreadsTypeOK
  <2>3. /\ SessionsInv' /\ RowsStay /\ sess'[s].st # "none" /\ sess'[s].peer = p
    <3>1. CASE rotates
      BY <1>t, <2>1, <3>1, OpenKeeps DEF Rotate
    <3>2. CASE ~rotates
      BY <1>s, <1>t, <2>1, <3>2, ActiveFacts
    <3> QED  BY <3>1, <3>2
  <2> HIDE DEF w, s
  <2>4. x \in TurnRows /\ x.pc = w /\ x.s = s
    <3> DEFINE n == turnCount + 1
               y == [[Idle EXCEPT !.pc = w] EXCEPT !.s = s]
    <3>1. x = [[y EXCEPT !.n = n] EXCEPT !.role = role]
      OBVIOUS
    <3>2. n \in Nat
      BY <2>2
    <3> HIDE DEF n, x
    <3>3. y \in TurnRows /\ y.pc = w /\ y.s = s
      <4>1. Idle \in TurnRows
        BY <1>n
      <4>2. [Idle EXCEPT !.pc = w] \in TurnRows /\ [Idle EXCEPT !.pc = w].pc = w
        BY <2>2, <4>1 DEF TurnRows
      <4>3. \A r \in TurnRows : [r EXCEPT !.s = s] \in TurnRows /\ [r EXCEPT !.s = s].s = s /\ [r EXCEPT !.s = s].pc = r.pc
        BY <2>1 DEF TurnRows, SessionIds
      <4> QED  BY <4>2, <4>3
    <3> HIDE DEF y
    <3>4. [y EXCEPT !.n = n] \in TurnRows /\ [y EXCEPT !.n = n].pc = w /\ [y EXCEPT !.n = n].s = s
      BY <3>2, <3>3 DEF TurnRows
    <3>5. \A r \in TurnRows : /\ [r EXCEPT !.role = role] \in TurnRows /\ [r EXCEPT !.role = role].pc = r.pc
                              /\ [r EXCEPT !.role = role].s = r.s
      BY DEF TurnRows
    <3> QED  BY <3>1, <3>4, <3>5
  <2> HIDE DEF x
  <2>5. turn' \in [Peers -> TurnRows] /\ turn'[p] = x /\ \A q \in Peers \ {p} : turn'[q] = turn[q]
    BY <1>t, <2>1, <2>4
  <2>6. CountsTrue' /\ PoolWithinCap'
    <3>1. p \notin RunsOn(turn[p].s)
      BY <2>1 DEF RunsOn
    <3> QED  BY <2>1, <2>2, <2>4, <3>1, UncountedMoves
  <2>7. TurnsOwn'
    BY <1>t, <2>1, <2>3, <2>4, <2>5, OwnKept
  <2>8. FlagsTrue'
    BY <1>t, <2>1, <2>2, <2>4, <2>5 DEF FlagsTrue, ResumeFlagTrue
  <2>9. ThreadsTypeOK'
    BY <1>t, <2>1, <2>2, <2>5 DEF ThreadsTypeOK
  <2> QED  BY <2>3, <2>6, <2>7, <2>8, <2>9 DEF ThreadsInv
<1>2. ASSUME NEW p \in Peers, RecapOver(p)
      PROVE  ThreadsInv'
  <2> DEFINE x == [turn[p] EXCEPT !.pc = "opening"]
  <2>1. turn[p].pc = "recap" /\ turn' = [turn EXCEPT ![p] = x]
        /\ UNCHANGED <<sess, activeSession, pool, activeTurns, turnCount, history, command, resumePending, cutOff>>
    BY <1>2 DEF RecapOver
  <2>2. x \in TurnRows /\ x.pc = "opening" /\ x.s = turn[p].s
    BY <1>t DEF TurnRows
  <2> HIDE DEF x
  <2>3. turn' \in [Peers -> TurnRows] /\ turn'[p] = x /\ \A q \in Peers \ {p} : turn'[q] = turn[q]
    BY <1>t, <2>1, <2>2
  <2>4. CountsTrue' /\ PoolWithinCap'
    <3>1. p \notin RunsOn(turn[p].s)
      BY <2>1 DEF RunsOn
    <3> QED  BY <2>1, <2>2, <3>1, UncountedMoves
  <2>5. TurnsOwn'
    BY <1>s, <1>t, <2>1, <2>2, <2>3, OwnKept
  <2>6. FlagsTrue'
    BY <1>t, <2>1, <2>2, <2>3 DEF FlagsTrue, ResumeFlagTrue
  <2>7. ThreadsTypeOK'
    BY <1>t, <2>1, <2>3 DEF ThreadsTypeOK
  <2> QED  BY <1>s, <2>1, <2>4, <2>5, <2>6, <2>7 DEF ThreadsInv
<1>3. ASSUME NEW p \in Peers, TurnOpens(p)
      PROVE  ThreadsInv'
  BY <1>3, OpensKeeps
<1>4. ASSUME NEW p \in Peers, NEW how \in {"ok", "error", "abort"}, TurnEnds(p, how)
      PROVE  ThreadsInv'
  BY <1>4, EndsKeeps
<1>5. ASSUME NEW p \in Peers, ExtractionOver(p)
      PROVE  ThreadsInv'
  BY <1>5, <1>s, <1>t, TurnsRest DEF ExtractionOver
<1>6. ASSUME NEW p \in Peers, ForceNewSession(p)
      PROVE  ThreadsInv'
  <2> DEFINE k == IF GetActiveSession(p) = NoSession THEN NoCommand ELSE [NoCommand EXCEPT !.kind = "new", !.s = NextSession]
  <2>1. /\ NextSession \in Sessions /\ Rotate(p) /\ command' = [command EXCEPT ![p] = k]
        /\ UNCHANGED <<pool, activeTurns, turn, turnCount, history, resumePending, cutOff>>
    BY <1>6 DEF ForceNewSession
  <2>2. k \in ThreadCommands /\ k.kind # "branch"
    BY <2>1 DEF NoCommand, ThreadCommands, SessionIds
  <2>3. SessionsInv' /\ RowsStay
    BY <1>t, <2>1, OpenKeeps DEF Rotate
  <2> HIDE DEF k
  <2> QED  BY <1>c, <2>1, <2>2, <2>3, TurnsRest
<1>7. ASSUME NEW p \in Peers, NEW b \in BOOLEAN, ForceNewEnds(p, b)
      PROVE  ThreadsInv'
  BY <1>7, <1>c, <1>n, <1>s, TurnsRest DEF ForceNewEnds
<1>8. ASSUME NEW p \in Peers, CompactReads(p)
      PROVE  ThreadsInv'
  <2> DEFINE s == GetActiveSession(p)
             k == [NoCommand EXCEPT !.kind = "compact", !.s = s, !.seen = history[s]]
  <2>1. /\ s \in Sessions /\ command' = [command EXCEPT ![p] = k]
        /\ UNCHANGED <<sess, activeSession, pool, activeTurns, turn, turnCount, history, resumePending, cutOff>>
    BY <1>8, <1>t, ActiveFacts DEF CompactReads, SessionIds
  <2>2. history[s] \in SUBSET Nat
    BY <1>t, <2>1 DEF ThreadsTypeOK
  <2>3. k \in ThreadCommands /\ k.kind # "branch"
    <3> HIDE DEF s
    <3> QED  BY <2>1, <2>2 DEF NoCommand, ThreadCommands, SessionIds
  <2> HIDE DEF k, s
  <2> QED  BY <1>c, <1>s, <2>1, <2>3, TurnsRest
<1>9. ASSUME NEW p \in Peers, NEW ok \in BOOLEAN, CompactEnds(p, ok) \/ BranchCloned(p, ok)
      PROVE  ThreadsInv'
  <2>1. /\ command' = [command EXCEPT ![p] = NoCommand] /\ UNCHANGED <<sess, activeSession, turnCount, resumePending, cutOff>>
        /\ EvictPeerThreads(p, sess) \/ UNCHANGED <<pool, activeTurns, turn>>
    BY <1>9 DEF CompactEnds, BranchCloned
  <2>2. history' \in [Sessions -> SUBSET Nat]
    <3>1. command[p] \in ThreadCommands /\ history \in [Sessions -> SUBSET Nat]
      BY <1>t DEF ThreadsTypeOK
    <3>2. CASE CompactEnds(p, ok)
      BY <3>1, <3>2 DEF CompactEnds, ThreadCommands
    <3>3. CASE BranchCloned(p, ok)
      <4>1. history[command[p].src] \in SUBSET Nat
        BY <1>t, <3>1, <3>3 DEF BranchCloned
      <4> QED  BY <3>1, <3>3, <4>1 DEF BranchCloned
    <3> QED  BY <1>9, <3>2, <3>3
  <2>3. command' \in [Peers -> ThreadCommands] /\ \A q \in Peers : command'[q].kind = "branch" => command'[q].src \in Sessions
    BY <1>c, <1>n, <2>1
  <2>4. /\ CountsTrue' /\ PoolWithinCap' /\ pool' \in Seq(Sessions) /\ activeTurns' \in [Sessions -> Nat]
        /\ turn' \in [Peers -> TurnRows] /\ \A q \in Peers : turn'[q].pc = turn[q].pc /\ turn'[q].s = turn[q].s
    <3>1. CASE EvictPeerThreads(p, sess)
      BY <3>1, EvictKeeps
    <3>2. CASE UNCHANGED <<pool, activeTurns, turn>>
      <4>1. CountsTrue' /\ PoolWithinCap'
        BY <3>2 DEF ThreadsInv, CountsTrue, RunsOn, PoolWithinCap
      <4>2. pool' \in Seq(Sessions) /\ activeTurns' \in [Sessions -> Nat] /\ turn' \in [Peers -> TurnRows]
        BY <3>2, <1>t DEF ThreadsTypeOK
      <4> QED  BY <3>2, <4>1, <4>2
    <3> QED  BY <2>1, <3>1, <3>2
  <2>5. TurnsOwn'
    BY <1>s, <1>t, <2>1, <2>4, OwnKept
  <2>6. FlagsTrue'
    BY <1>t, <2>1, <2>4 DEF FlagsTrue, ResumeFlagTrue
  <2>7. ThreadsTypeOK'
    BY <1>t, <2>1, <2>2, <2>3, <2>4 DEF ThreadsTypeOK
  <2> QED  BY <1>s, <2>1, <2>4, <2>5, <2>6, <2>7 DEF ThreadsInv
<1>10. ASSUME NEW p \in Peers, NEW l \in Labels, BranchSession(p, l)
       PROVE  ThreadsInv'
  <2> DEFINE src == GetActiveSession(p)
             k == [NoCommand EXCEPT !.kind = "branch", !.s = NextSession, !.src = src]
  <2>1. /\ src # NoSession /\ NextSession \in Sessions /\ command' = [command EXCEPT ![p] = k]
        /\ sess' = OpenRow(CloseRow(sess, src), p, l) /\ activeSession' = [activeSession EXCEPT ![p] = NextSession]
        /\ UNCHANGED <<pool, activeTurns, turn, turnCount, history, resumePending, cutOff>>
    BY <1>10 DEF BranchSession
  <2>2. src \in Sessions
    BY <1>t, <2>1, ActiveFacts DEF SessionIds
  <2>3. SessionsInv' /\ RowsStay
    BY <1>t, <2>1, OpenKeeps
  <2> HIDE DEF src
  <2>4. k \in ThreadCommands /\ k.src = src
    BY <2>1, <2>2 DEF NoCommand, ThreadCommands, SessionIds
  <2> HIDE DEF k
  <2> QED  BY <1>c, <2>1, <2>2, <2>3, <2>4, TurnsRest
<1>11. ASSUME NEW p \in Peers, NEW l \in Labels, SwitchBranch(p, l)
       PROVE  ThreadsInv'
  <2>1. PICK target \in Labelled(p, l) :
          /\ sess' = SwitchRows(p, target) /\ activeSession' = [activeSession EXCEPT ![p] = target]
          /\ EvictPeerThreads(p, sess) /\ UNCHANGED <<turnCount, history, command, resumePending, cutOff>>
    BY <1>11 DEF SwitchBranch
  <2>2. SessionsInv' /\ RowsStay
    BY <1>t, <2>1, SwitchKeeps
  <2>3. /\ CountsTrue' /\ PoolWithinCap' /\ pool' \in Seq(Sessions) /\ activeTurns' \in [Sessions -> Nat]
        /\ turn' \in [Peers -> TurnRows] /\ \A q \in Peers : turn'[q].pc = turn[q].pc /\ turn'[q].s = turn[q].s
    BY <2>1, EvictKeeps
  <2>4. TurnsOwn'
    BY <1>t, <2>2, <2>3, OwnKept
  <2>5. FlagsTrue'
    BY <1>t, <2>1, <2>3 DEF FlagsTrue, ResumeFlagTrue
  <2>6. ThreadsTypeOK'
    BY <1>t, <2>1, <2>3 DEF ThreadsTypeOK
  <2> QED  BY <2>2, <2>3, <2>4, <2>5, <2>6 DEF ThreadsInv
<1>12. CASE HandlerRestart
  <2>1. /\ pool' = << >> /\ activeTurns' = [s \in Sessions |-> 0]
        /\ cutOff' = cutOff \cup {p \in Peers : turn[p].pc = "running"}
        /\ turn' = [p \in Peers |-> Idle] /\ command' = [p \in Peers |-> NoCommand]
        /\ UNCHANGED <<sess, activeSession, turnCount, history, resumePending>>
    BY <1>12 DEF HandlerRestart
  <2>2. turn' \in [Peers -> TurnRows] /\ \A p \in Peers : turn'[p].pc = "idle"
    BY <1>n, <2>1
  <2>3. CountsTrue'
    <3>1. \A s \in Sessions : RunsOn(s)' = {} /\ activeTurns'[s] = 0
      BY <2>1, <2>2 DEF RunsOn
    <3> QED  BY <3>1, FS_EmptySet DEF CountsTrue
  <2>4. ThreadsTypeOK'
    BY <1>n, <1>t, <2>1, <2>2 DEF ThreadsTypeOK
  <2>5. FlagsTrue' /\ TurnsOwn' /\ PoolWithinCap'
    BY <1>t, <2>1, <2>2, SessionBounds DEF FlagsTrue, ResumeFlagTrue, TurnsOwn, PoolWithinCap
  <2> QED  BY <1>s, <2>1, <2>3, <2>4, <2>5 DEF ThreadsInv
<1>13. CASE UNCHANGED threadVars
  BY <1>13, <1>s, <1>t, TurnsRest DEF threadVars
<1> QED
  BY <1>1, <1>2, <1>3, <1>4, <1>5, <1>6, <1>7, <1>8, <1>9, <1>10, <1>11, <1>12, <1>13 DEF ThreadsNext

\* The invariant implies the four properties of the thread pool.
LEMMA ThreadsSound == ThreadsInv => OpenIsActive /\ ResumeFlagTrue /\ PoolWithinCap /\ TurnsCounted
<1> SUFFICES ASSUME ThreadsInv PROVE TurnsCounted
  BY DEF ThreadsInv, SessionsInv, FlagsTrue
<1>1. \A s \in Range(pool) : s \in Sessions
  BY DEF ThreadsInv, ThreadsTypeOK, Range
<1> QED  BY <1>1 DEF ThreadsInv, CountsTrue, TurnsCounted, RunsOn

-----------------------------------------------------------------------------
(* Goals: a verdict that is out knows the goal it is about.                *)
GoalRows == [status : {"absent", "active", "paused", "done"}, goal : Nat, used : Nat, fails : Nat, subgoals : Nat, judged : Nat]
GoalsTypeOK ==
  /\ goals \in [GoalKeys -> GoalRows] /\ goalCount \in Nat /\ goalTurns \in Nat
  /\ judges \subseteq [key : GoalKeys, row : GoalRows, n : Nat]
JudgesKnow ==
  \A j \in judges :
    /\ j.row.used + 1 <= TurnBudget
    /\ goals[j.key].status = "absent" \/ goals[j.key].goal = j.row.goal \/ goals[j.key].goal \in overtaken
GoalsInv ==
  /\ GoalsTypeOK /\ goals["suffixed"].status = "absent" /\ JudgesKnow /\ DoneByOwnVerdict /\ BudgetHolds

\* The row of an absent goal is a goal row, and the two budgets are numbers.
LEMMA NoGoalFacts ==
  /\ NoGoal \in GoalRows /\ NoGoal.status = "absent" /\ NoGoal.used = 0 /\ NoGoal.used <= TurnBudget
  /\ TurnBudget \in Nat /\ MaxParseFailures \in Nat
  BY GoalBounds DEF NoGoal, GoalRows

\* The initial states satisfy the invariant of goals and judges.
LEMMA GoalsStart == GoalsInit => GoalsInv
<1> SUFFICES ASSUME GoalsInit PROVE GoalsInv
  OBVIOUS
<1>1. goals \in [GoalKeys -> GoalRows] /\ \A k \in GoalKeys : goals[k] = NoGoal
  BY NoGoalFacts DEF GoalsInit
<1>2. judges = {} /\ goalCount = 0 /\ goalTurns = 0
  BY DEF GoalsInit
<1>3. "suffixed" \in GoalKeys
  BY DEF GoalKeys
<1> QED  BY <1>1, <1>2, <1>3, NoGoalFacts DEF GoalsInv, GoalsTypeOK, JudgesKnow, DoneByOwnVerdict, BudgetHolds

(* A row changes and no judge starts: what the new row must keep.          *)
LEMMA RowKeeps ==
  ASSUME GoalsInv, NEW k \in GoalKeys, NEW row \in GoalRows, goals' = [goals EXCEPT ![k] = row],
         judges' \subseteq judges, overtaken \subseteq overtaken', goalCount' \in Nat, goalTurns' \in Nat,
         k = "suffixed" => row.status = "absent",
         row.used <= TurnBudget,
         \A j \in judges' : j.key = k => row.status = "absent" \/ row.goal = j.row.goal \/ row.goal \in overtaken',
         row.status = "done" => row.judged = row.goal \/ row.goal \in overtaken'
  PROVE  GoalsInv'
<1>1. goals' \in [GoalKeys -> GoalRows] /\ goals'[k] = row /\ \A i \in GoalKeys \ {k} : goals'[i] = goals[i]
  BY DEF GoalsInv, GoalsTypeOK
<1>2. GoalsTypeOK' /\ goals'["suffixed"].status = "absent"
  BY <1>1 DEF GoalsInv, GoalsTypeOK, GoalKeys
<1>3. JudgesKnow'
  <2> SUFFICES ASSUME NEW j \in judges'
               PROVE  /\ j.row.used + 1 <= TurnBudget
                      /\ goals'[j.key].status = "absent" \/ goals'[j.key].goal = j.row.goal \/ goals'[j.key].goal \in overtaken'
    BY DEF JudgesKnow
  <2>1. /\ j \in judges /\ j.key \in GoalKeys /\ j.row.used + 1 <= TurnBudget
        /\ goals[j.key].status = "absent" \/ goals[j.key].goal = j.row.goal \/ goals[j.key].goal \in overtaken
    BY DEF GoalsInv, GoalsTypeOK, JudgesKnow
  <2>2. CASE j.key = k
    BY <1>1, <2>1, <2>2
  <2>3. CASE j.key # k
    BY <1>1, <2>1, <2>3
  <2> QED  BY <2>2, <2>3
<1>4. DoneByOwnVerdict'
  BY <1>1 DEF GoalsInv, DoneByOwnVerdict
<1>5. BudgetHolds'
  BY <1>1 DEF GoalsInv, BudgetHolds
<1> QED  BY <1>2, <1>3, <1>4, <1>5 DEF GoalsInv

(* A command's patch of the row.                                           *)
LEMMA PatchKeeps ==
  ASSUME GoalsInv, NEW row \in GoalRows, PatchGoal(row),
         row.status = "absent" \/ row.goal = goals["raw"].goal,
         row.used <= TurnBudget,
         row.status = "done" => goals["raw"].status = "done" /\ row.judged = goals["raw"].judged
  PROVE  GoalsInv'
<1>1. goals["raw"].status # "absent" /\ goals' = [goals EXCEPT !["raw"] = row] /\ UNCHANGED <<goalCount, judges, goalTurns, overtaken>>
  BY DEF PatchGoal
<1>2. "raw" \in GoalKeys
  BY DEF GoalKeys
<1>3. \A j \in judges : j.key = "raw" => row.status = "absent" \/ row.goal = j.row.goal \/ row.goal \in overtaken
  BY <1>1 DEF GoalsInv, JudgesKnow
<1>4. row.status = "done" => row.judged = row.goal \/ row.goal \in overtaken
  BY <1>2 DEF GoalsInv, DoneByOwnVerdict
<1>5. goalCount' \in Nat /\ goalTurns' \in Nat
  BY <1>1 DEF GoalsInv, GoalsTypeOK
<1>6. "raw" # "suffixed" /\ judges' = judges /\ overtaken' = overtaken
  BY <1>1
<1>7. \A j \in judges' : j.key = "raw" => row.status = "absent" \/ row.goal = j.row.goal \/ row.goal \in overtaken'
  BY <1>3, <1>6
<1>8. row.status = "done" => row.judged = row.goal \/ row.goal \in overtaken'
  BY <1>4, <1>6
<1>9. goals' = [goals EXCEPT !["raw"] = row] /\ judges' \subseteq judges /\ overtaken \subseteq overtaken'
  BY <1>1, <1>6
<1> QED  BY <1>2, <1>5, <1>6, <1>7, <1>8, <1>9, RowKeeps

(* The row a verdict writes.                                               *)
LEMMA JudgedRow ==
  ASSUME GoalsInv, NEW j \in judges, NEW v \in Verdicts
  PROVE  /\ Judged(j, v) \in GoalRows /\ Judged(j, v).used <= TurnBudget
         /\ Judged(j, v).goal = goals[j.key].goal
         /\ goals[j.key].status = "absent" => Judged(j, v) = goals[j.key]
         /\ goals[j.key].status # "absent" => Judged(j, v).judged = j.row.goal
<1> DEFINE row == goals[j.key]
           f == j.row.fails + 1
           u == j.row.used + 1
           g == j.row.goal
           s == IF v = "done" THEN "done" ELSE row.status
           z == IF v = "skipped" THEN f ELSE 0
<1>1. row \in GoalRows /\ row.used <= TurnBudget /\ j.row \in GoalRows /\ u <= TurnBudget
  BY DEF GoalsInv, GoalsTypeOK, JudgesKnow, BudgetHolds
<1>2. f \in Nat /\ u \in Nat /\ g \in Nat /\ z \in Nat /\ s \in {"absent", "active", "paused", "done"}
  BY <1>1 DEF GoalRows
<1>a. \/ row.status = "absent" /\ Judged(j, v) = row
      \/ row.status # "absent" /\ Judged(j, v) = [row EXCEPT !.status = "paused", !.fails = f, !.judged = g]
      \/ row.status # "absent" /\ Judged(j, v) = [row EXCEPT !.status = s, !.used = u, !.fails = z, !.judged = g]
  BY DEF Judged
<1> HIDE DEF row, f, u, g, s, z
<1>b. \A r \in GoalRows : \A n \in Nat :
        /\ [r EXCEPT !.fails = n] \in GoalRows /\ [r EXCEPT !.fails = n].used = r.used /\ [r EXCEPT !.fails = n].goal = r.goal
  BY DEF GoalRows
<1>c. \A r \in GoalRows : \A n \in Nat :
        /\ [r EXCEPT !.used = n] \in GoalRows /\ [r EXCEPT !.used = n].used = n /\ [r EXCEPT !.used = n].goal = r.goal
  BY DEF GoalRows
<1>d. \A r \in GoalRows : \A n \in Nat :
        /\ [r EXCEPT !.judged = n] \in GoalRows /\ [r EXCEPT !.judged = n].used = r.used /\ [r EXCEPT !.judged = n].goal = r.goal
        /\ [r EXCEPT !.judged = n].judged = n
  BY DEF GoalRows
<1>e. \A r \in GoalRows : \A n \in {"absent", "active", "paused", "done"} :
        /\ [r EXCEPT !.status = n] \in GoalRows /\ [r EXCEPT !.status = n].used = r.used /\ [r EXCEPT !.status = n].goal = r.goal
  BY DEF GoalRows
<1>3. CASE row.status = "absent" /\ Judged(j, v) = row
  BY <1>1, <1>3 DEF row
<1>4. CASE row.status # "absent" /\ Judged(j, v) = [row EXCEPT !.status = "paused", !.fails = f, !.judged = g]
  <2> DEFINE a == [row EXCEPT !.status = "paused"]
             b == [a EXCEPT !.fails = f]
             c == [b EXCEPT !.judged = g]
  <2>1. Judged(j, v) = c
    BY <1>4
  <2>2. a \in GoalRows /\ a.used = row.used /\ a.goal = row.goal
    BY <1>1, <1>e
  <2> HIDE DEF a
  <2>3. b \in GoalRows /\ b.used = row.used /\ b.goal = row.goal
    BY <1>2, <1>b, <2>2
  <2> HIDE DEF b
  <2>4. c \in GoalRows /\ c.used = row.used /\ c.goal = row.goal /\ c.judged = g
    BY <1>2, <1>d, <2>3
  <2> HIDE DEF c
  <2> QED  BY <1>1, <1>4, <2>1, <2>4 DEF row, g
<1>5. CASE row.status # "absent" /\ Judged(j, v) = [row EXCEPT !.status = s, !.used = u, !.fails = z, !.judged = g]
  <2> DEFINE a == [row EXCEPT !.status = s]
             b == [a EXCEPT !.used = u]
             c == [b EXCEPT !.fails = z]
             d == [c EXCEPT !.judged = g]
  <2>1. Judged(j, v) = d
    BY <1>5
  <2>2. a \in GoalRows /\ a.goal = row.goal
    BY <1>1, <1>2, <1>e
  <2> HIDE DEF a
  <2>3. b \in GoalRows /\ b.used = u /\ b.goal = row.goal
    BY <1>2, <1>c, <2>2
  <2> HIDE DEF b
  <2>4. c \in GoalRows /\ c.used = u /\ c.goal = row.goal
    BY <1>2, <1>b, <2>3
  <2> HIDE DEF c
  <2>5. d \in GoalRows /\ d.used = u /\ d.goal = row.goal /\ d.judged = g
    BY <1>2, <1>d, <2>4
  <2> HIDE DEF d
  <2> QED  BY <1>1, <1>5, <2>1, <2>5 DEF row, g
<1> QED  BY <1>a, <1>3, <1>4, <1>5

\* Every step of goals, turns and judges keeps the invariant.
LEMMA GoalsStep ==
  ASSUME GoalsInv, [GoalsNext]_goalVars
  PROVE  GoalsInv'
<1>k. "raw" \in GoalKeys /\ "suffixed" \in GoalKeys
  BY DEF GoalKeys
<1>t. /\ goals \in [GoalKeys -> GoalRows] /\ goalCount \in Nat /\ goalTurns \in Nat /\ goals["raw"] \in GoalRows
      /\ goals["raw"].used <= TurnBudget /\ judges \subseteq [key : GoalKeys, row : GoalRows, n : Nat]
  BY <1>k DEF GoalsInv, GoalsTypeOK, BudgetHolds
<1>1. CASE SetGoal
  <2> DEFINE n == goalCount + 1
             row == [[NoGoal EXCEPT !.status = "active"] EXCEPT !.goal = n]
  <2>1. /\ goals' = [goals EXCEPT !["raw"] = row] /\ goalCount' = n /\ UNCHANGED <<judges, goalTurns>>
        /\ overtaken' = IF judges = {} THEN overtaken ELSE overtaken \cup {n}
    BY <1>1 DEF SetGoal, UpsertSessionGoal, FreshRow
  <2>2. n \in Nat
    BY <1>t
  <2> HIDE DEF n
  <2>3. row \in GoalRows /\ row.status = "active" /\ row.goal = n /\ row.used = 0
    BY <2>2 DEF NoGoal, GoalRows
  <2> HIDE DEF row
  <2>4. overtaken \subseteq overtaken' /\ \A j \in judges' : row.goal \in overtaken'
    BY <2>1, <2>3
  <2>5. row.used <= TurnBudget
    BY <2>3, NoGoalFacts
  <2> QED  BY <1>k, <1>t, <2>1, <2>2, <2>3, <2>4, <2>5, RowKeeps
<1>2. CASE PauseGoal
  <2> DEFINE row == [goals["raw"] EXCEPT !.status = "paused"]
  <2>1. row \in GoalRows /\ row.status = "paused" /\ row.goal = goals["raw"].goal /\ row.used = goals["raw"].used
    BY <1>t DEF GoalRows
  <2>2. PatchGoal(row)
    BY <1>2 DEF PauseGoal
  <2> HIDE DEF row
  <2> QED  BY <1>t, <2>1, <2>2, PatchKeeps
<1>3. CASE ResumeGoal
  <2> DEFINE row == [[[goals["raw"] EXCEPT !.status = "active"] EXCEPT !.used = 0] EXCEPT !.fails = 0]
  <2>1. row \in GoalRows /\ row.status = "active" /\ row.goal = goals["raw"].goal /\ row.used = 0
    BY <1>t DEF GoalRows
  <2>2. PatchGoal(row)
    BY <1>3 DEF ResumeGoal
  <2> HIDE DEF row
  <2> QED  BY <2>1, <2>2, NoGoalFacts, PatchKeeps
<1>4. CASE ClearGoal
  BY <1>4, NoGoalFacts, PatchKeeps DEF ClearGoal
<1>5. CASE AddSubgoal \/ RemoveSubgoal \/ ClearSubgoals
  <2>1. \A n \in Nat : LET row == [goals["raw"] EXCEPT !.subgoals = n] IN
          /\ row \in GoalRows /\ row.status = goals["raw"].status /\ row.goal = goals["raw"].goal /\ row.used = goals["raw"].used
          /\ row.judged = goals["raw"].judged
    BY <1>t DEF GoalRows
  <2>2. goals["raw"].subgoals \in Nat
    BY <1>t DEF GoalRows
  <2>3. PICK n \in Nat : PatchGoal([goals["raw"] EXCEPT !.subgoals = n])
    <3> DEFINE m == goals["raw"].subgoals
    <3>1. CASE AddSubgoal
      <4>1. m + 1 \in Nat /\ PatchGoal([goals["raw"] EXCEPT !.subgoals = m + 1])
        BY <2>2, <3>1 DEF AddSubgoal
      <4> QED  BY <4>1
    <3>2. CASE RemoveSubgoal
      <4>1. m - 1 \in Nat /\ PatchGoal([goals["raw"] EXCEPT !.subgoals = m - 1])
        BY <2>2, <3>2 DEF RemoveSubgoal
      <4> QED  BY <4>1
    <3>3. CASE ClearSubgoals
      <4>1. PatchGoal([goals["raw"] EXCEPT !.subgoals = 0])
        BY <3>3 DEF ClearSubgoals
      <4> QED  BY <4>1
    <3> QED  BY <1>5, <3>1, <3>2, <3>3
  <2> DEFINE row == [goals["raw"] EXCEPT !.subgoals = n]
  <2>4. /\ row \in GoalRows /\ row.status = goals["raw"].status /\ row.goal = goals["raw"].goal /\ row.used = goals["raw"].used
        /\ row.judged = goals["raw"].judged /\ PatchGoal(row)
    BY <2>1, <2>3
  <2> HIDE DEF row
  <2> QED  BY <1>t, <2>4, PatchKeeps
<1>6. ASSUME NEW r \in BOOLEAN, TurnUnderGoal(r)
      PROVE  GoalsInv'
  <2> DEFINE k == LookupKey(r)
             row == goals[k]
             asks == row.status = "active" /\ WithinBudget(row)
             j == [key |-> k, row |-> row, n |-> goalTurns]
             paused == [row EXCEPT !.status = "paused"]
  <2>1. /\ goalTurns' = goalTurns + 1 /\ UNCHANGED <<goalCount, overtaken>>
        /\ judges' = IF asks THEN judges \cup {j} ELSE judges
        /\ goals' = IF row.status = "active" /\ ~asks THEN [goals EXCEPT ![k] = paused] ELSE goals
    BY <1>6 DEF TurnUnderGoal
  <2>2. k \in GoalKeys /\ row \in GoalRows /\ goalTurns' \in Nat /\ (k = "suffixed" => row.status = "absent")
    BY <1>k, <1>t, <2>1 DEF LookupKey, GoalsInv
  <2>3. j \in [key : GoalKeys, row : GoalRows, n : Nat] /\ j.key = k /\ j.row = row
    BY <1>t, <2>2
  <2>4. paused \in GoalRows /\ paused.status = "paused" /\ paused.goal = row.goal /\ paused.used = row.used
    BY <2>2 DEF GoalRows
  <2>5. CASE row.status = "active" /\ ~asks
    <3>1. judges' = judges /\ goals' = [goals EXCEPT ![k] = paused]
      BY <2>1, <2>5
    <3>2. row.used <= TurnBudget
      BY <2>2 DEF GoalsInv, BudgetHolds
    <3>3. \A i \in judges : i.key = k => row.status = "absent" \/ row.goal = i.row.goal \/ row.goal \in overtaken
      BY DEF GoalsInv, JudgesKnow
    <3>4. /\ judges' \subseteq judges /\ overtaken \subseteq overtaken' /\ goalCount' \in Nat /\ goalTurns' \in Nat
          /\ k # "suffixed" /\ paused.used <= TurnBudget /\ paused.status # "done"
      BY <1>t, <2>1, <2>2, <2>4, <2>5, <3>1, <3>2
    <3>5. \A i \in judges' : i.key = k => paused.status = "absent" \/ paused.goal = i.row.goal \/ paused.goal \in overtaken'
      BY <2>1, <2>4, <2>5, <3>1, <3>3
    <3> HIDE DEF paused, row, k, asks
    <3> QED  BY <2>2, <2>4, <3>1, <3>4, <3>5, RowKeeps
  <2>6. CASE asks
    <3>1. judges' = judges \cup {j} /\ goals' = goals
      BY <2>1, <2>6
    <3>2. row.used + 1 <= TurnBudget
      BY <2>6 DEF WithinBudget
    <3>3. GoalsTypeOK'
      BY <1>t, <2>1, <2>2, <2>3, <3>1 DEF GoalsTypeOK
    <3>4. JudgesKnow'
      <4> SUFFICES ASSUME NEW i \in judges'
                   PROVE  /\ i.row.used + 1 <= TurnBudget
                          /\ goals[i.key].status = "absent" \/ goals[i.key].goal = i.row.goal \/ goals[i.key].goal \in overtaken
        BY <2>1, <3>1 DEF JudgesKnow
      <4>1. CASE i \in judges
        BY <4>1 DEF GoalsInv, JudgesKnow
      <4>2. CASE i = j
        BY <2>3, <3>2, <4>2
      <4> QED  BY <3>1, <4>1, <4>2
    <3> QED  BY <2>1, <3>1, <3>3, <3>4 DEF GoalsInv, DoneByOwnVerdict, BudgetHolds
  <2>7. CASE ~asks /\ row.status # "active"
    <3>1. judges' = judges /\ goals' = goals
      BY <2>1, <2>7
    <3> QED  BY <1>t, <2>1, <2>2, <3>1 DEF GoalsInv, GoalsTypeOK, JudgesKnow, DoneByOwnVerdict, BudgetHolds
  <2> QED  BY <2>5, <2>6, <2>7
<1>7. ASSUME NEW j \in judges, NEW v \in Verdicts, JudgeAnswers(j, v)
      PROVE  GoalsInv'
  <2> DEFINE row == Judged(j, v)
             k == j.key
  <2>1. judges' = judges \ {j} /\ goals' = [goals EXCEPT ![k] = row] /\ UNCHANGED <<goalCount, goalTurns, overtaken>>
    BY <1>7 DEF JudgeAnswers
  <2>2. /\ row \in GoalRows /\ row.used <= TurnBudget /\ row.goal = goals[k].goal
        /\ goals[k].status = "absent" => row = goals[k]
        /\ goals[k].status # "absent" => row.judged = j.row.goal
    BY JudgedRow
  <2>3. k \in GoalKeys
    BY <1>t
  <2> HIDE DEF row
  <2>4. \A i \in judges : i.key = k => row.status = "absent" \/ row.goal = i.row.goal \/ row.goal \in overtaken
    BY <2>2 DEF GoalsInv, JudgesKnow
  <2>5. row.status = "done" => row.judged = row.goal \/ row.goal \in overtaken
    BY <2>2, <2>4
  <2>6. k = "suffixed" => row.status = "absent"
    BY <2>2 DEF GoalsInv
  <2>7. judges' \subseteq judges /\ overtaken' = overtaken /\ goalCount' \in Nat /\ goalTurns' \in Nat
    BY <1>t, <2>1
  <2>8. \A i \in judges' : i.key = k => row.status = "absent" \/ row.goal = i.row.goal \/ row.goal \in overtaken'
    BY <2>4, <2>7
  <2> HIDE DEF k
  <2>9. /\ overtaken \subseteq overtaken' /\ row \in GoalRows /\ row.used <= TurnBudget
        /\ row.status = "done" => row.judged = row.goal \/ row.goal \in overtaken'
    BY <2>2, <2>5, <2>7
  <2>10. goals' = [goals EXCEPT ![k] = row]
    BY <2>1
  <2> QED  BY <2>3, <2>6, <2>7, <2>8, <2>9, <2>10, RowKeeps
<1>8. CASE UNCHANGED goalVars
  BY <1>8 DEF goalVars, GoalsInv, GoalsTypeOK, JudgesKnow, DoneByOwnVerdict, BudgetHolds
<1> QED  BY <1>1, <1>2, <1>3, <1>4, <1>5, <1>6, <1>7, <1>8 DEF GoalsNext

-----------------------------------------------------------------------------
(* The parts side by side (MCStores): a step of the whole is a step of a   *)
(* part or leaves it alone.                                                *)
LEMMA PartsStep ==
  ASSUME [StoresNext]_allVars
  PROVE  [MemNext]_memVars /\ [VaultNext]_vaultVars /\ [CredNext]_credVars /\ [Next]_vars
         /\ [ThreadsNext]_threadVars /\ [GoalsNext]_goalVars
<1>1. CASE UNCHANGED allVars
  BY <1>1 DEF allVars
<1>2. CASE StoresNext
  <2>1. part = "memory" \/ UNCHANGED memVars
    BY <1>2 DEF StoresNext, StepWebhooks, StepLimiter, StepMessages, StepAccess, StepScreen, StepThreads, StepGoals, StepSkills,
                StepMemory, StepHooks, StepVault, StepCredentials, StepMembers, StepNotes, Rest
  <2> QED
    BY <1>2 DEF StoresNext, StepWebhooks, StepLimiter, StepMessages, StepAccess, StepScreen, StepThreads, StepGoals, StepSkills,
                StepMemory, StepHooks, StepVault, StepCredentials, StepMembers, StepNotes, Rest
<1> QED  BY <1>1, <1>2

(* An entry of a memory file goes only when a call names it: the lock and  *)
(* the reread under it keep two writers from dropping each other's line    *)
(* (file-provider.ts withFileLock and the calls under it).                 *)
THEOREM EntriesStay ==
  ASSUME LockSafe
  PROVE  StoresSpec => []EntryKept
<1>1. StoresInit => MemInv
  BY MemStart DEF StoresInit
<1>2. MemInv /\ [StoresNext]_allVars => MemInv'
  BY PartsStep, MemStep
<1>3. MemInv => EntryKept
  BY DEF MemInv
<1> QED  BY <1>1, <1>2, <1>3, PTL DEF StoresSpec

(* Secrets stay readable and in scope, and no refresh spends a token that  *)
(* another one retired (seal.ts, proxy.ts, broker.ts, refresh-lock.ts).    *)
THEOREM SecretsAreSound ==
  ASSUME OneOperator, ChildrenOnlyUnrotated
  PROVE  StoresSpec => []SecretsSound
<1>1. StoresInit => KeysInv /\ ScopesInv /\ CredInv
  BY KeysStart, ScopesStart, CredStart DEF StoresInit
<1>2. KeysInv /\ ScopesInv /\ CredInv /\ [StoresNext]_allVars => (KeysInv /\ ScopesInv /\ CredInv)'
  BY PartsStep, KeysStep, ScopesStep, CredStep
<1>3. KeysInv /\ ScopesInv /\ CredInv => SecretsSound
  BY DEF KeysInv, ScopesInv, CredInv, SecretsSound
<1> QED  BY <1>1, <1>2, <1>3, PTL DEF StoresSpec

(* The records of a conversation agree with its threads, and a goal is     *)
(* done by its own verdict and within its budget (session-resolver.ts,     *)
(* thread-pool.ts, handler.ts, goals/).                                    *)
THEOREM ConversationIsSound == StoresSpec => []ConversationSound
<1>1. StoresInit => ThreadsInv /\ GoalsInv
  BY ThreadsStart, GoalsStart DEF StoresInit
<1>2. ThreadsInv /\ GoalsInv /\ [StoresNext]_allVars => (ThreadsInv /\ GoalsInv)'
  BY PartsStep, ThreadsStep, GoalsStep
<1>3. ThreadsInv /\ GoalsInv => ConversationSound
  BY ThreadsSound DEF GoalsInv, ConversationSound
<1> QED  BY <1>1, <1>2, <1>3, PTL DEF StoresSpec

-----------------------------------------------------------------------------
(* Skills: a directory leaves the disk only when somebody deletes it, a    *)
(* rejected lesson comes back only from a writer that still held it, and   *)
(* the curator archives what nobody read.                                  *)
Contents == [id : Nat, lay : Layouts, by : {"agent", "hand"}]
LessonNames == Lessons \cup {NoLesson}
Records ==
  [at : {"none", "active", "stale", "archived"}, pinned : BOOLEAN, agent : BOOLEAN, idle : Nat,
   trial : LessonNames, rejected : SUBSET LessonNames]
Pens ==
  [doing : {"none", "write", "append", "patch", "revert"}, tree : Trees, c : Contents,
   base : Seq(Lessons), add : LessonNames, saw : SUBSET LessonNames]

(* A lesson that is being appended was not rejected when the file was read.*)
PenSound(x) == x \in Pens /\ (x.doing = "append" => x.add \in Lessons /\ x.add \notin x.saw)

SkillsInv ==
  /\ trees \in [Trees -> SUBSET Contents] /\ bullets \in Seq(Lessons)
  /\ pens \in [Writers -> Pens] /\ \A p \in Writers : PenSound(pens[p])
  /\ usage \in Records /\ unread \in Nat /\ usage.idle <= unread
  /\ evalOf \in Contents /\ authored \in Nat
  /\ ArchivedUnread

Listed(s, l) == \E i \in DOMAIN s : s[i] = l

(* What a step may do, part of the state by part.                          *)
PensMove ==
  \/ pens' = pens
  \/ \E p \in Writers, x \in Pens : PenSound(x) /\ pens' = [pens EXCEPT ![p] = x]
BulletsMove ==
  \/ bullets' \in {bullets, << >>}
  \/ /\ bullets' \in Seq(Lessons)
     /\ \E p \in Writers :
          /\ pens[p].doing # "none" /\ pens'[p] = PenIdle
          /\ \A l \in LessonNames :
               Listed(bullets', l) => Listed(pens[p].base, l) \/ (pens[p].doing = "append" /\ l = pens[p].add)
SkillsStay ==
  \A c \in Held \ Held' : c \in dropped' \/ \E p \in Writers : pens[p].doing = "write" /\ pens[p].c.lay = c.lay
TreesMove == trees' = trees \/ (trees' \in [Trees -> SUBSET Contents] /\ SkillsStay)
UsageMoves == usage' \in Records /\ unread' \in Nat /\ usage'.idle <= unread'
CountersMove == evalOf' \in Contents /\ authored' \in Nat
SweptMoves == swept' = swept \/ ArchivedUnread'
SkillMoves == PensMove /\ BulletsMove /\ TreesMove /\ UsageMoves /\ CountersMove /\ SweptMoves

(* What no step disturbs by what it leaves unchanged.                      *)
LEMMA SkillsRest ==
  ASSUME SkillsInv
  PROVE  /\ UNCHANGED pens => PensMove
         /\ UNCHANGED bullets => BulletsMove
         /\ UNCHANGED trees => TreesMove
         /\ usage' \in Records /\ usage'.idle <= usage.idle /\ unread' = unread => UsageMoves
         /\ UNCHANGED <<usage, unread>> => UsageMoves
         /\ UNCHANGED <<evalOf, authored>> => CountersMove
         /\ UNCHANGED swept => SweptMoves
<1>1. usage \in Records /\ usage.idle \in Nat /\ unread \in Nat /\ usage.idle <= unread
  BY DEF SkillsInv, Records
<1>2. usage' \in Records => usage'.idle \in Nat
  BY DEF Records
<1>3. usage' \in Records /\ usage'.idle <= usage.idle /\ unread' = unread => UsageMoves
  BY <1>1, <1>2 DEF UsageMoves
<1>4. UNCHANGED <<usage, unread>> => UsageMoves
  BY <1>1 DEF UsageMoves
<1> QED
  BY <1>3, <1>4 DEF SkillsInv, PensMove, BulletsMove, TreesMove, CountersMove, SweptMoves

(* An idle pen, an empty record and the content nobody wrote.              *)
LEMMA SkillConstants ==
  /\ NoContent \in Contents /\ PenIdle \in Pens /\ PenSound(PenIdle) /\ Unrecorded \in Records
  /\ PenIdle.doing = "none" /\ Unrecorded.idle = 0 /\ Unrecorded.at = "none"
<1>1. << >> \in Seq(Lessons)
  OBVIOUS
<1>2. NoContent \in Contents /\ PenIdle \in Pens /\ PenIdle.doing = "none"
  BY <1>1 DEF NoContent, Contents, Layouts, PenIdle, Pens, Trees, LessonNames
<1>3. Unrecorded \in Records /\ Unrecorded.idle = 0 /\ Unrecorded.at = "none"
  BY DEF Unrecorded, Records, LessonNames
<1> QED  BY <1>2, <1>3 DEF PenSound

(* The records made when a skill is used, patched or authored.             *)
LEMMA RecordFacts ==
  ASSUME SkillsInv
  PROVE  /\ Recorded \in Records /\ Recorded.idle <= usage.idle
         /\ Patched \in Records /\ Patched.idle <= usage.idle
         /\ AgentMade \in Records /\ AgentMade.idle <= usage.idle
         /\ Viewed \in Records /\ Viewed.idle = 0
         /\ \A l \in LessonNames : Tried(l) \in Records /\ Tried(l).idle <= usage.idle
<1>1. usage \in Records /\ usage.idle \in Nat
  BY DEF SkillsInv, Records
<1>2. Recorded \in Records /\ Recorded.idle <= usage.idle
  BY <1>1, SkillConstants DEF Recorded, Records
<1> HIDE DEF Recorded
<1>3. Patched \in Records /\ Patched.idle <= usage.idle
  BY <1>2 DEF Patched, Records
<1>4. AgentMade \in Records /\ AgentMade.idle <= usage.idle
  BY <1>2 DEF AgentMade, Records
<1>5. Viewed \in Records /\ Viewed.idle = 0
  BY <1>3 DEF Viewed, Records
<1>6. ASSUME NEW l \in LessonNames PROVE Tried(l) \in Records /\ Tried(l).idle <= usage.idle
  BY <1>3 DEF Tried, Records
<1> QED  BY <1>2, <1>3, <1>4, <1>5, <1>6

(* A writer begins to write or to append.                                  *)
LEMMA WriteBeginsMoves ==
  ASSUME SkillsInv, NEW p \in Writers, NEW t \in Trees, NEW lay \in Layouts, WriteBegins(p, t, lay)
  PROVE  SkillMoves
<1> DEFINE x == [PenIdle EXCEPT !.doing = "write", !.tree = t, !.c = NextContent(lay, "agent")]
<1>1. /\ pens' = [pens EXCEPT ![p] = x] /\ authored' = authored + 1
      /\ UNCHANGED <<trees, bullets, usage, signals, evalOf, unread, swept>>
  BY DEF WriteBegins
<1>2. NextContent(lay, "agent") \in Contents
  BY DEF NextContent, Contents, SkillsInv
<1>3. x \in Pens /\ x.doing = "write"
  BY <1>2, SkillConstants DEF Pens
<1> HIDE DEF x
<1>4. PensMove
  BY <1>1, <1>3 DEF PensMove, PenSound
<1>5. CountersMove
  BY <1>1 DEF CountersMove, SkillsInv
<1> QED  BY <1>1, <1>4, <1>5, SkillsRest DEF SkillMoves

(* The rename at the end of a write replaces the directory of that layout. *)
LEMMA WriteEndsMoves ==
  ASSUME SkillsInv, NEW p \in Writers, WriteEnds(p)
  PROVE  PensMove /\ BulletsMove /\ TreesMove /\ CountersMove /\ SweptMoves /\ unread' = unread
<1>1. /\ pens[p].doing = "write" /\ pens' = [pens EXCEPT ![p] = PenIdle]
      /\ trees' = [trees EXCEPT ![pens[p].tree] = Beside(pens[p].tree, pens[p].c)]
      /\ bullets' \in {bullets, << >>} /\ UNCHANGED <<signals, evalOf, authored, unread, swept>>
  BY DEF WriteEnds
<1>2. PensMove
  BY <1>1, SkillConstants DEF PensMove
<1>3. pens[p].tree \in Trees /\ pens[p].c \in Contents /\ trees \in [Trees -> SUBSET Contents]
  BY DEF SkillsInv, Pens
<1>4. Beside(pens[p].tree, pens[p].c) \in SUBSET Contents
  BY <1>3 DEF Beside
<1>5. trees' \in [Trees -> SUBSET Contents]
  BY <1>1, <1>3, <1>4
<1>6. ASSUME NEW c \in Held \ Held' PROVE pens[p].c.lay = c.lay
  <2>1. PICK t \in Trees : c \in trees[t]
    BY DEF Held, Trees
  <2>2. c \notin trees'[t]
    BY <1>6, <2>1 DEF Held, Trees
  <2>3. t = pens[p].tree /\ c \notin Beside(t, pens[p].c)
    BY <1>1, <1>3, <2>1, <2>2
  <2> QED  BY <2>1, <2>3 DEF Beside
<1>7. TreesMove
  BY <1>1, <1>5, <1>6 DEF TreesMove, SkillsStay
<1> QED  BY <1>1, <1>2, <1>7, SkillsRest DEF BulletsMove

(* An append begins with a lesson that is not rejected.                    *)
LEMMA AppendBeginsMoves ==
  ASSUME SkillsInv, NEW p \in Writers, NEW l \in Lessons, AppendBegins(p, l)
  PROVE  SkillMoves
<1> DEFINE x == [PenIdle EXCEPT !.doing = "append", !.base = bullets, !.add = l, !.saw = usage.rejected]
<1>1. /\ pens' = [pens EXCEPT ![p] = x] /\ authored' = authored + 1 /\ l \notin usage.rejected
      /\ UNCHANGED <<trees, bullets, usage, evalOf, unread, swept>>
  BY DEF AppendBegins, Fresh
<1>2. usage.rejected \in SUBSET LessonNames /\ bullets \in Seq(Lessons) /\ l \in LessonNames
  BY DEF SkillsInv, Records, LessonNames
<1>3. x \in Pens /\ x.add = l /\ x.saw = usage.rejected
  BY <1>2, SkillConstants DEF Pens
<1> HIDE DEF x
<1>4. PensMove
  BY <1>1, <1>3 DEF PensMove, PenSound
<1>5. CountersMove
  BY <1>1 DEF CountersMove, SkillsInv
<1> QED  BY <1>1, <1>4, <1>5, SkillsRest DEF SkillMoves

(* The file without a bullet holds nothing it did not hold.                *)
LEMMA WithoutHolds ==
  ASSUME NEW base \in Seq(Lessons), NEW l
  PROVE  Without(base, l) \in Seq(Lessons) /\ \A m : Listed(Without(base, l), m) => Listed(base, m)
<1> DEFINE f == Filter(base, Lessons \ {l})
<1>1. f \in Seq(Lessons) /\ \A k \in 1..Len(f) : \E i \in 1..Len(base) : f[k] = base[i] /\ base[i] \in Lessons \ {l}
  BY FilterKeeps
<1> HIDE DEF f
<1>2. DOMAIN f = 1..Len(f) /\ DOMAIN base = 1..Len(base)
  BY <1>1
<1>3. \A m : Listed(f, m) => Listed(base, m)
  BY <1>1, <1>2 DEF Listed
<1> QED  BY <1>1, <1>3 DEF Without, f

(* The file with a lesson added holds that one and what it held.           *)
LEMMA MergedHolds ==
  ASSUME NEW base \in Seq(Lessons), NEW l \in Lessons
  PROVE  Merged(base, l) \in Seq(Lessons) /\ \A m : Listed(Merged(base, l), m) => m = l \/ Listed(base, m)
<1> DEFINE w == Without(base, l)
           all == Append(w, l)
           n == Len(all)
<1>1. w \in Seq(Lessons) /\ \A m : Listed(w, m) => Listed(base, m)
  BY WithoutHolds
<1> HIDE DEF w
<1>2. all \in Seq(Lessons) /\ n = Len(w) + 1 /\ all[n] = l /\ \A i \in 1..Len(w) : all[i] = w[i]
  BY <1>1
<1>3. ASSUME NEW i \in 1..n PROVE all[i] = l \/ Listed(base, all[i])
  <2>1. i = n \/ i \in DOMAIN w
    BY <1>1, <1>2
  <2> QED  BY <1>1, <1>2, <2>1 DEF Listed
<1>4. MaxLessonLines \in Nat /\ n \in Nat
  BY <1>2, SkillBounds
<1>5. Merged(base, l) = IF n > MaxLessonLines THEN SubSeq(all, n - MaxLessonLines + 1, n) ELSE all
  BY DEF Merged, w
<1> HIDE DEF all, n
<1>6. n = Len(all)
  BY DEF n
<1>7. CASE n > MaxLessonLines
  <2> DEFINE s == SubSeq(all, n - MaxLessonLines + 1, n)
  <2>1. s \in Seq(Lessons) /\ DOMAIN s = 1..MaxLessonLines /\ \A i \in DOMAIN s : s[i] = all[n - MaxLessonLines + i]
    BY <1>2, <1>4, <1>6, <1>7
  <2>2. \A i \in DOMAIN s : n - MaxLessonLines + i \in 1..n
    BY <1>4, <1>7, <2>1
  <2> HIDE DEF s
  <2>3. \A m : Listed(s, m) => m = l \/ Listed(base, m)
    BY <1>3, <2>1, <2>2 DEF Listed
  <2> QED  BY <1>5, <1>7, <2>1, <2>3 DEF s
<1>8. CASE ~(n > MaxLessonLines)
  <2>1. DOMAIN all = 1..n
    BY <1>2, <1>6
  <2>2. \A m : Listed(all, m) => m = l \/ Listed(base, m)
    BY <1>3, <2>1 DEF Listed
  <2> QED  BY <1>2, <1>5, <1>8, <2>2
<1> QED  BY <1>7, <1>8

(* An append ends: with the lesson, with what the file held when it was    *)
(* read, or with nothing.                                                  *)
LEMMA AppendEndsMoves ==
  ASSUME SkillsInv, NEW p \in Writers, NEW rec \in Records, rec.idle <= usage.idle, AppendEnds(p, rec)
  PROVE  SkillMoves
<1>1. /\ pens[p].doing = "append" /\ pens' = [pens EXCEPT ![p] = PenIdle]
      /\ \/ UNCHANGED <<bullets, usage>>
         \/ bullets' = Merged(pens[p].base, pens[p].add) /\ usage' = rec
      /\ UNCHANGED <<trees, stage, evalOf, authored, unread, swept>>
  BY DEF AppendEnds
<1>2. pens[p].base \in Seq(Lessons) /\ pens[p].add \in Lessons /\ pens'[p] = PenIdle
  BY <1>1 DEF SkillsInv, PenSound, Pens
<1>3. PensMove
  BY <1>1, SkillConstants DEF PensMove
<1>4. ASSUME bullets' = Merged(pens[p].base, pens[p].add) PROVE BulletsMove
  <2>1. /\ bullets' \in Seq(Lessons)
        /\ \A l : Listed(bullets', l) => l = pens[p].add \/ Listed(pens[p].base, l)
    BY <1>2, <1>4, MergedHolds
  <2>2. pens[p].doing # "none"
    BY <1>1
  <2> QED  BY <1>1, <1>2, <2>1, <2>2 DEF BulletsMove
<1>5. UsageMoves
  BY <1>1, SkillsRest
<1> QED  BY <1>1, <1>3, <1>4, <1>5, SkillsRest DEF SkillMoves

(* A command of the user keeps every directory it does not delete.        *)
LEMMA CommandKeeps ==
  ASSUME trees' \in [Trees -> SUBSET Contents],
         \A c \in Held : \/ c \in trees'["active"] \/ c \in trees'["optional"] \/ c \in trees'["proposed"] \/ c \in dropped'
  PROVE  TreesMove
BY DEF TreesMove, SkillsStay, Held

(* Every step of the skills keeps to these moves.                          *)
LEMMA SkillsMove ==
  ASSUME SkillsInv, SkillsNext
  PROVE  SkillMoves
<1> USE DEF SkillMoves
<1>t. /\ trees \in [Trees -> SUBSET Contents] /\ bullets \in Seq(Lessons) /\ pens \in [Writers -> Pens]
      /\ usage \in Records /\ usage.idle \in Nat /\ unread \in Nat /\ evalOf \in Contents /\ authored \in Nat
      /\ Writers = {"tool", "extract"} /\ usage.idle <= unread /\ usage.trial \in LessonNames
      /\ usage.rejected \in SUBSET LessonNames
  BY DEF SkillsInv, Records, Writers
<1>k. /\ pens["tool"] \in Pens /\ pens["extract"] \in Pens
      /\ \A p \in Writers : pens[p].base \in Seq(Lessons) /\ pens[p].add \in LessonNames /\ pens[p].tree \in Trees
  BY <1>t DEF Pens
<1>h. \A t \in Trees : trees[t] \in SUBSET Contents /\ trees[t] \subseteq Held
  BY <1>t DEF Held, Trees
<1>r. ASSUME NEW rec \in Records, rec.idle <= usage.idle, usage' = rec, unread' = unread PROVE UsageMoves
  BY <1>r, SkillsRest
<1>1. ASSUME SkillRead PROVE SkillMoves
  <2>1. usage' = Viewed /\ unread' = 0 /\ UNCHANGED <<trees, bullets, pens, stage, signals, evalOf, authored, swept>>
    BY <1>1 DEF SkillRead
  <2>2. UsageMoves
    BY <2>1, RecordFacts DEF UsageMoves
  <2> QED  BY <2>1, <2>2, SkillsRest
<1>2. ASSUME DayPasses PROVE SkillMoves
  <2>1. usage' = [usage EXCEPT !.idle = @ + 1] /\ unread' = unread + 1
        /\ UNCHANGED <<trees, bullets, pens, stage, signals, evalOf, authored, swept>>
    BY <1>2 DEF DayPasses
  <2>2. usage' \in Records /\ usage'.idle = usage.idle + 1
    BY <1>t, <2>1 DEF Records
  <2>3. UsageMoves
    BY <1>t, <2>1, <2>2 DEF UsageMoves
  <2> QED  BY <2>1, <2>3, SkillsRest
<1>3. ASSUME NEW rec, ToolSets(rec) PROVE SkillMoves
  <2>1. /\ rec \in {[Recorded EXCEPT !.at = "archived"]} \cup {[Recorded EXCEPT !.pinned = b] : b \in BOOLEAN}
        /\ usage' = rec /\ UNCHANGED <<trees, bullets, pens, stage, signals, evalOf, authored, unread, swept>>
    BY <1>3 DEF ToolSets
  <2>2. rec \in Records /\ rec.idle = Recorded.idle
    BY <2>1, RecordFacts DEF Records
  <2>3. UsageMoves
    BY <1>r, <2>1, <2>2, RecordFacts
  <2> QED  BY <2>1, <2>3, SkillsRest
<1>4. ASSUME NEW t \in Trees, NEW lay \in Layouts, ToolCreates(t, lay) \/ ExtractProposes(t, lay) PROVE SkillMoves
  <2>1. "tool" \in Writers /\ "extract" \in Writers
    BY <1>t
  <2> QED  BY <1>4, <2>1, WriteBeginsMoves DEF ToolCreates, ExtractProposes
<1>5. ASSUME DrainCreates PROVE SkillMoves
  <2>1. "extract" \in Writers /\ "proposed" \in Trees /\ "flat" \in Layouts
    BY <1>t DEF Trees, Layouts
  <2> QED  BY <1>5, <2>1, WriteBeginsMoves DEF DrainCreates
<1>6. ASSUME ToolCreated \/ ExtractProposed \/ DrainCreated PROVE SkillMoves
  <2>1. \E p \in Writers : WriteEnds(p)
    BY <1>6, <1>t DEF ToolCreated, ExtractProposed, DrainCreated
  <2>2. usage' \in {usage, AgentMade}
    BY <1>6 DEF ToolCreated, ExtractProposed, DrainCreated
  <2>3. usage' \in Records /\ usage'.idle <= usage.idle
    BY <1>t, <2>2, RecordFacts
  <2> QED  BY <2>1, <2>3, WriteEndsMoves, SkillsRest
<1>7. ASSUME NEW l \in Lessons, ToolAppends(l) \/ ExtractAppends(l) \/ DrainAppends(l) PROVE SkillMoves
  <2>1. \E p \in Writers : AppendBegins(p, l)
    BY <1>7, <1>t DEF ToolAppends, ExtractAppends, DrainAppends
  <2> QED  BY <2>1, AppendBeginsMoves
<1>8. ASSUME ToolAppended \/ ExtractAppended \/ DrainAppended PROVE SkillMoves
  <2>1. "tool" \in Writers /\ "extract" \in Writers /\ pens["tool"].add \in LessonNames
    BY <1>t, <1>k
  <2>2. ASSUME NEW rec, rec \in {Tried(pens["tool"].add), Patched, usage} PROVE rec \in Records /\ rec.idle <= usage.idle
    BY <1>t, <2>1, <2>2, RecordFacts
  <2>3. \E p \in Writers, rec \in {Tried(pens["tool"].add), Patched, usage} : AppendEnds(p, rec)
    BY <1>8, <2>1 DEF ToolAppended, ExtractAppended, DrainAppended
  <2> QED  BY <2>2, <2>3, AppendEndsMoves
<1>9. ASSUME NEW l \in Lessons, ToolPatches(l) PROVE SkillMoves
  <2> DEFINE x == [PenIdle EXCEPT !.doing = "patch", !.base = bullets, !.add = l, !.saw = usage.rejected]
  <2>1. pens' = [pens EXCEPT !["tool"] = x] /\ UNCHANGED <<trees, bullets, usage, stage, signals, evalOf, authored, unread, swept>>
    BY <1>9 DEF ToolPatches
  <2>2. x \in Pens /\ x.doing = "patch"
    BY <1>t, SkillConstants DEF Pens, LessonNames
  <2> HIDE DEF x
  <2>3. PensMove
    BY <1>t, <2>1, <2>2 DEF PensMove, PenSound
  <2> QED  BY <2>1, <2>3, SkillsRest
<1>10. ASSUME ToolPatched PROVE SkillMoves
  <2>1. /\ pens["tool"].doing = "patch" /\ pens' = [pens EXCEPT !["tool"] = PenIdle]
        /\ \/ UNCHANGED <<bullets, usage>>
           \/ bullets' = Without(pens["tool"].base, pens["tool"].add) /\ usage' = Patched
        /\ UNCHANGED <<trees, stage, signals, evalOf, authored, unread, swept>>
    BY <1>10 DEF ToolPatched
  <2>2. PensMove
    BY <1>t, <2>1, SkillConstants DEF PensMove
  <2>3. BulletsMove
    <3>1. CASE bullets' = bullets
      BY <3>1 DEF BulletsMove
    <3>2. CASE bullets' = Without(pens["tool"].base, pens["tool"].add)
      <4>1. bullets' \in Seq(Lessons) /\ \A l : Listed(bullets', l) => Listed(pens["tool"].base, l)
        BY <1>t, <1>k, <3>2, WithoutHolds
      <4>2. "tool" \in Writers /\ pens["tool"].doing # "none" /\ pens'["tool"] = PenIdle
        BY <1>t, <2>1
      <4> QED  BY <4>1, <4>2 DEF BulletsMove
    <3> QED  BY <2>1, <3>1, <3>2
  <2>4. usage' \in {usage, Patched} /\ unread' = unread
    BY <2>1
  <2>5. UsageMoves
    BY <1>t, <2>4, RecordFacts, SkillsRest
  <2> QED  BY <2>1, <2>2, <2>3, <2>5, SkillsRest
<1>11. ASSUME ExtractStarts \/ DrainEnds PROVE SkillMoves
  <2>1. UNCHANGED <<trees, bullets, usage, pens, evalOf, authored, unread, swept>>
    BY <1>11 DEF ExtractStarts, DrainEnds
  <2> QED  BY <2>1, SkillsRest
<1>12. ASSUME NEW l \in Lessons, SignalFound(l) PROVE SkillMoves
  <2>1. UNCHANGED <<trees, bullets, usage, pens, evalOf, unread, swept>> /\ authored' = authored + 1
    BY <1>12 DEF SignalFound
  <2>2. CountersMove
    BY <1>t, <2>1 DEF CountersMove
  <2> QED  BY <2>1, <2>2, SkillsRest
<1>13. ASSUME Curates PROVE SkillMoves
  <2>1. /\ usage' = [usage EXCEPT !.at = CuratedState]
        /\ swept' = IF CuratedState = "archived" /\ usage.at # "archived"
                    THEN {[dirs |-> trees["active"], unread |-> unread]} ELSE {}
        /\ UNCHANGED <<trees, bullets, pens, signals, evalOf, authored, unread>>
    BY <1>13 DEF Curates
  <2>2. CuratedState \in {"none", "active", "stale", "archived"}
    BY <1>t DEF CuratedState, Records
  <2>3. usage' \in Records /\ usage'.idle = usage.idle
    BY <1>t, <2>1, <2>2 DEF Records
  <2>4. CuratedState = "archived" /\ usage.at # "archived" => usage.idle >= ArchiveAfter
    BY DEF CuratedState
  <2>5. ArchiveAfter \in Nat
    BY SkillBounds
  <2>6. SweptMoves
    BY <1>t, <2>1, <2>4, <2>5 DEF SweptMoves, ArchivedUnread
  <2>7. UsageMoves
    BY <1>t, <2>1, <2>3, SkillsRest
  <2> QED  BY <2>1, <2>6, <2>7, SkillsRest
<1>14. ASSUME NEW rec, TrialStays(rec) PROVE SkillMoves
  <2>1. /\ rec \in {usage, [usage EXCEPT !.trial = NoLesson]} /\ usage' = rec
        /\ UNCHANGED <<trees, bullets, pens, signals, evalOf, authored, unread, swept>>
    BY <1>14 DEF TrialStays
  <2>2. rec \in Records /\ rec.idle = usage.idle
    BY <1>t, <2>1 DEF Records, LessonNames
  <2>3. UsageMoves
    BY <1>t, <2>1, <2>2, SkillsRest
  <2> QED  BY <2>1, <2>3, SkillsRest
<1>15. ASSUME TrialReverts PROVE SkillMoves
  <2> DEFINE x == [PenIdle EXCEPT !.doing = "revert", !.base = bullets, !.add = usage.trial]
  <2>1. pens' = [pens EXCEPT !["extract"] = x] /\ UNCHANGED <<trees, bullets, usage, stage, signals, evalOf, authored, unread, swept>>
    BY <1>15 DEF TrialReverts
  <2>2. x \in Pens /\ x.doing = "revert"
    BY <1>t, SkillConstants DEF Pens, LessonNames
  <2> HIDE DEF x
  <2>3. PensMove
    BY <1>t, <2>1, <2>2 DEF PensMove, PenSound
  <2> QED  BY <2>1, <2>3, SkillsRest
<1>16. ASSUME TrialReverted PROVE SkillMoves
  <2>1. /\ pens["extract"].doing = "revert" /\ pens' = [pens EXCEPT !["extract"] = PenIdle]
        /\ bullets' \in {bullets, Without(pens["extract"].base, pens["extract"].add)}
        /\ usage' = [usage EXCEPT !.rejected = @ \cup {pens["extract"].add}, !.trial = NoLesson]
        /\ UNCHANGED <<trees, signals, evalOf, authored, unread, swept>>
    BY <1>16 DEF TrialReverted
  <2>2. PensMove
    BY <1>t, <2>1, SkillConstants DEF PensMove
  <2>3. BulletsMove
    <3>1. CASE bullets' = bullets
      BY <3>1 DEF BulletsMove
    <3>2. CASE bullets' = Without(pens["extract"].base, pens["extract"].add)
      <4>1. bullets' \in Seq(Lessons) /\ \A l : Listed(bullets', l) => Listed(pens["extract"].base, l)
        BY <1>t, <1>k, <3>2, WithoutHolds
      <4>2. "extract" \in Writers /\ pens["extract"].doing # "none" /\ pens'["extract"] = PenIdle
        BY <1>t, <2>1
      <4> QED  BY <4>1, <4>2 DEF BulletsMove
    <3> QED  BY <2>1, <3>1, <3>2
  <2>4. usage' \in Records /\ usage'.idle = usage.idle
    <3>1. pens["extract"].add \in LessonNames
      BY <1>t, <1>k
    <3> QED  BY <1>t, <2>1, <3>1 DEF Records, LessonNames
  <2>5. UsageMoves
    BY <1>t, <2>1, <2>4, SkillsRest
  <2> QED  BY <2>1, <2>2, <2>3, <2>5, SkillsRest
<1>17. ASSUME NEW c, Installs(c), c \in trees["optional"] \/ \E lay \in Layouts : c = NextContent(lay, "hand") PROVE SkillMoves
  <2>1. /\ trees["active"] = {} /\ trees' = [trees EXCEPT !["active"] = Beside("active", c)] /\ bullets' = << >>
        /\ authored' = IF c.id > authored THEN c.id ELSE authored
        /\ UNCHANGED <<usage, pens, stage, signals, evalOf, unread, swept>>
    BY <1>17 DEF Installs, InstallAllowed, FoundIn
  <2>2. c \in Contents /\ c.id \in Nat
    BY <1>t, <1>17 DEF NextContent, Contents, Trees
  <2>3. Beside("active", c) = {c}
    BY <2>1 DEF Beside
  <2>4. /\ trees' \in [Trees -> SUBSET Contents] /\ trees'["optional"] = trees["optional"]
        /\ trees'["proposed"] = trees["proposed"]
    BY <1>t, <2>1, <2>2, <2>3 DEF Trees
  <2>5. TreesMove
    BY <2>1, <2>4, CommandKeeps DEF Held
  <2>6. CountersMove
    BY <1>t, <2>1, <2>2 DEF CountersMove
  <2>7. BulletsMove
    BY <2>1 DEF BulletsMove
  <2> QED  BY <2>1, <2>5, <2>6, <2>7, SkillsRest
<1>18. ASSUME NEW c \in trees["active"], NEW purge \in BOOLEAN, Uninstalls(c, purge) PROVE SkillMoves
  <2> DEFINE stays == ~purge /\ \A d \in trees["optional"] : d.lay # c.lay
             opt == IF stays THEN trees["optional"] \cup {c} ELSE trees["optional"]
  <2>1. /\ trees' = [trees EXCEPT !["active"] = @ \ {c}, !["optional"] = opt]
        /\ dropped' = IF stays THEN {} ELSE {c}
        /\ bullets' = << >> /\ UNCHANGED <<usage, pens, stage, signals, evalOf, authored, unread, swept>>
    BY <1>18, <1>t DEF Uninstalls, Trees
  <2>2. trees["active"] \in SUBSET Contents /\ trees["optional"] \in SUBSET Contents /\ trees["proposed"] \in SUBSET Contents
    BY <1>t DEF Trees
  <2>3. \A d \in Held : d \in (trees["active"] \ {c}) \/ d \in opt \/ d \in trees["proposed"] \/ d \in dropped'
    BY <2>1 DEF Held
  <2>4. opt \in SUBSET Contents
    BY <2>2
  <2> HIDE DEF opt, stays
  <2>5. /\ trees' \in [Trees -> SUBSET Contents] /\ trees'["active"] = trees["active"] \ {c}
        /\ trees'["optional"] = opt /\ trees'["proposed"] = trees["proposed"]
    BY <1>t, <2>1, <2>2, <2>4 DEF Trees
  <2>6. TreesMove
    BY <2>3, <2>5, CommandKeeps
  <2>7. BulletsMove
    BY <2>1 DEF BulletsMove
  <2> QED  BY <2>1, <2>6, <2>7, SkillsRest
<1>19. ASSUME NEW c \in trees["proposed"], Approves(c) PROVE SkillMoves
  <2>1. /\ trees["active"] = {} /\ trees' = [trees EXCEPT !["proposed"] = @ \ {c}, !["active"] = {c}] /\ bullets' = << >>
        /\ UNCHANGED <<usage, pens, stage, signals, evalOf, authored, unread, swept>>
    BY <1>19 DEF Approves
  <2>3. trees["optional"] \in SUBSET Contents /\ trees["proposed"] \in SUBSET Contents /\ c \in Contents
    BY <1>t DEF Trees
  <2>4. /\ trees' \in [Trees -> SUBSET Contents] /\ trees'["active"] = {c} /\ trees'["optional"] = trees["optional"]
        /\ trees'["proposed"] = trees["proposed"] \ {c}
    BY <1>t, <2>1, <2>3 DEF Trees
  <2>5. TreesMove
    BY <2>1, <2>4, CommandKeeps DEF Held
  <2>6. BulletsMove
    BY <2>1 DEF BulletsMove
  <2> QED  BY <2>1, <2>5, <2>6, SkillsRest
<1>20. ASSUME NEW c \in trees["proposed"], Rejects(c) PROVE SkillMoves
  <2>1. trees' = [trees EXCEPT !["proposed"] = @ \ {c}] /\ dropped' = {c}
        /\ UNCHANGED <<bullets, usage, pens, stage, signals, evalOf, authored, unread, swept>>
    BY <1>20 DEF Rejects
  <2>3. trees["proposed"] \in SUBSET Contents
    BY <1>t DEF Trees
  <2>4. /\ trees' \in [Trees -> SUBSET Contents] /\ trees'["active"] = trees["active"]
        /\ trees'["optional"] = trees["optional"] /\ trees'["proposed"] = trees["proposed"] \ {c}
    BY <1>t, <2>1, <2>3 DEF Trees
  <2>5. TreesMove
    BY <2>1, <2>4, CommandKeeps DEF Held
  <2> QED  BY <2>1, <2>5, SkillsRest
<1>21. ASSUME NEW c \in trees["proposed"], EvalBegins(c) PROVE SkillMoves
  <2>1. trees' = [trees EXCEPT !["proposed"] = @ \ {c}, !["active"] = @ \cup {c}] /\ evalOf' = c
        /\ UNCHANGED <<bullets, usage, pens, stage, signals, authored, unread, swept>>
    BY <1>21 DEF EvalBegins
  <2>3. trees["active"] \in SUBSET Contents /\ trees["optional"] \in SUBSET Contents /\ trees["proposed"] \in SUBSET Contents
    BY <1>t DEF Trees
  <2>4. /\ trees' \in [Trees -> SUBSET Contents] /\ trees'["active"] = trees["active"] \cup {c}
        /\ trees'["optional"] = trees["optional"] /\ trees'["proposed"] = trees["proposed"] \ {c}
    BY <1>t, <2>1, <2>3 DEF Trees
  <2>5. TreesMove
    BY <2>4, CommandKeeps DEF Held
  <2>6. CountersMove
    BY <1>t, <2>1, <2>3 DEF CountersMove
  <2> QED  BY <2>1, <2>5, <2>6, SkillsRest
<1>22. ASSUME NEW b, EvalEnds(b) PROVE SkillMoves
  <2> DEFINE there == {d \in trees["active"] : d.lay = evalOf.lay}
  <2>1. /\ trees' = trees \/ trees' = [trees EXCEPT !["active"] = @ \ there, !["proposed"] = @ \cup there]
        /\ evalOf' = NoContent /\ UNCHANGED <<bullets, usage, pens, stage, signals, authored, unread, swept>>
    BY <1>22 DEF EvalEnds, Reverted
  <2>2. trees["active"] \in SUBSET Contents /\ trees["optional"] \in SUBSET Contents /\ trees["proposed"] \in SUBSET Contents
    BY <1>t DEF Trees
  <2>3. ASSUME trees' = [trees EXCEPT !["active"] = @ \ there, !["proposed"] = @ \cup there]
        PROVE  TreesMove
    <3>1. there \in SUBSET Contents
      BY <2>2
    <3> HIDE DEF there
    <3>2. /\ trees' \in [Trees -> SUBSET Contents] /\ trees'["active"] = trees["active"] \ there
          /\ trees'["optional"] = trees["optional"] /\ trees'["proposed"] = trees["proposed"] \cup there
      BY <1>t, <2>2, <2>3, <3>1 DEF Trees
    <3> QED  BY <3>2, CommandKeeps DEF Held
  <2>4. TreesMove
    BY <2>1, <2>3, SkillsRest
  <2>5. CountersMove
    BY <1>t, <2>1, SkillConstants DEF CountersMove
  <2> QED  BY <2>1, <2>4, <2>5, SkillsRest
<1>23. ASSUME DeletesNothing PROVE SkillMoves
  <2>1. ASSUME \E rec : ToolSets(rec) \/ TrialStays(rec) PROVE SkillMoves
    BY <1>3, <1>14, <2>1
  <2>2. ASSUME \E l \in Lessons : ToolAppends(l) \/ ToolPatches(l) \/ ExtractAppends(l) \/ SignalFound(l) \/ DrainAppends(l)
        PROVE  SkillMoves
    BY <1>7, <1>9, <1>12, <2>2
  <2>3. ASSUME \/ \E lay \in Layouts : Installs(NextContent(lay, "hand"))
               \/ \E c \in trees["optional"] : Installs(c)
        PROVE  SkillMoves
    BY <1>17, <2>3
  <2>4. ASSUME \/ \E c \in trees["proposed"] : Approves(c) \/ EvalBegins(c)
               \/ \E b \in EvalVerdicts : EvalEnds(b)
        PROVE  SkillMoves
    BY <1>19, <1>21, <1>22, <2>4
  <2>5. ASSUME \E t \in Trees, lay \in Layouts : ToolCreates(t, lay) \/ ExtractProposes(t, lay) PROVE SkillMoves
    BY <1>4, <2>5
  <2> HIDE DEF SkillMoves
  <2> QED
    BY <1>23, <1>1, <1>2, <1>5, <1>6, <1>8, <1>10, <1>11, <1>13, <1>15, <1>16, <2>1, <2>2, <2>3, <2>4, <2>5, Zenon
    DEF DeletesNothing
<1> QED  BY <1>18, <1>20, <1>23 DEF SkillsNext

(* A rejected lesson comes back only from a writer that did not know of the*)
(* verdict or had read the file while the lesson stood in it.              *)
RejectedMove ==
  \A l \in usage.rejected : ~InFile(l) /\ InFile(l)' =>
    \E p \in Writers :
      /\ pens[p].doing # "none" /\ pens'[p] = PenIdle
      /\ l \notin pens[p].saw \/ \E i \in DOMAIN pens[p].base : pens[p].base[i] = l

\* No skill has been archived and no lesson rejected when the model starts.
LEMMA SkillsStart == SkillsInit => SkillsInv
<1> SUFFICES ASSUME SkillsInit PROVE SkillsInv
  OBVIOUS
<1>1. [NoContent EXCEPT !.by = "hand"] \in Contents
  BY DEF NoContent, PenIdle, Contents, Layouts
<1>2. trees \in [Trees -> SUBSET Contents]
  BY <1>1 DEF SkillsInit
<1>3. pens = [p \in Writers |-> PenIdle] /\ usage = Unrecorded /\ evalOf = NoContent /\ bullets = << >>
      /\ unread = 0 /\ authored = 0 /\ swept = {}
  BY DEF SkillsInit
<1>4. bullets \in Seq(Lessons)
  BY <1>3
<1>5. usage.idle <= unread
  BY <1>3, SkillConstants
<1> QED  BY <1>2, <1>3, <1>4, <1>5, SkillConstants DEF SkillsInv, ArchivedUnread

(* Every step keeps the invariant of the skills and the two promises:     *)
(* directories stay, rejected lessons stay out.                            *)
LEMMA SkillsStep ==
  ASSUME SkillsInv, [SkillsNext]_skillVars
  PROVE  SkillsInv' /\ (SkillsStay \/ UNCHANGED skillVars) /\ (RejectedMove \/ UNCHANGED skillVars)
<1>1. CASE UNCHANGED skillVars
  BY <1>1 DEF skillVars, SkillsInv, ArchivedUnread
<1>2. CASE SkillsNext
  <2>1. PensMove /\ BulletsMove /\ TreesMove /\ UsageMoves /\ CountersMove /\ SweptMoves
    BY <1>2, SkillsMove DEF SkillMoves
  <2>2. pens' \in [Writers -> Pens] /\ \A p \in Writers : PenSound(pens'[p])
    BY <2>1 DEF SkillsInv, PensMove
  <2>3. bullets' \in Seq(Lessons)
    <3>1. << >> \in Seq(Lessons)
      OBVIOUS
    <3> QED  BY <2>1, <3>1 DEF SkillsInv, BulletsMove
  <2>4. trees' \in [Trees -> SUBSET Contents] /\ SkillsStay
    <3>1. trees' = trees => SkillsStay
      BY DEF SkillsStay, Held
    <3> QED  BY <2>1, <3>1 DEF SkillsInv, TreesMove
  <2>5. ArchivedUnread'
    BY <2>1 DEF SkillsInv, SweptMoves, ArchivedUnread
  <2>6. RejectedMove
    <3> SUFFICES ASSUME NEW l \in usage.rejected, ~Listed(bullets, l), Listed(bullets', l)
                 PROVE  \E p \in Writers :
                          /\ pens[p].doing # "none" /\ pens'[p] = PenIdle
                          /\ l \notin pens[p].saw \/ Listed(pens[p].base, l)
      BY DEF RejectedMove, InFile, Listed
    <3>1. l \in LessonNames
      BY DEF SkillsInv, Records
    <3>2. bullets' # bullets /\ bullets' # << >>
      BY DEF Listed
    <3>3. PICK p \in Writers :
            /\ pens[p].doing # "none" /\ pens'[p] = PenIdle
            /\ Listed(pens[p].base, l) \/ (pens[p].doing = "append" /\ l = pens[p].add)
      BY <2>1, <3>1, <3>2 DEF BulletsMove
    <3>4. pens[p].doing = "append" => pens[p].add \notin pens[p].saw
      BY DEF SkillsInv, PenSound
    <3> QED  BY <3>3, <3>4
  <2> QED  BY <2>1, <2>2, <2>3, <2>4, <2>5, <2>6 DEF SkillsInv, UsageMoves, CountersMove
<1> QED  BY <1>1, <1>2

-----------------------------------------------------------------------------
(* Pairing codes: while a request stands between its count and its insert, *)
(* its sender has no code that is still good.                              *)
CodesInv ==
  /\ pairs \in [Senders -> [code : Nat, age : Nat]] /\ codes \in Nat
  /\ asking # NoSender => asking \in Senders /\ (pairs[asking].code = 0 \/ Expired(pairs[asking]))

CodesStay ==
  \A s \in Senders : pairs[s].code # 0 /\ ~Expired(pairs[s]) => pairs'[s].code \in {0, pairs[s].code}

\* No code is being asked for when the gateway starts.
LEMMA CodesStart == InboundInit => CodesInv
BY DEF InboundInit, CodesInv, NoCode

\* A step that takes codes away, or nothing, keeps the invariant.
LEMMA CodesTaken ==
  ASSUME CodesInv, codes' = codes, pairs' \in [Senders -> [code : Nat, age : Nat]],
         \A s \in Senders : pairs'[s] \in {NoCode, pairs[s]}
  PROVE  /\ CodesStay
         /\ asking' \in {asking, NoSender} => CodesInv'
         /\ \A s \in Senders : asking' = s /\ NeedsFreshCode(s) => CodesInv'
<1>1. NoCode.code = 0
  BY DEF NoCode
<1>2. CodesStay
  BY <1>1 DEF CodesStay, CodesInv
<1>3. \A s \in Senders : pairs[s].code = 0 \/ Expired(pairs[s]) => pairs'[s].code = 0 \/ Expired(pairs'[s])
  BY <1>1
<1> QED  BY <1>2, <1>3 DEF CodesInv, NeedsFreshCode, Expired

(* Only an insert gives a sender a new code, and only an expired or missing*)
(* one is replaced by it.                                                  *)
LEMMA CodesStep ==
  ASSUME CodesInv, [InboundNext]_inboundVars
  PROVE  CodesInv' /\ CodesStay
<1> DEFINE Rows == [code : Nat, age : Nat]
<1>1. pairs \in [Senders -> Rows] /\ NoCode \in Rows /\ NoCode.code = 0
  BY DEF CodesInv, NoCode
<1>2. ASSUME UNCHANGED <<pairs, codes, asking>> PROVE CodesInv' /\ CodesStay
  BY <1>1, <1>2, CodesTaken
<1>4. CASE UNCHANGED inboundVars
  BY <1>2, <1>4 DEF inboundVars
<1>5. ASSUME NEW a, AccessChanges(a) PROVE CodesInv' /\ CodesStay
  BY <1>2, <1>5 DEF AccessChanges
<1>6. ASSUME CodeInserted PROVE CodesInv' /\ CodesStay
  <2>1. /\ asking # NoSender /\ asking' = NoSender /\ codes' = codes + 1
        /\ pairs' = [pairs EXCEPT ![asking] = [code |-> codes + 1, age |-> 0]]
    BY <1>6 DEF CodeInserted
  <2> QED  BY <1>1, <2>1 DEF CodesInv, CodesStay
<1>7. ASSUME CodesAge PROVE CodesInv' /\ CodesStay
  <2>1. /\ asking = NoSender /\ asking' = asking /\ codes' = codes
        /\ pairs' = [s \in Senders |-> IF s \in Pending /\ pairs[s].age <= CodeTTL
                                        THEN [pairs[s] EXCEPT !.age = @ + 1] ELSE pairs[s]]
    BY <1>7 DEF CodesAge
  <2>2. \A s \in Senders : pairs'[s].code = pairs[s].code /\ pairs'[s] \in Rows
    BY <1>1, <2>1
  <2>3. pairs' \in [Senders -> Rows]
    BY <2>1, <2>2
  <2> QED  BY <1>1, <2>1, <2>2, <2>3 DEF CodesInv, CodesStay
<1>8. ASSUME NEW s \in Senders, OperatorReads(s) PROVE CodesInv' /\ CodesStay
  <2>1. codes' = codes /\ asking' = asking /\ (pairs' = pairs \/ pairs' = [pairs EXCEPT ![s] = NoCode])
    BY <1>8 DEF OperatorReads
  <2>2. pairs' \in [Senders -> Rows] /\ \A t \in Senders : pairs'[t] \in {NoCode, pairs[t]}
    BY <1>1, <2>1
  <2> QED  BY <2>1, <2>2, CodesTaken
<1>9. ASSUME OperatorGrants PROVE CodesInv' /\ CodesStay
  <2>1. codes' = codes /\ asking' = asking /\ pairs' = [pairs EXCEPT ![operator] = NoCode]
    BY <1>9 DEF OperatorGrants
  <2>2. pairs' \in [Senders -> Rows] /\ \A t \in Senders : pairs'[t] \in {NoCode, pairs[t]}
    BY <1>1, <2>1
  <2> QED  BY <2>1, <2>2, CodesTaken
<1>10. ASSUME NEW s \in Senders, OperatorRevokes(s) PROVE CodesInv' /\ CodesStay
  BY <1>2, <1>10 DEF OperatorRevokes
<1>11. ASSUME NEW all \in BOOLEAN, OperatorClears(all) PROVE CodesInv' /\ CodesStay
  <2>1. /\ codes' = codes /\ asking' = asking
        /\ pairs' = [s \in Senders |-> IF all \/ Sweepable(pairs[s]) THEN NoCode ELSE pairs[s]]
    BY <1>11 DEF OperatorClears
  <2>2. pairs' \in [Senders -> Rows] /\ \A t \in Senders : pairs'[t] \in {NoCode, pairs[t]}
    BY <1>1, <2>1
  <2> QED  BY <2>1, <2>2, CodesTaken
<1>12. ASSUME NEW s \in Senders, Arrives(s) PROVE CodesInv' /\ CodesStay
  <2>1. CASE UNCHANGED pairingVars
    BY <1>2, <2>1 DEF pairingVars
  <2>2. CASE CodeRequested(s)
    <3>1. /\ \/ pairs' = pairs
             \/ pairs' = [t \in Senders |-> IF Sweepable(pairs[t]) THEN NoCode ELSE pairs[t]]
          /\ codes' = codes /\ (asking' = asking \/ (asking' = s /\ NeedsFreshCode(s)))
      BY <2>2 DEF CodeRequested
    <3>2. pairs' \in [Senders -> Rows] /\ \A t \in Senders : pairs'[t] \in {NoCode, pairs[t]}
      BY <1>1, <3>1
    <3> QED  BY <3>1, <3>2, CodesTaken
  <2> QED  BY <1>12, <2>1, <2>2 DEF Arrives
<1>13. ASSUME RowArrives \/ PollStarts \/ PollEnds \/ \E ok \in BOOLEAN : PollEmits(ok) PROVE CodesInv' /\ CodesStay
  BY <1>2, <1>13 DEF RowArrives, PollStarts, PollEnds, PollEmits
<1> QED
  BY <1>4, <1>5, <1>6, <1>7, <1>8, <1>9, <1>10, <1>11, <1>12, <1>13 DEF InboundNext

-----------------------------------------------------------------------------
(* Checkpoints: only the end of a turn, a /compact or a /branch writes one,*)
(* and each writes the thread it began on.                                 *)
HistoryStays ==
  \A s \in Sessions : ~(history[s] \subseteq history'[s]) =>
    \E p \in Peers : \/ command[p].s = s /\ command'[p] = NoCommand
                     \/ turn[p].s = s /\ turn'[p] = Idle

\* Every step of the threads leaves each checkpoint to its own turn or command.
LEMMA HistoryStep ==
  ASSUME ThreadsInv, [ThreadsNext]_threadVars
  PROVE  HistoryStays
<1>1. /\ turn \in [Peers -> TurnRows] /\ command \in [Peers -> ThreadCommands]
      /\ history \in [Sessions -> SUBSET Nat]
  BY DEF ThreadsInv, ThreadsTypeOK
<1>2. ASSUME UNCHANGED history PROVE HistoryStays
  BY <1>2 DEF HistoryStays
<1>3. ASSUME NEW p \in Peers, NEW how, TurnEnds(p, how) PROVE HistoryStays
  <2>1. turn' = [turn EXCEPT ![p] = Idle]
        /\ (history' = history \/ \E h : history' = [history EXCEPT ![turn[p].s] = h])
    BY <1>3 DEF TurnEnds
  <2>2. turn'[p] = Idle /\ \A s \in Sessions : history'[s] # history[s] => s = turn[p].s
    BY <1>1, <2>1
  <2> QED  BY <2>2 DEF HistoryStays
<1>4. ASSUME NEW p \in Peers, NEW ok, CompactEnds(p, ok) \/ BranchCloned(p, ok) PROVE HistoryStays
  <2>1. command' = [command EXCEPT ![p] = NoCommand]
        /\ (history' = history \/ \E h : history' = [history EXCEPT ![command[p].s] = h])
    BY <1>4 DEF CompactEnds, BranchCloned, CompactTarget
  <2>2. command'[p] = NoCommand /\ \A s \in Sessions : history'[s] # history[s] => s = command[p].s
    BY <1>1, <2>1
  <2> QED  BY <2>2 DEF HistoryStays
<1>5. CASE UNCHANGED threadVars
  BY <1>2, <1>5 DEF threadVars
<1>6. ASSUME NEW p \in Peers,
             \/ \E role \in {"user", "system"}, e \in BOOLEAN : InvokeStart(p, role, e)
             \/ RecapOver(p) \/ TurnOpens(p) \/ ExtractionOver(p) \/ ForceNewSession(p) \/ CompactReads(p)
             \/ \E ok \in BOOLEAN : ForceNewEnds(p, ok)
             \/ \E l \in Labels : BranchSession(p, l) \/ SwitchBranch(p, l)
      PROVE  UNCHANGED history
  BY <1>6 DEF InvokeStart, RecapOver, TurnOpens, ExtractionOver, ForceNewSession, CompactReads, ForceNewEnds,
              BranchSession, SwitchBranch
<1>7. HandlerRestart => UNCHANGED history
  BY DEF HandlerRestart
<1> QED
  BY <1>2, <1>3, <1>4, <1>5, <1>6, <1>7, Zenon DEF ThreadsNext

-----------------------------------------------------------------------------
(* Notes: what a note held when a call began that nobody disturbs is in the*)
(* note, or in what the call read, until the call has written it back.     *)
NoteTexts == SUBSET (NoteNames \cup NoteCalls \cup {"old"})
NoteRows == [there : BOOLEAN, text : NoteTexts, inode : Nat]
NoteCallRows ==
  [op : NoteOps \cup {"none"}, at : {"idle", "look", "write", "fill", "unlink", "stat", "read", "ok", "failed"},
   note : NoteNames \cup {""}, seen : NoteTexts, before : NoteTexts, alone : BOOLEAN, inode : Nat]

Undisturbed(c) == Busy(c) /\ Writes(c) /\ noteCalls[c].alone
NoteHeld(c) ==
  noteCalls[c].op # "update" =>
    /\ noteCalls[c].at = "look" => noteCalls[c].before \subseteq notes[noteCalls[c].note].text
    /\ noteCalls[c].at \in {"write", "fill"} => noteCalls[c].before \subseteq noteCalls[c].seen
NoteOpen(c) ==
  noteCalls[c].at = "fill" => /\ notes[noteCalls[c].note].there
                              /\ notes[noteCalls[c].note].inode = noteCalls[c].inode
NotesInv ==
  /\ noteLosses = {} /\ inodes \in Nat
  /\ notes \in [NoteNames -> NoteRows] /\ noteCalls \in [NoteCalls -> NoteCallRows]
  /\ \A n \in NoteNames : ~notes[n].there => notes[n].text = {}
  /\ \A c \in NoteCalls : /\ Busy(c) => noteCalls[c].note \in NoteNames
                          /\ noteCalls[c].at \in {"write", "fill", "unlink"} => Writes(c)
  /\ \A c, d \in NoteCalls : Undisturbed(c) /\ Busy(d) /\ Writes(d) /\ noteCalls[d].note = noteCalls[c].note => c = d
  /\ \A c \in NoteCalls : Undisturbed(c) => NoteHeld(c) /\ NoteOpen(c)

\* The notes that stand before the server's first call satisfy the invariant.
LEMMA NotesStart == NotesInit => NotesInv
<1> SUFFICES ASSUME NotesInit PROVE NotesInv
  OBVIOUS
<1>1. NoNoteCall \in NoteCallRows /\ NoNoteCall.at = "idle"
  BY DEF NoNoteCall, NoteCallRows, NoteOps, NoteTexts
<1>2. noteCalls \in [NoteCalls -> NoteCallRows] /\ \A c \in NoteCalls : noteCalls[c].at = "idle"
  BY <1>1 DEF NotesInit
<1>3. \A c \in NoteCalls : ~Busy(c) /\ ~Undisturbed(c)
  BY <1>2 DEF Busy, Undisturbed
<1>4. NoNote \in NoteRows /\ [there |-> TRUE, text |-> {"old"}, inode |-> 0] \in NoteRows /\ NoNote.text = {}
  BY DEF NoNote, NoteRows, NoteTexts
<1>5. notes \in [NoteNames -> NoteRows] /\ \A n \in NoteNames : ~notes[n].there => notes[n].text = {}
  <2> DEFINE old == [there |-> TRUE, text |-> {"old"}, inode |-> 0]
  <2>1. notes \in [NoteNames -> {NoNote, old}]
    BY DEF NotesInit
  <2>2. old \in NoteRows /\ old.there
    BY <1>4
  <2> HIDE DEF old
  <2> QED  BY <1>4, <2>1, <2>2
<1> QED  BY <1>2, <1>3, <1>5 DEF NotesInit, NotesInv

(* One call goes on and touches no note but its own; what it must show is  *)
(* its own part of the invariant.                                          *)
LEMMA NoteCallGoesOn ==
  ASSUME NotesInv, NEW c \in NoteCalls, Busy(c), noteLosses' = {}, inodes' \in Nat,
         noteCalls' \in [NoteCalls -> NoteCallRows], notes' \in [NoteNames -> NoteRows],
         \A d \in NoteCalls : d # c => noteCalls'[d] = noteCalls[d],
         noteCalls'[c].op = noteCalls[c].op, noteCalls'[c].note = noteCalls[c].note,
         noteCalls'[c].alone = noteCalls[c].alone,
         notes' = notes \/ (Writes(c) /\ \A n \in NoteNames : n # noteCalls[c].note => notes'[n] = notes[n]),
         \A n \in NoteNames : ~notes'[n].there => notes'[n].text = {},
         noteCalls'[c].at \in {"write", "fill", "unlink"} => Writes(c),
         Undisturbed(c) => (NoteHeld(c) /\ NoteOpen(c))'
  PROVE  NotesInv'
<1>1. Writes(c)' = Writes(c) /\ (Undisturbed(c)' => Undisturbed(c))
  BY DEF Writes, Undisturbed
<1>2. \A d \in NoteCalls : d # c => /\ Busy(d)' = Busy(d) /\ Writes(d)' = Writes(d) /\ Undisturbed(d)' = Undisturbed(d)
  BY DEF Busy, Writes, Undisturbed
<1>3. ASSUME NEW d \in NoteCalls, Undisturbed(d)' PROVE (NoteHeld(d) /\ NoteOpen(d))'
  <2>1. CASE d = c
    BY <1>1, <1>3, <2>1
  <2>2. CASE d # c
    <3>1. Undisturbed(d) /\ NoteHeld(d) /\ NoteOpen(d) /\ noteCalls'[d] = noteCalls[d] /\ noteCalls[d].note \in NoteNames
      BY <1>2, <1>3, <2>2 DEF NotesInv, Undisturbed
    <3>2. notes'[noteCalls[d].note] = notes[noteCalls[d].note]
      BY <2>2, <3>1 DEF NotesInv
    <3> QED  BY <3>1, <3>2 DEF NoteHeld, NoteOpen
  <2> QED  BY <2>1, <2>2
<1>4. ASSUME NEW d \in NoteCalls
      PROVE  /\ Busy(d)' => noteCalls'[d].note \in NoteNames
             /\ noteCalls'[d].at \in {"write", "fill", "unlink"} => Writes(d)'
  BY <1>1, <1>2 DEF NotesInv
<1>5. ASSUME NEW d \in NoteCalls, NEW e \in NoteCalls, Undisturbed(d)', Busy(e)', Writes(e)', noteCalls'[e].note = noteCalls'[d].note
      PROVE  d = e
  <2>1. Undisturbed(d) /\ Busy(e) /\ Writes(e) /\ noteCalls[e].note = noteCalls[d].note
    BY <1>1, <1>2, <1>5
  <2> QED  BY <2>1 DEF NotesInv
<1> QED  BY <1>3, <1>4, <1>5 DEF NotesInv

(* A call that begins disturbs the calls on its note and is disturbed by   *)
(* them.                                                                   *)
LEMMA NoteCallStarts ==
  ASSUME NotesInv, NEW c \in NoteCalls, NEW op \in NoteOps, NEW n \in NoteNames, NoteCallBegins(c, op, n)
  PROVE  NotesInv'
<1> DEFINE rivals == {d \in NoteCalls : Busy(d) /\ Writes(d) /\ noteCalls[d].note = n}
           x == [op |-> op, at |-> "look", note |-> n, seen |-> {}, before |-> notes[n].text, alone |-> rivals = {}, inode |-> 0]
<1>1. /\ noteCalls[c] = NoNoteCall /\ UNCHANGED <<notes, inodes, noteLosses>>
      /\ noteCalls' = [d \in NoteCalls |-> IF d = c THEN x
                                           ELSE IF d \in rivals THEN [noteCalls[d] EXCEPT !.alone = FALSE] ELSE noteCalls[d]]
  BY DEF NoteCallBegins
<1>2. x \in NoteCallRows
  <2>1. notes[n].text \in NoteTexts /\ {} \in NoteTexts
    BY DEF NotesInv, NoteRows, NoteTexts
  <2>2. (rivals = {}) \in BOOLEAN
    OBVIOUS
  <2> HIDE DEF rivals
  <2> QED  BY <2>1, <2>2 DEF NoteCallRows
<1>3. ~Busy(c) /\ noteCalls'[c] = x /\ c \notin rivals
  <2>1. NoNoteCall.at = "idle" /\ noteCalls[c] = NoNoteCall
    BY <1>1, Zenon DEF NoNoteCall
  <2>2. ~Busy(c)
    BY <2>1 DEF Busy
  <2>3. c \notin rivals
    BY <2>2
  <2> HIDE DEF rivals, x
  <2> QED  BY <1>1, <2>2, <2>3
<1>4. x.op = op /\ x.at = "look" /\ x.note = n /\ x.before = notes[n].text /\ x.alone = (rivals = {})
  OBVIOUS
<1> HIDE DEF x
<1>5. \A d \in NoteCalls : d # c =>
        /\ noteCalls'[d] \in NoteCallRows
        /\ noteCalls'[d].op = noteCalls[d].op /\ noteCalls'[d].at = noteCalls[d].at /\ noteCalls'[d].note = noteCalls[d].note
        /\ noteCalls'[d].seen = noteCalls[d].seen /\ noteCalls'[d].before = noteCalls[d].before
        /\ noteCalls'[d].inode = noteCalls[d].inode
        /\ noteCalls'[d].alone => noteCalls[d].alone /\ d \notin rivals
  <2> SUFFICES ASSUME NEW d \in NoteCalls, d # c
      PROVE  /\ noteCalls'[d] \in NoteCallRows
             /\ noteCalls'[d].op = noteCalls[d].op /\ noteCalls'[d].at = noteCalls[d].at /\ noteCalls'[d].note = noteCalls[d].note
             /\ noteCalls'[d].seen = noteCalls[d].seen /\ noteCalls'[d].before = noteCalls[d].before
             /\ noteCalls'[d].inode = noteCalls[d].inode
             /\ noteCalls'[d].alone => noteCalls[d].alone /\ d \notin rivals
    OBVIOUS
  <2>1. noteCalls[d] \in NoteCallRows
    BY DEF NotesInv
  <2>2. noteCalls'[d] = IF d \in rivals THEN [noteCalls[d] EXCEPT !.alone = FALSE] ELSE noteCalls[d]
    BY <1>1
  <2> HIDE DEF rivals
  <2> QED  BY <2>1, <2>2 DEF NoteCallRows
<1>6. noteCalls' \in [NoteCalls -> NoteCallRows]
  BY <1>1, <1>2, <1>3, <1>5
<1>7. \A d \in NoteCalls : d # c => /\ Busy(d)' = Busy(d) /\ Writes(d)' = Writes(d)
                                    /\ Undisturbed(d)' => Undisturbed(d) /\ noteCalls[d].note # n
  BY <1>5 DEF Busy, Writes, Undisturbed
<1>8. ASSUME NEW d \in NoteCalls, Undisturbed(d)' PROVE (NoteHeld(d) /\ NoteOpen(d))'
  <2>1. CASE d = c
    BY <1>1, <1>3, <1>4, <2>1 DEF NoteHeld, NoteOpen
  <2>2. CASE d # c
    BY <1>1, <1>5, <1>7, <1>8, <2>2 DEF NoteHeld, NoteOpen, NotesInv
  <2> QED  BY <2>1, <2>2
<1>9. ASSUME NEW d \in NoteCalls
      PROVE  /\ Busy(d)' => noteCalls'[d].note \in NoteNames
             /\ noteCalls'[d].at \in {"write", "fill", "unlink"} => Writes(d)'
  BY <1>3, <1>4, <1>5, <1>7 DEF NotesInv
<1>10. ASSUME NEW d \in NoteCalls, NEW e \in NoteCalls, Undisturbed(d)', Busy(e)', Writes(e)', noteCalls'[e].note = noteCalls'[d].note
       PROVE  d = e
  <2>1. CASE d = c /\ e # c
    <3>1. Busy(e) /\ Writes(e) /\ noteCalls[e].note = n /\ rivals = {}
      BY <1>3, <1>4, <1>5, <1>7, <1>10, <2>1 DEF Undisturbed
    <3> QED  BY <3>1
  <2>2. CASE d # c /\ e = c
    BY <1>3, <1>4, <1>5, <1>7, <1>10, <2>2
  <2>3. CASE d # c /\ e # c
    BY <1>5, <1>7, <1>10, <2>3 DEF NotesInv
  <2> QED  BY <2>1, <2>2, <2>3
<1> QED  BY <1>1, <1>6, <1>8, <1>9, <1>10 DEF NotesInv

(* A step of the server keeps what undisturbed calls hold, provided that a *)
(* file that is there can be read.                                         *)
LEMMA NotesStep ==
  ASSUME ~NoteReadFails, NotesInv, [NotesNext]_noteVars
  PROVE  NotesInv'
<1> DEFINE Ats == {"idle", "look", "write", "fill", "unlink", "stat", "read", "ok", "failed"}
<1>1. /\ noteLosses = {} /\ inodes \in Nat /\ notes \in [NoteNames -> NoteRows] /\ noteCalls \in [NoteCalls -> NoteCallRows]
      /\ \A n \in NoteNames : ~notes[n].there => notes[n].text = {}
      /\ \A c \in NoteCalls : /\ Busy(c) => noteCalls[c].note \in NoteNames
                              /\ noteCalls[c].at \in {"write", "fill", "unlink"} => Writes(c)
      /\ \A c \in NoteCalls : Undisturbed(c) => NoteHeld(c) /\ NoteOpen(c)
      /\ \A n \in NoteNames : notes[n].text \in NoteTexts
  BY DEF NotesInv, NoteRows
<1>2. \A c \in NoteCalls : noteCalls[c].at \in {"look", "write", "fill", "unlink", "stat", "read"} => Busy(c)
  BY DEF Busy
(* The call takes its step without writing.                                *)
<1>3. ASSUME NEW c \in NoteCalls, Busy(c), NEW at \in Ats, NEW seen \in NoteTexts,
             noteCalls' = [noteCalls EXCEPT ![c].at = at, ![c].seen = seen],
             UNCHANGED <<notes, inodes, noteLosses>>,
             at \in {"write", "unlink"} => Writes(c), at # "fill", at # "look",
             at = "write" /\ Undisturbed(c) /\ noteCalls[c].op # "update" => noteCalls[c].before \subseteq seen
      PROVE  NotesInv'
  <2>1. noteCalls[c] \in NoteCallRows
    BY <1>1
  <2>2. /\ noteCalls'[c] \in NoteCallRows
        /\ noteCalls'[c].op = noteCalls[c].op /\ noteCalls'[c].note = noteCalls[c].note
        /\ noteCalls'[c].alone = noteCalls[c].alone /\ noteCalls'[c].before = noteCalls[c].before
        /\ noteCalls'[c].at = at /\ noteCalls'[c].seen = seen
    BY <1>1, <1>3, <2>1 DEF NoteCallRows
  <2>3. \A d \in NoteCalls : d # c => noteCalls'[d] = noteCalls[d]
    BY <1>1, <1>3
  <2>4. noteCalls' \in [NoteCalls -> NoteCallRows]
    BY <1>1, <1>3, <2>2, <2>3
  <2>5. Undisturbed(c) => (NoteHeld(c) /\ NoteOpen(c))'
    BY <1>3, <2>2 DEF NoteHeld, NoteOpen
  <2>6. noteCalls'[c].at \in {"write", "fill", "unlink"} => Writes(c)
    BY <1>3, <2>2
  <2> QED  BY <1>1, <1>3, <2>2, <2>3, <2>4, <2>5, <2>6, NoteCallGoesOn
<1>4. ASSUME NEW c \in NoteCalls, Busy(c), NEW at \in Ats, NoteStep(c, at), UNCHANGED <<notes, inodes, noteLosses>>,
             at \in {"write", "unlink"} => Writes(c), at # "fill", at # "look",
             at = "write" /\ Undisturbed(c) /\ noteCalls[c].op # "update" => noteCalls[c].before \subseteq noteCalls[c].seen
      PROVE  NotesInv'
  <2>1. noteCalls[c] \in NoteCallRows
    BY <1>1
  <2>2. noteCalls[c].seen \in NoteTexts
    BY <2>1 DEF NoteCallRows
  <2>3. noteCalls' = [noteCalls EXCEPT ![c].at = at, ![c].seen = noteCalls[c].seen]
    BY <1>1, <1>4, <2>1 DEF NoteStep, NoteCallRows
  <2> QED  BY <1>3, <1>4, <2>2, <2>3
<1>5. ASSUME NEW c \in NoteCalls, NoteLooks(c) PROVE NotesInv'
  <2>1. noteCalls[c].at = "look" /\ Busy(c) /\ noteCalls[c].note \in NoteNames /\ UNCHANGED <<notes, inodes, noteLosses>>
    BY <1>1, <1>2, <1>5 DEF NoteLooks
  <2>2. Undisturbed(c) /\ noteCalls[c].op # "update" => noteCalls[c].before \subseteq notes[noteCalls[c].note].text
    BY <1>1, <2>1 DEF NoteHeld
  <2>3. notes[noteCalls[c].note].text \in NoteTexts /\ There \in NoteTexts
    BY <1>1, <2>1 DEF There, NoteTexts
  <2>4. CASE noteCalls[c].op = "create"
    <3>1. CreateNote(c)
      BY <1>5, <2>4 DEF NoteLooks
    <3>2. CASE noteCalls[c].note \in There
      BY <1>4, <2>1, <3>1, <3>2 DEF CreateNote
    <3>3. CASE noteCalls[c].note \notin There
      <4>1. notes[noteCalls[c].note].text = {}
        BY <1>1, <2>1, <3>3 DEF There
      <4>2. NoteStep(c, "write") /\ Writes(c)
        BY <2>4, <3>1, <3>3 DEF CreateNote, Writes
      <4>3. Undisturbed(c) => noteCalls[c].before \subseteq noteCalls[c].seen
        BY <2>2, <2>4, <4>1
      <4> QED  BY <1>4, <2>1, <4>2, <4>3
    <3> QED  BY <3>2, <3>3
  <2>5. CASE noteCalls[c].op = "update"
    <3>1. UpdateNote(c)
      BY <1>5, <2>5 DEF NoteLooks
    <3>2. \E at \in {"write", "failed"} : NoteStep(c, at)
      BY <3>1 DEF UpdateNote
    <3>3. Writes(c)
      BY <2>5 DEF Writes
    <3> QED  BY <1>4, <2>1, <2>5, <3>2, <3>3
  <2>6. CASE noteCalls[c].op = "append"
    <3>1. AppendToNote(c)
      BY <1>5, <2>6 DEF NoteLooks
    <3>2. noteCalls' = [noteCalls EXCEPT ![c].at = "write", ![c].seen = notes[noteCalls[c].note].text]
      BY <3>1 DEF AppendToNote
    <3>3. Writes(c)
      BY <2>6 DEF Writes
    <3> QED  BY <1>3, <2>1, <2>2, <2>3, <3>2, <3>3
  <2>7. CASE noteCalls[c].op = "delete"
    <3>1. DeleteNote(c)
      BY <1>5, <2>7 DEF NoteLooks
    <3>2. \E at \in {"unlink", "failed"} : NoteStep(c, at)
      BY <3>1 DEF DeleteNote
    <3>3. Writes(c)
      BY <2>7 DEF Writes
    <3> QED  BY <1>4, <2>1, <3>2, <3>3
  <2>8. CASE noteCalls[c].op \notin {"create", "update", "append", "delete"}
    <3>1. WalkDir(c)
      BY <1>5, <2>8 DEF NoteLooks
    <3> QED  BY <1>3, <2>1, <2>3, <3>1 DEF WalkDir
  <2> QED  BY <2>4, <2>5, <2>6, <2>7, <2>8
<1>6. ASSUME NEW c \in NoteCalls, NoteStats(c) PROVE NotesInv'
  <2>1. Busy(c) /\ UNCHANGED <<notes, inodes, noteLosses>> /\ \E at \in {"read", "ok", "failed"} : NoteStep(c, at)
    BY <1>2, <1>6 DEF NoteStats
  <2> QED  BY <1>4, <2>1
<1>7. ASSUME NEW c \in NoteCalls, NoteReads(c) PROVE NotesInv'
  <2>1. /\ Busy(c) /\ UNCHANGED <<notes, inodes, noteLosses>>
        /\ \E found \in {noteCalls[c].seen, noteCalls[c].seen \cap There} :
             noteCalls' = [noteCalls EXCEPT ![c].at = "ok", ![c].seen = found]
    BY <1>2, <1>7 DEF NoteReads
  <2>2. noteCalls[c] \in NoteCallRows
    BY <1>1
  <2>3. noteCalls[c].seen \in NoteTexts /\ noteCalls[c].seen \cap There \in NoteTexts
    BY <2>2 DEF NoteCallRows, NoteTexts
  <2> QED  BY <1>3, <2>1, <2>3
<1>8. ASSUME NEW c \in NoteCalls, NoteOpened(c) PROVE NotesInv'
  <2> DEFINE n == noteCalls[c].note
             i == IF n \in There THEN notes[n].inode ELSE inodes + 1
             row == [there |-> TRUE, text |-> {}, inode |-> i]
  <2>1. /\ noteCalls[c].at = "write" /\ notes' = [notes EXCEPT ![n] = row] /\ noteLosses' = noteLosses
        /\ inodes' \in {inodes, inodes + 1} /\ noteCalls' = [noteCalls EXCEPT ![c].at = "fill", ![c].inode = i]
    BY <1>8 DEF NoteOpened
  <2>2. Busy(c) /\ Writes(c) /\ n \in NoteNames
    BY <1>1, <1>2, <2>1
  <2>3. i \in Nat
    BY <1>1, <2>2 DEF NoteRows
  <2>4. row \in NoteRows /\ row.there /\ row.inode = i
    BY <2>3 DEF NoteRows, NoteTexts
  <2>5. noteCalls[c] \in NoteCallRows
    BY <1>1
  <2> HIDE DEF row, i
  <2>6. /\ noteCalls'[c] \in NoteCallRows
        /\ noteCalls'[c].op = noteCalls[c].op /\ noteCalls'[c].note = noteCalls[c].note
        /\ noteCalls'[c].alone = noteCalls[c].alone /\ noteCalls'[c].before = noteCalls[c].before
        /\ noteCalls'[c].at = "fill" /\ noteCalls'[c].seen = noteCalls[c].seen /\ noteCalls'[c].inode = i
    BY <1>1, <2>1, <2>3, <2>5 DEF NoteCallRows
  <2>7. noteCalls' \in [NoteCalls -> NoteCallRows] /\ \A d \in NoteCalls : d # c => noteCalls'[d] = noteCalls[d]
    BY <1>1, <2>1, <2>6
  <2>8. /\ notes' \in [NoteNames -> NoteRows] /\ notes'[n] = row
        /\ \A m \in NoteNames : m # n => notes'[m] = notes[m]
    BY <1>1, <2>1, <2>2, <2>4
  <2>9. \A m \in NoteNames : ~notes'[m].there => notes'[m].text = {}
    BY <1>1, <2>4, <2>8
  <2>10. Undisturbed(c) => (NoteHeld(c) /\ NoteOpen(c))'
    BY <1>1, <2>1, <2>4, <2>6, <2>8 DEF NoteHeld, NoteOpen
  <2>11. inodes' \in Nat /\ noteLosses' = {}
    BY <1>1, <2>1
  <2> QED  BY <2>2, <2>6, <2>7, <2>8, <2>9, <2>10, <2>11, NoteCallGoesOn
<1>9. ASSUME NEW c \in NoteCalls, NoteFilled(c) PROVE NotesInv'
  <2> DEFINE n == noteCalls[c].note
             text == noteCalls[c].seen \cup {c}
  <2>1. /\ noteCalls[c].at = "fill" /\ NoteStep(c, "ok") /\ inodes' = inodes
        /\ IF n \in There /\ notes[n].inode = noteCalls[c].inode
           THEN \E all \in {text, text \cup notes[n].text} : notes' = [notes EXCEPT ![n].text = all]
           ELSE UNCHANGED notes
        /\ noteLosses' = IF noteCalls[c].op # "update" /\ noteCalls[c].alone /\ ~(noteCalls[c].before \subseteq notes'[n].text)
                         THEN noteLosses \cup {c} ELSE noteLosses
    BY <1>9 DEF NoteFilled
  <2>2. Busy(c) /\ Writes(c) /\ n \in NoteNames
    BY <1>1, <1>2, <2>1
  <2>3. noteCalls[c] \in NoteCallRows /\ notes[n] \in NoteRows
    BY <1>1, <2>2
  <2>4. text \in NoteTexts /\ text \cup notes[n].text \in NoteTexts
    BY <2>3 DEF NoteCallRows, NoteRows, NoteTexts
  <2>5. /\ noteCalls'[c] \in NoteCallRows
        /\ noteCalls'[c].op = noteCalls[c].op /\ noteCalls'[c].note = noteCalls[c].note
        /\ noteCalls'[c].alone = noteCalls[c].alone /\ noteCalls'[c].at = "ok"
    BY <1>1, <2>1, <2>3 DEF NoteCallRows, NoteStep
  <2>6. noteCalls' \in [NoteCalls -> NoteCallRows] /\ \A d \in NoteCalls : d # c => noteCalls'[d] = noteCalls[d]
    BY <1>1, <2>1, <2>5 DEF NoteStep
  <2>7. /\ notes' \in [NoteNames -> NoteRows] /\ notes'[n].there = notes[n].there
        /\ \A m \in NoteNames : m # n => notes'[m] = notes[m]
        /\ notes[n].there /\ notes[n].inode = noteCalls[c].inode => text \subseteq notes'[n].text
        /\ ~notes[n].there => notes'[n] = notes[n]
    <3> HIDE DEF text
    <3>1. ASSUME NEW all \in NoteTexts, notes' = [notes EXCEPT ![n].text = all]
          PROVE  /\ notes' \in [NoteNames -> NoteRows] /\ notes'[n].there = notes[n].there /\ notes'[n].text = all
                 /\ \A m \in NoteNames : m # n => notes'[m] = notes[m]
      BY <1>1, <2>2, <2>3, <3>1 DEF NoteRows
    <3> QED  BY <1>1, <2>1, <2>2, <2>4, <3>1 DEF There
  <2>8. \A m \in NoteNames : ~notes'[m].there => notes'[m].text = {}
    BY <1>1, <2>7
  <2>9. noteLosses' = {}
    <3>1. ASSUME noteCalls[c].op # "update", noteCalls[c].alone PROVE noteCalls[c].before \subseteq notes'[n].text
      <4>1. Undisturbed(c)
        BY <2>2, <3>1 DEF Undisturbed
      <4>2. noteCalls[c].before \subseteq noteCalls[c].seen /\ notes[n].there /\ notes[n].inode = noteCalls[c].inode
        BY <1>1, <2>1, <3>1, <4>1 DEF NoteHeld, NoteOpen
      <4> QED  BY <2>7, <4>2
    <3> QED  BY <1>1, <2>1, <3>1
  <2>10. (NoteHeld(c) /\ NoteOpen(c))'
    BY <2>5 DEF NoteHeld, NoteOpen
  <2> QED  BY <1>1, <2>1, <2>2, <2>5, <2>6, <2>7, <2>8, <2>9, <2>10, NoteCallGoesOn
<1>10. ASSUME NEW c \in NoteCalls, NoteUnlinked(c) PROVE NotesInv'
  <2> DEFINE n == noteCalls[c].note
  <2>1. /\ noteCalls[c].at = "unlink" /\ UNCHANGED <<inodes, noteLosses>>
        /\ \/ notes' = [notes EXCEPT ![n] = NoNote] /\ NoteStep(c, "ok")
           \/ UNCHANGED notes /\ NoteStep(c, "failed")
    BY <1>10 DEF NoteUnlinked
  <2>2. Busy(c) /\ Writes(c) /\ n \in NoteNames
    BY <1>1, <1>2, <2>1
  <2>3. CASE UNCHANGED notes /\ NoteStep(c, "failed")
    BY <1>4, <2>1, <2>2, <2>3
  <2>4. CASE notes' = [notes EXCEPT ![n] = NoNote] /\ NoteStep(c, "ok")
    <3>1. NoNote \in NoteRows /\ NoNote.text = {}
      BY DEF NoNote, NoteRows, NoteTexts
    <3>2. noteCalls[c] \in NoteCallRows
      BY <1>1
    <3>3. /\ noteCalls'[c] \in NoteCallRows
          /\ noteCalls'[c].op = noteCalls[c].op /\ noteCalls'[c].note = noteCalls[c].note
          /\ noteCalls'[c].alone = noteCalls[c].alone /\ noteCalls'[c].at = "ok"
      BY <1>1, <2>4, <3>2 DEF NoteCallRows, NoteStep
    <3>4. noteCalls' \in [NoteCalls -> NoteCallRows] /\ \A d \in NoteCalls : d # c => noteCalls'[d] = noteCalls[d]
      BY <1>1, <2>4, <3>3 DEF NoteStep
    <3>5. /\ notes' \in [NoteNames -> NoteRows] /\ \A m \in NoteNames : m # n => notes'[m] = notes[m]
          /\ \A m \in NoteNames : ~notes'[m].there => notes'[m].text = {}
      BY <1>1, <2>2, <2>4, <3>1
    <3>6. (NoteHeld(c) /\ NoteOpen(c))'
      BY <3>3 DEF NoteHeld, NoteOpen
    <3>7. inodes' \in Nat /\ noteLosses' = {}
      BY <1>1, <2>1
    <3> QED  BY <2>2, <3>3, <3>4, <3>5, <3>6, <3>7, NoteCallGoesOn
  <2> QED  BY <2>1, <2>3, <2>4
<1>11. ASSUME NotesServerStops PROVE NotesInv'
  <2>1. /\ noteCalls' = [c \in NoteCalls |-> IF Busy(c) THEN [noteCalls[c] EXCEPT !.at = "failed"] ELSE noteCalls[c]]
        /\ UNCHANGED <<notes, inodes, noteLosses>>
    BY <1>11 DEF NotesServerStops
  <2>2. \A c \in NoteCalls : noteCalls'[c] \in NoteCallRows /\ noteCalls'[c].at \in {"idle", "ok", "failed"}
    <3> SUFFICES ASSUME NEW c \in NoteCalls
                 PROVE  noteCalls'[c] \in NoteCallRows /\ noteCalls'[c].at \in {"idle", "ok", "failed"}
      OBVIOUS
    <3>1. noteCalls[c] \in NoteCallRows
      BY <1>1
    <3> QED  BY <2>1, <3>1 DEF NoteCallRows, Busy
  <2>3. noteCalls' \in [NoteCalls -> NoteCallRows]
    BY <2>1, <2>2
  <2>4. \A c \in NoteCalls : ~Busy(c)' /\ ~Undisturbed(c)'
    BY <2>2 DEF Busy, Undisturbed
  <2> QED  BY <1>1, <2>1, <2>2, <2>3, <2>4 DEF NotesInv
<1>12. CASE UNCHANGED noteVars
  BY <1>12 DEF noteVars, NotesInv, Undisturbed, Busy, Writes, NoteHeld, NoteOpen
<1> QED
  BY <1>5, <1>6, <1>7, <1>8, <1>9, <1>10, <1>11, <1>12, NoteCallStarts DEF NotesNext

-----------------------------------------------------------------------------
(* The parts whose records are to be kept, side by side.                   *)
KeptInv == ThreadsInv /\ SkillsInv /\ CodesInv /\ NotesInv

\* A step of MCStores is a step of each of these parts or leaves it alone.
LEMMA KeptPartsStep ==
  ASSUME [StoresNext]_allVars
  PROVE  [ThreadsNext]_threadVars /\ [SkillsNext]_skillVars /\ [InboundNext]_inboundVars /\ [NotesNext]_noteVars
<1>1. CASE UNCHANGED allVars
  BY <1>1 DEF allVars
<1>2. CASE StoresNext
  BY <1>2 DEF StoresNext, StepWebhooks, StepLimiter, StepMessages, StepAccess, StepScreen, StepThreads, StepGoals, StepSkills,
              StepMemory, StepHooks, StepVault, StepCredentials, StepMembers, StepNotes, Rest
<1> QED  BY <1>1, <1>2

(* Nothing that was kept is silently dropped or replaced: checkpoints,     *)
(* skills, rejections, pairing codes that are still good and the text of   *)
(* notes, provided that a note that is there can be read (handler.ts       *)
(* compaction, skill-writer.ts, skill-curator.ts, pairing-store.ts,        *)
(* obsidian.ts).                                                           *)
THEOREM NothingIsForgotten ==
  ASSUME ~NoteReadFails
  PROVE  StoresSpec => NothingForgotten
<1>1. StoresInit => KeptInv
  BY ThreadsStart, SkillsStart, CodesStart, NotesStart DEF StoresInit, KeptInv
<1>2. KeptInv /\ [StoresNext]_allVars => KeptInv'
  BY KeptPartsStep, ThreadsStep, SkillsStep, CodesStep, NotesStep DEF KeptInv
<1>3. KeptInv /\ [StoresNext]_allVars =>
        /\ [HistoryStays]_threadVars /\ [SkillsStay]_skillVars /\ [RejectedMove]_skillVars /\ [CodesStay]_pairs
  BY KeptPartsStep, HistoryStep, SkillsStep, CodesStep DEF KeptInv
<1>4. KeptInv => ArchivedUnread /\ NoteTextKept
  BY DEF KeptInv, SkillsInv, NotesInv, NoteTextKept
<1> QED
  BY <1>1, <1>2, <1>3, <1>4, PTL
  DEF StoresSpec, NothingForgotten, HistoryKept, HistoryStays, SkillKept, SkillsStay, RejectedStaysOut, RejectedMove,
      LiveCodeKept, CodesStay
=============================================================================
