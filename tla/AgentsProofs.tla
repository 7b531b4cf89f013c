---------------------------- MODULE AgentsProofs ----------------------------
(***************************************************************************)
(* Theorems about what agents start: delegated tasks, MCP servers, browser *)
(* sessions and the vault's daemon, for any registries, workers, servers,  *)
(* sessions and processes and any bounds.  The invariant of a part is      *)
(* proved of the part's own next-state relation; the theorems at the end   *)
(* lift it to the behaviours of MCAgents.                                  *)
(***************************************************************************)
EXTENDS MCAgents, SequenceFilter, FiniteSetTheorems

-----------------------------------------------------------------------------
(* Delegated tasks.                                                        *)

TaskKinds == {"none", "spawn", "delegate", "handoff", "code"}
TaskRec ==
  [kind : TaskKinds, chain : Seq(TeamWorkers), linked : SUBSET TaskIds,
   status : Terminal \cup {"none", "running", "evicted", "lost"},
   abort : {"no", "stop", "timeout"}, run : {"called", "working", "settled", "over"}]
RowRec ==
  [status : Terminal \cup {"absent", "running"}, owner : TaskIds \cup {NoTask},
   by : TaskIds \cup {NoTask}]

TaskTypes ==
  /\ tasks \in [TaskIds -> TaskRec] /\ taskRows \in [1..MaxTask -> RowRec]
  /\ outcomes \in [TaskIds -> Nat] /\ acpActive \in Nat

(* The ids of a registry are given out in order, none twice.               *)
InOrder ==
  \A t, u \in TaskIds :
    t[1] = u[1] /\ t[2] = u[2] /\ u[3] < t[3] /\ tasks[t].kind # "none" => tasks[u].kind # "none"

(* How far the run of a task is, and what has been said of it.             *)
LifeOK ==
  \A t \in TaskIds :
    /\ tasks[t].kind = "none" => tasks[t].run = "over" /\ outcomes[t] = 0
    /\ tasks[t].kind \in {"spawn", "delegate", "handoff"} => t[2] = "t"
    /\ tasks[t].kind = "code" => t[2] = "j"
    /\ InFlight(t) => outcomes[t] = 0
    /\ tasks[t].run = "settled" => /\ tasks[t].kind = "spawn" /\ outcomes[t] = 0
                                   /\ tasks[t].status \in Terminal \cup {"evicted"}

(* A task that has settled has its row settled.                            *)
RowsOK ==
  \A t \in TaskIds :
    t[2] = "t" /\ (outcomes[t] = 1 \/ tasks[t].run = "settled")
      /\ taskRows[RowKey(t)].owner = t => taskRows[RowKey(t)].status # "running"

(* A task is linked to what its callers are linked to, and to no id that   *)
(* is still to be given out.                                               *)
LinksOK ==
  \A t \in TaskIds : \A c \in tasks[t].linked :
    tasks[c].kind # "none" /\ tasks[c].linked \subseteq tasks[t].linked

CodeRuns == {t \in TaskIds : tasks[t].kind = "code" /\ InFlight(t)}
SlotsOK == IsFiniteSet(CodeRuns) /\ acpActive = Cardinality(CodeRuns)

TasksInv ==
  /\ TaskTypes /\ InOrder /\ LifeOK /\ ChainSound /\ OneOutcomeEvent /\ RowsOK
  /\ LinksOK /\ StopReachesBelow /\ SlotsOK

(* What a task id is made of.                                              *)
LEMMA IdParts ==
  ASSUME NEW t \in TaskIds
  PROVE  /\ t = <<t[1], t[2], t[3]>> /\ t[1] \in Registries /\ t[2] \in {"t", "j"}
         /\ t[3] \in Nat /\ t[3] > 0
         /\ t[2] = "t" => t[3] \in 1..MaxTask
         /\ t[2] = "j" => t[3] \in 1..MaxJob
BY DelegationBounds DEF TaskIds

(* The first k ids of a column of the registry. *)
Column(g, l, k) == {<<g, l, n>> : n \in 1..k}

(* A column of k ids is finite and has k members. *)
LEMMA ColumnSize ==
  ASSUME NEW g, NEW l, NEW k \in Nat
  PROVE  IsFiniteSet(Column(g, l, k)) /\ Cardinality(Column(g, l, k)) = k
<1> DEFINE f == [n \in 1..k |-> <<g, l, n>>]
<1>1. f \in Bijection(1..k, Column(g, l, k))
  <2>1. f \in [1..k -> Column(g, l, k)]
    BY DEF Column
  <2>2. \A a, b \in 1..k : f[a] = f[b] => a = b
    OBVIOUS
  <2>3. \A x \in Column(g, l, k) : \E n \in 1..k : f[n] = x
    BY DEF Column
  <2>4. DOMAIN f = 1..k
    OBVIOUS
  <2> HIDE DEF f
  <2>5. IsInjective(f)
    BY <2>2, <2>4 DEF IsInjective
  <2> QED  BY <2>1, <2>3, <2>5 DEF Bijection, Injection, Surjection
<1>2. ExistsBijection(1..k, Column(g, l, k))
  BY <1>1 DEF ExistsBijection
<1>3. IsFiniteSet(1..k) /\ Cardinality(1..k) = k
  BY FS_Interval
<1> QED  BY <1>2, <1>3, FS_Bijection

(* An id never given, whose predecessors were all given. *)
Fresh(t) ==
  /\ t \in TaskIds /\ tasks[t].kind = "none"
  /\ \A u \in TaskIds : u[1] = t[1] /\ u[2] = t[2] /\ u[3] < t[3] => tasks[u].kind # "none"

(* nextId gives an id that was never given, and the one after the last. *)
LEMMA NextIdFresh ==
  ASSUME TaskTypes, InOrder, NEW g, NEW l, NextId(g, l) \in TaskIds
  PROVE  Fresh(NextId(g, l))
<1> DEFINE Used == {t \in TaskIds : t[1] = g /\ t[2] = l /\ tasks[t].kind # "none"}
           c == Cardinality(Used)
           new == <<g, l, 1 + c>>
           K == IF l = "t" THEN MaxTask ELSE MaxJob
<1>0. NextId(g, l) = new /\ new \in TaskIds
  BY DEF NextId
<1>1. g \in Registries /\ l \in {"t", "j"} /\ K \in Nat
  BY <1>0, IdParts, DelegationBounds DEF TaskIds
<1>2. Used \subseteq Column(g, l, K)
  <2> SUFFICES ASSUME NEW t \in Used PROVE t \in Column(g, l, K)
    OBVIOUS
  <2>1. t = <<g, l, t[3]>> /\ t[3] \in 1..K
    BY IdParts, <1>1
  <2> QED  BY <2>1 DEF Column
<1>3. IsFiniteSet(Used) /\ c \in Nat
  BY <1>1, <1>2, ColumnSize, FS_Subset, FS_CardinalityType
<1>4. \A n \in 1..K : <<g, l, n>> \in TaskIds
  BY <1>1 DEF TaskIds
<1> HIDE DEF c, K
<1>5. 1 + c \in 1..K
  <2>1. new[1] = g /\ new[2] = l /\ new[3] = 1 + c
    OBVIOUS
  <2> QED  BY <1>0, <1>1, <2>1, IdParts DEF K
<1>6. tasks[new].kind = "none"
  <2> SUFFICES ASSUME tasks[new].kind # "none" PROVE FALSE
    OBVIOUS
  <2>1. Column(g, l, 1 + c) \subseteq Used
    <3> SUFFICES ASSUME NEW n \in 1..(1 + c) PROVE <<g, l, n>> \in Used
      BY DEF Column
    <3>1. n \in 1..K /\ <<g, l, n>> \in TaskIds
      BY <1>1, <1>3, <1>4, <1>5
    <3>2. tasks[<<g, l, n>>].kind # "none"
      <4>1. CASE n = 1 + c
        BY <4>1
      <4>2. CASE n < 1 + c
        BY <4>2, <1>0, <3>1 DEF InOrder
      <4> QED  BY <4>1, <4>2, <1>3
    <3> QED  BY <3>1, <3>2
  <2>2. 1 + c <= c
    BY <2>1, <1>3, ColumnSize, FS_Subset DEF c
  <2> QED  BY <2>2, <1>3
<1>7. ASSUME NEW u \in TaskIds, u[1] = g, u[2] = l, u[3] < 1 + c, tasks[u].kind = "none"
      PROVE  FALSE
  <2> DEFINE m == u[3]
  <2>1. u = <<g, l, m>> /\ m \in Nat /\ m > 0 /\ m <= c
    BY <1>7, <1>3, IdParts
  <2>2. Used \subseteq Column(g, l, m - 1)
    <3> SUFFICES ASSUME NEW t \in Used PROVE t \in Column(g, l, m - 1)
      OBVIOUS
    <3>1. t = <<g, l, t[3]>> /\ t[3] \in Nat /\ t[3] > 0
      BY IdParts
    <3>2. ~ (u[3] < t[3])
      BY <1>7 DEF InOrder
    <3>3. t[3] # m
      BY <3>1, <2>1, <1>7
    <3>4. t[3] \in 1..(m - 1)
      BY <3>1, <3>2, <3>3, <2>1
    <3> QED  BY <3>1, <3>4 DEF Column
  <2>3. m - 1 \in Nat
    BY <2>1
  <2>4. c <= m - 1
    BY <2>2, <2>3, ColumnSize, FS_Subset DEF c
  <2> QED  BY <2>1, <2>4, <1>3
<1> QED  BY <1>0, <1>6, <1>7 DEF Fresh

(* A task begins: a fresh id gets a record whose chain, links and signal   *)
(* follow from its caller's.                                               *)
Begins(t, r) ==
  /\ Fresh(t) /\ r \in TaskRec /\ r.run = "called" /\ r.kind # "none"
  /\ r.kind = "code" <=> t[2] = "j"
  /\ Len(r.chain) <= MaxDepth /\ \A i, j \in DOMAIN r.chain : r.chain[i] = r.chain[j] => i = j
  /\ \A c \in r.linked : tasks[c].kind # "none" /\ tasks[c].linked \subseteq r.linked
  /\ (\E c \in r.linked : tasks[c].abort # "no") => r.abort # "no"
  /\ tasks' = [tasks EXCEPT ![t] = r] /\ outcomes' = outcomes
  /\ acpActive' = IF r.kind = "code" THEN acpActive + 1 ELSE acpActive
  /\ \/ taskRows' = taskRows
     \/ t[2] = "t" /\ taskRows' = InsertRow(t, "running")

(* What an insertion does to the table.                                    *)
LEMMA InsertKeeps ==
  ASSUME TaskTypes, NEW t \in TaskIds, t[2] = "t", NEW st \in Terminal \cup {"running"}
  PROVE  /\ InsertRow(t, st) \in [1..MaxTask -> RowRec]
         /\ \A u \in TaskIds : u # t /\ u[2] = "t" /\ InsertRow(t, st)[RowKey(u)].owner = u
              => InsertRow(t, st)[RowKey(u)] = taskRows[RowKey(u)]
         /\ st # "running" /\ InsertRow(t, st)[RowKey(t)].status = "running"
              => InsertRow(t, st)[RowKey(t)] = taskRows[RowKey(t)]
<1> DEFINE row == [status |-> st, owner |-> t, by |-> IF st = "running" THEN NoTask ELSE t]
<1>1. RowKey(t) \in 1..MaxTask /\ \A u \in TaskIds : u[2] = "t" => RowKey(u) \in 1..MaxTask
  BY IdParts DEF RowKey
<1>2. row \in RowRec
  BY DEF RowRec
<1>3. InsertRow(t, st) = taskRows \/ InsertRow(t, st) = [taskRows EXCEPT ![RowKey(t)] = row]
  BY DEF InsertRow
<1>4. row.owner = t /\ row.status = st
  OBVIOUS
<1> HIDE DEF row
<1>5. taskRows \in [1..MaxTask -> RowRec]
  BY DEF TaskTypes
<1> QED  BY <1>1, <1>2, <1>3, <1>4, <1>5

\* The invariant holds after a beginning: a fresh id was in nobody's links.
LEMMA BeginsKeeps ==
  ASSUME TasksInv, NEW t, NEW r, Begins(t, r)
  PROVE  TasksInv'
<1>0. /\ t \in TaskIds /\ tasks[t].kind = "none" /\ tasks[t].run = "over" /\ outcomes[t] = 0
      /\ tasks \in [TaskIds -> TaskRec] /\ tasks' \in [TaskIds -> TaskRec] /\ tasks'[t] = r
      /\ \A u \in TaskIds : u # t => tasks'[u] = tasks[u]
  BY DEF TasksInv, TaskTypes, LifeOK, Begins, Fresh
<1>1. TaskTypes'
  BY <1>0, InsertKeeps DEF TasksInv, TaskTypes, Begins
<1>2. InOrder'
  BY <1>0 DEF TasksInv, InOrder, Begins, Fresh
<1>3. LifeOK'
  <2>1. t[2] \in {"t", "j"}
    BY <1>0, IdParts
  <2> QED  BY <1>0, <2>1 DEF TasksInv, LifeOK, Begins, InFlight
<1>4. ChainSound'
  <2> SUFFICES ASSUME NEW u \in TaskIds
               PROVE  /\ Len(tasks'[u].chain) <= MaxDepth
                      /\ \A i, j \in DOMAIN tasks'[u].chain :
                           tasks'[u].chain[i] = tasks'[u].chain[j] => i = j
    BY DEF ChainSound
  <2> QED  BY <1>0 DEF TasksInv, ChainSound, Begins
<1>5. OneOutcomeEvent'
  BY <1>0 DEF TasksInv, OneOutcomeEvent, Begins
<1>6. RowsOK'
  <2> SUFFICES ASSUME NEW u \in TaskIds, u[2] = "t", outcomes[u] = 1 \/ tasks'[u].run = "settled",
                      taskRows'[RowKey(u)].owner = u
               PROVE  taskRows'[RowKey(u)].status # "running"
    BY DEF RowsOK, Begins, RowKey
  <2>1. u # t
    BY <1>0 DEF Begins
  <2>2. taskRows'[RowKey(u)] = taskRows[RowKey(u)]
    BY <1>0, <2>1, InsertKeeps DEF TasksInv, Begins
  <2> QED  BY <1>0, <2>1, <2>2 DEF TasksInv, RowsOK
<1>7. LinksOK'
  <2> SUFFICES ASSUME NEW u \in TaskIds, NEW c \in tasks'[u].linked
               PROVE  tasks'[c].kind # "none" /\ tasks'[c].linked \subseteq tasks'[u].linked
    BY DEF LinksOK
  <2>1. c \in TaskIds /\ c # t /\ tasks[c].kind # "none"
    BY <1>0 DEF TasksInv, LinksOK, Begins, TaskRec
  <2> QED  BY <1>0, <2>1 DEF TasksInv, LinksOK, Begins
<1>8. StopReachesBelow'
  <2> SUFFICES ASSUME NEW u \in TaskIds, InFlight(u)', NEW c \in tasks'[u].linked, tasks'[c].abort # "no"
               PROVE  tasks'[u].abort # "no"
    BY DEF StopReachesBelow
  <2>1. c \in TaskIds /\ c # t
    BY <1>0 DEF TasksInv, LinksOK, Begins, TaskRec
  <2> QED  BY <1>0, <2>1 DEF TasksInv, StopReachesBelow, Begins, InFlight
<1>9. SlotsOK'
  <2>1. CASE r.kind = "code"
    <3>1. CodeRuns' = CodeRuns \cup {t} /\ t \notin CodeRuns
      BY <1>0, <2>1 DEF CodeRuns, InFlight, Begins
    <3> QED  BY <2>1, <3>1, FS_AddElement DEF TasksInv, SlotsOK, Begins
  <2>2. CASE r.kind # "code"
    <3>1. CodeRuns' = CodeRuns
      BY <1>0, <2>2 DEF CodeRuns, InFlight
    <3> QED  BY <2>2, <3>1 DEF TasksInv, SlotsOK, Begins
  <2> QED  BY <2>1, <2>2
<1> QED  BY <1>1, <1>2, <1>3, <1>4, <1>5, <1>6, <1>7, <1>8, <1>9 DEF TasksInv

(* A task changes without a beginning, an end or an abort: its runner      *)
(* starts, its news goes out, its record is dropped from the registry.     *)
Goes(t, r) ==
  /\ t \in TaskIds /\ r \in TaskRec /\ tasks' = [tasks EXCEPT ![t] = r]
  /\ r.kind = tasks[t].kind /\ r.chain = tasks[t].chain /\ r.linked = tasks[t].linked
  /\ r.abort = tasks[t].abort /\ (r.run \in {"called", "working"} <=> InFlight(t))
  /\ tasks[t].run # "settled" => r.run # "settled"
  /\ r.kind = "none" => r.run = "over"
  /\ r.status = tasks[t].status \/ r.status = "evicted"
  /\ \/ outcomes' = outcomes
     \/ tasks[t].run = "settled" /\ r.run # "settled" /\ outcomes' = [outcomes EXCEPT ![t] = @ + 1]
  /\ taskRows' = taskRows /\ acpActive' = acpActive
\* And after a change of stage.
LEMMA GoesKeeps ==
  ASSUME TasksInv, NEW t, NEW r, Goes(t, r)
  PROVE  TasksInv'
<1>0. /\ t \in TaskIds /\ tasks \in [TaskIds -> TaskRec] /\ tasks' \in [TaskIds -> TaskRec]
      /\ tasks'[t] = r /\ \A u \in TaskIds : u # t => tasks'[u] = tasks[u]
  BY DEF TasksInv, TaskTypes, Goes
<1>1. outcomes' \in [TaskIds -> Nat] /\ \A u \in TaskIds : u # t => outcomes'[u] = outcomes[u]
  BY <1>0 DEF TasksInv, TaskTypes, Goes
<1>1a. \/ outcomes'[t] = outcomes[t]
       \/ tasks[t].run = "settled" /\ r.run # "settled" /\ outcomes'[t] = outcomes[t] + 1
  BY <1>0 DEF TasksInv, TaskTypes, Goes
<1>2. \A u \in TaskIds : /\ tasks'[u].kind = tasks[u].kind /\ tasks'[u].chain = tasks[u].chain
                         /\ tasks'[u].linked = tasks[u].linked /\ tasks'[u].abort = tasks[u].abort
                         /\ InFlight(u)' <=> InFlight(u)
  BY <1>0 DEF Goes, InFlight
<1>3. TaskTypes'
  BY <1>0, <1>1 DEF TasksInv, TaskTypes, Goes
<1>4. InOrder'
  BY <1>2 DEF TasksInv, InOrder
<1>5. LifeOK'
  <2> SUFFICES ASSUME NEW u \in TaskIds
               PROVE /\ tasks'[u].kind = "none" => tasks'[u].run = "over" /\ outcomes'[u] = 0
                     /\ tasks'[u].kind \in {"spawn", "delegate", "handoff"} => u[2] = "t"
                     /\ tasks'[u].kind = "code" => u[2] = "j"
                     /\ InFlight(u)' => outcomes'[u] = 0
                     /\ tasks'[u].run = "settled" => /\ tasks'[u].kind = "spawn" /\ outcomes'[u] = 0
                                                     /\ tasks'[u].status \in Terminal \cup {"evicted"}
    BY DEF LifeOK
  <2>1. CASE u # t
    BY <1>0, <1>1, <1>2, <2>1 DEF TasksInv, LifeOK
  <2>2. CASE u = t
    BY <1>0, <1>1a, <1>2, <2>2 DEF TasksInv, LifeOK, Goes, InFlight
  <2> QED  BY <2>1, <2>2
<1>6. ChainSound'
  BY <1>2 DEF TasksInv, ChainSound
<1>7. OneOutcomeEvent'
  BY <1>0, <1>1, <1>1a DEF TasksInv, OneOutcomeEvent, LifeOK, Goes
<1>8. RowsOK'
  BY <1>0, <1>1, <1>1a DEF TasksInv, RowsOK, Goes
<1>9. LinksOK'
  BY <1>0, <1>2 DEF TasksInv, LinksOK, TaskRec
<1>10. StopReachesBelow'
  BY <1>0, <1>2 DEF TasksInv, StopReachesBelow, TaskRec
<1>11. SlotsOK'
  <2>1. CodeRuns' = CodeRuns
    BY <1>2 DEF CodeRuns
  <2> QED  BY <2>1 DEF TasksInv, SlotsOK, Goes
<1> QED  BY <1>3, <1>4, <1>5, <1>6, <1>7, <1>8, <1>9, <1>10, <1>11 DEF TasksInv

(* A signal is aborted, and those linked to it.                            *)
Aborts(S, why) ==
  /\ S \subseteq TaskIds /\ why \in {"stop", "timeout"} /\ tasks' = AbortWith(S, why)
  /\ taskRows' = taskRows /\ outcomes' = outcomes /\ acpActive' = acpActive
\* And after an abort: links are closed, so it reaches every depth.
LEMMA AbortsKeeps ==
  ASSUME TasksInv, NEW S, NEW why, Aborts(S, why)
  PROVE  TasksInv'
<1> DEFINE Hit(t) == InFlight(t) /\ tasks[t].abort = "no" /\ (t \in S \/ tasks[t].linked \cap S # {})
<1>0. /\ tasks \in [TaskIds -> TaskRec] /\ why \in {"stop", "timeout"}
      /\ \A t \in TaskIds : tasks'[t] = IF Hit(t) THEN [tasks[t] EXCEPT !.abort = why] ELSE tasks[t]
      /\ DOMAIN tasks' = TaskIds /\ tasks' = [t \in TaskIds |-> tasks'[t]]
  BY DEF TasksInv, TaskTypes, Aborts, AbortWith
<1> HIDE DEF Hit
<1>1. \A t \in TaskIds :
        /\ tasks'[t] \in TaskRec /\ tasks'[t].kind = tasks[t].kind /\ tasks'[t].chain = tasks[t].chain
        /\ tasks'[t].linked = tasks[t].linked /\ tasks'[t].run = tasks[t].run
        /\ tasks'[t].status = tasks[t].status /\ tasks'[t].abort = IF Hit(t) THEN why ELSE tasks[t].abort
  <2> TAKE t \in TaskIds
  <2>1. tasks[t] \in TaskRec
    BY <1>0
  <2>2. CASE Hit(t)
    BY <1>0, <2>1, <2>2 DEF TaskRec
  <2>3. CASE ~ Hit(t)
    BY <1>0, <2>1, <2>3
  <2> QED  BY <2>2, <2>3
<1>2. \A t \in TaskIds : InFlight(t)' <=> InFlight(t)
  BY <1>1 DEF InFlight
<1>3. TaskTypes'
  BY <1>0, <1>1 DEF TasksInv, TaskTypes, Aborts
<1>4. InOrder'
  BY <1>1 DEF TasksInv, InOrder
<1>5. LifeOK'
  BY <1>1, <1>2 DEF TasksInv, LifeOK, Aborts
<1>6. ChainSound'
  BY <1>1 DEF TasksInv, ChainSound
<1>7. OneOutcomeEvent'
  BY <1>1 DEF TasksInv, OneOutcomeEvent, Aborts
<1>8. RowsOK'
  BY <1>1 DEF TasksInv, RowsOK, Aborts, RowKey
<1>9. LinksOK'
  BY <1>0, <1>1 DEF TasksInv, LinksOK, TaskRec
<1>10. StopReachesBelow'
  <2> SUFFICES ASSUME NEW t \in TaskIds, InFlight(t), NEW c \in tasks[t].linked,
                      tasks'[c].abort # "no", tasks'[t].abort = "no"
               PROVE  FALSE
    BY <1>1, <1>2 DEF StopReachesBelow
  <2>1. c \in TaskIds /\ tasks[t].abort = "no"
    BY <1>0, <1>1 DEF TaskRec
  <2>2. tasks[c].abort = "no"
    BY <2>1 DEF TasksInv, StopReachesBelow
  <2>3. Hit(c) /\ ~ Hit(t)
    BY <1>0, <1>1, <2>1, <2>2
  <2>4. tasks[c].linked \subseteq tasks[t].linked
    BY DEF TasksInv, LinksOK
  <2> QED  BY <2>1, <2>3, <2>4 DEF Hit
<1>11. SlotsOK'
  <2>1. CodeRuns' = CodeRuns
    BY <1>1, <1>2 DEF CodeRuns
  <2> QED  BY <2>1 DEF TasksInv, SlotsOK, Aborts
<1> QED  BY <1>3, <1>4, <1>5, <1>6, <1>7, <1>8, <1>9, <1>10, <1>11 DEF TasksInv

(* A run ends: a spawned one settles its record and its row, a delegated   *)
(* one may leave a row, a coding agent gives its slot back.                *)
Ends(t, run, st) ==
  /\ t \in TaskIds /\ InFlight(t) /\ st \in Terminal /\ tasks' = [tasks EXCEPT ![t] = Ended(t, run, st)]
  /\ \/ /\ tasks[t].kind = "spawn" /\ run = "settled" /\ outcomes' = outcomes /\ acpActive' = acpActive
        /\ taskRows' = [taskRows EXCEPT ![RowKey(t)].status = st, ![RowKey(t)].by = t]
     \/ /\ tasks[t].kind \in {"delegate", "handoff"} /\ run = "over" /\ outcomes' = outcomes
        /\ taskRows' = taskRows \/ taskRows' = InsertRow(t, st)
        /\ acpActive' = acpActive
     \/ /\ tasks[t].kind = "code" /\ run = "over" /\ outcomes' = [outcomes EXCEPT ![t] = @ + 1]
        /\ taskRows' = taskRows /\ acpActive' = IF acpActive > 0 THEN acpActive - 1 ELSE 0
\* And after an end.
LEMMA EndsKeeps ==
  ASSUME TasksInv, NEW t, NEW run, NEW st, Ends(t, run, st)
  PROVE  TasksInv'
<1>0. /\ t \in TaskIds /\ tasks \in [TaskIds -> TaskRec] /\ outcomes[t] = 0
      /\ tasks'[t] = Ended(t, run, st) /\ \A u \in TaskIds : u # t => tasks'[u] = tasks[u]
  BY DEF TasksInv, TaskTypes, Ends, LifeOK
<1>1. /\ Ended(t, run, st) \in TaskRec /\ tasks'[t].kind = tasks[t].kind /\ tasks'[t].chain = << >>
      /\ tasks'[t].linked = {} /\ tasks'[t].run = run /\ tasks'[t].status = st /\ tasks'[t].abort = "no"
      /\ tasks[t].kind \in TaskKinds /\ tasks[t].linked \subseteq TaskIds
  <2>1. run \in {"settled", "over"} /\ st \in Terminal
    BY DEF Ends
  <2>2. tasks[t] \in TaskRec
    BY <1>0
  <2>3. tasks[t].kind \in TaskKinds /\ tasks[t].linked \subseteq TaskIds
    BY <2>2 DEF TaskRec
  <2>4. /\ Blank \in TaskRec /\ Blank.chain = << >> /\ Blank.linked = {} /\ Blank.abort = "no"
    BY DEF Blank, TaskRec, TaskKinds
  <2>5. /\ Ended(t, run, st) \in TaskRec /\ Ended(t, run, st).kind = tasks[t].kind
        /\ Ended(t, run, st).chain = Blank.chain /\ Ended(t, run, st).linked = Blank.linked
        /\ Ended(t, run, st).run = run /\ Ended(t, run, st).status = st
        /\ Ended(t, run, st).abort = Blank.abort
    BY <2>1, <2>3, <2>4 DEF Ended, TaskRec
  <2> QED  BY <1>0, <2>3, <2>4, <2>5
<1>1a. tasks' \in [TaskIds -> TaskRec]
  BY <1>0, <1>1 DEF Ends
<1>2. \A u \in TaskIds : tasks'[u].kind = tasks[u].kind
  BY <1>0, <1>1
<1>3. taskRows' \in [1..MaxTask -> RowRec]
  <2>1. RowRec = [status : Terminal \cup {"absent", "running"}, owner : TaskIds \cup {NoTask},
                  by : TaskIds \cup {NoTask}] /\ taskRows \in [1..MaxTask -> RowRec]
    BY DEF RowRec, TasksInv, TaskTypes
  <2>2. CASE tasks[t].kind = "spawn"
    <3>1. taskRows' = [taskRows EXCEPT ![RowKey(t)].status = st, ![RowKey(t)].by = t]
      BY <2>2 DEF Ends
    <3>2. \A n \in 1..MaxTask : taskRows'[n] =
            IF n = RowKey(t) THEN [taskRows[n] EXCEPT !.status = st, !.by = t] ELSE taskRows[n]
      BY <2>1, <3>1
    <3>3. \A n \in 1..MaxTask : [taskRows[n] EXCEPT !.status = st, !.by = t] \in RowRec
      <4> SUFFICES ASSUME NEW n \in 1..MaxTask
                   PROVE  [taskRows[n] EXCEPT !.status = st, !.by = t] \in RowRec
        OBVIOUS
      <4>1. taskRows[n] \in RowRec /\ st \in Terminal /\ t \in TaskIds
        BY <2>1, <1>0 DEF Ends
      <4> HIDE DEF TaskIds, Terminal
      <4> QED  BY <4>1 DEF RowRec
    <3>4. taskRows' = [n \in 1..MaxTask |-> taskRows'[n]]
      BY <2>1, <3>1
    <3> QED  BY <2>1, <3>2, <3>3, <3>4
  <2>3. CASE tasks[t].kind \in {"delegate", "handoff"}
    <3>1. t[2] = "t" /\ TaskTypes
      BY <1>0, <2>3 DEF TasksInv, LifeOK
    <3> QED  BY <1>0, <2>1, <2>3, <3>1, InsertKeeps DEF Ends
  <2>4. CASE tasks[t].kind = "code"
    BY <2>1, <2>4 DEF Ends
  <2> QED  BY <2>2, <2>3, <2>4 DEF Ends
<1>4. TaskTypes'
  BY <1>1a, <1>3 DEF TasksInv, TaskTypes, Ends
<1>5. InOrder'
  BY <1>2 DEF TasksInv, InOrder
<1>6. LifeOK'
  <2>1. \A u \in TaskIds : u # t => outcomes'[u] = outcomes[u]
    BY DEF Ends, TasksInv, TaskTypes
  <2>2. tasks[t].kind # "none"
    BY DEF Ends
  <2>3. run = "over" \/ (run = "settled" /\ tasks[t].kind = "spawn" /\ outcomes' = outcomes)
    BY DEF Ends
  <2>4. st \in Terminal
    BY DEF Ends
  <2> SUFFICES ASSUME NEW u \in TaskIds
               PROVE /\ tasks'[u].kind = "none" => tasks'[u].run = "over" /\ outcomes'[u] = 0
                     /\ tasks'[u].kind \in {"spawn", "delegate", "handoff"} => u[2] = "t"
                     /\ tasks'[u].kind = "code" => u[2] = "j"
                     /\ InFlight(u)' => outcomes'[u] = 0
                     /\ tasks'[u].run = "settled" => /\ tasks'[u].kind = "spawn" /\ outcomes'[u] = 0
                                                     /\ tasks'[u].status \in Terminal \cup {"evicted"}
    BY DEF LifeOK
  <2>5. CASE u # t
    BY <1>0, <2>1, <2>5 DEF TasksInv, LifeOK, InFlight
  <2>6. CASE u = t
    BY <1>0, <1>1, <2>2, <2>3, <2>4, <2>6 DEF TasksInv, LifeOK, InFlight
  <2> QED  BY <2>5, <2>6
<1>7. ChainSound'
  <2>1. Len(<< >>) = 0 /\ DOMAIN << >> = {} /\ 0 <= MaxDepth
    BY DelegationBounds
  <2> QED  BY <1>0, <1>1, <2>1 DEF TasksInv, ChainSound
<1>8. OneOutcomeEvent'
  <2>1. outcomes'[t] \in {0, 1} /\ \A u \in TaskIds : u # t => outcomes'[u] = outcomes[u]
    BY <1>0 DEF Ends, TasksInv, TaskTypes
  <2>2. st \in Terminal
    BY DEF Ends
  <2> QED  BY <1>0, <1>1, <2>1, <2>2 DEF TasksInv, OneOutcomeEvent
<1>9. RowsOK'
  <2> SUFFICES ASSUME NEW u \in TaskIds, u[2] = "t", outcomes'[u] = 1 \/ tasks'[u].run = "settled",
                      taskRows'[RowKey(u)].owner = u
               PROVE  taskRows'[RowKey(u)].status # "running"
    BY DEF RowsOK, RowKey
  <2>0. RowKey(u) \in 1..MaxTask /\ taskRows \in [1..MaxTask -> RowRec] /\ TaskTypes
    BY IdParts DEF RowKey, TasksInv, TaskTypes
  <2>1. CASE tasks[t].kind = "spawn"
    <3>1. /\ taskRows' = [taskRows EXCEPT ![RowKey(t)].status = st, ![RowKey(t)].by = t]
          /\ outcomes' = outcomes /\ st \in Terminal
      BY <2>1 DEF Ends
    <3>2. CASE RowKey(u) = RowKey(t)
      <4>1. taskRows'[RowKey(u)] = [taskRows[RowKey(u)] EXCEPT !.status = st, !.by = t]
        BY <2>0, <3>1, <3>2
      <4>2. taskRows'[RowKey(u)].status = st
        BY <2>0, <4>1 DEF RowRec
      <4> QED  BY <3>1, <4>2 DEF Terminal
    <3>3. CASE RowKey(u) # RowKey(t)
      <4>1. taskRows'[RowKey(u)] = taskRows[RowKey(u)] /\ u # t
        BY <2>0, <3>1, <3>3
      <4> QED  BY <1>0, <3>1, <4>1 DEF TasksInv, RowsOK
    <3> QED  BY <3>2, <3>3
  <2>2. CASE tasks[t].kind \in {"delegate", "handoff"}
    <3>1. /\ taskRows' = taskRows \/ taskRows' = InsertRow(t, st)
          /\ outcomes' = outcomes /\ st \in Terminal /\ run = "over"
      BY <2>2 DEF Ends
    <3>2. u # t
      BY <1>0, <1>1, <3>1
    <3>3. t[2] = "t"
      BY <1>0, <2>2 DEF TasksInv, LifeOK
    <3>4. taskRows'[RowKey(u)] = taskRows[RowKey(u)]
      <4>1. st \in Terminal \cup {"running"} /\ t \in TaskIds
        BY <1>0, <3>1
      <4>2. taskRows'[RowKey(u)].owner = u
        OBVIOUS
      <4>3. InsertRow(t, st)[RowKey(u)].owner = u => InsertRow(t, st)[RowKey(u)] = taskRows[RowKey(u)]
        BY <4>1, <2>0, <3>2, <3>3, InsertKeeps
      <4> QED  BY <3>1, <4>2, <4>3
    <3> QED  BY <1>0, <3>1, <3>2, <3>4 DEF TasksInv, RowsOK
  <2>3. CASE tasks[t].kind = "code"
    <3>1. t[2] = "j" /\ u # t
      BY <1>0, <2>3 DEF TasksInv, LifeOK
    <3>2. outcomes'[u] = outcomes[u] /\ taskRows' = taskRows
      BY <2>3, <3>1 DEF Ends, TasksInv, TaskTypes
    <3> QED  BY <1>0, <3>1, <3>2 DEF TasksInv, RowsOK
  <2> QED  BY <2>1, <2>2, <2>3 DEF Ends
<1>10. LinksOK'
  <2> SUFFICES ASSUME NEW u \in TaskIds, NEW c \in tasks'[u].linked
               PROVE  tasks'[c].kind # "none" /\ tasks'[c].linked \subseteq tasks'[u].linked
    BY DEF LinksOK
  <2>1. u # t /\ tasks'[u] = tasks[u]
    BY <1>0, <1>1
  <2>2. c \in TaskIds
    BY <1>0, <2>1 DEF TaskRec
  <2>3. tasks[c].kind # "none" /\ tasks[c].linked \subseteq tasks[u].linked
    BY <2>1 DEF TasksInv, LinksOK
  <2>4. tasks'[c].linked \subseteq tasks[c].linked
    BY <1>0, <1>1, <2>2
  <2> QED  BY <1>2, <2>1, <2>2, <2>3, <2>4
<1>11. StopReachesBelow'
  <2> SUFFICES ASSUME NEW u \in TaskIds, InFlight(u)', NEW c \in tasks'[u].linked, tasks'[c].abort # "no"
               PROVE  tasks'[u].abort # "no"
    BY DEF StopReachesBelow
  <2>1. u # t /\ c # t
    BY <1>1
  <2>2. c \in TaskIds
    BY <1>0, <2>1 DEF TaskRec
  <2> QED  BY <1>0, <2>1, <2>2 DEF TasksInv, StopReachesBelow, InFlight
<1>12. SlotsOK'
  <2>0. ~ InFlight(t)' /\ \A u \in TaskIds : u # t => (InFlight(u)' <=> InFlight(u))
    BY <1>0, <1>1 DEF InFlight, Ends
  <2>1. CASE tasks[t].kind = "code"
    <3>1. CodeRuns' = CodeRuns \ {t} /\ t \in CodeRuns
      BY <1>0, <1>2, <2>0, <2>1 DEF CodeRuns, Ends
    <3>2. Cardinality(CodeRuns) \in Nat /\ Cardinality(CodeRuns) # 0
      BY <3>1, FS_CardinalityType, FS_EmptySet DEF TasksInv, SlotsOK
    <3> QED  BY <2>1, <3>1, <3>2, FS_RemoveElement DEF TasksInv, SlotsOK, Ends
  <2>2. CASE tasks[t].kind # "code"
    <3>1. CodeRuns' = CodeRuns
      BY <1>0, <1>2, <2>0, <2>2 DEF CodeRuns
    <3> QED  BY <2>2, <3>1 DEF TasksInv, SlotsOK, Ends
  <2> QED  BY <2>1, <2>2
<1> QED  BY <1>4, <1>5, <1>6, <1>7, <1>8, <1>9, <1>10, <1>11, <1>12 DEF TasksInv

(* What the end of the process leaves of a record.                         *)
LEMMA RestartKeeps ==
  ASSUME TasksInv, NEW old, Restart(old)
  PROVE  TasksInv'
<1>0. /\ tasks \in [TaskIds -> TaskRec] /\ taskRows \in [1..MaxTask -> RowRec]
      /\ tasks' = [t \in TaskIds |-> Ended(t, "over", "lost")] /\ outcomes' = outcomes
  BY DEF TasksInv, TaskTypes, Restart
<1>1. ASSUME NEW t \in TaskIds
      PROVE  /\ tasks'[t] \in TaskRec /\ tasks'[t].kind = tasks[t].kind /\ tasks'[t].chain = << >>
             /\ tasks'[t].linked = {} /\ tasks'[t].run = "over" /\ tasks'[t].status = "lost"
  <2>1. Blank \in TaskRec /\ Blank.chain = << >> /\ Blank.linked = {}
    BY DEF Blank, TaskRec, TaskKinds
  <2>2. tasks[t].kind \in TaskKinds
    BY <1>0 DEF TaskRec
  <2> QED  BY <1>0, <2>1, <2>2 DEF Ended, TaskRec
<1>2. /\ taskRows' \in [1..MaxTask -> RowRec]
      /\ \A n \in 1..MaxTask : taskRows[n].status # "running" => taskRows'[n].status # "running"
  <2>1. \A n \in 1..MaxTask : /\ [taskRows[n] EXCEPT !.status = "killed"] \in RowRec
                              /\ [taskRows[n] EXCEPT !.status = "killed"].status = "killed"
                              /\ [taskRows[n] EXCEPT !.status = "killed"].owner = taskRows[n].owner
    <3> HIDE DEF TaskIds
    <3> QED  BY <1>0 DEF RowRec, Terminal
  <2>2. taskRows' = [n \in 1..MaxTask |-> IF n \in old THEN [taskRows[n] EXCEPT !.status = "killed"]
                                           ELSE taskRows[n]]
    BY DEF Restart
  <2> QED  BY <1>0, <2>1, <2>2
<1>3. \A n \in 1..MaxTask : taskRows'[n].owner = taskRows[n].owner
  <2>1. \A n \in 1..MaxTask : [taskRows[n] EXCEPT !.status = "killed"].owner = taskRows[n].owner
    BY <1>0 DEF RowRec
  <2>2. taskRows' = [n \in 1..MaxTask |-> IF n \in old THEN [taskRows[n] EXCEPT !.status = "killed"]
                                           ELSE taskRows[n]]
    BY DEF Restart
  <2> QED  BY <2>1, <2>2
<1>4. TaskTypes'
  BY <1>0, <1>1, <1>2 DEF TasksInv, TaskTypes, Restart
<1>5. InOrder'
  BY <1>1 DEF TasksInv, InOrder
<1>6. LifeOK'
  BY <1>0, <1>1 DEF TasksInv, LifeOK, InFlight
<1>7. ChainSound'
  <2>1. Len(<< >>) = 0 /\ DOMAIN << >> = {} /\ 0 <= MaxDepth
    BY DelegationBounds
  <2> QED  BY <1>1, <2>1 DEF ChainSound
<1>8. OneOutcomeEvent'
  BY <1>0, <1>1 DEF TasksInv, OneOutcomeEvent
<1>9. RowsOK'
  <2> SUFFICES ASSUME NEW t \in TaskIds, t[2] = "t", outcomes[t] = 1,
                      taskRows'[RowKey(t)].owner = t
               PROVE  taskRows'[RowKey(t)].status # "running"
    BY <1>0, <1>1 DEF RowsOK, RowKey
  <2>1. RowKey(t) \in 1..MaxTask
    BY IdParts DEF RowKey
  <2> QED  BY <1>2, <1>3, <2>1 DEF TasksInv, RowsOK
<1>10. LinksOK' /\ StopReachesBelow'
  BY <1>1 DEF LinksOK, StopReachesBelow
<1>11. SlotsOK'
  <2>1. CodeRuns' = {}
    BY <1>1 DEF CodeRuns, InFlight
  <2> QED  BY <2>1, FS_EmptySet DEF SlotsOK, Restart
<1> QED  BY <1>4, <1>5, <1>6, <1>7, <1>8, <1>9, <1>10, <1>11 DEF TasksInv

-----------------------------------------------------------------------------
(* The tools, one by one.                                                  *)

(* What a member knows of its caller: the chain, links and signal a task   *)
(* inherits.                                                               *)
LEMMA CallerFacts ==
  ASSUME TasksInv, NEW g, NEW c \in CallersIn(g), NEW w \in TeamWorkers, Admits(c, w)
  PROVE  /\ Append(ChainOf(c), w) \in Seq(TeamWorkers) /\ Len(Append(ChainOf(c), w)) <= MaxDepth
         /\ \A i, j \in DOMAIN Append(ChainOf(c), w) :
              Append(ChainOf(c), w)[i] = Append(ChainOf(c), w)[j] => i = j
         /\ LinkedTo(c) \subseteq TaskIds
         /\ \A d \in LinkedTo(c) : tasks[d].kind # "none" /\ tasks[d].linked \subseteq LinkedTo(c)
         /\ (\E d \in LinkedTo(c) : tasks[d].abort # "no") => AbortedAlready(c)
<1>1. c = NoTask \/ (c \in TaskIds /\ c # NoTask /\ tasks[c].run = "working")
  BY NoTaskIsNoTask DEF CallersIn
<1>2. tasks \in [TaskIds -> TaskRec]
  BY DEF TasksInv, TaskTypes
<1>3. ChainOf(c) \in Seq(TeamWorkers)
      /\ \A i, j \in DOMAIN ChainOf(c) : ChainOf(c)[i] = ChainOf(c)[j] => i = j
  <2>1. CASE c = NoTask
    BY <2>1 DEF ChainOf
  <2>2. CASE c # NoTask
    BY <1>1, <1>2, <2>2 DEF ChainOf, TaskRec, TasksInv, ChainSound
  <2> QED  BY <2>1, <2>2
<1>4. Len(ChainOf(c)) < MaxDepth /\ w \notin Range(ChainOf(c))
  BY DEF Admits
<1> DEFINE ch == ChainOf(c)
<1>5. /\ Append(ch, w) \in Seq(TeamWorkers) /\ Len(Append(ch, w)) = Len(ch) + 1
      /\ DOMAIN Append(ch, w) = 1..(Len(ch) + 1) /\ Append(ch, w)[Len(ch) + 1] = w
      /\ \A i \in 1..Len(ch) : Append(ch, w)[i] = ch[i]
      /\ DOMAIN ch = 1..Len(ch) /\ Len(ch) \in Nat
  BY <1>3
<1>6. \A i \in 1..Len(ch) : ch[i] # w
  BY <1>4, <1>5 DEF Range
<1> HIDE DEF ch
<1>7. \A i, j \in DOMAIN Append(ch, w) : Append(ch, w)[i] = Append(ch, w)[j] => i = j
  <2> SUFFICES ASSUME NEW i \in 1..(Len(ch) + 1), NEW j \in 1..(Len(ch) + 1),
                      Append(ch, w)[i] = Append(ch, w)[j]
               PROVE  i = j
    BY <1>5
  <2>1. CASE i \in 1..Len(ch) /\ j \in 1..Len(ch)
    BY <1>3, <1>5, <2>1 DEF ch
  <2>2. CASE i \notin 1..Len(ch) \/ j \notin 1..Len(ch)
    BY <1>5, <1>6, <2>2
  <2> QED  BY <2>1, <2>2
<1>8. Len(Append(ch, w)) <= MaxDepth
  BY <1>4, <1>5, DelegationBounds DEF ch
<1>9. CASE c = NoTask
  BY <1>5, <1>7, <1>8, <1>9 DEF ch, LinkedTo
<1>10. CASE c # NoTask
  <2>1. c \in TaskIds /\ tasks[c].run = "working" /\ InFlight(c) /\ tasks[c].linked \subseteq TaskIds
    BY <1>1, <1>2, <1>10 DEF InFlight, TaskRec
  <2>2. LinkedTo(c) = {c} \cup tasks[c].linked
    BY <1>10 DEF LinkedTo
  <2>3. tasks[c].kind # "none"
    BY <2>1 DEF TasksInv, LifeOK
  <2>4. \A d \in tasks[c].linked : tasks[d].kind # "none" /\ tasks[d].linked \subseteq tasks[c].linked
    BY <2>1 DEF TasksInv, LinksOK
  <2>5. (\E d \in LinkedTo(c) : tasks[d].abort # "no") => tasks[c].abort # "no"
    BY <2>1, <2>2 DEF TasksInv, StopReachesBelow
  <2> QED  BY <1>5, <1>7, <1>8, <1>10, <2>1, <2>2, <2>3, <2>4, <2>5 DEF ch, AbortedAlready
<1> QED  BY <1>9, <1>10

(* The record a task starts with.                                          *)
First(kind, ch, linked, ab) ==
  [Blank EXCEPT !.kind = kind, !.chain = ch, !.linked = linked, !.status = "running",
                !.run = "called", !.abort = ab]
\* It is a record of the kind, chain, links and signal it was made of.
LEMMA FirstIs ==
  ASSUME NEW kind \in TaskKinds, NEW ch \in Seq(TeamWorkers), NEW linked \in SUBSET TaskIds,
         NEW ab \in {"no", "stop"}
  PROVE  /\ First(kind, ch, linked, ab) \in TaskRec /\ First(kind, ch, linked, ab).kind = kind
         /\ First(kind, ch, linked, ab).chain = ch /\ First(kind, ch, linked, ab).linked = linked
         /\ First(kind, ch, linked, ab).run = "called" /\ First(kind, ch, linked, ab).abort = ab
<1>1. Blank \in TaskRec
  BY DEF Blank, TaskRec, TaskKinds
<1> QED  BY <1>1 DEF First, TaskRec

\* spawn_background_task is a beginning, linked to nobody.
LEMMA SpawnKeeps ==
  ASSUME TasksInv, NEW g, NEW c, NEW w \in TeamWorkers, Spawn(g, c, w)
  PROVE  TasksInv'
<1> DEFINE t == NextId(g, "t")
           ch == Append(ChainOf(c), w)
           r == First("spawn", ch, {}, "no")
<1>1. Fresh(t) /\ t[2] = "t"
  BY NextIdFresh DEF Spawn, TasksInv, NextId
<1>2. /\ Append(ChainOf(c), w) \in Seq(TeamWorkers) /\ Len(Append(ChainOf(c), w)) <= MaxDepth
      /\ \A i, j \in DOMAIN Append(ChainOf(c), w) :
           Append(ChainOf(c), w)[i] = Append(ChainOf(c), w)[j] => i = j
  BY CallerFacts DEF Spawn
<1>3. r \in TaskRec /\ r.kind = "spawn" /\ r.chain = Append(ChainOf(c), w) /\ r.linked = {} /\ r.run = "called"
  <2>1. "spawn" \in TaskKinds /\ {} \in SUBSET TaskIds
    BY DEF TaskKinds
  <2>2. ch \in Seq(TeamWorkers) /\ "no" \in {"no", "stop"}
    BY <1>2
  <2> HIDE DEF ch
  <2>3. \A x : x = First("spawn", ch, {}, "no") =>
          x \in TaskRec /\ x.kind = "spawn" /\ x.chain = ch /\ x.linked = {} /\ x.run = "called"
    BY <2>1, <2>2, FirstIs
  <2> QED  BY <2>3 DEF ch
<1>4. /\ tasks' = [tasks EXCEPT ![t] = r] /\ taskRows' = InsertRow(t, "running")
      /\ outcomes' = outcomes /\ acpActive' = acpActive
  BY DEF Spawn, Started, First
<1> HIDE DEF t, r, ch
<1>5. Begins(t, r)
  BY <1>1, <1>2, <1>3, <1>4 DEF Begins, ch
<1> QED  BY <1>5, BeginsKeeps

\* delegate_task and handoff_task are beginnings, linked to the caller.
LEMMA DelegateKeeps ==
  ASSUME TasksInv, NEW g, NEW c, NEW w \in TeamWorkers, NEW kind \in {"delegate", "handoff"},
         Delegate(g, c, w, kind)
  PROVE  TasksInv'
<1> DEFINE t == NextId(g, "t")
           ch == Append(ChainOf(c), w)
           ab == IF AbortedAlready(c) THEN "stop" ELSE "no"
           r == First(kind, ch, LinkedTo(c), ab)
<1>1. Fresh(t) /\ t[2] = "t"
  BY NextIdFresh DEF Delegate, TasksInv, NextId
<1>2. /\ Append(ChainOf(c), w) \in Seq(TeamWorkers) /\ Len(Append(ChainOf(c), w)) <= MaxDepth
      /\ \A i, j \in DOMAIN Append(ChainOf(c), w) :
           Append(ChainOf(c), w)[i] = Append(ChainOf(c), w)[j] => i = j
      /\ LinkedTo(c) \subseteq TaskIds
      /\ \A d \in LinkedTo(c) : tasks[d].kind # "none" /\ tasks[d].linked \subseteq LinkedTo(c)
      /\ (\E d \in LinkedTo(c) : tasks[d].abort # "no") => AbortedAlready(c)
  BY CallerFacts DEF Delegate
<1>3. ab \in {"no", "stop"} /\ (AbortedAlready(c) => ab # "no")
  OBVIOUS
<1>4. /\ r \in TaskRec /\ r.kind = kind /\ r.chain = ch /\ r.linked = LinkedTo(c)
      /\ r.run = "called" /\ r.abort = ab
  <2>1. kind \in TaskKinds /\ LinkedTo(c) \in SUBSET TaskIds
    BY <1>2 DEF TaskKinds
  <2>2. ch \in Seq(TeamWorkers)
    BY <1>2
  <2> HIDE DEF ab, ch
  <2>3. \A x : x = First(kind, ch, LinkedTo(c), ab) =>
          /\ x \in TaskRec /\ x.kind = kind /\ x.chain = ch /\ x.linked = LinkedTo(c)
          /\ x.run = "called" /\ x.abort = ab
    BY <1>3, <2>1, <2>2, FirstIs
  <2> QED  BY <2>3
<1>5. /\ tasks' = [tasks EXCEPT ![t] = r] /\ taskRows' = taskRows
      /\ outcomes' = outcomes /\ acpActive' = acpActive
  BY DEF Delegate, Started, First
<1> HIDE DEF t, r, ch, ab
<1>6. Begins(t, r)
  BY <1>1, <1>2, <1>3, <1>4, <1>5 DEF Begins, ch
<1> QED  BY <1>6, BeginsKeeps

\* code_agent is a beginning that takes a slot.
LEMMA CodeAgentKeeps ==
  ASSUME TasksInv, NEW g, CodeAgent(g)
  PROVE  TasksInv'
<1> DEFINE t == NextId(g, "j")
           r == [Blank EXCEPT !.kind = "code", !.status = "running", !.run = "called"]
<1>1. Fresh(t) /\ t[2] = "j"
  BY NextIdFresh DEF CodeAgent, TasksInv, NextId
<1>2. Blank \in TaskRec /\ Blank.chain = << >> /\ Blank.linked = {}
  BY DEF Blank, TaskRec, TaskKinds
<1>3. /\ r \in TaskRec /\ r.kind = "code" /\ r.chain = << >> /\ r.linked = {} /\ r.run = "called"
  BY <1>2 DEF TaskRec, TaskKinds
<1>4. Len(<< >>) = 0 /\ DOMAIN << >> = {} /\ 0 <= MaxDepth
  BY DelegationBounds
<1>5. /\ tasks' = [tasks EXCEPT ![t] = r] /\ taskRows' = taskRows
      /\ outcomes' = outcomes /\ acpActive' = acpActive + 1
  BY DEF CodeAgent
<1> HIDE DEF t, r
<1>6. Begins(t, r)
  BY <1>1, <1>3, <1>4, <1>5 DEF Begins
<1> QED  BY <1>6, BeginsKeeps

\* A ceiling and a stopped turn are aborts.
LEMMA AbortStepsKeep ==
  ASSUME TasksInv, (\E t \in TaskIds : TaskTimeout(t)) \/ (\E g \in Registries : TurnStopped(g))
  PROVE  TasksInv'
<1>1. ASSUME NEW t \in TaskIds, TaskTimeout(t) PROVE TasksInv'
  <2>1. Aborts({t}, "timeout")
    BY <1>1 DEF TaskTimeout, Aborts
  <2> QED  BY <2>1, AbortsKeeps
<1>2. ASSUME NEW g \in Registries, TurnStopped(g) PROVE TasksInv'
  <2> DEFINE S == {t \in TaskIds : t[1] = g /\ tasks[t].kind = "delegate" /\ tasks[t].linked = {}}
  <2>1. Aborts(S, "stop")
    BY <1>2 DEF TurnStopped, Aborts
  <2> QED  BY <2>1, AbortsKeeps
<1> QED  BY <1>1, <1>2

\* A runner's start, the news of an end and an eviction are changes of stage.
LEMMA GoingStepsKeep ==
  ASSUME TasksInv, NEW t \in TaskIds,
         RunnerStarts(t) \/ SpawnReports(t) \/ (\E g \in Registries : EvictTerminal(g, t))
  PROVE  TasksInv'
<1>0. tasks[t] \in TaskRec
  BY DEF TasksInv, TaskTypes
<1>1. CASE RunnerStarts(t)
  <2> DEFINE r == [tasks[t] EXCEPT !.run = "working"]
  <2>1. /\ r \in TaskRec /\ r.kind = tasks[t].kind /\ r.chain = tasks[t].chain /\ r.linked = tasks[t].linked
        /\ r.abort = tasks[t].abort /\ r.run = "working" /\ r.status = tasks[t].status
    BY <1>0 DEF TaskRec
  <2>2. tasks' = [tasks EXCEPT ![t] = r] /\ tasks[t].run = "called"
    BY <1>1 DEF RunnerStarts
  <2>3. tasks[t].kind # "none" /\ outcomes' = outcomes /\ taskRows' = taskRows /\ acpActive' = acpActive
    BY <1>1 DEF RunnerStarts, TasksInv, LifeOK
  <2> HIDE DEF r
  <2>4. Goes(t, r)
    BY <2>1, <2>2, <2>3 DEF Goes, InFlight
  <2> QED  BY <2>4, GoesKeeps
<1>2. CASE SpawnReports(t)
  <2> DEFINE r == [tasks[t] EXCEPT !.run = "over"]
  <2>1. /\ r \in TaskRec /\ r.kind = tasks[t].kind /\ r.chain = tasks[t].chain /\ r.linked = tasks[t].linked
        /\ r.abort = tasks[t].abort /\ r.run = "over" /\ r.status = tasks[t].status
    BY <1>0 DEF TaskRec
  <2>2. tasks' = [tasks EXCEPT ![t] = r] /\ tasks[t].run = "settled"
    BY <1>2 DEF SpawnReports
  <2>3. /\ outcomes' = [outcomes EXCEPT ![t] = @ + 1] /\ taskRows' = taskRows /\ acpActive' = acpActive
    BY <1>2 DEF SpawnReports
  <2> HIDE DEF r
  <2>4. Goes(t, r)
    BY <2>1, <2>2, <2>3 DEF Goes, InFlight
  <2> QED  BY <2>4, GoesKeeps
<1>3. CASE \E g \in Registries : EvictTerminal(g, t)
  <2> DEFINE r == [tasks[t] EXCEPT !.status = "evicted"]
  <2>1. /\ r \in TaskRec /\ r.kind = tasks[t].kind /\ r.chain = tasks[t].chain /\ r.linked = tasks[t].linked
        /\ r.abort = tasks[t].abort /\ r.run = tasks[t].run /\ r.status = "evicted"
    BY <1>0 DEF TaskRec
  <2>2. /\ tasks' = [tasks EXCEPT ![t] = r] /\ outcomes' = outcomes /\ taskRows' = taskRows
        /\ acpActive' = acpActive
    BY <1>3 DEF EvictTerminal
  <2>3. tasks[t].kind = "none" => tasks[t].run = "over"
    BY DEF TasksInv, LifeOK
  <2> HIDE DEF r
  <2>4. Goes(t, r)
    BY <2>1, <2>2, <2>3 DEF Goes, InFlight
  <2> QED  BY <2>4, GoesKeeps
<1> QED  BY <1>1, <1>2, <1>3

\* The three ways a run ends are ends.
LEMMA EndStepsKeep ==
  ASSUME TasksInv, NEW t \in TaskIds, NEW ok \in BOOLEAN,
         DelegateEnds(t, ok) \/ CodeEnds(t, ok) \/ SpawnSettles(t, ok)
  PROVE  TasksInv'
<1> DEFINE st == OutcomeOf(t, ok)
<1>0. st \in Terminal
  BY DEF OutcomeOf, Terminal
<1>1. CASE DelegateEnds(t, ok)
  <2>1. Ends(t, "over", st)
    BY <1>0, <1>1 DEF DelegateEnds, MayEnd, Ends
  <2> QED  BY <2>1, EndsKeeps
<1>2. CASE CodeEnds(t, ok)
  <2>1. Ends(t, "over", st)
    BY <1>0, <1>2 DEF CodeEnds, MayEnd, Ends
  <2> QED  BY <2>1, EndsKeeps
<1>3. CASE SpawnSettles(t, ok)
  <2>1. Ends(t, "settled", st)
    BY <1>0, <1>3 DEF SpawnSettles, MayEnd, Ends
  <2> QED  BY <2>1, EndsKeeps
<1> QED  BY <1>1, <1>2, <1>3

\* Nothing changes that the invariant speaks of.
LEMMA TasksRest ==
  ASSUME TasksInv, UNCHANGED <<tasks, taskRows, outcomes, acpActive>>
  PROVE  TasksInv'
<1>1. TaskTypes' /\ InOrder' /\ LifeOK' /\ ChainSound' /\ OneOutcomeEvent'
  BY DEF TasksInv, TaskTypes, InOrder, LifeOK, InFlight, ChainSound, OneOutcomeEvent
<1>2. RowsOK' /\ LinksOK' /\ StopReachesBelow' /\ SlotsOK'
  BY DEF TasksInv, RowsOK, RowKey, LinksOK, StopReachesBelow, InFlight, SlotsOK, CodeRuns
<1> QED  BY <1>1, <1>2 DEF TasksInv

\* The initial states satisfy the invariant.
LEMMA TasksStart == TasksInit => TasksInv
<1> SUFFICES ASSUME TasksInit PROVE TasksInv
  OBVIOUS
<1>1. /\ Blank \in TaskRec /\ Blank.chain = << >> /\ Blank.linked = {} /\ Blank.kind = "none"
      /\ Blank.run = "over" /\ Blank.abort = "no"
  BY DEF Blank, TaskRec, TaskKinds
<1>2. \A t \in TaskIds : tasks[t] = Blank /\ outcomes[t] = 0
  BY DEF TasksInit
<1>3. TaskTypes
  <2>1. tasks \in [TaskIds -> TaskRec]
    BY <1>1 DEF TasksInit
  <2>2. taskRows \in [1..MaxTask -> RowRec]
    BY DEF TasksInit, RowRec
  <2> QED  BY <2>1, <2>2 DEF TasksInit, TaskTypes
<1>4. InOrder /\ LifeOK /\ OneOutcomeEvent /\ RowsOK /\ LinksOK /\ StopReachesBelow
  BY <1>1, <1>2 DEF InOrder, LifeOK, InFlight, OneOutcomeEvent, RowsOK, LinksOK, StopReachesBelow
<1>5. ChainSound
  <2>1. Len(<< >>) = 0 /\ DOMAIN << >> = {} /\ 0 <= MaxDepth
    BY DelegationBounds
  <2> QED  BY <1>1, <1>2, <2>1 DEF ChainSound
<1>6. SlotsOK
  <2>1. CodeRuns = {}
    BY <1>1, <1>2 DEF CodeRuns
  <2> QED  BY <2>1, FS_EmptySet DEF SlotsOK, TasksInit
<1> QED  BY <1>3, <1>4, <1>5, <1>6 DEF TasksInv

\* Every step keeps it.
LEMMA TasksStep == TasksInv /\ [TasksNext]_taskVars => TasksInv'
<1> SUFFICES ASSUME TasksInv, [TasksNext]_taskVars PROVE TasksInv'
  OBVIOUS
<1>1. ASSUME NEW g \in Registries,
             \/ NewThreadEntry(g) \/ ForgetThreadEntry(g)
             \/ \E w \in TeamWorkers : NotifyTeammate(g, w)
      PROVE  TasksInv'
  BY <1>1, TasksRest DEF NewThreadEntry, ForgetThreadEntry, NotifyTeammate
<1>2. ASSUME NEW g \in Registries, CodeAgent(g) PROVE TasksInv'
  BY <1>2, CodeAgentKeeps
<1>3. ASSUME NEW g \in Registries, NEW w \in TeamWorkers, NEW c \in TaskIds \cup {NoTask},
             Spawn(g, c, w) \/ \E k \in {"delegate", "handoff"} : Delegate(g, c, w, k)
      PROVE  TasksInv'
  BY <1>3, SpawnKeeps, DelegateKeeps
<1>4. ASSUME NEW old \in SUBSET (1..MaxTask), Restart(old) PROVE TasksInv'
  BY <1>4, RestartKeeps
<1>5. CASE UNCHANGED taskVars
  BY <1>5, TasksRest DEF taskVars
<1> QED  BY <1>1, <1>2, <1>3, <1>4, <1>5, AbortStepsKeep, GoingStepsKeep, EndStepsKeep DEF TasksNext

(* A delegation of any depth, over any registries, workers and processes:  *)
(* chains have no loop and keep their bound, an agent hears once of an     *)
(* end and after the row has it, a stop reaches every task below, and the  *)
(* slots of coding agents are those that run (task-registry.ts, the        *)
(* delegation tools of src/src/team/src/tools).                            *)
THEOREM TasksAreSound == AgentsSpec => []TasksSound
<1>1. AgentsInit => TasksInv
  BY TasksStart DEF AgentsInit
<1>2. TasksInv /\ [AgentsNext]_allVars => TasksInv'
  <2>1. [AgentsNext]_allVars => [TasksNext]_taskVars
    BY DEF AgentsNext, StepTasks, StepMcp, StepBrowser, StepDevice, StepVault, Rest, allVars
  <2> QED  BY <2>1, TasksStep
<1>3. TasksInv => TasksSound
  BY DEF TasksInv, TasksSound, RowsOK, RowSettledBeforeNews, SlotsOK, SlotsMatchAgents, CodeRuns
<1> QED  BY <1>1, <1>2, <1>3, PTL DEF AgentsSpec

-----------------------------------------------------------------------------
(* MCP servers: a client of the map is a child that is up.                 *)

McpInv ==
  /\ kids \in [McpOps -> [McpNames -> {"none", "connecting", "up", "stray", "dead"}]]
  /\ clients \in [McpNames -> McpOps \cup {NoOp}]
  /\ ListedIsUp

\* The initial states satisfy the invariant.
LEMMA McpStart == McpInit => McpInv
BY DEF McpInit, McpInv, ListedIsUp, Connected

(* What connects anew was not connected; what a restart closes is dropped. *)
LEMMA ConnectsKeeps ==
  ASSUME McpInv, NEW o \in McpOps, OpConnects(o)
  PROVE  McpInv'
<1>1. /\ kids' = [p \in McpOps |-> [n \in McpNames |->
                    IF p = o /\ n \in Spawned(o) THEN "connecting"
                    ELSE IF n \in Closing(o) /\ clients[n] = p THEN "dead" ELSE kids[p][n]]]
      /\ clients' = [n \in McpNames |-> IF n \in Closing(o) THEN NoOp ELSE clients[n]]
  BY DEF OpConnects
<1>2. \A n \in McpNames : n \in Spawned(o) => clients'[n] = NoOp
  BY <1>1 DEF Spawned, Connected
<1>3. /\ kids' \in [McpOps -> [McpNames -> {"none", "connecting", "up", "stray", "dead"}]]
      /\ clients' \in [McpNames -> McpOps \cup {NoOp}]
  BY <1>1 DEF McpInv
<1>4. ListedIsUp'
  <2> SUFFICES ASSUME NEW n \in McpNames, clients'[n] # NoOp
               PROVE  kids'[clients'[n]][n] = "up"
    BY DEF ListedIsUp, Connected
  <2>1. n \notin Closing(o) /\ n \notin Spawned(o) /\ clients'[n] = clients[n]
    BY <1>1, <1>2
  <2>2. clients[n] \in McpOps /\ kids[clients[n]][n] = "up"
    BY <2>1 DEF McpInv, ListedIsUp, Connected
  <2> QED  BY <1>1, <2>1, <2>2
<1> QED  BY <1>3, <1>4 DEF McpInv

\* Every step of the connectors keeps it.
LEMMA McpStep == McpInv /\ [McpNext]_mcpVars => McpInv'
<1> SUFFICES ASSUME McpInv, [McpNext]_mcpVars PROVE McpInv'
  OBVIOUS
<1> DEFINE States == {"none", "connecting", "up", "stray", "dead"}
<1>1. CASE UNCHANGED <<kids, clients>>
  BY <1>1 DEF McpInv, ListedIsUp, Connected
<1>2. ASSUME NEW o \in McpOps, NEW n \in McpNames, KidUp(o, n) PROVE McpInv'
  BY <1>2 DEF KidUp, McpInv, ListedIsUp, Connected
<1>3. ASSUME NEW o \in McpOps, NEW n \in McpNames, KidRefuses(o, n) \/ KidHangs(o, n) PROVE McpInv'
  <2>1. PICK left \in {"dead", "stray"} : KidFails(o, n, left)
    BY <1>3 DEF KidRefuses, KidHangs
  <2> QED  BY <2>1 DEF KidFails, McpInv, ListedIsUp, Connected
<1>4. ASSUME NEW o \in McpOps, NEW n \in McpNames, KidDies(o, n) PROVE McpInv'
  BY <1>4 DEF KidDies, DropsEntry, McpInv, ListedIsUp, Connected
<1>5. CASE McpCloses
  BY <1>5 DEF McpCloses, McpInv, ListedIsUp, Connected
<1>6. ASSUME NEW o \in McpOps, OpConnects(o) PROVE McpInv'
  BY <1>6, ConnectsKeeps
<1>7. ASSUME NEW o \in McpOps, OpSettles(o) \/ OpBridges(o) \/ \E how \in {"boot", "reload", "restart"} : OpBegins(o, how)
      PROVE  McpInv'
  BY <1>1, <1>7 DEF OpSettles, OpBridges, OpBegins
<1>8. ASSUME NEW n \in McpNames, ConfigEdited(n) \/ AuthChanges(n) PROVE McpInv'
  BY <1>1, <1>8 DEF ConfigEdited, AuthChanges
<1>9. CASE UNCHANGED mcpVars
  BY <1>1, <1>9 DEF mcpVars
<1> QED  BY <1>2, <1>3, <1>4, <1>5, <1>6, <1>7, <1>8, <1>9 DEF McpNext

-----------------------------------------------------------------------------
(* Browser sessions: the active page is a page of the session.             *)

BrowserRec == [up : BOOLEAN, pages : SUBSET Nat, active : Nat, stealth : BOOLEAN]
BrowserInv ==
  /\ browsers \in [1..MaxBrowsers -> BrowserRec] /\ opened \in Nat
  /\ ActiveExists

\* The initial states satisfy the invariant.
LEMMA BrowserStart == BrowserInit => BrowserInv
BY DEF BrowserInit, BrowserInv, BrowserRec, NoBrowser, ActiveExists

(* One browser changes, and its active page is among its pages.            *)
LEMMA BrowserChanges ==
  ASSUME BrowserInv, NEW b, NEW r \in BrowserRec, r.active # 0 => r.active \in r.pages,
         browsers' = [browsers EXCEPT ![b] = r], opened' \in Nat
  PROVE  BrowserInv'
BY DEF BrowserInv, ActiveExists

(* A page is opened in a browser.                                          *)
LEMMA OpenedPage ==
  ASSUME NEW old \in BrowserRec, NEW k \in Nat, NEW r,
         r = [old EXCEPT !.pages = @ \cup {k}, !.active = k]
  PROVE  r \in BrowserRec /\ r.active = k /\ k \in r.pages
<1>1. old.pages \cup {k} \in SUBSET Nat
  BY DEF BrowserRec
<1> QED  BY <1>1 DEF BrowserRec

\* Every step of the browser server keeps it.
LEMMA BrowserStep == BrowserInv /\ [BrowserNext]_browserVars => BrowserInv'
<1> SUFFICES ASSUME BrowserInv, [BrowserNext]_browserVars PROVE BrowserInv'
  OBVIOUS
<1>0. /\ \A b \in 1..MaxBrowsers : /\ browsers[b] \in BrowserRec
                                   /\ browsers[b].active # 0 => browsers[b].active \in browsers[b].pages
      /\ \A p \in PageIds : p \in Nat
      /\ browsers \in [1..MaxBrowsers -> BrowserRec] /\ opened \in Nat
  BY DEF BrowserInv, ActiveExists, PageIds
<1>1. CASE UNCHANGED <<browsers, opened>>
  BY <1>1 DEF BrowserInv, ActiveExists
<1>2. ASSUME NEW c \in ToolCalls, Launches(c) PROVE BrowserInv'
  <2> DEFINE r == [NoBrowser EXCEPT !.up = TRUE]
  <2>1. r \in BrowserRec /\ r.active = 0
    BY DEF NoBrowser, BrowserRec
  <2>2. browsers' = [browsers EXCEPT ![SessionStarted + 1] = r] /\ opened' = opened
    BY <1>2 DEF Launches
  <2> HIDE DEF r
  <2> QED  BY <1>0, <2>1, <2>2, BrowserChanges
<1>3. ASSUME NEW c \in ToolCalls, Connects(c) PROVE BrowserInv'
  <2> DEFINE k == opened + 1
             r == [NoBrowser EXCEPT !.up = TRUE, !.pages = {k}, !.active = k]
  <2>0. k \in Nat
    BY <1>0
  <2>1. browsers' = [browsers EXCEPT ![SessionStarted + 1] = r] /\ opened' = k
    BY <1>3 DEF Connects
  <2> HIDE DEF k
  <2>2. NoBrowser \in BrowserRec /\ {k} \in SUBSET Nat
    BY <2>0 DEF NoBrowser, BrowserRec
  <2>3. r \in BrowserRec /\ r.active \in r.pages
    BY <2>0, <2>2 DEF BrowserRec
  <2> HIDE DEF r
  <2> QED  BY <2>0, <2>1, <2>3, BrowserChanges
<1>4. ASSUME NEW c \in ToolCalls, PageOpens(c) PROVE BrowserInv'
  <2> DEFINE b == calls[c].b
             k == opened + 1
             r == [browsers[b] EXCEPT !.pages = @ \cup {k}, !.active = k]
  <2>0. k \in Nat
    BY <1>0
  <2>1. opened' = k /\ browsers' = [browsers EXCEPT ![b].pages = @ \cup {k}, ![b].active = k]
    BY <1>4 DEF PageOpens
  <2> HIDE DEF k
  <2>2. CASE b \in 1..MaxBrowsers
    <3>1. browsers' = [browsers EXCEPT ![b] = r]
      BY <1>0, <2>1, <2>2
    <3>2. browsers[b] \in BrowserRec
      BY <1>0, <2>2
    <3> HIDE DEF b
    <3>3. \A x : x = r => x \in BrowserRec /\ x.active = k /\ k \in x.pages
      BY <2>0, <3>2, OpenedPage
    <3> HIDE DEF r
    <3>4. r \in BrowserRec /\ r.active \in r.pages /\ opened' \in Nat
      BY <2>0, <2>1, <3>3
    <3> QED  BY <3>1, <3>4, BrowserChanges
  <2>3. CASE b \notin 1..MaxBrowsers
    BY <1>0, <2>0, <2>1, <2>3 DEF BrowserInv, ActiveExists
  <2> QED  BY <2>2, <2>3
<1>5. ASSUME NEW c \in ToolCalls, CloseEnds(c) PROVE BrowserInv'
  <2>1. browsers' = [browsers EXCEPT ![calls[c].b].up = FALSE] /\ opened' = opened
    BY <1>5 DEF CloseEnds
  <2>2. ASSUME NEW b \in 1..MaxBrowsers
        PROVE  browsers'[b] \in BrowserRec /\ browsers'[b].active = browsers[b].active
               /\ browsers'[b].pages = browsers[b].pages
    BY <1>0, <2>1 DEF BrowserRec
  <2> QED  BY <1>0, <2>1, <2>2 DEF BrowserInv, ActiveExists
<1>6. ASSUME NEW c \in ToolCalls, ClosePageEnds(c) PROVE BrowserInv'
  <2> DEFINE b == calls[c].b
             p == calls[c].page
             r == [browsers[b] EXCEPT !.pages = @ \ {p}, !.active = NextActive(b, p)]
  <2>1. browsers' = [browsers EXCEPT ![b].pages = @ \ {p}, ![b].active = NextActive(b, p)] /\ opened' = opened
    BY <1>6 DEF ClosePageEnds
  <2>2. CASE b \in 1..MaxBrowsers
    <3> DEFINE left == browsers[b].pages \ {p}
    <3>1. left \subseteq Nat
      BY <1>0, <2>2 DEF BrowserRec
    <3>2. left # {} => \E q \in left : \A x \in left : q <= x
      BY <3>1, LeastNumber
    <3>3. NextActive(b, p) \in Nat /\ (NextActive(b, p) # 0 => NextActive(b, p) \in left)
      <4>1. CASE browsers[b].active # p
        BY <1>0, <2>2, <4>1 DEF NextActive, BrowserRec
      <4>2. CASE browsers[b].active = p /\ browsers[b].pages \subseteq {p}
        BY <4>2 DEF NextActive
      <4>3. CASE browsers[b].active = p /\ ~ (browsers[b].pages \subseteq {p})
        <5>1. NextActive(b, p) = CHOOSE q \in left : \A x \in left : q <= x
          BY <4>3 DEF NextActive
        <5>2. left # {}
          BY <4>3
        <5> QED  BY <3>1, <3>2, <5>1, <5>2
      <4> QED  BY <4>1, <4>2, <4>3
    <3>4. r \in BrowserRec /\ (r.active # 0 => r.active \in r.pages)
      BY <1>0, <2>2, <3>3 DEF BrowserRec
    <3>5. browsers' = [browsers EXCEPT ![b] = r]
      BY <1>0, <2>1, <2>2
    <3> HIDE DEF r
    <3> QED  BY <1>0, <2>1, <3>4, <3>5, BrowserChanges
  <2>3. CASE b \notin 1..MaxBrowsers
    BY <1>0, <2>1, <2>3 DEF BrowserInv, ActiveExists
  <2> QED  BY <2>2, <2>3
<1>7. ASSUME NEW s \in Sids, NEW p \in PageIds, SwitchPage(s, p) PROVE BrowserInv'
  <2>1. /\ browsers' = [browsers EXCEPT ![browserSess[s]].active = p] /\ opened' = opened
        /\ p \in browsers[browserSess[s]].pages
    BY <1>7 DEF SwitchPage, HasPage
  <2>2. ASSUME NEW b \in 1..MaxBrowsers
        PROVE  /\ browsers'[b] \in BrowserRec /\ browsers'[b].pages = browsers[b].pages
               /\ browsers'[b].active = browsers[b].active \/ browsers'[b].active \in browsers[b].pages
    BY <1>0, <2>1 DEF BrowserRec
  <2> QED  BY <1>0, <2>1, <2>2 DEF BrowserInv, ActiveExists
<1>8. ASSUME NEW s \in Sids, Stealth(s) PROVE BrowserInv'
  <2>1. browsers' = [browsers EXCEPT ![browserSess[s]].stealth = TRUE] /\ opened' = opened
    BY <1>8 DEF Stealth
  <2>2. ASSUME NEW b \in 1..MaxBrowsers
        PROVE  browsers'[b] \in BrowserRec /\ browsers'[b].active = browsers[b].active
               /\ browsers'[b].pages = browsers[b].pages
    BY <1>0, <2>1 DEF BrowserRec
  <2> QED  BY <1>0, <2>1, <2>2 DEF BrowserInv, ActiveExists
<1>9. ASSUME NEW c \in ToolCalls, NEW s \in Sids,
             \/ LaunchBegins(c, s) \/ NewPageBegins(c, s) \/ CloseBegins(c, s)
             \/ \E p \in PageIds : ClosePageBegins(c, s, p) \/ MarkBegins(c, s, p)
                                   \/ \E tool \in PageTools : UseBegins(c, s, p, tool)
      PROVE  BrowserInv'
  BY <1>1, <1>9 DEF LaunchBegins, NewPageBegins, CloseBegins, ClosePageBegins, MarkBegins, UseBegins
<1>10. ASSUME NEW c \in ToolCalls, LaunchFails(c) \/ MarkEnds(c) \/ UseEnds(c) \/ ActNavigates(c)
       PROVE  BrowserInv'
  BY <1>1, <1>10 DEF LaunchFails, MarkEnds, UseEnds, ActNavigates
<1>11. ASSUME NEW s \in Sids, NEW p \in PageIds, Snapshot(s, p) PROVE BrowserInv'
  BY <1>1, <1>11 DEF Snapshot
<1>12. ASSUME NEW P, ClearMarkers(P) PROVE BrowserInv'
  BY <1>1, <1>12 DEF ClearMarkers
<1>13. ASSUME NEW b \in 1..MaxBrowsers, NEW p \in PageIds, Navigates(b, p) \/ ElementAppears(b, p)
       PROVE  BrowserInv'
  BY <1>1, <1>13 DEF Navigates, ElementAppears
<1>14. ASSUME NEW m \in Slots, CleanupStale(m) PROVE BrowserInv'
  BY <1>1, <1>14 DEF CleanupStale
<1>15. CASE UNCHANGED browserVars
  BY <1>1, <1>15 DEF browserVars
<1> QED  BY <1>2, <1>3, <1>4, <1>5, <1>6, <1>7, <1>8, <1>9, <1>10, <1>11, <1>12, <1>13, <1>14, <1>15
         DEF BrowserNext

-----------------------------------------------------------------------------
(* The vault's daemon.  One process or export at a time makes the first    *)
(* root certificate, and until it is made nothing holds one.               *)

ServerTypes ==
  /\ procs \in [Pids -> {"none", "checked", "making", "serving", "gone"}]
  /\ servesCert \in [Pids -> Nat] /\ certs \in Nat /\ dbCert \in Nat
OneCert ==
  /\ \A x, y \in maker : x = y
  /\ maker # {} => dbCert = 0
  /\ caFile \in {0, dbCert}
  /\ \A p \in Pids : servesCert[p] \in {0, dbCert} /\ (procs[p] = "serving" => servesCert[p] # 0)
ServerInv == ServerTypes /\ ServingIsTracked /\ OneCert

\* The initial states satisfy the invariant.
LEMMA ServerStart0 == ServerInit => ServerInv
BY DEF ServerInit, ServerInv, ServerTypes, ServingIsTracked, Serving, OneCert

(* A start that may go on finds no daemon serving.                         *)
LEMMA NoneServes ==
  ASSUME ServingIsTracked, ~ Breathing(pidFile)
  PROVE  Serving = {}
BY DEF ServingIsTracked, Serving, Breathing

\* Every step of the commands and the daemons keeps it.
LEMMA ServerStep ==
  ASSUME CertMadeAlone, ServerInv, [ServerNext]_serverVars
  PROVE  ServerInv'
<1>0. ServerTypes /\ ServingIsTracked /\ OneCert
  BY DEF ServerInv
<1> DEFINE Stages == {"none", "checked", "making", "serving", "gone"}
(* Nothing serves afterwards that did not, and no certificate moves.       *)
<1>1. ASSUME procs' \in [Pids -> Stages], \A p \in Pids : procs'[p] = "serving" => procs[p] = "serving",
             UNCHANGED <<servesCert, dbCert, certs, maker>>, caFile' \in {0, dbCert},
             (\A p \in Pids : procs'[p] # "serving") \/ pidFile' = pidFile
      PROVE  ServerInv'
  BY <1>0, <1>1 DEF ServerInv, ServerTypes, ServingIsTracked, Serving, OneCert
<1>2. ASSUME NEW p \in Pids, ServerStart(p) \/ \E r \in 1..MaxRuns : RunStarts(r, p) PROVE ServerInv'
  <2>1. /\ procs' = [procs EXCEPT ![p] = "checked"] /\ ~ Breathing(pidFile)
        /\ UNCHANGED <<servesCert, dbCert, certs, maker, caFile>>
    BY <1>2 DEF ServerStart, RunStarts, Forks, MayStart, certVars
  <2>2. \A q \in Pids : procs'[q] # "serving"
    BY <1>0, <2>1, NoneServes DEF Serving, ServerTypes
  <2> QED  BY <1>0, <1>1, <2>1, <2>2 DEF ServerTypes, OneCert
<1>3. ASSUME NEW p \in Pids, ChildFails(p) \/ PortTaken(p) \/ ServerCrash(p) PROVE ServerInv'
  <2>1. /\ procs' = [procs EXCEPT ![p] = "gone"] /\ pidFile' = pidFile
        /\ UNCHANGED <<servesCert, dbCert, certs, maker, caFile>>
    BY <1>3 DEF ChildFails, PortTaken, ServerCrash, certVars
  <2> QED  BY <1>0, <1>1, <2>1 DEF ServerTypes, OneCert
<1>4. ASSUME NEW p \in Pids, LoadsCert(p) PROVE ServerInv'
  <2>1. procs' = [procs EXCEPT ![p] = "making"] /\ pidFile' = pidFile /\ UNCHANGED <<dbCert, certs, caFile>>
    BY <1>4 DEF LoadsCert
  <2>2. ServingIsTracked' /\ \A q \in Pids : procs'[q] = "serving" => procs[q] = "serving" /\ q # p
    BY <1>0, <2>1 DEF ServerTypes, ServingIsTracked, Serving
  <2>3. CASE NeedsCert
    <3>1. maker = {} /\ maker' = {p} /\ servesCert' = servesCert /\ dbCert = 0
      BY <1>4, <2>3 DEF LoadsCert, MayMake, NeedsCert
    <3> QED  BY <1>0, <2>1, <2>2, <3>1 DEF ServerInv, ServerTypes, OneCert
  <2>4. CASE ~ NeedsCert
    <3>1. maker' = maker /\ servesCert' = [servesCert EXCEPT ![p] = dbCert]
      BY <1>4, <2>4 DEF LoadsCert
    <3> QED  BY <1>0, <2>1, <2>2, <3>1 DEF ServerInv, ServerTypes, OneCert
  <2> QED  BY <2>3, <2>4
<1>5. ASSUME NEW p \in Pids, MakesCert(p) PROVE ServerInv'
  <2>1. /\ p \in maker /\ certs' = certs + 1 /\ dbCert' = certs + 1 /\ maker' = maker \ {p}
        /\ servesCert' = [servesCert EXCEPT ![p] = certs + 1] /\ UNCHANGED <<procs, pidFile, caFile>>
    BY <1>5 DEF MakesCert
  <2>2. /\ dbCert = 0 /\ caFile = 0 /\ \A q \in Pids : servesCert[q] = 0 /\ procs[q] # "serving"
        /\ maker' = {} /\ certs + 1 \in Nat
    BY <1>0, <2>1 DEF OneCert, ServerTypes
  <2> QED  BY <1>0, <2>1, <2>2 DEF ServerInv, ServerTypes, ServingIsTracked, Serving, OneCert
<1>6. ASSUME NEW p \in Pids, Listens(p) PROVE ServerInv'
  <2>1. /\ procs' = [procs EXCEPT ![p] = "serving"] /\ pidFile' = p /\ servesCert[p] # 0 /\ Serving = {}
        /\ UNCHANGED <<servesCert, dbCert, certs, maker, caFile>>
    BY <1>6 DEF Listens, Publishes, certVars
  <2> QED  BY <1>0, <2>1 DEF ServerInv, ServerTypes, ServingIsTracked, Serving, OneCert
<1>7. CASE ServerStop
  <2>1. /\ pidFile \in Serving /\ procs' = [procs EXCEPT ![pidFile] = "gone"]
        /\ UNCHANGED <<servesCert, dbCert, certs, maker, caFile>>
    BY <1>7 DEF ServerStop, Terminates, certVars
  <2>2. \A q \in Pids : procs'[q] # "serving"
    BY <1>0, <2>1 DEF ServerTypes, ServingIsTracked, Serving
  <2> QED  BY <1>0, <1>1, <2>1, <2>2 DEF ServerTypes, OneCert, Serving
<1>8. CASE StopFindsNone \/ ServerStatus
  <2>1. procs' = procs /\ ~ Breathing(pidFile) /\ UNCHANGED <<servesCert, dbCert, certs, maker, caFile>>
    BY <1>8 DEF StopFindsNone, ServerStatus, StatusRemoves, certVars
  <2>2. \A q \in Pids : procs'[q] # "serving"
    BY <1>0, <2>1, NoneServes DEF Serving
  <2> QED  BY <1>0, <1>1, <2>1, <2>2 DEF ServerTypes, OneCert
<1>9. CASE ExportsCert
  <2>1. procs' = procs /\ pidFile' = pidFile /\ caFile' = dbCert /\ UNCHANGED <<servesCert, dbCert, certs, maker>>
    BY <1>9 DEF ExportsCert
  <2> QED  BY <1>0, <1>1, <2>1 DEF ServerTypes
<1>10. CASE ExportStarts
  <2>1. /\ procs' = procs /\ pidFile' = pidFile /\ maker = {} /\ maker' = {0} /\ dbCert = 0
        /\ UNCHANGED <<servesCert, dbCert, certs, caFile>>
    BY <1>10 DEF ExportStarts, MayMake, NeedsCert
  <2> QED  BY <1>0, <2>1 DEF ServerInv, ServerTypes, ServingIsTracked, Serving, OneCert
<1>11. CASE ExportMakes
  <2>1. /\ 0 \in maker /\ certs' = certs + 1 /\ dbCert' = certs + 1 /\ caFile' = certs + 1 /\ maker' = maker \ {0}
        /\ UNCHANGED <<procs, pidFile, servesCert>>
    BY <1>11 DEF ExportMakes
  <2>2. /\ dbCert = 0 /\ \A q \in Pids : servesCert[q] = 0 /\ procs[q] # "serving"
        /\ maker' = {} /\ certs + 1 \in Nat
    BY <1>0, <2>1 DEF OneCert, ServerTypes
  <2> QED  BY <1>0, <2>1, <2>2 DEF ServerInv, ServerTypes, ServingIsTracked, Serving, OneCert
<1>12. ASSUME NEW r \in 1..MaxRuns, RunFinds(r) \/ RunWaited(r) \/ RunLaunches(r) PROVE ServerInv'
  <2>1. /\ procs' = procs /\ pidFile' = pidFile /\ UNCHANGED <<servesCert, dbCert, certs, maker>>
        /\ caFile' \in {caFile, dbCert}
    BY <1>12 DEF RunFinds, RunWaited, RunLaunches, certVars
  <2> QED  BY <1>0, <1>1, <2>1 DEF ServerTypes, OneCert
<1>13. CASE UNCHANGED serverVars
  <2>1. procs' = procs /\ pidFile' = pidFile /\ UNCHANGED <<servesCert, dbCert, certs, maker, caFile>>
    BY <1>13 DEF serverVars
  <2> QED  BY <1>0, <1>1, <2>1 DEF ServerTypes, OneCert
<1> QED  BY <1>2, <1>3, <1>4, <1>5, <1>6, <1>7, <1>8, <1>9, <1>10, <1>11, <1>12, <1>13 DEF ServerNext

-----------------------------------------------------------------------------
(* For any servers and operations on them, sessions and tool calls, daemon *)
(* processes and commands: a listed MCP client is a child that is up, an   *)
(* active page is a page of its session, a daemon that serves is the one   *)
(* the pid file names, and the exported certificate is the one it signs    *)
(* with, provided no two processes make the first certificate at once      *)
(* (client-manager.ts, browser.ts, vault-command.ts, ca-store.ts).         *)
THEOREM ToolsAreSound ==
  ASSUME CertMadeAlone
  PROVE  AgentsSpec => []ToolsSound
<1> DEFINE Inv == McpInv /\ BrowserInv /\ ServerInv
<1>1. AgentsInit => Inv
  BY McpStart, BrowserStart, ServerStart0 DEF AgentsInit
<1>2. Inv /\ [AgentsNext]_allVars => Inv'
  <2> SUFFICES ASSUME Inv, [AgentsNext]_allVars PROVE Inv'
    OBVIOUS
  <2>1. [McpNext]_mcpVars
    BY DEF AgentsNext, StepTasks, StepMcp, StepBrowser, StepDevice, StepVault, Rest, allVars
  <2>2. [BrowserNext]_browserVars
    BY DEF AgentsNext, StepTasks, StepMcp, StepBrowser, StepDevice, StepVault, Rest, allVars
  <2>3. [ServerNext]_serverVars
    BY DEF AgentsNext, StepTasks, StepMcp, StepBrowser, StepDevice, StepVault, Rest, allVars
  <2> QED  BY <2>1, <2>2, <2>3, McpStep, BrowserStep, ServerStep
<1>3. Inv => ToolsSound
  BY DEF McpInv, BrowserInv, ServerInv, OneCert, ToolsSound, CaTrusted, Serving
<1> QED  BY <1>1, <1>2, <1>3, PTL DEF AgentsSpec
=============================================================================
