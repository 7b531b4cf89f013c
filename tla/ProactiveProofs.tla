--------------------------- MODULE ProactiveProofs ---------------------------
(***************************************************************************)
(* Theorems about the proactive engine, for every value of the constants:  *)
(* the pipeline of a fire with its lock and its retry queue, the reload of *)
(* the configuration, missed fires, what fires record, and the editors of  *)
(* the schedules with their prompt files.                                  *)
(***************************************************************************)
EXTENDS MCProactive, FiniteSetTheorems, TLAPS

-----------------------------------------------------------------------------
(* The pipeline.                                                           *)

(* What a run's phase says of its other fields: a run that has begun has a *)
(* job, an unfinished one no result, one that has not reached delivery no  *)
(* text; copies beyond the acknowledged one were reported as failed; and   *)
(* the lock flag of its object is set only inside the try block.           *)
RunOK(r) ==
  /\ pc[r] # "idle" => job[r] \in Jobs
  /\ pc[r] # "done" => result[r] = "none"
  /\ pc[r] \in {"idle", "gate", "agent", "quiet", "script"} => text[r] = None
  /\ pc[r] \in {"embed", "send", "sent"} => text[r] \in Contents
  /\ pc[r] \in {"send", "sent"} => hop[r] \in 1..Len(Route)
  /\ pc[r] \notin {"sent", "done"} => Len(got[r]) <= unacked[r]
  /\ Len(got[r]) <= 1 + unacked[r]
  /\ obj[r].locked => pc[r] \in Holding

RunsOK == \A r \in Runs : RunOK(r)

(* The object the store holds for a job is of a run of that job.           *)
StoreOK == \A j \in Jobs : cur[j] # None => job[cur[j]] = j /\ pc[cur[j]] # "idle"

ExecInv == TypeOK /\ RunsOK /\ StoreOK

(* The targets a delivery walks.                                           *)
LEMMA RouteType == Route \in Seq(Targets) /\ Len(Route) \in Nat \ {0}
BY ExecutorAssumption DEF Route

\* The executor part of the invariant holds before the first run.
LEMMA ExecStart == Init => ExecInv
<1> SUFFICES ASSUME Init PROVE ExecInv
  OBVIOUS
<1>1. RunTypeOK /\ LockTypeOK
  BY ExecutorAssumption DEF Init, RunTypeOK, LockTypeOK, Phases, Results, Unlocked
<1>2. QueueTypeOK /\ StoreTypeOK
  <2>1. \A S : << >> \in Seq(S)
    OBVIOUS
  <2> QED  BY <2>1 DEF Init, QueueTypeOK, StoreTypeOK
<1>3. RunsOK /\ StoreOK
  BY DEF Init, RunsOK, RunOK, StoreOK, Unlocked
<1> QED  BY <1>1, <1>2, <1>3 DEF ExecInv, TypeOK

(* Writing one entry of a function.                                        *)
LEMMA UpdateType ==
  ASSUME NEW S, NEW T, NEW f \in [S -> T], NEW a, NEW v \in T
  PROVE  [f EXCEPT ![a] = v] \in [S -> T]
OBVIOUS

(* The two ways a step of a run treats the job states.                     *)
LEMMA LockKept ==
  ASSUME LockTypeOK, NEW r \in Runs, NEW j, NEW o \in [locked : BOOLEAN, since : Runs \cup {None}],
         SetJobState(r, j, o)
  PROVE  LockTypeOK'
BY DEF LockTypeOK, SetJobState

\* setJobState of a run on its own job leaves each job with the object of a run of that job.
LEMMA StoreKept ==
  ASSUME LockTypeOK, StoreOK, NEW r \in Runs, NEW j \in Jobs, NEW o, SetJobState(r, j, o),
         job'[r] = j, pc'[r] # "idle",
         \A s \in Runs \ {r} : job'[s] = job[s] /\ (pc[s] # "idle" => pc'[s] # "idle"),
         \A i \in Jobs : cur[i] = r => i = j
  PROVE  StoreOK'
BY ExecutorAssumption DEF LockTypeOK, SetJobState, StoreOK

(* A step of run r: what it leaves alone.                                  *)
Frame(r) ==
  /\ UNCHANGED <<job, src, old, dnd, loop, crashes>>
  /\ \A s \in Runs \ {r} :
       /\ pc'[s] = pc[s] /\ text'[s] = text[s] /\ result'[s] = result[s] /\ hop'[s] = hop[s]
       /\ got'[s] = got[s] /\ unacked'[s] = unacked[s] /\ obj'[s] = obj[s]

Move(r) ==
  /\ RunTypeOK' /\ RunOK(r)' /\ Frame(r) /\ pc'[r] # "idle"
  /\ UNCHANGED <<obj, cur>> \/ SetJobState(r, job[r], Unlocked)

\* A step of a run is one of the moves listed in Move: which fields of which run it may touch.
LEMMA RunMoves ==
  ASSUME TypeOK, RunsOK, NEW r \in Runs, RunStep(r)
  PROVE  Move(r)
<1> USE ExecutorAssumption, RouteType
<1>1. /\ RunTypeOK /\ RunOK(r) /\ LockTypeOK
  BY DEF TypeOK, RunsOK
<1> USE DEF RunTypeOK, RunOK, Frame, SetJobState, Release, Finish, Unlocked, LockTypeOK, Phases, Results, Holding
<1>2. CASE Gate(r)
  <2>1. RunTypeOK'
    BY <1>1, <1>2, ZenonT(60) DEF Gate
  <2>2. Frame(r) /\ pc'[r] # "idle"
    BY <1>1, <1>2 DEF Gate
  <2>3. RunOK(r)'
    BY <1>1, <1>2 DEF Gate
  <2>4. UNCHANGED <<obj, cur>> \/ SetJobState(r, job[r], Unlocked)
    BY <1>1, <1>2 DEF Gate
  <2> HIDE DEF RunTypeOK, RunOK, Frame, SetJobState
  <2> QED  BY <2>1, <2>2, <2>3, <2>4 DEF Move
<1>3. CASE Answer(r)
  <2>1. RunTypeOK'
    <3>1. pc' \in [Runs -> Phases] /\ result' \in [Runs -> Results]
      BY <1>1, <1>3, ZenonT(60) DEF Answer, ExecuteConditional, DeliverResponse
    <3>2. text' \in [Runs -> Contents \cup {None}]
      BY <1>1, <1>3 DEF Answer, ExecuteConditional, DeliverResponse
    <3>3. hop' \in [Runs -> Nat] /\ unacked' \in [Runs -> Nat]
      BY <1>1, <1>3 DEF Answer, ExecuteConditional, DeliverResponse
    <3>4. got' = got /\ job' = job /\ src' = src
      BY <1>1, <1>3 DEF Answer, ExecuteConditional, DeliverResponse
    <3> QED  BY <1>1, <3>1, <3>2, <3>3, <3>4
  <2>2. Frame(r) /\ pc'[r] # "idle"
    BY <1>1, <1>3 DEF Answer, ExecuteConditional, DeliverResponse
  <2>3. RunOK(r)'
    BY <1>1, <1>3 DEF Answer, ExecuteConditional, DeliverResponse
  <2>4. UNCHANGED <<obj, cur>> \/ SetJobState(r, job[r], Unlocked)
    BY <1>1, <1>3 DEF Answer, ExecuteConditional, DeliverResponse
  <2> HIDE DEF RunTypeOK, RunOK, Frame, SetJobState
  <2> QED  BY <2>1, <2>2, <2>3, <2>4 DEF Move
<1>4. CASE ExecuteNoAgent(r)
  <2>1. RunTypeOK'
    <3>1. pc' \in [Runs -> Phases] /\ result' \in [Runs -> Results]
      <4>1. \E p \in Phases : pc' = [pc EXCEPT ![r] = p]
        BY <1>4 DEF ExecuteNoAgent, DeliverResponse
      <4>2. result' = result \/ \E x \in Results : result' = [result EXCEPT ![r] = x]
        BY <1>4 DEF ExecuteNoAgent, DeliverResponse
      <4>3. pc' \in [Runs -> Phases]
        BY <1>1, <4>1
      <4>4. CASE result' = result
        BY <1>1, <4>3, <4>4
      <4>5. CASE \E x \in Results : result' = [result EXCEPT ![r] = x]
        BY <1>1, <4>3, <4>5, UpdateType
      <4> QED  BY <4>2, <4>4, <4>5
    <3>2. text' \in [Runs -> Contents \cup {None}]
      BY <1>1, <1>4 DEF ExecuteNoAgent, DeliverResponse
    <3>3. hop' \in [Runs -> Nat] /\ unacked' \in [Runs -> Nat]
      BY <1>1, <1>4 DEF ExecuteNoAgent, DeliverResponse
    <3>4. got' = got /\ job' = job /\ src' = src
      BY <1>1, <1>4 DEF ExecuteNoAgent, DeliverResponse
    <3> QED  BY <1>1, <3>1, <3>2, <3>3, <3>4
  <2>2. Frame(r) /\ pc'[r] # "idle"
    BY <1>1, <1>4 DEF ExecuteNoAgent, DeliverResponse
  <2>3. RunOK(r)'
    BY <1>1, <1>4 DEF ExecuteNoAgent, DeliverResponse
  <2>4. UNCHANGED <<obj, cur>> \/ SetJobState(r, job[r], Unlocked)
    BY <1>1, <1>4 DEF ExecuteNoAgent, DeliverResponse
  <2> HIDE DEF RunTypeOK, RunOK, Frame, SetJobState
  <2> QED  BY <2>1, <2>2, <2>3, <2>4 DEF Move
<1>5. CASE QuietAnswer(r)
  BY <1>1, <1>5 DEF QuietAnswer, Move
<1>6. CASE Embed(r)
  <2>1. RunTypeOK'
    <3>1. pc' \in [Runs -> Phases] /\ result' \in [Runs -> Results]
      BY <1>1, <1>6, ZenonT(60) DEF Embed
    <3>2. text' \in [Runs -> Contents \cup {None}]
      BY <1>1, <1>6 DEF Embed
    <3>3. hop' \in [Runs -> Nat] /\ unacked' \in [Runs -> Nat]
      <4>1. (hop' = hop \/ hop' = [hop EXCEPT ![r] = 1]) /\ unacked' = unacked
        BY <1>6 DEF Embed
      <4>2. [hop EXCEPT ![r] = 1] \in [Runs -> Nat]
        BY <1>1
      <4> QED  BY <1>1, <4>1, <4>2
    <3>4. got' = got /\ job' = job /\ src' = src
      BY <1>1, <1>6 DEF Embed
    <3> QED  BY <1>1, <3>1, <3>2, <3>3, <3>4
  <2>2. Frame(r) /\ pc'[r] # "idle"
    BY <1>1, <1>6 DEF Embed
  <2>3. RunOK(r)'
    BY <1>1, <1>6 DEF Embed
  <2>4. UNCHANGED <<obj, cur>> \/ SetJobState(r, job[r], Unlocked)
    BY <1>1, <1>6 DEF Embed
  <2> HIDE DEF RunTypeOK, RunOK, Frame, SetJobState
  <2> QED  BY <2>1, <2>2, <2>3, <2>4 DEF Move
<1>7. CASE Accept(r)
  BY <1>1, <1>7 DEF Accept, Move, lockVars
<1>8. CASE SendOk(r)
  BY <1>1, <1>8 DEF SendOk, Move
<1>9. CASE SendError(r)
  <2>1. RunTypeOK'
    <3>1. pc' \in [Runs -> Phases] /\ result' \in [Runs -> Results]
      BY <1>1, <1>9, ZenonT(60) DEF SendError
    <3>2. text' \in [Runs -> Contents \cup {None}]
      BY <1>1, <1>9 DEF SendError
    <3>3. hop' \in [Runs -> Nat] /\ unacked' \in [Runs -> Nat]
      <4>1. /\ hop' = hop \/ hop' = [hop EXCEPT ![r] = hop[r] + 1]
            /\ \/ unacked' = [unacked EXCEPT ![r] = unacked[r] + 1]
               \/ unacked' = [unacked EXCEPT ![r] = unacked[r] + 0]
        BY <1>9 DEF SendError
      <4>2. hop[r] + 1 \in Nat /\ unacked[r] + 1 \in Nat /\ unacked[r] + 0 \in Nat
        BY <1>1
      <4>3. /\ [hop EXCEPT ![r] = hop[r] + 1] \in [Runs -> Nat]
            /\ [unacked EXCEPT ![r] = unacked[r] + 1] \in [Runs -> Nat]
            /\ [unacked EXCEPT ![r] = unacked[r] + 0] \in [Runs -> Nat]
        BY <1>1, <4>2, UpdateType
      <4> QED  BY <1>1, <4>1, <4>3, ZenonT(60)
    <3>4. got' = got /\ job' = job /\ src' = src
      BY <1>1, <1>9 DEF SendError
    <3> QED  BY <1>1, <3>1, <3>2, <3>3, <3>4
  <2>2. Frame(r) /\ pc'[r] # "idle"
    BY <1>1, <1>9 DEF SendError
  <2>3. RunOK(r)'
    BY <1>1, <1>9 DEF SendError
  <2>4. UNCHANGED <<obj, cur>> \/ SetJobState(r, job[r], Unlocked)
    BY <1>1, <1>9 DEF SendError
  <2> HIDE DEF RunTypeOK, RunOK, Frame, SetJobState
  <2> QED  BY <2>1, <2>2, <2>3, <2>4 DEF Move
<1> QED  BY <1>2, <1>3, <1>4, <1>5, <1>6, <1>7, <1>8, <1>9 DEF RunStep

(* What a step of a run keeps.                                             *)
LEMMA MoveKeeps ==
  ASSUME TypeOK, RunsOK, StoreOK, NEW r \in Runs, Move(r), job[r] \in Jobs
  PROVE  RunTypeOK' /\ LockTypeOK' /\ RunsOK' /\ StoreOK'
<1>1. RunTypeOK' /\ RunOK(r)' /\ Frame(r) /\ pc'[r] # "idle"
  BY DEF Move
<1>2. RunsOK'
  <2> SUFFICES ASSUME NEW s \in Runs, s # r PROVE RunOK(s)'
    BY <1>1 DEF RunsOK
  <2> QED  BY <1>1 DEF RunsOK, RunOK, Frame
<1>3. CASE UNCHANGED <<obj, cur>>
  <2>1. LockTypeOK'
    BY <1>3 DEF TypeOK, LockTypeOK
  <2>2. StoreOK'
    BY <1>1, <1>3 DEF StoreOK, Frame, TypeOK, LockTypeOK
  <2> QED  BY <1>1, <1>2, <2>1, <2>2
<1>4. CASE SetJobState(r, job[r], Unlocked)
  <2>1. Unlocked \in [locked : BOOLEAN, since : Runs \cup {None}]
    BY DEF Unlocked
  <2>2. LockTypeOK'
    BY <1>4, <2>1, LockKept DEF TypeOK
  <2>3. \A i \in Jobs : cur[i] = r => i = job[r]
    BY ExecutorAssumption DEF StoreOK
  <2>4. \A s \in Runs \ {r} : job'[s] = job[s] /\ (pc[s] # "idle" => pc'[s] # "idle")
    BY <1>1 DEF Frame
  <2>5. job'[r] = job[r]
    BY <1>1 DEF Frame
  <2>6. StoreOK'
    BY <1>1, <1>4, <2>3, <2>4, <2>5, StoreKept DEF TypeOK
  <2> QED  BY <1>1, <1>2, <2>2, <2>6
<1> QED  BY <1>3, <1>4 DEF Move

-----------------------------------------------------------------------------
(* The retries.                                                            *)

(* The retries of the task of run r that ran to their end, and those the   *)
(* loop has recorded in the task.                                          *)
Started     == {s \in Runs : pc[s] # "idle"}
Tried(r)    == {s \in Runs : src[s] = r /\ pc[s] = "done" /\ result[s] # "killed"}
Recorded(r) == Tried(r) \ {loop.run}

(* A task's count of attempts is no more than the retries recorded in it,  *)
(* its run has ended, and the loop waits for a retry of the task at the    *)
(* head of its list.                                                       *)
Task == [id : Runs, job : Jobs, attempts : Nat, due : BOOLEAN]

TaskCovered(t) == pc[t.id] = "done" /\ t.attempts <= Cardinality(Recorded(t.id))
AllCovered     == \A t \in Task : t \in Range(queue) => TaskCovered(t)

LoopOK ==
  /\ \A x \in Runs : x \in Range(loop.due) => pc[x] # "idle"
  /\ \A s \in Runs : s = loop.run =>
       /\ loop.due # << >> /\ src[s] = Head(loop.due)
       /\ pc[s] # "idle" /\ result[s] # "killed"

ExecutorInv ==
  /\ ExecInv /\ IsFiniteSet(Started) /\ AllCovered /\ LoopOK
  /\ FailureNotForgotten

(* What is done stays done.                                                *)
Later ==
  \A s \in Runs : pc[s] = "done" =>
    pc'[s] = "done" /\ result'[s] = result[s] /\ src'[s] = src[s] /\ text'[s] = text[s]

(* The sets of retries are finite and grow.                                *)
LEMMA TriedGrows ==
  ASSUME Later, NEW r, IsFiniteSet(Started')
  PROVE  /\ Tried(r) \subseteq Tried(r)' /\ IsFiniteSet(Tried(r)') /\ IsFiniteSet(Tried(r))
         /\ Cardinality(Tried(r)) \in Nat /\ Cardinality(Tried(r)') \in Nat
         /\ Cardinality(Tried(r)) <= Cardinality(Tried(r)')
<1>1. Tried(r) \subseteq Tried(r)' /\ Tried(r)' \subseteq Started'
  BY DEF Later, Tried, Started
<1>2. IsFiniteSet(Tried(r)') /\ IsFiniteSet(Tried(r)) 
  BY <1>1, FS_Subset
<1>3. Cardinality(Tried(r)) <= Cardinality(Tried(r)')
  BY <1>1, <1>2, FS_Subset
<1> QED  BY <1>1, <1>2, <1>3, FS_CardinalityType

(* Only one run is started by a step.                                      *)
LEMMA StartedFinite ==
  ASSUME IsFiniteSet(Started), NEW r, \A s \in Runs \ {r} : pc'[s] = pc[s]
  PROVE  IsFiniteSet(Started')
<1>1. Started' \subseteq Started \cup {r}
  BY DEF Started
<1>2. IsFiniteSet(Started \cup {r})
  BY FS_AddElement
<1> QED  BY <1>1, <1>2, FS_Subset

(* A failed text that is not forgotten before a step is not after it, when *)
(* the step takes a task off the queue only into `dropped` or because its  *)
(* retries are over, and queues a text whose last send fails.              *)
Retried(r) ==
  (\E s \in Runs : src[s] = r /\ result[s] = "delivered") \/ Cardinality(Tried(r)) >= MaxAttempts

\* What a step must do to the queue so that no failed delivery is forgotten.
LEMMA FailureKept ==
  ASSUME TypeOK, RunsOK, FailureNotForgotten, Later, IsFiniteSet(Started'), dropped \subseteq dropped',
         \A r \in Ids(queue) : r \in Ids(queue') \/ r \in dropped' \/ Retried(r)',
         \A r \in Runs : pc[r] # "done" /\ result'[r] = "error" /\ text'[r] # None
                           => r \in Ids(queue')
  PROVE  FailureNotForgotten'
<1> SUFFICES ASSUME NEW r \in Runs, result'[r] = "error", text'[r] # None, r \notin dropped'
             PROVE  r \in Ids(queue') \/ Retried(r)'
  BY DEF FailureNotForgotten, Retried, Tried
<1>1. CASE pc[r] # "done"
  BY <1>1
<1>2. CASE pc[r] = "done"
  <2>1. r \in Ids(queue) \/ Retried(r)
    BY <1>2 DEF FailureNotForgotten, Retried, Tried, Later
  <2>2. CASE Retried(r)
    <3>1. CASE \E s \in Runs : src[s] = r /\ result[s] = "delivered"
      <4>1. PICK s \in Runs : src[s] = r /\ result[s] = "delivered"
        BY <3>1
      <4>2. pc[s] = "done"
        BY <4>1 DEF RunsOK, RunOK
      <4> QED  BY <4>1, <4>2 DEF Later, Retried
    <3>2. CASE Cardinality(Tried(r)) >= MaxAttempts
      <4>1. /\ Cardinality(Tried(r)) \in Nat /\ Cardinality(Tried(r)') \in Nat
            /\ Cardinality(Tried(r)) <= Cardinality(Tried(r)')
        BY TriedGrows
      <4>2. Cardinality(Tried(r)') >= MaxAttempts
        BY <3>2, <4>1, ExecutorAssumption
      <4> QED  BY <4>2 DEF Retried
    <3> QED  BY <2>2, <3>1, <3>2 DEF Retried
  <2> QED  BY <2>1, <2>2
<1> QED  BY <1>1, <1>2

-----------------------------------------------------------------------------
(* What a step of the pipeline does to the retry queue: its tasks are those *)
(* of the queue before it, perhaps with another count that the recorded     *)
(* retries cover, or the task of a run that has just failed; and a task     *)
(* that leaves it was evicted or has been retried.                          *)
QueueStep ==
  /\ queue' \in Seq(Task)
  /\ dropped \subseteq dropped' /\ dropped' \subseteq Runs
  /\ \A x \in Ids(queue) : x \in Ids(queue') \/ x \in dropped' \/ Retried(x)'

\* A step that leaves the retry queue alone is a step of the queue.
LEMMA SameQueue ==
  ASSUME QueueTypeOK, StoreTypeOK, UNCHANGED <<queue, dropped>>
  PROVE  QueueStep
BY DEF QueueTypeOK, StoreTypeOK, QueueStep, Task

(* A failed delivery is queued, the oldest task making room if need be.    *)
LEMMA EnqueueStep ==
  ASSUME QueueTypeOK, StoreTypeOK, NEW r \in Runs, job[r] \in Jobs, Enqueue(r)
  PROVE  /\ QueueStep /\ r \in Ids(queue')
         /\ \A k \in DOMAIN queue' : (queue'[k].id = r /\ queue'[k].attempts = 0)
                                     \/ \E i \in DOMAIN queue : queue'[k] = queue[i]
<1> DEFINE task == [id |-> r, job |-> job[r], attempts |-> 0, due |-> FALSE]
           full == Len(queue) >= MaxQueue
           base == IF full THEN Tail(queue) ELSE queue
<1>1. queue \in Seq(Task) /\ Len(queue) \in Nat /\ DOMAIN queue = 1..Len(queue)
  BY DEF QueueTypeOK, Task
<1>2. full => Len(queue) >= 1 /\ queue # << >>
  BY <1>1, ExecutorAssumption
<1>3. base \in Seq(Task) /\ \A k \in 1..Len(base) : \E i \in 1..Len(queue) : base[k] = queue[i]
  <2>1. CASE full
    <3>1. /\ Tail(queue) \in Seq(Task) /\ Len(Tail(queue)) = Len(queue) - 1
          /\ \A k \in 1..Len(Tail(queue)) : Tail(queue)[k] = queue[k + 1]
      BY <1>1, <1>2, <2>1
    <3>2. \A k \in 1..Len(Tail(queue)) : k + 1 \in 1..Len(queue)
      BY <1>1, <1>2, <2>1, <3>1
    <3> QED  BY <2>1, <3>1, <3>2
  <2>2. CASE ~full
    BY <1>1, <2>2
  <2> QED  BY <2>1, <2>2
<1>4. \A i \in 1..Len(queue) : (full /\ i = 1) \/ \E k \in 1..Len(base) : base[k] = queue[i]
  <2>1. CASE full
    <3>1. /\ Tail(queue) \in Seq(Task) /\ Len(Tail(queue)) = Len(queue) - 1
          /\ \A k \in 1..Len(Tail(queue)) : Tail(queue)[k] = queue[k + 1]
      BY <1>1, <1>2, <2>1
    <3>2. \A i \in 1..Len(queue) : i # 1 => i - 1 \in 1..Len(Tail(queue)) /\ (i - 1) + 1 = i
      BY <1>1, <3>1
    <3>3. \A i \in 1..Len(queue) : i # 1 => Tail(queue)[i - 1] = queue[i]
      BY <3>1, <3>2
    <3> QED  BY <2>1, <3>2, <3>3
  <2>2. CASE ~full
    BY <1>1, <2>2
  <2> QED  BY <2>1, <2>2
<1>5. queue' = Append(base, task) /\ dropped' = IF full THEN dropped \cup {Head(queue).id} ELSE dropped
  BY DEF Enqueue
<1>6. task \in Task
  BY DEF Task
<1>7. full => Head(queue) = queue[1] /\ queue[1] \in Task
  BY <1>1, <1>2
<1> HIDE DEF base, full, task
<1>8. /\ queue' \in Seq(Task) /\ Len(queue') = Len(base) + 1 /\ queue'[Len(base) + 1] = task
      /\ \A k \in 1..Len(base) : queue'[k] = base[k]
      /\ DOMAIN queue' = 1..(Len(base) + 1) /\ Len(base) \in Nat
  BY <1>3, <1>5, <1>6
<1>9. r \in Ids(queue')
  <2>1. task.id = r
    BY DEF task
  <2>2. Len(base) + 1 \in DOMAIN queue'
    BY <1>8
  <2> QED  BY <1>8, <2>1, <2>2 DEF Ids
<1>10. \A x \in Ids(queue) : x \in Ids(queue') \/ x \in dropped'
  <2> SUFFICES ASSUME NEW i \in 1..Len(queue) PROVE queue[i].id \in Ids(queue') \/ queue[i].id \in dropped'
    BY <1>1 DEF Ids
  <2>1. CASE full /\ i = 1
    BY <1>5, <1>7, <2>1
  <2>2. CASE \E k \in 1..Len(base) : base[k] = queue[i]
    <3>1. PICK k \in 1..Len(base) : base[k] = queue[i]
      BY <2>2
    <3>2. k \in DOMAIN queue' /\ queue'[k] = queue[i]
      BY <1>8, <3>1
    <3> QED  BY <3>2 DEF Ids
  <2> QED  BY <1>4, <2>1, <2>2
<1>11. dropped \subseteq dropped' /\ dropped' \subseteq Runs
  BY <1>5, <1>7 DEF StoreTypeOK, Task
<1>12. \A k \in DOMAIN queue' : (queue'[k].id = r /\ queue'[k].attempts = 0)
                               \/ \E i \in DOMAIN queue : queue'[k] = queue[i]
  <2> SUFFICES ASSUME NEW k \in 1..(Len(base) + 1)
               PROVE  (queue'[k].id = r /\ queue'[k].attempts = 0) \/ \E i \in DOMAIN queue : queue'[k] = queue[i]
    BY <1>8
  <2>1. CASE k \in 1..Len(base)
    BY <1>1, <1>3, <1>8, <2>1
  <2>2. CASE k = Len(base) + 1
    BY <1>8, <2>2 DEF task
  <2> QED  BY <1>8, <2>1, <2>2
<1> QED  BY <1>8, <1>9, <1>10, <1>11, <1>12 DEF QueueStep

-----------------------------------------------------------------------------
(* A step of a run, for the retry queue: only a delivery that failed on    *)
(* every target touches it, and that one leaves a task.                    *)
LEMMA RunQueue ==
  ASSUME TypeOK, RunsOK, NEW r \in Runs, RunStep(r)
  PROVE  /\ pc[r] \notin {"idle", "done"} /\ result'[r] # "killed"
         /\ \/ UNCHANGED <<queue, dropped>> /\ ~(result'[r] = "error" /\ text'[r] # None)
            \/ Enqueue(r) /\ pc'[r] = "done"
         /\ dedup' \subseteq Contents /\ emb' \subseteq Runs
<1>1. RunTypeOK /\ StoreTypeOK /\ RunOK(r)
  BY DEF TypeOK, RunsOK
<1> USE DEF RunTypeOK, StoreTypeOK, RunOK, Finish, Release, SetJobState, Results, Phases
<1>2. CASE Gate(r)
  BY <1>1, <1>2 DEF Gate
<1>3. CASE Answer(r)
  BY <1>1, <1>3 DEF Answer, ExecuteConditional, DeliverResponse
<1>4. CASE ExecuteNoAgent(r)
  BY <1>1, <1>4 DEF ExecuteNoAgent, DeliverResponse
<1>5. CASE QuietAnswer(r)
  BY <1>1, <1>5 DEF QuietAnswer
<1>6. CASE Embed(r)
  BY <1>1, <1>6 DEF Embed
<1>7. CASE Accept(r)
  BY <1>1, <1>7 DEF Accept
<1>8. CASE SendOk(r)
  BY <1>1, <1>8 DEF SendOk
<1>9. CASE SendError(r)
  <2> HIDE DEF RunTypeOK, RunOK
  <2>1. pc \in [Runs -> Phases] /\ result \in [Runs -> Results] /\ (pc[r] # "done" => result[r] = "none")
    BY <1>1 DEF RunTypeOK, RunOK
  <2> QED  BY <1>1, <1>9, <2>1 DEF SendError
<1> QED  BY <1>2, <1>3, <1>4, <1>5, <1>6, <1>7, <1>8, <1>9 DEF RunStep

-----------------------------------------------------------------------------
(* An execution begins: it is skipped, suppressed, or enters its script or *)
(* its try block.                                                          *)
Begins(r, t) ==
  /\ pc[r] = "idle" /\ pc'[r] # "idle" /\ src'[r] = t
  /\ result'[r] \notin {"killed", "error"} /\ text' = text
  /\ \A s \in Runs \ {r} : pc'[s] = pc[s] /\ src'[s] = src[s] /\ result'[s] = result[s]

\* Execute starts a run, or retries one, without touching what other runs and the store hold.
LEMMA ExecuteBegins ==
  ASSUME TypeOK, RunsOK, StoreOK, NEW r \in Runs, NEW j \in Jobs, NEW t \in Runs \cup {None},
         Execute(r, j, t)
  PROVE  /\ RunTypeOK' /\ LockTypeOK' /\ StoreTypeOK' /\ RunsOK' /\ StoreOK' /\ Begins(r, t)
         /\ UNCHANGED <<dropped, crashes>>
<1>1. RunTypeOK /\ LockTypeOK /\ StoreTypeOK /\ RunOK(r)
  BY DEF TypeOK, RunsOK
<1>2. pc[r] = "idle" /\ job' = [job EXCEPT ![r] = j] /\ src' = [src EXCEPT ![r] = t]
  BY DEF Execute
<1>3. UNCHANGED <<text, emb, hop, got, unacked, old, dnd, dedup, dropped, crashes>>
  BY DEF Execute
<1>4. \E p \in Phases \ {"idle"}, x \in Results \ {"killed", "error"} :
        /\ pc' = [pc EXCEPT ![r] = p] /\ result' = [result EXCEPT ![r] = x]
        /\ p # "done" => x = "none"
        /\ p \in {"done", "script", "gate"}
        /\ \/ UNCHANGED <<obj, cur>>
           \/ SetJobState(r, j, Unlocked)
           \/ p = "gate" /\ SetJobState(r, j, [locked |-> TRUE, since |-> r])
  <2>1. result[r] = "none" /\ result = [result EXCEPT ![r] = "none"]
    BY <1>1, <1>2 DEF RunOK, RunTypeOK
  <2> QED  BY <2>1 DEF Execute, Phases, Results
<1>5. PICK p \in Phases \ {"idle"}, x \in Results \ {"killed", "error"} :
        /\ pc' = [pc EXCEPT ![r] = p] /\ result' = [result EXCEPT ![r] = x]
        /\ p # "done" => x = "none"
        /\ p \in {"done", "script", "gate"}
        /\ \/ UNCHANGED <<obj, cur>>
           \/ SetJobState(r, j, Unlocked)
           \/ p = "gate" /\ SetJobState(r, j, [locked |-> TRUE, since |-> r])
  BY <1>4
<1>6. RunTypeOK'
  BY <1>1, <1>2, <1>3, <1>5, UpdateType DEF RunTypeOK
<1>7. StoreTypeOK'
  BY <1>1, <1>3 DEF StoreTypeOK
<1>8. Begins(r, t)
  BY <1>1, <1>2, <1>3, <1>5 DEF Begins, RunTypeOK
<1>9. Unlocked \in [locked : BOOLEAN, since : Runs \cup {None}]
      /\ [locked |-> TRUE, since |-> r] \in [locked : BOOLEAN, since : Runs \cup {None}]
  BY DEF Unlocked
<1>10. /\ job'[r] = j /\ pc'[r] = p /\ p # "idle" /\ result'[r] = x
       /\ \A s \in Runs \ {r} : job'[s] = job[s] /\ pc'[s] = pc[s] /\ result'[s] = result[s]
  BY <1>1, <1>2, <1>5 DEF RunTypeOK
<1>11. \A i \in Jobs : cur[i] # r
  BY <1>2, ExecutorAssumption DEF StoreOK
<1>12. LockTypeOK' /\ StoreOK'
  <2>1. CASE UNCHANGED <<obj, cur>>
    <3>1. LockTypeOK'
      BY <1>1, <2>1 DEF LockTypeOK
    <3>2. StoreOK'
      BY <1>1, <2>1, <1>10, <1>11 DEF StoreOK, LockTypeOK
    <3> QED  BY <3>1, <3>2
  <2>2. ASSUME NEW o \in [locked : BOOLEAN, since : Runs \cup {None}], SetJobState(r, j, o)
        PROVE  LockTypeOK' /\ StoreOK'
    <3>1. LockTypeOK'
      BY <1>1, <2>2, LockKept
    <3>2. \A s \in Runs \ {r} : job'[s] = job[s] /\ (pc[s] # "idle" => pc'[s] # "idle")
      BY <1>10
    <3>3. StoreOK'
      BY <1>1, <2>2, <1>10, <1>11, <3>2, StoreKept
    <3> QED  BY <3>1, <3>3
  <2> QED  BY <1>5, <1>9, <2>1, <2>2
<1>13. RunsOK'
  <2>1. \A s \in Runs \ {r} : obj'[s] = obj[s]
    BY <1>1, <1>5 DEF SetJobState, LockTypeOK
  <2>2. ASSUME NEW s \in Runs, s # r PROVE RunOK(s)'
    BY <1>3, <1>10, <2>1, <2>2 DEF RunsOK, RunOK
  <2>3. obj'[r].locked => p = "gate"
    <3>1. ~obj[r].locked
      BY <1>1, <1>2 DEF RunOK, Holding
    <3>2. CASE UNCHANGED <<obj, cur>>
      BY <3>1, <3>2
    <3>3. CASE SetJobState(r, j, Unlocked)
      BY <1>1, <3>3 DEF SetJobState, LockTypeOK, Unlocked
    <3> QED  BY <1>5, <3>2, <3>3
  <2>4. RunOK(r)'
    BY <1>1, <1>2, <1>3, <1>5, <1>10, <2>3 DEF RunOK, Holding, RunTypeOK
  <2> QED  BY <2>2, <2>4 DEF RunsOK
<1> QED  BY <1>3, <1>6, <1>7, <1>8, <1>12, <1>13

(* ... and what is done stays done.                                        *)
LEMMA BeginsLater ==
  ASSUME NEW r \in Runs, NEW t, Begins(r, t)
  PROVE  Later
BY DEF Begins, Later

-----------------------------------------------------------------------------
(* The retries a task has on record stay on record.                        *)
LoopMoves ==
  loop'.run = loop.run \/ loop'.run = None \/ (loop'.run \in Runs /\ pc[loop'.run] = "idle")

\* The runs recorded as attempts of x are never taken back.
LEMMA RecordedGrows ==
  ASSUME Later, LoopMoves, NEW x
  PROVE  Recorded(x) \subseteq Recorded(x)'
BY ExecutorAssumption DEF Later, LoopMoves, Recorded, Tried

\* Only finitely many runs have started, so the attempts can be counted.
LEMMA RecordedFinite ==
  ASSUME IsFiniteSet(Started), NEW x
  PROVE  IsFiniteSet(Recorded(x)) /\ Cardinality(Recorded(x)) \in Nat
<1>1. Recorded(x) \subseteq Started
  BY DEF Recorded, Tried, Started
<1>2. IsFiniteSet(Recorded(x))
  BY <1>1, FS_Subset
<1> QED  BY <1>2, FS_CardinalityType

\* The number of recorded attempts never falls.
LEMMA RecordedCount ==
  ASSUME Later, LoopMoves, IsFiniteSet(Started), IsFiniteSet(Started'), NEW x
  PROVE  /\ Cardinality(Recorded(x)) \in Nat /\ Cardinality(Recorded(x)') \in Nat
         /\ Cardinality(Recorded(x)) <= Cardinality(Recorded(x)')
<1>1. Recorded(x) \subseteq Recorded(x)' /\ Recorded(x)' \subseteq Started'
  BY RecordedGrows DEF Recorded, Tried, Started
<1>2. IsFiniteSet(Recorded(x)')
  BY <1>1, FS_Subset
<1>3. Cardinality(Recorded(x)) <= Cardinality(Recorded(x)') /\ Cardinality(Recorded(x)') \in Nat
  BY <1>1, <1>2, FS_Subset, FS_CardinalityType
<1> QED  BY <1>3, RecordedFinite

(* Every task stays covered by a step that keeps ids and counts, or adds   *)
(* the task of a run that has ended.                                       *)
LEMMA CoveredKept ==
  ASSUME QueueTypeOK, AllCovered, Later, LoopMoves, IsFiniteSet(Started), IsFiniteSet(Started'),
         \A t \in Task : t \in Range(queue') =>
           \/ \E u \in Task : u \in Range(queue) /\ u.id = t.id /\ u.attempts = t.attempts
           \/ t.attempts = 0 /\ pc'[t.id] = "done"
  PROVE  AllCovered'
<1> SUFFICES ASSUME NEW t \in Task, t \in Range(queue') PROVE TaskCovered(t)'
  BY DEF AllCovered
<1>1. t.id \in Runs /\ t.attempts \in Nat
  BY DEF Task
<1>2. /\ Cardinality(Recorded(t.id)) \in Nat /\ Cardinality(Recorded(t.id)') \in Nat
      /\ Cardinality(Recorded(t.id)) <= Cardinality(Recorded(t.id)')
  BY RecordedCount
<1>3. CASE \E u \in Task : u \in Range(queue) /\ u.id = t.id /\ u.attempts = t.attempts
  <2>1. pc[t.id] = "done" /\ t.attempts <= Cardinality(Recorded(t.id))
    BY <1>3 DEF AllCovered, TaskCovered
  <2>2. pc'[t.id] = "done"
    BY <1>1, <2>1 DEF Later
  <2> QED  BY <1>1, <1>2, <2>1, <2>2 DEF TaskCovered
<1>4. CASE t.attempts = 0 /\ pc'[t.id] = "done"
  BY <1>2, <1>4 DEF TaskCovered
<1> QED  BY <1>3, <1>4

(* The tasks of a queue, and their ids.                                    *)
LEMMA QueueFacts ==
  ASSUME NEW q \in Seq(Task)
  PROVE  /\ DOMAIN q = 1..Len(q) /\ Len(q) \in Nat
         /\ \A i \in 1..Len(q) : q[i] \in Task /\ q[i] \in Range(q) /\ q[i].id \in Runs /\ q[i].id \in Ids(q)
         /\ \A t \in Range(q) : t \in Task /\ \E i \in 1..Len(q) : t = q[i]
         /\ Ids(q) \subseteq Runs
         /\ \A x \in Ids(q) : \E i \in 1..Len(q) : x = q[i].id
<1>1. DOMAIN q = 1..Len(q) /\ Len(q) \in Nat /\ \A i \in 1..Len(q) : q[i] \in Task
  OBVIOUS
<1>2. \A t \in Task : t.id \in Runs
  BY DEF Task
<1>3. \A i \in 1..Len(q) : q[i] \in Range(q) /\ q[i].id \in Ids(q)
  BY <1>1 DEF Range, Ids
<1>4. \A t \in Range(q) : \E i \in 1..Len(q) : t = q[i]
  BY <1>1 DEF Range
<1>5. \A x \in Ids(q) : \E i \in 1..Len(q) : x = q[i].id
  BY <1>1 DEF Ids
<1> QED  BY <1>1, <1>2, <1>3, <1>4, <1>5

(* What a step must do for a failed text not to be forgotten.              *)
StepOK ==
  /\ Later /\ IsFiniteSet(Started') /\ QueueStep
  /\ \A r \in Runs : pc[r] # "done" /\ result'[r] = "error" /\ text'[r] # None => r \in Ids(queue')

\* Every step of the executor keeps FailureNotForgotten.
LEMMA Remembered ==
  ASSUME TypeOK, RunsOK, FailureNotForgotten, StepOK
  PROVE  FailureNotForgotten'
BY FailureKept DEF StepOK, QueueStep

-----------------------------------------------------------------------------
(* One lemma per kind of step.  A run's own step first.                    *)
LEMMA RunStepKeeps ==
  ASSUME ExecutorInv, NEW r \in Runs, RunStep(r)
  PROVE  ExecutorInv'
<1>1. TypeOK /\ RunsOK /\ StoreOK /\ IsFiniteSet(Started) /\ AllCovered /\ LoopOK /\ FailureNotForgotten
  BY DEF ExecutorInv, ExecInv
<1>2. Move(r)
  BY <1>1, RunMoves
<1>3. /\ pc[r] \notin {"idle", "done"} /\ result'[r] # "killed"
      /\ \/ UNCHANGED <<queue, dropped>> /\ ~(result'[r] = "error" /\ text'[r] # None)
         \/ Enqueue(r) /\ pc'[r] = "done"
      /\ dedup' \subseteq Contents /\ emb' \subseteq Runs
  BY <1>1, RunQueue
<1>4. job[r] \in Jobs
  BY <1>1, <1>3 DEF RunsOK, RunOK
<1>5. RunTypeOK' /\ LockTypeOK' /\ RunsOK' /\ StoreOK'
  BY <1>1, <1>2, <1>4, MoveKeeps
<1>6. /\ UNCHANGED <<job, src, old, dnd, loop, crashes>> /\ pc'[r] # "idle"
      /\ \A s \in Runs \ {r} : pc'[s] = pc[s] /\ text'[s] = text[s] /\ result'[s] = result[s]
  BY <1>2 DEF Move, Frame
<1>7. Later /\ LoopMoves
  BY <1>3, <1>6 DEF Later, LoopMoves
<1>8. IsFiniteSet(Started')
  BY <1>1, <1>6, StartedFinite
<1>9. QueueTypeOK /\ StoreTypeOK
  BY <1>1 DEF TypeOK
<1>10. /\ QueueStep
       /\ result'[r] = "error" /\ text'[r] # None => r \in Ids(queue')
       /\ \A t \in Task : t \in Range(queue') =>
           \/ \E u \in Task : u \in Range(queue) /\ u.id = t.id /\ u.attempts = t.attempts
           \/ t.attempts = 0 /\ pc'[t.id] = "done"
  <2>1. CASE UNCHANGED <<queue, dropped>> /\ ~(result'[r] = "error" /\ text'[r] # None)
    BY <1>9, <2>1, SameQueue
  <2>2. CASE Enqueue(r) /\ pc'[r] = "done"
    <3>1. /\ QueueStep /\ r \in Ids(queue')
          /\ \A k \in DOMAIN queue' : (queue'[k].id = r /\ queue'[k].attempts = 0)
                                     \/ \E i \in DOMAIN queue : queue'[k] = queue[i]
      BY <1>4, <1>9, <2>2, EnqueueStep
    <3>2. queue \in Seq(Task)
      BY <1>9 DEF QueueTypeOK, Task
    <3>3. \A t \in Task : t \in Range(queue') =>
           \/ t \in Range(queue)
           \/ t.attempts = 0 /\ t.id = r
      BY <3>1, <3>2, QueueFacts DEF Range
    <3> QED  BY <2>2, <3>1, <3>3
  <2> QED  BY <1>3, <2>1, <2>2
<1>11. AllCovered'
  BY <1>1, <1>7, <1>8, <1>9, <1>10, CoveredKept
<1>12. StepOK
  <2>1. \A s \in Runs \ {r} : pc[s] # "done" => result'[s] # "error"
    BY <1>1, <1>6 DEF RunsOK, RunOK
  <2> QED  BY <1>7, <1>8, <1>10, <2>1 DEF StepOK
<1>13. FailureNotForgotten'
  BY <1>1, <1>12, Remembered
<1>14. QueueTypeOK'
  BY <1>6, <1>9, <1>10 DEF QueueStep, QueueTypeOK, Task
<1>15. StoreTypeOK'
  BY <1>3, <1>6, <1>9, <1>10 DEF QueueStep, StoreTypeOK
<1>16. LoopOK'
  BY <1>1, <1>3, <1>6 DEF LoopOK
<1> QED  BY <1>5, <1>8, <1>11, <1>13, <1>14, <1>15, <1>16 DEF ExecutorInv, ExecInv, TypeOK

(* An execution begins, by a trigger or for the retry loop.                *)
LEMMA BeginKeeps ==
  ASSUME ExecutorInv, NEW r \in Runs, NEW j \in Jobs, NEW t \in Runs \cup {None}, Execute(r, j, t),
         queue' = queue,
         \/ t = None /\ loop' = loop
         \/ loop.due # << >> /\ t = Head(loop.due) /\ loop' = [loop EXCEPT !.run = r]
  PROVE  ExecutorInv'
<1>1. TypeOK /\ RunsOK /\ StoreOK /\ IsFiniteSet(Started) /\ AllCovered /\ LoopOK /\ FailureNotForgotten
  BY DEF ExecutorInv, ExecInv
<1>2. /\ RunTypeOK' /\ LockTypeOK' /\ StoreTypeOK' /\ RunsOK' /\ StoreOK' /\ Begins(r, t)
      /\ UNCHANGED <<dropped, crashes>>
  BY <1>1, ExecuteBegins
<1>3. Later
  BY <1>2, BeginsLater
<1>4. IsFiniteSet(Started')
  BY <1>1, <1>2, StartedFinite DEF Begins
<1>5. QueueTypeOK /\ StoreTypeOK
  BY <1>1 DEF TypeOK
<1>6. /\ loop'.due = loop.due /\ (loop'.run = loop.run \/ loop'.run = r)
      /\ loop'.run # loop.run => loop.due # << >> /\ t = Head(loop.due)
      /\ loop' \in [due : Seq(Runs), run : Runs \cup {None}]
  BY <1>5 DEF QueueTypeOK
<1>7. LoopMoves
  BY <1>2, <1>6 DEF LoopMoves, Begins
<1>8. AllCovered'
  BY <1>1, <1>3, <1>4, <1>5, <1>7, CoveredKept
<1>9. QueueStep
  BY <1>2, <1>5, SameQueue
<1>10. StepOK
  <2>1. \A s \in Runs : pc[s] # "done" => result'[s] # "error"
    BY <1>1, <1>2 DEF Begins, RunsOK, RunOK
  <2> QED  BY <1>3, <1>4, <1>9, <2>1 DEF StepOK
<1>11. FailureNotForgotten'
  BY <1>1, <1>10, Remembered
<1>12. QueueTypeOK'
  BY <1>5, <1>6 DEF QueueTypeOK
<1>13. LoopOK'
  <2>1. \A x \in Runs : x \in Range(loop'.due) => pc'[x] # "idle"
    BY <1>1, <1>2, <1>6 DEF LoopOK, Begins
  <2>2. \A s \in Runs : s = loop'.run => loop'.due # << >> /\ src'[s] = Head(loop'.due)
                          /\ pc'[s] # "idle" /\ result'[s] # "killed"
    <3> SUFFICES ASSUME NEW s \in Runs, s = loop'.run
                 PROVE loop'.due # << >> /\ src'[s] = Head(loop'.due)
                          /\ pc'[s] # "idle" /\ result'[s] # "killed"
      OBVIOUS
    <3>1. CASE s = loop.run
      BY <1>1, <1>2, <1>6, <3>1 DEF LoopOK, Begins
    <3>2. CASE s # loop.run
      BY <1>2, <1>6, <3>2 DEF Begins
    <3> QED  BY <3>1, <3>2
  <2> QED  BY <2>1, <2>2 DEF LoopOK
<1> QED  BY <1>2, <1>4, <1>8, <1>11, <1>12, <1>13 DEF ExecutorInv, ExecInv, TypeOK

(* The steps that start no run and end none: the queue and the loop move.  *)
LEMMA IdleKeeps ==
  ASSUME ExecutorInv, UNCHANGED <<runVars, obj, cur>>, crashes' \in Nat, dnd' \in BOOLEAN,
         dedup' = dedup, old' \subseteq Runs, QueueStep,
         loop' \in [due : Seq(Runs), run : Runs \cup {None}], LoopMoves, LoopOK', AllCovered'
  PROVE  ExecutorInv'
<1>1. TypeOK /\ RunsOK /\ StoreOK /\ IsFiniteSet(Started) /\ FailureNotForgotten
  BY DEF ExecutorInv, ExecInv
<1>2. UNCHANGED <<pc, job, src, text, emb, hop, got, unacked, result, obj, cur>>
  BY DEF runVars
<1>3. RunTypeOK' /\ LockTypeOK' /\ RunsOK' /\ StoreOK'
  BY <1>1, <1>2 DEF TypeOK, RunTypeOK, LockTypeOK, RunsOK, RunOK, StoreOK
<1>4. QueueTypeOK' /\ StoreTypeOK'
  BY <1>1, <1>2 DEF TypeOK, QueueTypeOK, StoreTypeOK, QueueStep, Task
<1>5. Started' = Started
  BY <1>2 DEF Started
<1>6. Later
  BY <1>2 DEF Later
<1>7. StepOK
  BY <1>1, <1>2, <1>5, <1>6 DEF StepOK, RunsOK, RunOK
<1>8. FailureNotForgotten'
  BY <1>1, <1>7, Remembered
<1> QED  BY <1>1, <1>3, <1>4, <1>5, <1>8 DEF ExecutorInv, ExecInv, TypeOK

(* The start of a tick.                                                    *)
LEMMA TickKeeps ==
  ASSUME ExecutorInv, RetryTick
  PROVE  ExecutorInv'
<1> DEFINE S == {t \in Range(queue) : t.due /\ t.attempts < MaxAttempts}
           due == Filter(queue, S)
<1>1. /\ QueueTypeOK /\ StoreTypeOK /\ AllCovered /\ LoopOK /\ IsFiniteSet(Started)
  BY DEF ExecutorInv, ExecInv, TypeOK
<1>2. /\ loop.due = << >> /\ loop' = [loop EXCEPT !.due = [i \in DOMAIN due |-> due[i].id]]
      /\ UNCHANGED <<runVars, lockVars, dnd, dedup, queue, dropped, crashes>>
  BY DEF RetryTick
<1>3. queue \in Seq(Task)
  BY <1>1 DEF QueueTypeOK, Task
<1>4. /\ due \in Seq(Task)
      /\ \A k \in 1..Len(due) : \E i \in 1..Len(queue) : due[k] = queue[i]
  <2> HIDE DEF S
  <2>1. /\ Filter(queue, S) \in Seq(Task)
        /\ \A k \in 1..Len(Filter(queue, S)) :
             \E i \in 1..Len(queue) : Filter(queue, S)[k] = queue[i] /\ queue[i] \in S
    BY <1>3, FilterKeeps
  <2> QED  BY <2>1
<1> HIDE DEF due
<1> DEFINE ids == [i \in DOMAIN due |-> due[i].id]
<1>5. DOMAIN due = 1..Len(due) /\ Len(due) \in Nat /\ \A i \in 1..Len(due) : due[i].id \in Runs
  BY <1>4, QueueFacts
<1>6. ids \in Seq(Runs)
  BY <1>5
<1>7. \A x \in Range(ids) : pc[x] = "done"
  <2> SUFFICES ASSUME NEW k \in 1..Len(due) PROVE pc[due[k].id] = "done"
    BY <1>5 DEF Range
  <2>1. PICK i \in 1..Len(queue) : due[k] = queue[i]
    BY <1>4
  <2>2. queue[i] \in Task /\ queue[i] \in Range(queue)
    BY <1>3, QueueFacts
  <2> QED  BY <1>1, <2>1, <2>2 DEF AllCovered, TaskCovered
<1>8. loop'.due = ids /\ loop'.run = loop.run /\ loop' \in [due : Seq(Runs), run : Runs \cup {None}]
  BY <1>1, <1>2, <1>6 DEF QueueTypeOK
<1> HIDE DEF ids
<1>9. loop.run \notin Runs
  BY <1>1, <1>2 DEF LoopOK
<1>10. pc' = pc /\ src' = src /\ result' = result
  BY <1>2 DEF runVars
<1>11. LoopOK'
  BY <1>7, <1>8, <1>9, <1>10 DEF LoopOK
<1>12. LoopMoves /\ Later /\ Started' = Started
  BY <1>2, <1>8, <1>10 DEF LoopMoves, Later, Started, runVars
<1>13. AllCovered'
  BY <1>1, <1>2, <1>12, CoveredKept
<1>14. QueueStep
  BY <1>1, <1>2, SameQueue
<1> QED  BY <1>1, <1>2, <1>8, <1>11, <1>12, <1>13, <1>14, IdleKeeps DEF lockVars, StoreTypeOK

(* A back-off elapses.                                                     *)
LEMMA DueKeeps ==
  ASSUME ExecutorInv, NEW n \in DOMAIN queue, TaskDue(n)
  PROVE  ExecutorInv'
<1>1. /\ QueueTypeOK /\ StoreTypeOK /\ AllCovered /\ LoopOK /\ IsFiniteSet(Started)
  BY DEF ExecutorInv, ExecInv, TypeOK
<1>2. /\ queue' = [queue EXCEPT ![n].due = TRUE]
      /\ UNCHANGED <<runVars, lockVars, dnd, dedup, loop, dropped, crashes>>
  BY DEF TaskDue
<1>3. queue \in Seq(Task) /\ DOMAIN queue = 1..Len(queue) /\ Len(queue) \in Nat
  BY <1>1 DEF QueueTypeOK, Task
<1>4. /\ queue[n] \in Task /\ [queue[n] EXCEPT !.due = TRUE] \in Task
      /\ [queue[n] EXCEPT !.due = TRUE].id = queue[n].id
      /\ [queue[n] EXCEPT !.due = TRUE].attempts = queue[n].attempts
  <2>1. queue[n] \in Task
    BY <1>3
  <2>2. \A t \in Task : /\ [t EXCEPT !.due = TRUE] \in Task
                        /\ [t EXCEPT !.due = TRUE].id = t.id
                        /\ [t EXCEPT !.due = TRUE].attempts = t.attempts
    BY DEF Task
  <2> QED  BY <2>1, <2>2
<1> DEFINE u == [queue[n] EXCEPT !.due = TRUE]
<1>5. queue' = [queue EXCEPT ![n] = u]
  BY <1>2
<1> HIDE DEF u
<1>6. /\ queue' \in Seq(Task) /\ DOMAIN queue' = 1..Len(queue) /\ Len(queue') = Len(queue)
      /\ queue'[n] = u /\ \A i \in 1..Len(queue) : i # n => queue'[i] = queue[i]
  BY <1>3, <1>4, <1>5 DEF u
<1>7. \A i \in 1..Len(queue) : queue'[i].id = queue[i].id /\ queue'[i].attempts = queue[i].attempts
  BY <1>4, <1>6 DEF u
<1>8. QueueStep
  <2>1. \A x \in Ids(queue) : x \in Ids(queue')
    BY <1>3, <1>6, <1>7 DEF Ids
  <2> QED  BY <1>1, <1>2, <1>6, <2>1 DEF QueueStep, StoreTypeOK
<1>9. LoopMoves /\ Later /\ Started' = Started /\ LoopOK'
  BY <1>1, <1>2 DEF LoopMoves, Later, Started, runVars, LoopOK
<1>10. \A t \in Task : t \in Range(queue') =>
         \E w \in Task : w \in Range(queue) /\ w.id = t.id /\ w.attempts = t.attempts
  <2> SUFFICES ASSUME NEW t \in Task, t \in Range(queue')
               PROVE  \E w \in Task : w \in Range(queue) /\ w.id = t.id /\ w.attempts = t.attempts
    OBVIOUS
  <2>1. PICK i \in 1..Len(queue) : t = queue'[i]
    BY <1>6 DEF Range
  <2>2. queue[i] \in Task /\ queue[i] \in Range(queue)
    BY <1>3, QueueFacts
  <2> QED  BY <1>7, <2>1, <2>2
<1>11. AllCovered'
  BY <1>1, <1>9, <1>10, CoveredKept
<1> QED  BY <1>1, <1>2, <1>8, <1>9, <1>11, IdleKeeps DEF lockVars, StoreTypeOK, QueueTypeOK

(* A retry has ended, and the loop records it in its task.                 *)
LEMMA RecordKeeps ==
  ASSUME ExecutorInv, RecordAttempt
  PROVE  ExecutorInv'
<1> DEFINE id == Head(loop.due)
           run == loop.run
           ok == result[loop.run] = "delivered"
           S == {t \in Range(queue) : ~(t.id = id /\ GivesUp(t, ok))}
           kept == Filter(queue, S)
<1>1. /\ QueueTypeOK /\ StoreTypeOK /\ AllCovered /\ LoopOK /\ IsFiniteSet(Started)
  BY DEF ExecutorInv, ExecInv, TypeOK
<1>2. /\ loop.run # None /\ pc[loop.run] = "done"
      /\ queue' = [i \in DOMAIN kept |-> IF kept[i].id = id THEN Attempted(kept[i]) ELSE kept[i]]
      /\ loop' = [due |-> Tail(loop.due), run |-> None]
      /\ UNCHANGED <<runVars, lockVars, dnd, dedup, dropped, crashes>>
  BY DEF RecordAttempt
<1>3. queue \in Seq(Task)
  BY <1>1 DEF QueueTypeOK, Task
<1>4. /\ kept \in Seq(Task)
      /\ \A k \in 1..Len(kept) : \E i \in 1..Len(queue) : kept[k] = queue[i] /\ queue[i] \in S
      /\ \A i \in 1..Len(queue) : queue[i] \in S => \E k \in 1..Len(kept) : kept[k] = queue[i]
  <2> HIDE DEF S
  <2>1. /\ Filter(queue, S) \in Seq(Task)
        /\ \A k \in 1..Len(Filter(queue, S)) :
             \E i \in 1..Len(queue) : Filter(queue, S)[k] = queue[i] /\ queue[i] \in S
        /\ \A i \in 1..Len(queue) :
             queue[i] \in S => \E k \in 1..Len(Filter(queue, S)) : Filter(queue, S)[k] = queue[i]
    BY <1>3, FilterKeeps
  <2> QED  BY <2>1
<1>5. run \in Runs /\ loop.due \in Seq(Runs)
  BY <1>1, <1>2 DEF QueueTypeOK
<1>6. loop.due # << >> /\ src[run] = id /\ result[run] # "killed"
  BY <1>1, <1>5 DEF LoopOK
<1>7. id \in Runs /\ Tail(loop.due) \in Seq(Runs) /\ Range(Tail(loop.due)) \subseteq Range(loop.due)
  <2>1. /\ id \in Runs /\ Tail(loop.due) \in Seq(Runs) /\ Len(Tail(loop.due)) = Len(loop.due) - 1
        /\ \A k \in 1..Len(Tail(loop.due)) : Tail(loop.due)[k] = loop.due[k + 1]
    BY <1>5, <1>6
  <2>2. \A k \in 1..Len(Tail(loop.due)) : k + 1 \in DOMAIN loop.due
    BY <1>5, <1>6, <2>1
  <2>3. DOMAIN Tail(loop.due) = 1..Len(Tail(loop.due))
    BY <2>1
  <2> QED  BY <2>1, <2>2, <2>3 DEF Range
<1>8. /\ loop'.due = Tail(loop.due) /\ loop'.run = None /\ None \notin Runs
      /\ loop' \in [due : Seq(Runs), run : Runs \cup {None}]
  BY <1>2, <1>7, ExecutorAssumption
<1>9. pc' = pc /\ src' = src /\ result' = result /\ text' = text
  BY <1>2 DEF runVars
<1>10. LoopOK'
  BY <1>1, <1>7, <1>8, <1>9 DEF LoopOK
<1>11. LoopMoves /\ Later /\ Started' = Started
  BY <1>8, <1>9 DEF LoopMoves, Later, Started
<1>12. Tried(id) = Recorded(id) \cup {run} /\ run \notin Recorded(id)
  BY <1>2, <1>5, <1>6 DEF Recorded, Tried
<1>13. /\ Cardinality(Recorded(id)) \in Nat
       /\ Cardinality(Tried(id)) = Cardinality(Recorded(id)) + 1
  BY <1>1, <1>12, RecordedFinite, FS_AddElement
<1>14. \A x \in Runs : Recorded(x)' = Tried(x) /\ Tried(x)' = Tried(x)
  BY <1>8, <1>9 DEF Recorded, Tried
<1> HIDE DEF id, run, ok, S, kept
<1>15. /\ DOMAIN queue' = 1..Len(kept) /\ Len(kept) \in Nat
       /\ \A k \in 1..Len(kept) : kept[k] \in Task
       /\ \A k \in 1..Len(kept) :
            queue'[k] = IF kept[k].id = id THEN Attempted(kept[k]) ELSE kept[k]
  <2>1. DOMAIN kept = 1..Len(kept) /\ Len(kept) \in Nat /\ \A k \in 1..Len(kept) : kept[k] \in Task
    BY <1>4
  <2>2. queue' = [i \in DOMAIN kept |-> IF kept[i].id = id THEN Attempted(kept[i]) ELSE kept[i]]
    BY <1>2 DEF kept, id, S, ok
  <2> QED  BY <2>1, <2>2
<1>16. \A t \in Task : /\ Attempted(t) \in Task /\ Attempted(t).id = t.id
                       /\ Attempted(t).attempts = t.attempts + 1
  <2> SUFFICES ASSUME NEW t \in Task
               PROVE  /\ Attempted(t) \in Task /\ Attempted(t).id = t.id
                      /\ Attempted(t).attempts = t.attempts + 1
    OBVIOUS
  <2>1. t.attempts \in Nat /\ t.attempts + 1 \in Nat
    BY DEF Task
  <2>2. Attempted(t) = [[t EXCEPT !.attempts = t.attempts + 1] EXCEPT !.due = FALSE]
    BY DEF Attempted
  <2>3. \A n \in Nat : /\ [t EXCEPT !.attempts = n] \in Task
                       /\ [t EXCEPT !.attempts = n].id = t.id /\ [t EXCEPT !.attempts = n].attempts = n
    BY DEF Task
  <2>4. \A u \in Task : /\ [u EXCEPT !.due = FALSE] \in Task
                        /\ [u EXCEPT !.due = FALSE].id = u.id
                        /\ [u EXCEPT !.due = FALSE].attempts = u.attempts
    BY DEF Task
  <2> QED  BY <2>1, <2>2, <2>3, <2>4, ZenonT(60)
<1>17. queue' \in Seq(Task)
  <2>1. \A k \in 1..Len(kept) : queue'[k] \in Task
    BY <1>15, <1>16
  <2>2. queue' = [k \in 1..Len(kept) |-> queue'[k]]
    <3>1. DOMAIN kept = 1..Len(kept)
      BY <1>4
    <3> QED  BY <1>2, <3>1 DEF kept, id, S, ok
  <2> QED  BY <1>15, <2>1, <2>2
<1>18. AllCovered'
  <2> SUFFICES ASSUME NEW t \in Task, t \in Range(queue') PROVE TaskCovered(t)'
    BY DEF AllCovered
  <2>1. PICK k \in 1..Len(kept) : t = queue'[k]
    BY <1>15 DEF Range
  <2>2. PICK i \in 1..Len(queue) : kept[k] = queue[i]
    BY <1>4
  <2>3. PICK w \in Task : w = queue[i] /\ w \in Range(queue)
    BY <1>3, QueueFacts
  <2>4. w.id \in Runs /\ w.attempts \in Nat
    BY DEF Task
  <2>5. pc[w.id] = "done" /\ w.attempts <= Cardinality(Recorded(w.id))
    BY <1>1, <2>3 DEF AllCovered, TaskCovered
  <2>6. t = IF w.id = id THEN Attempted(w) ELSE w
    BY <1>15, <2>1, <2>2, <2>3
  <2>7. CASE w.id = id
    <3>1. t.id = id /\ t.attempts = w.attempts + 1
      BY <1>16, <2>6, <2>7
    <3>2. Cardinality(Recorded(t.id)') = Cardinality(Tried(id))
      BY <1>7, <1>14, <3>1 DEF id
    <3>3. t.attempts <= Cardinality(Recorded(t.id)')
      BY <1>13, <2>4, <2>5, <2>7, <3>1, <3>2
    <3>4. pc'[t.id] = "done"
      BY <1>9, <2>5, <2>7, <3>1
    <3> QED  BY <3>3, <3>4 DEF TaskCovered
  <2>8. CASE w.id # id
    <3>1. t = w
      BY <2>6, <2>8
    <3>2. /\ Cardinality(Recorded(t.id)) \in Nat /\ Cardinality(Recorded(t.id)') \in Nat
          /\ Cardinality(Recorded(t.id)) <= Cardinality(Recorded(t.id)')
      BY <1>1, <1>11, RecordedCount
    <3>3. t.attempts <= Cardinality(Recorded(t.id)') /\ pc'[t.id] = "done"
      BY <1>9, <2>4, <2>5, <3>1, <3>2
    <3> QED  BY <3>3 DEF TaskCovered
  <2> QED  BY <2>7, <2>8
<1>19. \A x \in Ids(queue) : x \in Ids(queue') \/ Retried(x)'
  <2> SUFFICES ASSUME NEW x \in Ids(queue) PROVE x \in Ids(queue') \/ Retried(x)'
    OBVIOUS
  <2>1. PICK i \in 1..Len(queue) : x = queue[i].id /\ queue[i] \in Range(queue) /\ queue[i] \in Task
    BY <1>3, QueueFacts
  <2>2. PICK w \in Task : w = queue[i] /\ w \in Range(queue) /\ x = w.id
    BY <2>1
  <2>3. CASE w \in S
    <3>1. PICK k \in 1..Len(kept) : kept[k] = w
      BY <1>4, <2>2, <2>3
    <3>2. queue'[k].id = x /\ k \in DOMAIN queue'
      BY <1>15, <1>16, <2>2, <3>1
    <3> QED  BY <3>2 DEF Ids
  <2>4. CASE w \notin S
    <3>1. w.id = id /\ GivesUp(w, ok)
      BY <2>2, <2>4 DEF S
    <3>2. x = id /\ x \in Runs
      BY <1>7, <2>2, <3>1 DEF id
    <3>3. CASE ok
      <4>1. run \in Runs /\ src'[run] = x /\ result'[run] = "delivered"
        BY <1>5, <1>6, <1>9, <3>2, <3>3 DEF run, ok, id
      <4> QED  BY <4>1 DEF Retried
    <3>4. CASE w.attempts + 1 >= MaxAttempts
      <4>1. w.attempts \in Nat /\ w.attempts <= Cardinality(Recorded(id))
        BY <1>1, <2>2, <3>1 DEF AllCovered, TaskCovered, Task
      <4>2. Cardinality(Tried(id)) >= MaxAttempts
        BY <1>13, <3>4, <4>1, ExecutorAssumption
      <4>3. Tried(x)' = Tried(id)
        BY <1>14, <3>2
      <4>4. Cardinality(Tried(x)') >= MaxAttempts
        BY <4>2, <4>3
      <4> QED  BY <4>4 DEF Retried
    <3> QED  BY <3>1, <3>3, <3>4 DEF GivesUp
  <2> QED  BY <2>3, <2>4
<1>20. QueueStep
  BY <1>1, <1>2, <1>17, <1>19 DEF QueueStep, StoreTypeOK
<1> QED  BY <1>1, <1>2, <1>8, <1>10, <1>11, <1>18, <1>20, IdleKeeps DEF lockVars, StoreTypeOK

(* The process dies and boots.                                             *)
LEMMA CrashKeeps ==
  ASSUME ExecutorInv, CrashAndBoot
  PROVE  ExecutorInv'
<1>1. /\ TypeOK /\ RunsOK /\ StoreOK /\ IsFiniteSet(Started) /\ AllCovered /\ FailureNotForgotten
  BY DEF ExecutorInv, ExecInv
<1>2. RunTypeOK /\ LockTypeOK /\ QueueTypeOK /\ StoreTypeOK
  BY <1>1 DEF TypeOK
<1>3. /\ crashes' = crashes + 1
      /\ result' = [r \in Runs |-> IF pc[r] \in Active THEN "killed" ELSE result[r]]
      /\ pc' = [r \in Runs |-> IF pc[r] \in Active THEN "done" ELSE pc[r]]
      /\ obj' = [r \in Runs |-> Unlocked] /\ old' = {}
      /\ loop' = [due |-> << >>, run |-> None]
      /\ UNCHANGED <<job, src, text, emb, hop, got, unacked, cur, dnd, dedup>>
  BY DEF CrashAndBoot
<1>4. PICK stale \in SUBSET Ids(queue) :
        /\ queue' = Filter(queue, {t \in Range(queue) : t.id \notin stale})
        /\ dropped' = dropped \cup stale
  BY DEF CrashAndBoot
<1> DEFINE S == {t \in Range(queue) : t.id \notin stale}
<1>5. queue \in Seq(Task)
  BY <1>2 DEF QueueTypeOK, Task
<1>6. /\ queue' \in Seq(Task)
      /\ \A k \in 1..Len(queue') : \E i \in 1..Len(queue) : queue'[k] = queue[i]
      /\ \A i \in 1..Len(queue) : queue[i] \in S => \E k \in 1..Len(queue') : queue'[k] = queue[i]
  <2>1. PICK Z : Z = S
    OBVIOUS
  <2>2. queue' = Filter(queue, Z)
    BY <1>4, <2>1 DEF S
  <2> HIDE DEF S
  <2>3. /\ Filter(queue, Z) \in Seq(Task)
        /\ \A k \in 1..Len(Filter(queue, Z)) :
             \E i \in 1..Len(queue) : Filter(queue, Z)[k] = queue[i] /\ queue[i] \in Z
        /\ \A i \in 1..Len(queue) :
             queue[i] \in Z => \E k \in 1..Len(Filter(queue, Z)) : Filter(queue, Z)[k] = queue[i]
    BY <1>5, FilterKeeps
  <2> QED  BY <2>1, <2>2, <2>3
<1>7. \A r \in Runs : pc[r] \in Phases /\ result[r] \in Results
  BY <1>2 DEF RunTypeOK
<1>8. \A r \in Runs : /\ pc'[r] \in {"idle", "done"} /\ (pc'[r] = "idle" <=> pc[r] = "idle")
                      /\ pc[r] = "done" => result'[r] = result[r]
                      /\ pc[r] # "done" => result'[r] \in {"none", "killed"}
                      /\ pc[r] = "idle" => result'[r] = "none"
                      /\ ~obj'[r].locked
  BY <1>1, <1>3, <1>7 DEF Phases, Active, RunsOK, RunOK, Unlocked
<1>9. RunTypeOK'
  <2>1. pc' \in [Runs -> Phases]
    BY <1>3, <1>7 DEF Phases
  <2>2. result' \in [Runs -> Results]
    BY <1>3, <1>7 DEF Results
  <2> QED  BY <1>2, <1>3, <2>1, <2>2 DEF RunTypeOK
<1>10. LockTypeOK'
  BY <1>2, <1>3 DEF LockTypeOK, Unlocked
<1>11. RunsOK'
  <2> SUFFICES ASSUME NEW r \in Runs PROVE RunOK(r)'
    BY DEF RunsOK
  <2>1. RunOK(r)
    BY <1>1 DEF RunsOK
  <2>2. /\ pc'[r] \in {"idle", "done"} /\ (pc'[r] = "idle" <=> pc[r] = "idle")
        /\ pc[r] = "idle" => result'[r] = "none"
        /\ ~obj'[r].locked
    BY <1>8
  <2>3. job'[r] = job[r] /\ text'[r] = text[r] /\ got'[r] = got[r] /\ unacked'[r] = unacked[r]
    BY <1>3
  <2> QED  BY <2>1, <2>2, <2>3 DEF RunOK
<1>12. StoreOK'
  BY <1>1, <1>2, <1>3, <1>8 DEF StoreOK, LockTypeOK
<1>13. Later /\ LoopMoves /\ Started' = Started
  <2>1. Later
    <3> SUFFICES ASSUME NEW s \in Runs, pc[s] = "done"
                 PROVE  pc'[s] = "done" /\ result'[s] = result[s] /\ src'[s] = src[s] /\ text'[s] = text[s]
      BY DEF Later
    <3> QED  BY <1>3, <1>8
  <2>2. LoopMoves
    BY <1>3 DEF LoopMoves
  <2>3. Started' = Started
    <3>1. \A s \in Runs : pc'[s] # "idle" <=> pc[s] # "idle"
      BY <1>8
    <3> QED  BY <3>1 DEF Started
  <2> QED  BY <2>1, <2>2, <2>3
<1>14. \A x \in Ids(queue) : x \in Ids(queue') \/ x \in dropped'
  <2> SUFFICES ASSUME NEW x \in Ids(queue), x \notin stale PROVE x \in Ids(queue')
    BY <1>4
  <2>1. PICK i \in 1..Len(queue) : x = queue[i].id /\ queue[i] \in Range(queue)
    BY <1>5, QueueFacts
  <2>2. queue[i] \in S
    BY <2>1
  <2>3. PICK k \in 1..Len(queue') : queue'[k] = queue[i]
    BY <1>6, <2>2
  <2>4. queue'[k].id \in Ids(queue')
    BY <1>6, QueueFacts
  <2> QED  BY <2>1, <2>3, <2>4
<1>15. QueueStep
  <2>1. Ids(queue) \subseteq Runs
    BY <1>5, QueueFacts
  <2> QED  BY <1>2, <1>4, <1>6, <1>14, <2>1 DEF QueueStep, StoreTypeOK
<1>16. \A t \in Task : t \in Range(queue') => t \in Range(queue)
  <2> SUFFICES ASSUME NEW t \in Task, t \in Range(queue') PROVE t \in Range(queue)
    OBVIOUS
  <2>1. PICK k \in 1..Len(queue') : t = queue'[k]
    BY <1>6, QueueFacts
  <2>2. PICK i \in 1..Len(queue) : t = queue[i]
    BY <1>6, <2>1
  <2> QED  BY <1>5, <2>2, QueueFacts
<1>17. AllCovered'
  BY <1>1, <1>2, <1>13, <1>16, CoveredKept
<1>18. StepOK
  <2>1. \A r \in Runs : pc[r] # "done" => result'[r] # "error"
    BY <1>8
  <2> QED  BY <1>1, <1>13, <1>15, <2>1 DEF StepOK
<1>19. FailureNotForgotten'
  BY <1>1, <1>18, Remembered
<1>20. QueueTypeOK'
  <2>1. << >> \in Seq(Runs)
    OBVIOUS
  <2> QED  BY <1>3, <1>6, <2>1 DEF QueueTypeOK, Task
<1>21. StoreTypeOK'
  BY <1>2, <1>3, <1>15 DEF StoreTypeOK, QueueStep
<1>22. LoopOK'
  BY <1>3, ExecutorAssumption DEF LoopOK, Range
<1> QED  BY <1>1, <1>9, <1>10, <1>11, <1>12, <1>13, <1>17, <1>19, <1>20, <1>21, <1>22
          DEF ExecutorInv, ExecInv, TypeOK

(* Do-not-disturb changes, a lock grows old, or nothing happens.           *)
LEMMA QuietKeeps ==
  ASSUME ExecutorInv, (\E r \in Runs : LockAges(r)) \/ ToggleDnd \/ UNCHANGED vars
  PROVE  ExecutorInv'
<1>1. /\ QueueTypeOK /\ StoreTypeOK /\ AllCovered /\ LoopOK /\ IsFiniteSet(Started)
  BY DEF ExecutorInv, ExecInv, TypeOK
<1>2. /\ UNCHANGED <<runVars, obj, cur, dedup, queue, loop, dropped, crashes>>
      /\ dnd' \in BOOLEAN /\ old' \subseteq Runs
  BY <1>1 DEF LockAges, ToggleDnd, vars, lockVars, StoreTypeOK
<1>3. LoopMoves /\ Later /\ Started' = Started /\ LoopOK'
  BY <1>1, <1>2 DEF LoopMoves, Later, Started, runVars, LoopOK
<1>4. AllCovered'
  BY <1>1, <1>2, <1>3, CoveredKept
<1>5. QueueStep
  BY <1>1, <1>2, SameQueue
<1> QED  BY <1>1, <1>2, <1>3, <1>4, <1>5, IdleKeeps DEF StoreTypeOK, QueueTypeOK

\* The initial states satisfy the executor's inductive invariant.
LEMMA ExecutorStart == Init => ExecutorInv
<1> SUFFICES ASSUME Init PROVE ExecutorInv
  OBVIOUS
<1>1. ExecInv
  BY ExecStart
<1>2. Started = {}
  BY DEF Init, Started
<1>3. IsFiniteSet(Started)
  BY <1>2, FS_EmptySet
<1>4. AllCovered /\ LoopOK
  BY ExecutorAssumption DEF Init, AllCovered, LoopOK, Range
<1>5. FailureNotForgotten
  BY DEF Init, FailureNotForgotten
<1> QED  BY <1>1, <1>3, <1>4, <1>5 DEF ExecutorInv

\* Every step of the executor keeps its inductive invariant.
LEMMA ExecutorStep ==
  ASSUME ExecutorInv, [Next]_vars
  PROVE  ExecutorInv'
<1>1. ASSUME NEW r \in Runs, NEW j \in Jobs, Fire(r, j) PROVE ExecutorInv'
  BY <1>1, BeginKeeps DEF Fire
<1>2. ASSUME NEW r \in Runs, RunStep(r) PROVE ExecutorInv'
  BY <1>2, RunStepKeeps
<1>3. ASSUME NEW r \in Runs, RetryNext(r) PROVE ExecutorInv'
  <2>1. /\ loop.due # << >> /\ Execute(r, job[Head(loop.due)], Head(loop.due))
        /\ loop' = [loop EXCEPT !.run = r] /\ queue' = queue
    BY <1>3 DEF RetryNext
  <2>2. loop.due \in Seq(Runs) /\ LoopOK /\ RunsOK
    BY DEF ExecutorInv, ExecInv, TypeOK, QueueTypeOK
  <2>3. Head(loop.due) \in Runs /\ Head(loop.due) = loop.due[1] /\ 1 \in DOMAIN loop.due
    BY <2>1, <2>2
  <2>4. job[Head(loop.due)] \in Jobs
    BY <2>2, <2>3 DEF LoopOK, Range, RunsOK, RunOK
  <2> QED  BY <2>1, <2>3, <2>4, BeginKeeps
<1> QED  BY <1>1, <1>2, <1>3, TickKeeps, RecordKeeps, DueKeeps, CrashKeeps, QuietKeeps DEF Next

(* The inductive invariant of the pipeline.                                *)
THEOREM ExecutorInvariant == Spec => []ExecutorInv
BY ExecutorStart, ExecutorStep, PTL DEF Spec

(* The pipeline inside the run that checks it.                             *)
THEOREM ExecutorInvariantRun == ProactiveSpec => []ExecutorInv
<1>1. ProactiveInit => ExecutorInv
  BY ExecutorStart DEF ProactiveInit
<1>2. ExecutorInv /\ [ProactiveNext]_allVars => ExecutorInv'
  <2>1. [ProactiveNext]_allVars => [Next]_vars
    BY DEF ProactiveNext, StepExecutor, StepAdmin, StepConfig, StepMissed, StepFeedback, allVars, vars
  <2> QED  BY <2>1, ExecutorStep
<1> QED  BY <1>1, <1>2, PTL DEF ProactiveSpec

(* A text whose every send failed is not forgotten, whatever the crashes,  *)
(* reclaimed locks, full queues and retries (executor.ts, retry-queue.ts). *)
THEOREM FailuresRemembered == ProactiveSpec => []FailureNotForgotten
<1>1. ExecutorInv => FailureNotForgotten
  BY DEF ExecutorInv
<1> QED  BY <1>1, ExecutorInvariantRun, PTL

(* At most one acknowledged copy of a delivery, and every lock has a       *)
(* holder that will release it (router.ts, executor.ts).                   *)
THEOREM RunsAreSound == ProactiveSpec => []RunsSound
<1>1. ExecutorInv => RunsSound
  <2> SUFFICES ASSUME ExecutorInv PROVE RunsSound
    OBVIOUS
  <2>1. TypeOK /\ RunsOK /\ StoreOK
    BY DEF ExecutorInv, ExecInv
  <2>2. OneCopyPerRun
    BY <2>1 DEF OneCopyPerRun, RunsOK, RunOK
  <2>3. LockHasHolder
    <3> SUFFICES ASSUME NEW j \in Jobs, Stored(j).locked
                 PROVE  cur[j] # None /\ job[cur[j]] = j /\ pc[cur[j]] \in Holding
      BY DEF LockHasHolder
    <3>1. cur[j] # None
      BY DEF Stored, Unlocked
    <3>2. cur[j] \in Runs /\ obj[cur[j]].locked
      BY <2>1, <3>1 DEF TypeOK, LockTypeOK, Stored
    <3> QED  BY <2>1, <3>1, <3>2 DEF RunsOK, RunOK, StoreOK
  <2> QED  BY <2>1, <2>2, <2>3 DEF RunsSound
<1> QED  BY <1>1, ExecutorInvariantRun, PTL

(* What a run delivered with an embedding is in the store that later texts *)
(* are compared with; a run embeds its text once.                          *)
Recalled ==
  \A s \in Runs :
    /\ result[s] = "delivered" /\ s \in emb => text[s] \in dedup
    /\ pc[s] \in {"idle", "gate", "agent", "quiet", "script", "embed"} => s \notin emb

\* A step records what it delivers, and touches no run that is done.
LEMMA RecalledStep ==
  ASSUME ExecutorInv, Recalled, [Next]_vars
  PROVE  Recalled'
<1>1. RunTypeOK /\ RunsOK
  BY DEF ExecutorInv, ExecInv, TypeOK
<1> USE DEF RunTypeOK, RunsOK, RunOK, Recalled, Finish, Release, SetJobState
<1>2. ASSUME NEW r \in Runs, NEW j, NEW t, Execute(r, j, t) PROVE Recalled'
  BY <1>1, <1>2 DEF Execute
<1>3. ASSUME NEW r \in Runs, Gate(r) \/ QuietAnswer(r) \/ Accept(r) PROVE Recalled'
  BY <1>1, <1>3 DEF Gate, QuietAnswer, Accept
<1>4. ASSUME NEW r \in Runs, Answer(r) \/ ExecuteNoAgent(r) PROVE Recalled'
  BY <1>1, <1>4 DEF Answer, ExecuteNoAgent, ExecuteConditional, DeliverResponse
<1>5. ASSUME NEW r \in Runs, Embed(r) PROVE Recalled'
  BY <1>1, <1>5 DEF Embed
<1>6. ASSUME NEW r \in Runs, SendOk(r) PROVE Recalled'
  BY <1>1, <1>6 DEF SendOk
<1>7. ASSUME NEW r \in Runs, SendError(r) PROVE Recalled'
  BY <1>1, <1>7 DEF SendError
<1>8. CASE CrashAndBoot
  BY <1>1, <1>8 DEF CrashAndBoot
<1>9. CASE UNCHANGED <<runVars, dedup>>
  BY <1>9 DEF runVars
<1>10. [Next]_vars =>
         \/ \E r \in Runs : RunStep(r) \/ \E j, t : Execute(r, j, t)
         \/ CrashAndBoot \/ UNCHANGED <<runVars, dedup>>
  BY DEF Next, Fire, RetryNext, LockAges, RetryTick, RecordAttempt, TaskDue, ToggleDnd, vars
<1> QED  BY <1>2, <1>3, <1>4, <1>5, <1>6, <1>7, <1>8, <1>9, <1>10 DEF RunStep

(* A text that is embedded and sent by a conditional job differs from      *)
(* every text that was delivered and embedded before the comparison, over  *)
(* any runs, retries and crashes: a repetition needs runs that overlap     *)
(* (executor.ts deliverResponse, dedup-store.ts).                          *)
THEOREM RepeatsNeedOverlap == Spec => SimilarNeedsOverlap
<1>1. Init => Recalled
  BY DEF Init, Recalled
<1>2. ExecutorInv /\ Recalled /\ [Next]_vars => Recalled'
  BY RecalledStep
<1>3. ASSUME ExecutorInv, Recalled, Next, NEW r \in Runs, pc[r] = "embed", pc'[r] = "send", r \in emb',
             JobMode[job[r]] = "conditional", NEW s \in Runs, result[s] = "delivered", s \in emb
      PROVE  text[s] # text[r]
  <2>1. RunTypeOK /\ RunsOK /\ text[s] \in dedup /\ r \notin emb
    BY <1>3 DEF ExecutorInv, ExecInv, TypeOK, Recalled
  <2>2. Embed(r)
    <3>1. ASSUME NEW q \in Runs, RunStep(q) PROVE q = r /\ Embed(r)
      BY <1>3, <2>1, <3>1 DEF RunStep, Gate, Answer, ExecuteNoAgent, ExecuteConditional, DeliverResponse, QuietAnswer,
                              Embed, Accept, SendOk, SendError, Finish, RunTypeOK
    <3>2. ~ \E q \in Runs : \E j, t : Execute(q, j, t)
      BY <1>3, <2>1 DEF Execute, RunTypeOK
    <3>3. ~CrashAndBoot /\ ~UNCHANGED runVars
      BY <1>3, <2>1 DEF CrashAndBoot, runVars, RunTypeOK
    <3> QED  BY <1>3, <3>1, <3>2, <3>3 DEF Next, Fire, RetryNext, LockAges, RetryTick, RecordAttempt, TaskDue, ToggleDnd
  <2>3. ~Similar(r)
    <3>1. pc'[r] = "send" => ~(pc' = [pc EXCEPT ![r] = "done"])
      BY <2>1 DEF RunTypeOK
    <3>2. ~(emb' = emb)
      BY <1>3, <2>1
    <3> QED  BY <1>3, <2>2, <3>1, <3>2, Zenon DEF Embed, Finish
  <2>4. text[r] \notin dedup
    BY <1>3, <2>3 DEF Similar
  <2> QED  BY <2>1, <2>4
<1>4. ExecutorInv /\ Recalled /\ [Next]_vars =>
        [\A r \in Runs :
           (/\ pc[r] = "embed" /\ pc'[r] = "send" /\ r \in emb'
            /\ JobMode[job[r]] = "conditional")
             => \A s \in Runs : result[s] = "delivered" /\ s \in emb => text[s] # text[r]]_vars
  BY <1>3
<1> QED  BY <1>1, <1>2, <1>4, ExecutorInvariant, PTL DEF Spec, SimilarNeedsOverlap

-----------------------------------------------------------------------------
(* The configuration.                                                      *)

HotKept == CfgPaths \cap {"level", "job"}
EditorStates == {EditorIdle} \cup [at : {"read", "open", "full"}, cfg : Configs]

CfgTypeOK ==
  /\ cfgFile \in Configs \cup {Torn} /\ cfgTmp \in Configs \cup {Torn, Absent}
  /\ editor \in [Editors -> EditorStates]
  /\ current \in Configs /\ applied \in Configs
  /\ reloads \subseteq [next : Configs, todo : SUBSET CfgPaths] /\ IsFiniteSet(reloads)

(* One reload at a time.  Without one the gateway runs with what the       *)
(* reloader holds; a reload under way has still to apply what differs from *)
(* its own copy; and a file that is not the one last read is on its way.   *)
ReloadOK ==
  /\ \A r, s \in reloads : r = s
  /\ reloads = {} => \A p \in HotKept : applied[p] = current[p]
  /\ \A r \in reloads : \A p \in HotKept : p \in r.todo \/ applied[p] = r.next[p]
  /\ cfgFile # Torn /\ ~unseen /\ ~debounce =>
       /\ reloads = {} => current = cfgFile
       /\ \A r \in reloads : r.next = cfgFile

ConfigInv == CfgTypeOK /\ ReloadOK

\* The initial states satisfy the invariant of the configuration reload.
LEMMA ConfigStart == CfgInit => ConfigInv
<1> SUFFICES ASSUME CfgInit PROVE ConfigInv
  OBVIOUS
<1>1. [p \in CfgPaths |-> 1] \in Configs
  BY DEF Configs
<1>2. CfgTypeOK
  BY <1>1, FS_EmptySet DEF CfgInit, CfgTypeOK, EditorStates
<1>3. ReloadOK
  BY DEF CfgInit, ReloadOK
<1> QED  BY <1>2, <1>3 DEF ConfigInv

(* The editors leave the reloader alone, and mark what they write.         *)
LEMMA EditKeeps ==
  ASSUME ConfigInv, cfgFile' \in Configs \cup {Torn}, cfgTmp' \in Configs \cup {Torn, Absent},
         editor' \in [Editors -> EditorStates], UNCHANGED <<debounce, current, reloads, applied>>,
         UNCHANGED <<cfgFile, unseen>> \/ unseen' = TRUE
  PROVE  ConfigInv'
<1>1. CfgTypeOK'
  BY DEF ConfigInv, CfgTypeOK
<1>2. ReloadOK'
  BY DEF ConfigInv, ReloadOK
<1> QED  BY <1>1, <1>2 DEF ConfigInv

\* The steps of an editor: read, open the temporary file, fill it, rename it.
LEMMA EditorsKeep ==
  ASSUME ConfigInv, NEW e \in Editors,
         (\E p \in CfgPaths : EditorReads(e, p)) \/ EditorOpensTmp(e) \/ EditorFillsTmp(e) \/ EditorRenames(e)
  PROVE  ConfigInv'
<1>1. CfgTypeOK
  BY DEF ConfigInv
<1>2. ASSUME NEW x \in EditorStates PROVE [editor EXCEPT ![e] = x] \in [Editors -> EditorStates]
  BY <1>1, UpdateType DEF CfgTypeOK
<1>3. editor[e] \in EditorStates
  BY <1>1 DEF CfgTypeOK
<1>4. editor[e].at \in {"read", "open", "full"} =>
        /\ editor[e].cfg \in Configs
        /\ \A a \in {"open", "full"} : [editor[e] EXCEPT !.at = a] \in EditorStates
  BY <1>3 DEF EditorStates, EditorIdle
<1>5. EditorIdle \in EditorStates
  BY DEF EditorStates
<1>6. ASSUME NEW p \in CfgPaths, EditorReads(e, p) PROVE ConfigInv'
  <2>1. cfgFile \in Configs
    BY <1>1, <1>6 DEF CfgTypeOK, EditorReads
  <2>2. SetByPath(cfgFile, p) \in Configs
    BY <2>1 DEF SetByPath, Configs
  <2>3. [at |-> "read", cfg |-> SetByPath(cfgFile, p)] \in EditorStates
    BY <2>2 DEF EditorStates
  <2>4. editor' \in [Editors -> EditorStates]
    BY <1>2, <1>6, <2>3 DEF EditorReads
  <2> QED  BY <1>1, <1>6, <2>4, EditKeeps DEF EditorReads, CfgTypeOK
<1>7. CASE EditorOpensTmp(e)
  <2>1. editor' = [editor EXCEPT ![e] = [editor[e] EXCEPT !.at = "open"]]
    BY <1>7 DEF EditorOpensTmp
  <2>2. editor' \in [Editors -> EditorStates]
    BY <1>2, <1>4, <1>7, <2>1 DEF EditorOpensTmp
  <2> QED  BY <1>1, <1>7, <2>2, EditKeeps DEF EditorOpensTmp, CfgTypeOK
<1>8. CASE EditorFillsTmp(e)
  <2>1. editor' = [editor EXCEPT ![e] = [editor[e] EXCEPT !.at = "full"]]
    BY <1>8 DEF EditorFillsTmp
  <2>2. editor' \in [Editors -> EditorStates]
    BY <1>2, <1>4, <1>8, <2>1 DEF EditorFillsTmp
  <2>3. editor[e].cfg \in Configs
    BY <1>4, <1>8 DEF EditorFillsTmp
  <2> QED  BY <1>1, <1>8, <2>2, <2>3, EditKeeps DEF EditorFillsTmp, CfgTypeOK
<1>9. CASE EditorRenames(e)
  <2>1. editor' \in [Editors -> EditorStates]
    BY <1>2, <1>5, <1>9 DEF EditorRenames
  <2> QED  BY <1>1, <1>9, <2>1, EditKeeps DEF EditorRenames, CfgTypeOK
<1> QED  BY <1>6, <1>7, <1>8, <1>9

(* A handler has run.                                                      *)
LEMMA HandlerKeeps ==
  ASSUME ConfigInv, NEW r \in reloads, NEW p \in r.todo, HandlerDone(r, p)
  PROVE  ConfigInv'
<1>1. CfgTypeOK /\ ReloadOK
  BY DEF ConfigInv
<1>2. /\ r.next \in Configs /\ r.todo \in SUBSET CfgPaths /\ p \in CfgPaths /\ reloads = {r}
      /\ r \in [next : Configs, todo : SUBSET CfgPaths]
  BY <1>1 DEF CfgTypeOK, ReloadOK
<1>3. UNCHANGED <<cfgFile, cfgTmp, editor, unseen, debounce, cfgEdits>>
  BY DEF HandlerDone
<1>4. /\ applied' \in Configs
      /\ \A q \in CfgPaths \ {p} : applied'[q] = applied[q]
      /\ p # "channel" => applied'[p] = r.next[p]
  <2>1. applied \in [CfgPaths -> {0, 1}] /\ r.next[p] \in {0, 1}
    BY <1>1, <1>2 DEF CfgTypeOK, Configs
  <2>2. CASE applied' = AppliedBy(p, r.next)
    BY <1>2, <2>1, <2>2 DEF AppliedBy, Configs
  <2>3. CASE p = "channel" /\ UNCHANGED applied
    BY <1>1, <2>3 DEF CfgTypeOK
  <2> QED  BY <2>2, <2>3 DEF HandlerDone
<1>5. CASE r.todo = {p}
  <2>1. reloads' = {} /\ current' = r.next
    BY <1>2, <1>5 DEF HandlerDone
  <2>2. CfgTypeOK'
    BY <1>1, <1>2, <1>3, <1>4, <2>1, FS_EmptySet DEF CfgTypeOK
  <2>3. \A q \in HotKept : applied'[q] = r.next[q]
    BY <1>1, <1>4, <1>5 DEF ReloadOK, HotKept
  <2>4. ReloadOK'
    BY <1>1, <1>3, <2>1, <2>3 DEF ReloadOK
  <2> QED  BY <2>2, <2>4 DEF ConfigInv
<1>6. CASE r.todo # {p}
  <2> DEFINE s == [r EXCEPT !.todo = r.todo \ {p}]
  <2>1. reloads' = {s} /\ current' = current
    BY <1>2, <1>6 DEF HandlerDone
  <2>2. s \in [next : Configs, todo : SUBSET CfgPaths] /\ s.next = r.next /\ s.todo = r.todo \ {p}
    BY <1>2
  <2> HIDE DEF s
  <2>3. CfgTypeOK'
    BY <1>1, <1>3, <1>4, <2>1, <2>2, FS_Singleton DEF CfgTypeOK
  <2>4. \A q \in HotKept : q \in s.todo \/ applied'[q] = s.next[q]
    BY <1>1, <1>4, <2>2 DEF ReloadOK, HotKept
  <2>5. ReloadOK'
    BY <1>1, <1>3, <2>1, <2>2, <2>4 DEF ReloadOK
  <2> QED  BY <2>3, <2>5 DEF ConfigInv
<1> QED  BY <1>5, <1>6

(* The debounced timer.                                                    *)
LEMMA ReloadKeeps ==
  ASSUME ConfigInv, MaxReloads = 1, DebouncedReload
  PROVE  ConfigInv'
<1>1. CfgTypeOK /\ ReloadOK
  BY DEF ConfigInv
<1>2. reloads = {}
  <2>1. Cardinality(reloads) \in Nat /\ Cardinality(reloads) < 1
    BY <1>1, FS_CardinalityType DEF CfgTypeOK, DebouncedReload
  <2>2. Cardinality(reloads) = 0
    BY <2>1
  <2> QED  BY <1>1, <2>2, FS_EmptySet DEF CfgTypeOK
<1>3. UNCHANGED <<cfgFile, cfgTmp, editor, unseen, applied, cfgEdits>>
  BY DEF DebouncedReload
<1>4. \/ cfgFile = Torn /\ UNCHANGED <<current, reloads>>
      \/ /\ cfgFile # Torn /\ HotPlan(current, cfgFile) = {}
         /\ current' = cfgFile /\ UNCHANGED reloads
      \/ /\ cfgFile # Torn
         /\ reloads' = reloads \cup {[next |-> cfgFile, todo |-> HotPlan(current, cfgFile)]}
         /\ UNCHANGED current
  BY DEF DebouncedReload, Loaded
<1>5. HotPlan(current, cfgFile) \subseteq CfgPaths
      /\ \A p \in HotKept : p \in HotPlan(current, cfgFile) \/ current[p] = cfgFile[p]
  BY DEF HotPlan, Changed, RuleMode, HotKept
<1>6. CASE cfgFile = Torn /\ UNCHANGED <<current, reloads>>
  BY <1>1, <1>3, <1>6 DEF ConfigInv, CfgTypeOK, ReloadOK
<1>7. CASE /\ cfgFile # Torn /\ HotPlan(current, cfgFile) = {}
           /\ current' = cfgFile /\ UNCHANGED reloads
  <2>1. CfgTypeOK'
    BY <1>1, <1>3, <1>7 DEF CfgTypeOK
  <2>2. \A p \in HotKept : applied'[p] = current'[p]
    BY <1>1, <1>2, <1>3, <1>5, <1>7 DEF ReloadOK
  <2>3. ReloadOK'
    BY <1>1, <1>2, <1>3, <1>7, <2>2 DEF ReloadOK
  <2> QED  BY <2>1, <2>3 DEF ConfigInv
<1>8. CASE /\ cfgFile # Torn
           /\ reloads' = reloads \cup {[next |-> cfgFile, todo |-> HotPlan(current, cfgFile)]}
           /\ UNCHANGED current
  <2> DEFINE s == [next |-> cfgFile, todo |-> HotPlan(current, cfgFile)]
  <2>1. reloads' = {s}
    BY <1>2, <1>8
  <2>2. /\ s \in [next : Configs, todo : SUBSET CfgPaths]
        /\ s.next = cfgFile /\ s.todo = HotPlan(current, cfgFile)
    BY <1>1, <1>5, <1>8 DEF CfgTypeOK
  <2> HIDE DEF s
  <2>3. CfgTypeOK'
    BY <1>1, <1>3, <1>8, <2>1, <2>2, FS_Singleton, ZenonT(60) DEF CfgTypeOK
  <2>4. \A p \in HotKept : p \in s.todo \/ applied'[p] = s.next[p]
    BY <1>1, <1>2, <1>3, <1>5, <2>2 DEF ReloadOK
  <2>5. ReloadOK'
    BY <1>3, <2>1, <2>2, <2>4 DEF ReloadOK
  <2> QED  BY <2>3, <2>5 DEF ConfigInv
<1> QED  BY <1>4, <1>6, <1>7, <1>8

\* Every step of editors and reloader keeps the invariant when reloads do not overlap.
LEMMA ConfigStep ==
  ASSUME ConfigInv, MaxReloads = 1, [CfgNext]_cfgVars
  PROVE  ConfigInv'
<1>1. CfgTypeOK /\ ReloadOK
  BY DEF ConfigInv
<1>2. ASSUME NEW c \in Configs \cup {Torn}, HandEdits(c) PROVE ConfigInv'
  BY <1>1, <1>2, EditKeeps DEF HandEdits, CfgTypeOK
<1>3. CASE WatchPolls
  BY <1>1, <1>3 DEF WatchPolls, ConfigInv, CfgTypeOK, ReloadOK
<1>4. CASE Restarts
  <2>1. CfgTypeOK'
    BY <1>1, <1>4, FS_EmptySet DEF Restarts, CfgTypeOK
  <2>2. ReloadOK'
    BY <1>1, <1>4 DEF Restarts, ReloadOK
  <2> QED  BY <2>1, <2>2 DEF ConfigInv
<1>5. CASE UNCHANGED cfgVars
  BY <1>1, <1>5 DEF cfgVars, ConfigInv, CfgTypeOK, ReloadOK
<1> QED  BY <1>2, <1>3, <1>4, <1>5, EditorsKeep, HandlerKeeps, ReloadKeeps DEF CfgNext

(* While reloads do not overlap, the hot paths settle: once the last       *)
(* change was seen and no reload is due or under way, the gateway runs     *)
(* with the file's log level and schedule toggles, after any edits, torn   *)
(* files and restarts (config-reload.ts doReload).  Overlapping reloads    *)
(* break this, which is why the hypothesis is there.                       *)
THEOREM HotPathsSettle ==
  ASSUME MaxReloads = 1
  PROVE  ProactiveSpec => []HotSettles
<1>1. ProactiveInit => ConfigInv
  BY ConfigStart DEF ProactiveInit
<1>2. ConfigInv /\ [ProactiveNext]_allVars => ConfigInv'
  <2>1. [ProactiveNext]_allVars => [CfgNext]_cfgVars
    BY DEF ProactiveNext, StepExecutor, StepAdmin, StepConfig, StepMissed, StepFeedback, allVars, cfgVars
  <2> QED  BY <2>1, ConfigStep
<1>3. ConfigInv => HotSettles
  BY DEF ConfigInv, ReloadOK, HotSettles, HotKept
<1> QED  BY <1>1, <1>2, <1>3, PTL DEF ProactiveSpec

-----------------------------------------------------------------------------
(* Missed fires.                                                           *)

Starters == {"no", "timer", "hand", "sweep", "catch"}
Repeating == {j \in FireJobs : FireKind[j] # "at"}

FiresTypeOK ==
  /\ now \in Nat \ {0} /\ engineUp \in BOOLEAN
  /\ jobsLive \subseteq jobRows /\ jobRows \subseteq FireJobs /\ awaiting \subseteq FireJobs
  /\ nextDue = [j \in FireJobs |-> nextDue[j]]
  /\ lastRun \in [FireJobs -> Nat] /\ (\A j \in FireJobs : lastRun[j] <= now)
  /\ busy \in [FireJobs -> Starters] /\ ranSelf \in [FireJobs -> Nat]
  /\ catchUp \in Seq(Repeating)

(* A one-shot: it has not run by itself, or its run is in flight and its   *)
(* timer's callback awaits it, or it is gone.  While it is held and no     *)
(* callback awaits it, its timer is armed, for no later than its hour      *)
(* unless that has come.                                                   *)
OneShotOK(j) ==
  /\ ranSelf[j] <= 1
  /\ ranSelf[j] = 1 => j \notin jobRows \/ j \in awaiting
  /\ j \in awaiting => j \in jobsLive /\ nextDue[j] = 0
  /\ j \in jobsLive /\ j \notin awaiting =>
       nextDue[j] \in Nat \ {0} /\ (nextDue[j] <= AtTime \/ nextDue[j] <= now)

FiresInv ==
  /\ FiresTypeOK
  /\ ~engineUp => jobsLive = {}
  /\ \A j \in awaiting : busy[j] # "no"
  /\ \A j \in FireJobs : FireKind[j] = "at" => OneShotOK(j)
  /\ ForcedRunsSpaced

\* The initial states satisfy the invariant of missed fires.
LEMMA FiresStart == FiresInit => FiresInv
<1> SUFFICES ASSUME FiresInit PROVE FiresInv
  OBVIOUS
<1>1. << >> \in Seq(Repeating)
  OBVIOUS
<1>2. FiresTypeOK
  <2>1. now = 1 /\ lastRun \in [FireJobs -> {0, 1}]
    BY DEF FiresInit
  <2>2. lastRun \in [FireJobs -> Nat] /\ \A j \in FireJobs : lastRun[j] <= now
    BY <2>1
  <2>3. nextDue = [j \in FireJobs |-> nextDue[j]]
    BY DEF FiresInit
  <2>4. busy \in [FireJobs -> Starters] /\ ranSelf \in [FireJobs -> Nat]
    BY DEF FiresInit, Starters
  <2>5. /\ engineUp = FALSE /\ jobsLive = {} /\ jobRows = FireJobs /\ awaiting = {} /\ catchUp = << >>
    BY DEF FiresInit
  <2>6. /\ now \in Nat \ {0}
        /\ jobsLive \subseteq jobRows /\ jobRows \subseteq FireJobs /\ awaiting \subseteq FireJobs
    BY <2>1, <2>5
  <2>7. engineUp \in BOOLEAN /\ catchUp \in Seq(Repeating)
    BY <1>1, <2>5, Zenon
  <2> QED  BY <2>2, <2>3, <2>4, <2>6, <2>7, Zenon DEF FiresTypeOK
<1> QED  BY <1>2 DEF FiresInit, FiresInv, OneShotOK, ForcedRunsSpaced

(* What a start changes.                                                   *)
LEMMA StartsFacts ==
  ASSUME FiresTypeOK, NEW J, NEW by \in Starters \ {"no"}, Starts(J, by)
  PROVE  /\ lastRun' \in [FireJobs -> Nat] /\ (\A j \in FireJobs : lastRun'[j] <= now)
         /\ busy' \in [FireJobs -> Starters]
         /\ \A j \in FireJobs : busy[j] # "no" \/ j \in Starting(J) => busy'[j] # "no"
         /\ ranSelf' \in [FireJobs -> Nat]
         /\ \A j \in FireJobs : ranSelf'[j] = IF j \in Starting(J) /\ by # "hand" /\ FireKind[j] = "at"
                                             THEN ranSelf[j] + 1 ELSE ranSelf[j]
         /\ lastStart'[1] = by
<1>1. /\ lastRun' \in [FireJobs -> Nat] /\ (\A j \in FireJobs : lastRun'[j] <= now)
  BY DEF Starts, FiresTypeOK
<1>2. /\ busy' \in [FireJobs -> Starters]
      /\ \A j \in FireJobs : busy[j] # "no" \/ j \in Starting(J) => busy'[j] # "no"
  BY DEF Starts, FiresTypeOK, Starters
<1>3. \A j \in FireJobs : ranSelf'[j] = IF j \in Starting(J) /\ by # "hand" /\ FireKind[j] = "at"
                                             THEN ranSelf[j] + 1 ELSE ranSelf[j]
  BY DEF Starts
<1>4. ranSelf' \in [FireJobs -> Nat]
  BY DEF Starts, FiresTypeOK
<1>5. lastStart'[1] = by
  BY DEF Starts
<1> QED  BY <1>1, <1>2, <1>3, <1>4, <1>5

(* A start of no one-shot by itself.                                       *)
LEMMA StartKeeps ==
  ASSUME FiresInv, NEW J, NEW by \in Starters \ {"no"}, Starts(J, by),
         by = "hand" \/ \A j \in Starting(J) \cap FireJobs : FireKind[j] # "at",
         UNCHANGED <<now, engineUp, jobsLive, jobRows, nextDue, awaiting>>,
         catchUp' \in Seq(Repeating), by # "sweep" \/ lastStart'[2] > Period
  PROVE  FiresInv'
<1>1. FiresTypeOK
  BY DEF FiresInv
<1>2. /\ lastRun' \in [FireJobs -> Nat] /\ (\A j \in FireJobs : lastRun'[j] <= now)
      /\ busy' \in [FireJobs -> Starters]
      /\ \A j \in FireJobs : busy[j] # "no" \/ j \in Starting(J) => busy'[j] # "no"
      /\ ranSelf' \in [FireJobs -> Nat]
      /\ \A j \in FireJobs : ranSelf'[j] = IF j \in Starting(J) /\ by # "hand" /\ FireKind[j] = "at"
                                          THEN ranSelf[j] + 1 ELSE ranSelf[j]
      /\ lastStart'[1] = by
  BY <1>1, StartsFacts
<1>3. FiresTypeOK'
  BY <1>1, <1>2 DEF FiresTypeOK
<1>4. \A j \in FireJobs : FireKind[j] = "at" => ranSelf'[j] = ranSelf[j]
  BY <1>2
<1>5. \A j \in FireJobs : FireKind[j] = "at" => OneShotOK(j)'
  BY <1>4 DEF FiresInv, OneShotOK
<1>6. \A j \in awaiting' : busy'[j] # "no"
  BY <1>1, <1>2 DEF FiresInv, FiresTypeOK
<1>7. ForcedRunsSpaced'
  BY <1>2 DEF ForcedRunsSpaced
<1> QED  BY <1>3, <1>5, <1>6, <1>7 DEF FiresInv

(* The gap of a forced run is the least of several, each over the          *)
(* tolerance.                                                              *)
LEMMA SweepSpaced ==
  ASSUME FiresInv, Sweeps
  PROVE  lastStart'[2] > Period
<1> DEFINE J == {j \in jobsLive : Cron(j) /\ StaleJob(j)}
           gaps == {now - lastRun[j] : j \in {k \in Starting(J) : lastRun[k] > 0 /\ FireKind[k] # "at"}}
<1>1. FiresTypeOK
  BY DEF FiresInv
<1>2. lastStart'[2] = IF gaps = {} THEN NoGap ELSE CHOOSE g \in gaps : \A h \in gaps : g <= h
  BY DEF Sweeps, Starts
<1>3. \A g \in gaps : g \in Nat /\ g > Period
  <2> SUFFICES ASSUME NEW j \in Starting(J), FireKind[j] # "at"
               PROVE  now - lastRun[j] \in Nat /\ now - lastRun[j] > Period
    OBVIOUS
  <2>1. j \in FireJobs /\ now - lastRun[j] > Tolerance
    BY <1>1 DEF Starting, StaleJob, FiresTypeOK
  <2>2. lastRun[j] \in Nat /\ lastRun[j] <= now /\ now \in Nat
    BY <1>1, <2>1 DEF FiresTypeOK
  <2> QED  BY <2>1, <2>2, FiresAssumption
<1> HIDE DEF gaps
<1>4. CASE gaps = {}
  BY <1>2, <1>4, FiresAssumption DEF NoGap
<1>5. CASE gaps # {}
  <2>1. gaps \subseteq Nat
    BY <1>3
  <2>2. \E g \in gaps : \A h \in gaps : g <= h
    BY <1>5, <2>1, LeastNumber
  <2>3. lastStart'[2] \in gaps
    BY <1>2, <1>5, <2>2
  <2> QED  BY <1>3, <2>3
<1> QED  BY <1>4, <1>5

\* A sweep over stuck jobs keeps the invariant.
LEMMA SweepKeeps ==
  ASSUME FiresInv, Sweeps
  PROVE  FiresInv'
<1> DEFINE J == {j \in jobsLive : Cron(j) /\ StaleJob(j)}
<1>1. FiresTypeOK
  BY DEF FiresInv
<1>2. /\ ~TimerPending /\ Starts(J, "sweep")
      /\ UNCHANGED <<now, engineUp, jobsLive, jobRows, nextDue, awaiting, catchUp>>
  BY DEF Sweeps
<1>3. ASSUME NEW j \in Starting(J), j \in FireJobs, FireKind[j] = "at" PROVE FALSE
  <2>1. OneShotOK(j) /\ j \in jobsLive /\ AtTime <= now /\ busy[j] = "no"
    BY <1>3 DEF FiresInv, Starting, StaleJob, JobLocked
  <2>2. j \notin awaiting
    BY <2>1 DEF FiresInv
  <2>3. nextDue[j] \in Nat \ {0} /\ nextDue[j] <= now
    BY <1>1, <2>1, <2>2, FiresAssumption DEF OneShotOK, FiresTypeOK
  <2> QED  BY <1>2, <2>1, <2>3 DEF TimerPending
<1>4. lastStart'[2] > Period
  BY SweepSpaced
<1>5. "sweep" \in Starters \ {"no"}
  BY DEF Starters
<1>6. catchUp' \in Seq(Repeating)
  BY <1>1, <1>2 DEF FiresTypeOK
<1> HIDE DEF J
<1> QED  BY <1>2, <1>3, <1>4, <1>5, <1>6, StartKeeps

\* The catch-up after a start keeps the invariant.
LEMMA CatchKeeps ==
  ASSUME FiresInv, CatchesUp
  PROVE  FiresInv'
<1>1. FiresTypeOK
  BY DEF FiresInv
<1>2. /\ catchUp # << >> /\ catchUp' = Tail(catchUp)
      /\ Starts({Head(catchUp)} \cap jobsLive, "catch")
      /\ UNCHANGED <<now, engineUp, jobsLive, jobRows, nextDue, awaiting>>
  BY DEF CatchesUp
<1>3. Head(catchUp) \in Repeating /\ Tail(catchUp) \in Seq(Repeating)
  BY <1>1, <1>2 DEF FiresTypeOK
<1>4. \A j \in Starting({Head(catchUp)} \cap jobsLive) : FireKind[j] # "at"
  BY <1>3 DEF Starting, Repeating
<1>5. "catch" \in Starters \ {"no"}
  BY DEF Starters
<1> QED  BY <1>2, <1>3, <1>4, <1>5, StartKeeps

\* A manual trigger keeps the invariant.
LEMMA HandKeeps ==
  ASSUME FiresInv, NEW j \in FireJobs, TriggersNow(j)
  PROVE  FiresInv'
<1>1. FiresTypeOK
  BY DEF FiresInv
<1>2. /\ Starts({j}, "hand")
      /\ UNCHANGED <<now, engineUp, jobsLive, jobRows, nextDue, awaiting, catchUp>>
  BY DEF TriggersNow
<1>3. catchUp' \in Seq(Repeating) /\ "hand" \in Starters \ {"no"}
  BY <1>1, <1>2 DEF FiresTypeOK, Starters
<1> QED  BY <1>2, <1>3, StartKeeps

(* A timer's callback is over: it is armed again, or the one-shot is gone. *)
LEMMA TimerOverFacts ==
  ASSUME FiresTypeOK, NEW j \in FireJobs, TimerOver({j})
  PROVE  /\ nextDue' = [k \in FireJobs |-> nextDue'[k]]
         /\ \A k \in FireJobs : k # j => nextDue'[k] = nextDue[k]
         /\ jobsLive' \subseteq jobRows' /\ jobRows' \subseteq FireJobs
         /\ jobsLive' = (IF FireKind[j] = "at" THEN jobsLive \ {j} ELSE jobsLive)
         /\ jobRows' = (IF FireKind[j] = "at" THEN jobRows \ {j} ELSE jobRows)
<1>1. /\ nextDue' = [k \in FireJobs |-> nextDue'[k]]
      /\ \A k \in FireJobs : k # j => nextDue'[k] = nextDue[k]
  BY DEF TimerOver
<1>2. /\ jobsLive' = (IF FireKind[j] = "at" THEN jobsLive \ {j} ELSE jobsLive)
      /\ jobRows' = (IF FireKind[j] = "at" THEN jobRows \ {j} ELSE jobRows)
  BY DEF TimerOver
<1>3. jobsLive' \subseteq jobRows' /\ jobRows' \subseteq FireJobs
  BY <1>2 DEF FiresTypeOK
<1> QED  BY <1>1, <1>2, <1>3

\* A timer that fires keeps the invariant.
LEMMA TimerKeeps ==
  ASSUME FiresInv, NEW j \in FireJobs, TimerFires(j)
  PROVE  FiresInv'
<1>1. FiresTypeOK
  BY DEF FiresInv
<1>2. /\ engineUp /\ j \in jobsLive /\ nextDue[j] > 0 /\ Starts({j}, "timer")
      /\ UNCHANGED <<now, engineUp, catchUp, quiet, sweptAt, manual>>
  BY DEF TimerFires
<1>3. /\ lastRun' \in [FireJobs -> Nat] /\ (\A k \in FireJobs : lastRun'[k] <= now)
      /\ busy' \in [FireJobs -> Starters]
      /\ \A k \in FireJobs : busy[k] # "no" \/ k \in Starting({j}) => busy'[k] # "no"
      /\ ranSelf' \in [FireJobs -> Nat]
      /\ \A k \in FireJobs : ranSelf'[k] = IF k \in Starting({j}) /\ FireKind[k] = "at"
                                          THEN ranSelf[k] + 1 ELSE ranSelf[k]
      /\ lastStart'[1] = "timer"
  <2>1. "timer" \in Starters \ {"no"}
    BY DEF Starters
  <2> QED  BY <1>1, <1>2, <2>1, StartsFacts
<1>4. ForcedRunsSpaced'
  BY <1>3 DEF ForcedRunsSpaced
<1>5. Starting({j}) \subseteq {j}
  BY DEF Starting
<1>6. FireKind[j] = "at" => j \notin awaiting
  BY <1>2 DEF FiresInv, OneShotOK
<1>7. CASE FireKind[j] # "beat" /\ j \in Starting({j})
  <2>1. /\ awaiting' = awaiting \cup {j} /\ nextDue' = [nextDue EXCEPT ![j] = 0]
        /\ UNCHANGED <<jobsLive, jobRows>>
    BY <1>7 DEF TimerFires
  <2>2. /\ nextDue' = [k \in FireJobs |-> nextDue'[k]] /\ nextDue'[j] = 0
        /\ \A k \in FireJobs : k # j => nextDue'[k] = nextDue[k]
    BY <1>1, <2>1 DEF FiresTypeOK
  <2>3. FiresTypeOK'
    BY <1>1, <1>2, <1>3, <2>1, <2>2 DEF FiresTypeOK
  <2>4. \A k \in awaiting' : busy'[k] # "no"
    BY <1>1, <1>3, <1>7, <2>1 DEF FiresInv, FiresTypeOK
  <2>5. ASSUME NEW k \in FireJobs, FireKind[k] = "at" PROVE OneShotOK(k)'
    <3>1. OneShotOK(k)
      BY <2>5 DEF FiresInv
    <3>2. CASE k # j
      <4>1. ranSelf'[k] = ranSelf[k]
        BY <1>3, <1>5, <3>2
      <4> QED  BY <1>2, <2>1, <2>2, <3>1, <3>2, <4>1 DEF OneShotOK
    <3>3. CASE k = j
      <4>1. ranSelf[k] \in Nat /\ j \in jobRows
        BY <1>1, <1>2 DEF FiresTypeOK
      <4>2. ranSelf[k] = 0
        BY <1>6, <2>5, <3>1, <3>3, <4>1 DEF OneShotOK
      <4>3. ranSelf'[j] = ranSelf[j] + 1
        BY <1>3, <1>7, <2>5, <3>3
      <4>4. ranSelf'[k] = 1
        BY <3>3, <4>2, <4>3
      <4> QED  BY <1>2, <2>1, <2>2, <3>3, <4>4 DEF OneShotOK
    <3> QED  BY <3>2, <3>3
  <2> QED  BY <1>2, <1>4, <2>3, <2>4, <2>5 DEF FiresInv
<1>8. CASE ~(FireKind[j] # "beat" /\ j \in Starting({j}))
  <2>1. TimerOver({j}) /\ UNCHANGED awaiting
    BY <1>8 DEF TimerFires
  <2>2. /\ nextDue' = [k \in FireJobs |-> nextDue'[k]]
        /\ \A k \in FireJobs : k # j => nextDue'[k] = nextDue[k]
        /\ jobsLive' \subseteq jobRows' /\ jobRows' \subseteq FireJobs
        /\ jobsLive' = (IF FireKind[j] = "at" THEN jobsLive \ {j} ELSE jobsLive)
        /\ jobRows' = (IF FireKind[j] = "at" THEN jobRows \ {j} ELSE jobRows)
    BY <1>1, <2>1, TimerOverFacts
  <2>3. FiresTypeOK'
    BY <1>1, <1>2, <1>3, <2>1, <2>2 DEF FiresTypeOK
  <2>4. \A k \in awaiting' : busy'[k] # "no"
    BY <1>1, <1>3, <2>1 DEF FiresInv, FiresTypeOK
  <2>5. ASSUME NEW k \in FireJobs, FireKind[k] = "at" PROVE OneShotOK(k)'
    <3>1. OneShotOK(k)
      BY <2>5 DEF FiresInv
    <3>2. ranSelf'[k] = ranSelf[k]
      BY <1>3, <1>5, <1>8, <2>5
    <3>3. CASE k # j
      BY <1>2, <2>1, <2>2, <3>1, <3>2, <3>3 DEF OneShotOK
    <3>4. CASE k = j
      BY <1>6, <2>1, <2>2, <2>5, <3>1, <3>2, <3>4 DEF OneShotOK
    <3> QED  BY <3>3, <3>4
  <2> QED  BY <1>2, <1>4, <2>3, <2>4, <2>5 DEF FiresInv
<1> QED  BY <1>7, <1>8

\* The end of a run keeps the invariant.
LEMMA EndKeeps ==
  ASSUME FiresInv, NEW j \in FireJobs, RunEnds(j)
  PROVE  FiresInv'
<1>1. FiresTypeOK
  BY DEF FiresInv
<1>2. /\ busy' = [busy EXCEPT ![j] = "no"] /\ lastRun' = [lastRun EXCEPT ![j] = now]
      /\ awaiting' = awaiting \ {j}
      /\ UNCHANGED <<now, engineUp, catchUp, quiet, sweptAt, ranSelf, lastStart, manual>>
  BY DEF RunEnds
<1>3. /\ busy' \in [FireJobs -> Starters] /\ \A k \in FireJobs : k # j => busy'[k] = busy[k]
  BY <1>1, <1>2 DEF FiresTypeOK, Starters
<1>4. /\ lastRun' \in [FireJobs -> Nat] /\ \A k \in FireJobs : lastRun'[k] <= now
  BY <1>1, <1>2 DEF FiresTypeOK
<1>5. \A k \in awaiting' : busy'[k] # "no"
  BY <1>1, <1>2, <1>3 DEF FiresInv, FiresTypeOK
<1>6. ForcedRunsSpaced'
  BY <1>2 DEF FiresInv, ForcedRunsSpaced
<1>7. CASE j \in awaiting /\ j \in jobsLive
  <2>1. TimerOver({j})
    BY <1>7 DEF RunEnds
  <2>2. /\ nextDue' = [k \in FireJobs |-> nextDue'[k]]
        /\ \A k \in FireJobs : k # j => nextDue'[k] = nextDue[k]
        /\ jobsLive' \subseteq jobRows' /\ jobRows' \subseteq FireJobs
        /\ jobsLive' = (IF FireKind[j] = "at" THEN jobsLive \ {j} ELSE jobsLive)
        /\ jobRows' = (IF FireKind[j] = "at" THEN jobRows \ {j} ELSE jobRows)
    BY <1>1, <2>1, TimerOverFacts
  <2>3. FiresTypeOK'
    BY <1>1, <1>2, <1>3, <1>4, <2>2 DEF FiresTypeOK
  <2>4. \A k \in FireJobs : FireKind[k] = "at" => OneShotOK(k)'
    BY <1>2, <2>2 DEF FiresInv, OneShotOK
  <2> QED  BY <1>2, <1>5, <1>6, <2>2, <2>3, <2>4 DEF FiresInv
<1>8. CASE ~(j \in awaiting /\ j \in jobsLive)
  <2>1. UNCHANGED <<nextDue, jobsLive, jobRows>>
    BY <1>8 DEF RunEnds
  <2>2. FiresTypeOK'
    BY <1>1, <1>2, <1>3, <1>4, <2>1 DEF FiresTypeOK
  <2>3. \A k \in FireJobs : FireKind[k] = "at" => OneShotOK(k)'
    BY <1>2, <1>8, <2>1 DEF FiresInv, OneShotOK
  <2> QED  BY <1>2, <1>5, <1>6, <2>1, <2>2, <2>3 DEF FiresInv
<1> QED  BY <1>7, <1>8

(* The plan of the catch-up names schedules that repeat.                   *)
LEMMA PlanType ==
  ASSUME NEW J, J \subseteq Repeating, NEW s \in Planned(J)
  PROVE  Capped(s) \in Seq(Repeating)
<1>1. IsFiniteSet(J) /\ Cardinality(J) \in Nat
  BY FiresAssumption, FS_Subset, FS_CardinalityType DEF Repeating
<1>2. s \in [1..Cardinality(J) -> Repeating]
  BY DEF Planned
<1>3. s \in Seq(Repeating) /\ Len(s) = Cardinality(J)
  BY <1>1, <1>2
<1>4. CASE Len(s) > MaxPerRestart
  <2>1. MaxPerRestart \in Nat
    BY FiresAssumption
  <2>2. SubSeq(s, 1, MaxPerRestart) \in Seq(Repeating)
    BY <1>1, <1>3, <1>4, <2>1
  <2> QED  BY <1>4, <2>2 DEF Capped
<1>5. CASE ~(Len(s) > MaxPerRestart)
  BY <1>3, <1>5 DEF Capped
<1> QED  BY <1>4, <1>5

\* The start of the engine keeps the invariant.
LEMMA StartUpKeeps ==
  ASSUME FiresInv, EngineStarts
  PROVE  FiresInv'
<1> DEFINE held == {j \in jobRows : FireKind[j] # "at" \/ AtTime + AtGrace >= now}
<1>1. FiresTypeOK
  BY DEF FiresInv
<1>2. /\ ~engineUp /\ engineUp' = TRUE /\ jobsLive' = held /\ jobRows' = held
      /\ nextDue' = [j \in FireJobs |-> IF j \notin held THEN 0
                                         ELSE IF DueAfter(j, now) = 0 THEN now ELSE DueAfter(j, now)]
      /\ UNCHANGED <<now, lastRun, busy, awaiting, quiet, sweptAt, ranSelf, lastStart, manual>>
  BY DEF EngineStarts
<1>3. catchUp' \in Seq(Repeating)
  <2>1. PICK s \in Planned({j \in jobRows : Overdue(j)}) : catchUp' = Capped(s)
    BY DEF EngineStarts
  <2>2. {j \in jobRows : Overdue(j)} \subseteq Repeating
    BY <1>1 DEF Overdue, Repeating, FiresTypeOK
  <2> QED  BY <2>1, <2>2, PlanType
<1>4. held \subseteq jobRows
  OBVIOUS
<1> HIDE DEF held
<1>5. FiresTypeOK'
  BY <1>1, <1>2, <1>3, <1>4 DEF FiresTypeOK
<1>6. ASSUME NEW j \in FireJobs, FireKind[j] = "at" PROVE OneShotOK(j)'
  <2>1. OneShotOK(j) /\ jobsLive = {}
    BY <1>2, <1>6 DEF FiresInv
  <2>2. j \notin awaiting
    BY <2>1 DEF OneShotOK
  <2>3. DueAfter(j, now) = IF AtTime > now THEN AtTime ELSE 0
    BY <1>6 DEF DueAfter
  <2>4. AtTime \in Nat /\ now \in Nat \ {0}
    BY <1>1, FiresAssumption DEF FiresTypeOK
  <2>5. j \in held => nextDue'[j] \in Nat \ {0} /\ (nextDue'[j] <= AtTime \/ nextDue'[j] <= now)
    BY <1>2, <2>3, <2>4
  <2> QED  BY <1>2, <1>4, <2>1, <2>2, <2>5 DEF OneShotOK
<1> QED  BY <1>2, <1>5, <1>6 DEF FiresInv, ForcedRunsSpaced

\* Every step of the parties that start jobs keeps the invariant.
LEMMA FiresStep ==
  ASSUME FiresInv, [FiresNext]_fireVars
  PROVE  FiresInv'
<1>1. FiresTypeOK
  BY DEF FiresInv
<1>2. CASE FiresStop
  <2>1. /\ engineUp' = FALSE /\ jobsLive' = {} /\ nextDue' = [j \in FireJobs |-> 0] /\ catchUp' = << >>
        /\ UNCHANGED <<now, jobRows, lastRun, busy, awaiting, ranSelf, lastStart>>
        /\ \A j \in FireJobs : busy[j] = "no"
    BY <1>2 DEF FiresStop
  <2>2. awaiting = {}
    BY <1>1, <2>1 DEF FiresInv, FiresTypeOK
  <2>3. << >> \in Seq(Repeating)
    OBVIOUS
  <2>4. FiresTypeOK'
    BY <1>1, <2>1, <2>3 DEF FiresTypeOK
  <2>5. \A j \in FireJobs : FireKind[j] = "at" => OneShotOK(j)'
    BY <2>1, <2>2 DEF FiresInv, OneShotOK
  <2> QED  BY <2>1, <2>2, <2>4, <2>5 DEF FiresInv, ForcedRunsSpaced
<1>3. CASE DndChanges \/ UNCHANGED fireVars
  BY <1>1, <1>3 DEF DndChanges, fireVars, FiresInv, FiresTypeOK, OneShotOK, ForcedRunsSpaced
<1>4. CASE TimePassesBy
  <2>1. now' = now + 1 /\ UNCHANGED <<engineUp, jobsLive, jobRows, nextDue, lastRun, busy, awaiting, catchUp, ranSelf, lastStart>>
    BY <1>4 DEF TimePassesBy
  <2>2. now \in Nat \ {0} /\ now' \in Nat \ {0} /\ now <= now'
    BY <1>1, <2>1 DEF FiresTypeOK
  <2>3. \A j \in FireJobs : lastRun'[j] <= now'
    BY <1>1, <2>1, <2>2 DEF FiresTypeOK
  <2>4. FiresTypeOK'
    BY <1>1, <2>1, <2>2, <2>3 DEF FiresTypeOK
  <2>5. \A j \in FireJobs : FireKind[j] = "at" => OneShotOK(j)'
    BY <2>1, <2>2 DEF FiresInv, OneShotOK
  <2> QED  BY <2>1, <2>4, <2>5 DEF FiresInv, ForcedRunsSpaced
<1> QED  BY <1>2, <1>3, <1>4, TimerKeeps, EndKeeps, HandKeeps, SweepKeeps, StartUpKeeps, CatchKeeps
          DEF FiresNext

(* A missed schedule is caught up once, whatever the timers, sweeps,       *)
(* catch-ups, triggers by hand, restarts and do-not-disturb do: a one-shot *)
(* runs by itself at most once, and a run the sweeper forces comes a full  *)
(* period after the one before (engine.ts, cron-sweeper.ts).               *)
THEOREM MissedCaughtUpOnce == ProactiveSpec => []CaughtUpOnce
<1>1. ProactiveInit => FiresInv
  BY FiresStart DEF ProactiveInit
<1>2. FiresInv /\ [ProactiveNext]_allVars => FiresInv'
  <2>1. [ProactiveNext]_allVars => [FiresNext]_fireVars
    BY DEF ProactiveNext, StepExecutor, StepAdmin, StepConfig, StepMissed, StepFeedback, allVars, fireVars
  <2> QED  BY <2>1, FiresStep
<1>3. FiresInv => CaughtUpOnce
  BY DEF FiresInv, CaughtUpOnce, AtRunsOnce, OneShotOK
<1> QED  BY <1>1, <1>2, <1>3, PTL DEF ProactiveSpec

-----------------------------------------------------------------------------
(* What fires leave behind.                                                *)

FireStates ==
  {NoFire} \cup [st : {"agent"}, n : Nat, at : Nat]
    \cup [st : {"embed"}, n : Nat, at : Nat, msg : FbMessages]
    \cup [st : {"send"}, n : Nat, at : Nat, msg : FbMessages, embedded : BOOLEAN, gated : Nat]
\* How a fire ends; "delivered" is the one the user hears of.
Outcomes == {"presence", "cooldown", "precheck", "ran", "declined", "similar", "delivered"}
DecisionRows ==
  [n : Nat, job : FbJobs, at : Nat, delivered : BOOLEAN, how : Outcomes, credited : BOOLEAN]

FbTypeOK == day \in Nat /\ fires \in Nat /\ fire \in [FbJobs -> FireStates]

(* Only delivered rows are credited, and those were heard.                 *)
DecisionsOK ==
  /\ IsFiniteSet(decisions) /\ decisions \subseteq DecisionRows
  /\ \A r \in decisions : r.credited => r.delivered
  /\ \A r \in decisions : r.delivered => \E h \in heard : h.n = r.n

(* What was heard is numbered in its order; what was heard within the      *)
(* window is still in the store; and a message past the gate repeats       *)
(* nothing heard before it, as nothing is heard meanwhile.                 *)
HeardOK ==
  /\ IsFiniteSet(heard)
  /\ \A h \in heard : h.k \in Nat /\ h.k < Cardinality(heard) /\ h.at \in Nat /\ h.at <= day
StoredOK ==
  \A h \in heard : h.embedded /\ day - h.at <= DedupDays =>
    \E d \in sent : d.msg = h.msg /\ d.embedded /\ d.at = h.at
Alone ==
  \A j, k \in FbJobs : fire[j].st # "idle" /\ fire[k].st # "idle" => j = k
GatedOK ==
  \A j \in FbJobs : fire[j].st = "send" /\ fire[j].embedded /\ FbMode[j] # "always" =>
    \A h \in heard : h.msg = fire[j].msg /\ h.embedded => fire[j].gated - h.at > DedupDays

FeedbackInv ==
  FbTypeOK /\ DecisionsOK /\ HeardOK /\ StoredOK /\ Alone /\ GatedOK /\ NoRepeat

\* The initial states satisfy the invariant of the feedback records.
LEMMA FeedbackStart == FeedbackInit => FeedbackInv
<1> SUFFICES ASSUME FeedbackInit PROVE FeedbackInv
  OBVIOUS
<1>1. FbTypeOK
  BY DEF FeedbackInit, FbTypeOK, FireStates
<1>2. DecisionsOK /\ HeardOK
  BY FS_EmptySet DEF FeedbackInit, DecisionsOK, HeardOK
<1>3. StoredOK /\ NoRepeat
  BY DEF FeedbackInit, StoredOK, NoRepeat
<1>4. Alone /\ GatedOK
  BY DEF FeedbackInit, Alone, GatedOK, NoFire
<1> QED  BY <1>1, <1>2, <1>3, <1>4 DEF FeedbackInv

(* A new row of a fire that delivered nothing, or of one that was heard.   *)
LEMMA RowAdded ==
  ASSUME DecisionsOK, NEW j \in FbJobs, NEW n \in Nat, NEW at \in Nat, NEW how \in Outcomes,
         decisions' = decisions \cup {Row(j, n, at, how)}, heard \subseteq heard',
         how = "delivered" => \E h \in heard' : h.n = n
  PROVE  DecisionsOK'
<1> DEFINE x == Row(j, n, at, how)
<1>1. x \in DecisionRows /\ x.n = n /\ ~x.credited /\ (x.delivered <=> how = "delivered")
  BY DEF Row, DecisionRows
<1> HIDE DEF x
<1>2. decisions' = decisions \cup {x}
  BY DEF x
<1>3. IsFiniteSet(decisions')
  BY <1>2, FS_AddElement DEF DecisionsOK
<1>4. decisions' \subseteq DecisionRows
  BY <1>1, <1>2 DEF DecisionsOK
<1>5. \A r \in decisions' : r.credited => r.delivered
  BY <1>1, <1>2 DEF DecisionsOK
<1>6. \A r \in decisions' : r.delivered => \E h \in heard' : h.n = r.n
  BY <1>1, <1>2 DEF DecisionsOK
<1> QED  BY <1>3, <1>4, <1>5, <1>6 DEF DecisionsOK

(* A step of the fire of job j in which nothing is heard.                  *)
LEMMA UnheardKeeps ==
  ASSUME FeedbackInv, NEW j \in FbJobs, NEW x \in FireStates, fire' = [fire EXCEPT ![j] = x],
         UNCHANGED <<day, sent, heard>>, fires' \in Nat, DecisionsOK',
         x.st # "idle" => \A k \in FbJobs \ {j} : fire[k].st = "idle",
         x.st = "send" /\ x.embedded /\ FbMode[j] # "always" =>
           \A h \in heard : h.msg = x.msg /\ h.embedded => x.gated - h.at > DedupDays
  PROVE  FeedbackInv'
<1>1. FbTypeOK /\ HeardOK /\ StoredOK /\ Alone /\ GatedOK /\ NoRepeat
  BY DEF FeedbackInv
<1>2. fire'[j] = x /\ \A k \in FbJobs : k # j => fire'[k] = fire[k]
  BY <1>1 DEF FbTypeOK
<1>3. FbTypeOK'
  BY <1>1, UpdateType DEF FbTypeOK
<1>4. HeardOK' /\ StoredOK' /\ NoRepeat'
  BY <1>1 DEF HeardOK, StoredOK, NoRepeat
<1>5. Alone'
  BY <1>1, <1>2 DEF Alone
<1>6. GatedOK'
  <2> SUFFICES ASSUME NEW k \in FbJobs, fire'[k].st = "send", fire'[k].embedded, FbMode[k] # "always",
                      NEW h \in heard', h.msg = fire'[k].msg, h.embedded
               PROVE  fire'[k].gated - h.at > DedupDays
    BY DEF GatedOK
  <2>1. CASE k = j
    BY <1>2, <2>1
  <2>2. CASE k # j
    BY <1>1, <1>2, <2>2 DEF GatedOK
  <2> QED  BY <2>1, <2>2
<1> QED  BY <1>3, <1>4, <1>5, <1>6 DEF FeedbackInv

(* The fields of a fire in each of its states.                             *)
LEMMA FireFields ==
  ASSUME FbTypeOK, NEW j \in FbJobs
  PROVE  /\ fire[j].st # "idle" => fire[j].n \in Nat /\ fire[j].at \in Nat
         /\ fire[j].st \in {"embed", "send"} => fire[j].msg \in FbMessages
         /\ fire[j].st = "send" => fire[j].embedded \in BOOLEAN /\ fire[j].gated \in Nat
         /\ fire[j].st = "idle" => fire[j] = NoFire
         /\ fire = [fire EXCEPT ![j] = fire[j]] /\ fire[j] \in FireStates
<1>1. fire[j] \in FireStates
  BY DEF FbTypeOK
<1>2. fire = [fire EXCEPT ![j] = fire[j]]
  BY DEF FbTypeOK
<1>3. CASE fire[j] = NoFire
  BY <1>1, <1>2, <1>3 DEF NoFire
<1>4. CASE fire[j] \in [st : {"agent"}, n : Nat, at : Nat]
  BY <1>1, <1>2, <1>4
<1>5. CASE fire[j] \in [st : {"embed"}, n : Nat, at : Nat, msg : FbMessages]
  BY <1>1, <1>2, <1>5
<1>6. CASE fire[j] \in [st : {"send"}, n : Nat, at : Nat, msg : FbMessages, embedded : BOOLEAN, gated : Nat]
  BY <1>1, <1>2, <1>6
<1> QED  BY <1>1, <1>3, <1>4, <1>5, <1>6 DEF FireStates

(* The rows do not change.                                                 *)
LEMMA RowsKept ==
  ASSUME DecisionsOK, decisions' = decisions, heard \subseteq heard'
  PROVE  DecisionsOK'
BY DEF DecisionsOK

\* The gate of a fire keeps the invariant when fires do not overlap.
LEMMA BeginFireKeeps ==
  ASSUME FeedbackInv, OneAtATime, NEW j \in FbJobs, FireBegins(j)
  PROVE  FeedbackInv'
<1>1. FbTypeOK /\ DecisionsOK /\ fires' = fires + 1 /\ UNCHANGED <<day, sent, heard>>
  BY DEF FeedbackInv, FireBegins
<1>2. fires \in Nat /\ fires + 1 \in Nat /\ day \in Nat /\ fires' \in Nat
  BY <1>1 DEF FbTypeOK
<1>3. fire[j].st = "idle" /\ \A k \in FbJobs : fire[k].st = "idle"
  BY DEF FireBegins
<1>4. ASSUME NEW how \in {"presence", "cooldown", "precheck"}, EndsAtOnce(j, how) PROVE FeedbackInv'
  <2>1. decisions' = decisions \cup {Row(j, fires + 1, day, how)} /\ fire' = fire
    BY <1>4 DEF EndsAtOnce
  <2>2. how \in Outcomes /\ how # "delivered"
    BY <1>4 DEF Outcomes
  <2>3. DecisionsOK'
    BY <1>1, <1>2, <2>1, <2>2, RowAdded
  <2>4. fire' = [fire EXCEPT ![j] = fire[j]] /\ fire[j] \in FireStates
    BY <1>1, <2>1, FireFields
  <2> QED  BY <1>1, <1>2, <1>3, <2>3, <2>4, UnheardKeeps
<1>5. ASSUME fire' = [fire EXCEPT ![j] = [st |-> "agent", n |-> fires + 1, at |-> day]], decisions' = decisions
      PROVE  FeedbackInv'
  <2> DEFINE x == [st |-> "agent", n |-> fires + 1, at |-> day]
  <2>1. x \in FireStates /\ x.st = "agent"
    BY <1>2 DEF FireStates
  <2>2. DecisionsOK'
    BY <1>1, <1>5, RowsKept
  <2>3. fire' = [fire EXCEPT ![j] = x]
    BY <1>5
  <2> HIDE DEF x
  <2> QED  BY <1>1, <1>2, <1>3, <2>1, <2>2, <2>3, UnheardKeeps
<1> QED  BY <1>4, <1>5 DEF FireBegins

(* The fire ends unheard, with or without a row.                           *)
LEMMA EndsUnheard ==
  ASSUME FeedbackInv, NEW j \in FbJobs, fire[j].st # "idle", UNCHANGED <<day, sent, heard, fires>>,
         \/ fire' = [fire EXCEPT ![j] = NoFire] /\ decisions' = decisions
         \/ \E how \in Outcomes \ {"delivered"} : Finalizes(j, how)
  PROVE  FeedbackInv'
<1>1. FbTypeOK /\ DecisionsOK
  BY DEF FeedbackInv
<1>2. fire' = [fire EXCEPT ![j] = NoFire] /\ NoFire \in FireStates /\ NoFire.st = "idle" /\ fires' \in Nat
  BY <1>1 DEF Finalizes, FireStates, NoFire, FbTypeOK
<1>3. fire[j].n \in Nat /\ fire[j].at \in Nat
  BY <1>1, FireFields
<1>4. DecisionsOK'
  <2>1. CASE decisions' = decisions
    BY <1>1, <2>1, RowsKept
  <2>2. CASE \E how \in Outcomes \ {"delivered"} : Finalizes(j, how)
    <3>1. PICK how \in Outcomes \ {"delivered"} : decisions' = decisions \cup {Row(j, fire[j].n, fire[j].at, how)}
      BY <2>2 DEF Finalizes
    <3> QED  BY <1>1, <1>3, <3>1, RowAdded
  <2> QED  BY <2>1, <2>2
<1> QED  BY <1>2, <1>4, UnheardKeeps

\* The agent's report, its delivery or its suppression, keeps the invariant.
LEMMA WriteKeeps ==
  ASSUME FeedbackInv, NEW j \in FbJobs, NEW m \in FbMessages, AgentWrites(j, m)
  PROVE  FeedbackInv'
<1>1. FbTypeOK /\ DecisionsOK /\ Alone /\ UNCHANGED <<day, sent, heard, fires, decisions>>
  BY DEF FeedbackInv, AgentWrites
<1>2. fire[j].st = "agent" /\ fire[j].n \in Nat /\ fire[j].at \in Nat
  BY <1>1, FireFields DEF AgentWrites
<1> DEFINE x == [st |-> "embed", n |-> fire[j].n, at |-> fire[j].at, msg |-> m]
<1>3. fire' = [fire EXCEPT ![j] = x]
  BY DEF AgentWrites
<1>4. x \in FireStates /\ x.st = "embed"
  BY <1>2 DEF FireStates
<1>5. \A k \in FbJobs \ {j} : fire[k].st = "idle"
  BY <1>1, <1>2 DEF Alone
<1>6. DecisionsOK' /\ fires' \in Nat
  BY <1>1, RowsKept DEF FbTypeOK
<1> HIDE DEF x
<1> QED  BY <1>1, <1>3, <1>4, <1>5, <1>6, UnheardKeeps

(* The gate: nothing similar was sent within the window, so nothing heard  *)
(* within it was similar.                                                  *)
LEMMA GateKeeps ==
  ASSUME FeedbackInv, NEW j \in FbJobs, SimilarGate(j)
  PROVE  FeedbackInv'
<1>1. FbTypeOK /\ DecisionsOK /\ Alone /\ HeardOK /\ StoredOK /\ UNCHANGED <<day, sent, heard, fires>>
  BY DEF FeedbackInv, SimilarGate
<1>2. fire[j].st = "embed"
  BY DEF SimilarGate
<1>3. fire[j].n \in Nat /\ fire[j].at \in Nat /\ fire[j].msg \in FbMessages
  BY <1>1, <1>2, FireFields
<1>4. PICK embedded \in BOOLEAN :
        IF embedded /\ FbMode[j] # "always" /\ SimilarSent(j, fire[j].msg) # {}
        THEN Finalizes(j, "similar")
        ELSE /\ fire' = [fire EXCEPT ![j] = [st |-> "send", n |-> fire[j].n, at |-> fire[j].at,
                                              msg |-> fire[j].msg, embedded |-> embedded, gated |-> day]]
             /\ UNCHANGED decisions
  BY DEF SimilarGate
<1>5. CASE embedded /\ FbMode[j] # "always" /\ SimilarSent(j, fire[j].msg) # {}
  <2>1. Finalizes(j, "similar") /\ "similar" \in Outcomes \ {"delivered"}
    BY <1>4, <1>5 DEF Outcomes
  <2>2. \E how \in Outcomes \ {"delivered"} : Finalizes(j, how)
    BY <2>1
  <2> QED  BY <1>1, <1>2, <2>2, EndsUnheard
<1>6. CASE ~(embedded /\ FbMode[j] # "always" /\ SimilarSent(j, fire[j].msg) # {})
  <2> DEFINE x == [st |-> "send", n |-> fire[j].n, at |-> fire[j].at,
                   msg |-> fire[j].msg, embedded |-> embedded, gated |-> day]
  <2>1. fire' = [fire EXCEPT ![j] = x] /\ decisions' = decisions
    BY <1>4, <1>6
  <2>2. /\ x \in FireStates /\ x.st = "send" /\ x.msg = fire[j].msg /\ x.gated = day
        /\ x.embedded = embedded
    BY <1>1, <1>3 DEF FireStates, FbTypeOK
  <2> HIDE DEF x
  <2>3. \A k \in FbJobs \ {j} : fire[k].st = "idle"
    BY <1>1, <1>2 DEF Alone
  <2>4. DecisionsOK' /\ fires' \in Nat
    BY <1>1, <2>1, RowsKept DEF FbTypeOK
  <2>5. ASSUME x.embedded, FbMode[j] # "always", NEW h \in heard, h.msg = x.msg, h.embedded
        PROVE  x.gated - h.at > DedupDays
    <3>1. SimilarSent(j, fire[j].msg) = {}
      BY <1>6, <2>2, <2>5
    <3>2. ~(day - h.at <= DedupDays)
      <4> SUFFICES ASSUME day - h.at <= DedupDays PROVE FALSE
        OBVIOUS
      <4>1. PICK d \in sent : d.msg = h.msg /\ d.embedded /\ d.at = h.at
        BY <1>1, <2>5 DEF StoredOK
      <4> QED  BY <2>2, <2>5, <3>1, <4>1 DEF SimilarSent
    <3>3. day \in Nat /\ h.at \in Nat /\ DedupDays \in Nat
      BY <1>1, FeedbackAssumption DEF FbTypeOK, HeardOK
    <3> QED  BY <2>2, <3>2, <3>3
  <2> QED  BY <1>1, <2>1, <2>2, <2>3, <2>4, <2>5, UnheardKeeps
<1> QED  BY <1>5, <1>6

(* The message is heard.                                                   *)
LEMMA SendKeeps ==
  ASSUME FeedbackInv, NEW j \in FbJobs, SendSucceeds(j)
  PROVE  FeedbackInv'
<1> DEFINE c == Cardinality(heard)
           x == [k |-> c, n |-> fire[j].n, job |-> j, msg |-> fire[j].msg, at |-> day,
                 gated |-> fire[j].gated, embedded |-> fire[j].embedded]
           d == [n |-> fire[j].n, job |-> j, msg |-> fire[j].msg, at |-> day, embedded |-> fire[j].embedded]
<1>1. FbTypeOK /\ DecisionsOK /\ HeardOK /\ StoredOK /\ Alone /\ GatedOK /\ NoRepeat
  BY DEF FeedbackInv
<1>2. /\ fire[j].st = "send" /\ Finalizes(j, "delivered") /\ sent' = sent \cup {d}
      /\ heard' = heard \cup {x} /\ UNCHANGED <<day, fires>>
  BY DEF SendSucceeds, RecordsDelivery
<1>3. /\ x.k = c /\ x.n = fire[j].n /\ x.job = j /\ x.msg = fire[j].msg /\ x.at = day
      /\ x.gated = fire[j].gated /\ x.embedded = fire[j].embedded
      /\ d.msg = x.msg /\ d.at = day /\ d.embedded = x.embedded
  OBVIOUS
<1> HIDE DEF x, d
<1>4. /\ fire[j].n \in Nat /\ fire[j].at \in Nat /\ fire[j].gated \in Nat /\ day \in Nat
  BY <1>1, <1>2, FireFields DEF FbTypeOK
<1>5. c \in Nat /\ x \notin heard
  <2>1. c \in Nat
    BY <1>1, FS_CardinalityType DEF HeardOK
  <2> QED  BY <1>1, <1>3, <2>1 DEF HeardOK
<1>6. IsFiniteSet(heard') /\ Cardinality(heard') = c + 1
  BY <1>1, <1>2, <1>5, FS_AddElement DEF HeardOK
<1>7. HeardOK'
  <2> SUFFICES ASSUME NEW h \in heard'
               PROVE  h.k \in Nat /\ h.k < Cardinality(heard') /\ h.at \in Nat /\ h.at <= day'
    BY <1>6 DEF HeardOK
  <2>1. CASE h \in heard
    BY <1>1, <1>2, <1>5, <1>6, <2>1 DEF HeardOK
  <2>2. CASE h = x
    BY <1>2, <1>3, <1>4, <1>5, <1>6, <2>2
  <2> QED  BY <1>2, <2>1, <2>2
<1>8. StoredOK'
  <2> SUFFICES ASSUME NEW h \in heard', h.embedded, day' - h.at <= DedupDays
               PROVE  \E e \in sent' : e.msg = h.msg /\ e.embedded /\ e.at = h.at
    BY DEF StoredOK
  <2>1. CASE h \in heard
    BY <1>1, <1>2, <2>1 DEF StoredOK
  <2>2. CASE h = x
    BY <1>2, <1>3, <2>2
  <2> QED  BY <1>2, <2>1, <2>2
<1>9. NoRepeat'
  <2> SUFFICES ASSUME NEW a \in heard', NEW b \in heard', a.k < b.k, a.msg = b.msg, a.embedded,
                      b.embedded, FbMode[b.job] # "always"
               PROVE  b.gated - a.at > DedupDays
    BY DEF NoRepeat
  <2>1. CASE a \in heard /\ b \in heard
    BY <1>1, <2>1 DEF NoRepeat
  <2>2. CASE a \in heard /\ b = x
    BY <1>1, <1>2, <1>3, <2>2 DEF GatedOK
  <2>3. CASE a = x
    <3>1. \A h \in heard' : h.k \in Nat /\ h.k <= c
      BY <1>5, <1>6, <1>7 DEF HeardOK
    <3> QED  BY <1>3, <1>5, <2>3, <3>1
  <2> QED  BY <1>2, <2>1, <2>2, <2>3
<1>10. DecisionsOK'
  <2>1. decisions' = decisions \cup {Row(j, fire[j].n, fire[j].at, "delivered")} /\ "delivered" \in Outcomes
    BY <1>2 DEF Finalizes, Outcomes
  <2>2. \E h \in heard' : h.n = fire[j].n
    BY <1>2, <1>3
  <2> QED  BY <1>1, <1>2, <1>4, <2>1, <2>2, RowAdded
<1>11. /\ fire' = [fire EXCEPT ![j] = NoFire] /\ NoFire \in FireStates
  BY <1>2 DEF Finalizes, FireStates
<1>12. FbTypeOK'
  BY <1>1, <1>2, <1>11, UpdateType DEF FbTypeOK
<1>13. \A k \in FbJobs : fire'[k].st = "idle"
  BY <1>1, <1>2, <1>11 DEF Alone, FbTypeOK, NoFire
<1>14. Alone' /\ GatedOK'
  BY <1>13 DEF Alone, GatedOK
<1> QED  BY <1>7, <1>8, <1>9, <1>10, <1>12, <1>14 DEF FeedbackInv

(* A reply credits rows that were delivered and changes nothing else.      *)
LEMMA ReplyKeeps ==
  ASSUME FeedbackInv, UserReplies
  PROVE  FeedbackInv'
<1>1. FbTypeOK /\ DecisionsOK /\ HeardOK /\ StoredOK /\ Alone /\ GatedOK /\ NoRepeat
  BY DEF FeedbackInv
<1>2. UNCHANGED <<day, fires, fire, sent, heard>>
  BY DEF UserReplies
<1> DEFINE f == [r \in decisions |-> IF Credited(r) THEN [r EXCEPT !.credited = TRUE] ELSE r]
<1>3. decisions' = {f[r] : r \in decisions}
  BY DEF UserReplies
<1>4. ASSUME NEW r \in decisions
      PROVE  /\ f[r] \in DecisionRows /\ f[r].n = r.n /\ f[r].delivered = r.delivered
             /\ f[r].credited => r.credited \/ r.delivered
  <2>1. r \in DecisionRows
    BY <1>1 DEF DecisionsOK
  <2>2. /\ [r EXCEPT !.credited = TRUE] \in DecisionRows /\ [r EXCEPT !.credited = TRUE].n = r.n
        /\ [r EXCEPT !.credited = TRUE].delivered = r.delivered
    BY <2>1 DEF DecisionRows
  <2>3. CASE Credited(r)
    BY <2>2, <2>3 DEF Credited
  <2>4. CASE ~Credited(r)
    BY <2>1, <2>4
  <2> QED  BY <2>3, <2>4
<1>5. f \in Surjection(decisions, decisions')
  <2>1. f \in [decisions -> decisions']
    BY <1>3
  <2>2. \A y \in decisions' : \E r \in decisions : f[r] = y
    BY <1>3
  <2> HIDE DEF f
  <2> QED  BY <2>1, <2>2 DEF Surjection
<1>6. IsFiniteSet(decisions')
  BY <1>1, <1>5, FS_Surjection DEF DecisionsOK
<1> HIDE DEF f
<1>7. DecisionsOK'
  <2>1. decisions' \subseteq DecisionRows
    BY <1>3, <1>4
  <2>2. \A y \in decisions' : y.credited => y.delivered
    BY <1>1, <1>3, <1>4 DEF DecisionsOK
  <2>3. \A y \in decisions' : y.delivered => \E h \in heard' : h.n = y.n
    BY <1>1, <1>2, <1>3, <1>4 DEF DecisionsOK
  <2> QED  BY <1>6, <2>1, <2>2, <2>3 DEF DecisionsOK
<1> QED  BY <1>1, <1>2, <1>7 DEF FeedbackInv, FbTypeOK, HeardOK, StoredOK, Alone, GatedOK, NoRepeat

(* Pruning drops only what the gate no longer reads.                       *)
LEMMA PruneKeeps ==
  ASSUME FeedbackInv, Prunes
  PROVE  FeedbackInv'
<1>1. FbTypeOK /\ DecisionsOK /\ HeardOK /\ StoredOK /\ Alone /\ GatedOK /\ NoRepeat
  BY DEF FeedbackInv
<1>2. UNCHANGED <<day, fires, fire, heard>> /\ decisions' \subseteq decisions
      /\ sent' = {d \in sent : day - d.at <= KeptDays}
  BY DEF Prunes, KeptRows
<1>3. DecisionsOK'
  <2>1. IsFiniteSet(decisions')
    BY <1>1, <1>2, FS_Subset DEF DecisionsOK
  <2> QED  BY <1>1, <1>2, <2>1 DEF DecisionsOK
<1>4. StoredOK'
  <2> SUFFICES ASSUME NEW h \in heard, h.embedded, day - h.at <= DedupDays
               PROVE  \E e \in sent' : e.msg = h.msg /\ e.embedded /\ e.at = h.at
    BY <1>2 DEF StoredOK
  <2>1. PICK e \in sent : e.msg = h.msg /\ e.embedded /\ e.at = h.at
    BY <1>1 DEF StoredOK
  <2>2. day \in Nat /\ h.at \in Nat /\ DedupDays \in Nat /\ KeptDays \in Nat /\ DedupDays <= KeptDays
    BY <1>1, FeedbackAssumption DEF FbTypeOK, HeardOK
  <2>3. day - e.at <= KeptDays
    BY <2>1, <2>2
  <2> QED  BY <1>2, <2>1, <2>3
<1> QED  BY <1>1, <1>2, <1>3, <1>4 DEF FeedbackInv, FbTypeOK, HeardOK, Alone, GatedOK, NoRepeat

\* The passing of a day with its pruning keeps the invariant.
LEMMA DayKeeps ==
  ASSUME FeedbackInv, DayPasses
  PROVE  FeedbackInv'
<1>1. FbTypeOK /\ DecisionsOK /\ HeardOK /\ StoredOK /\ Alone /\ GatedOK /\ NoRepeat
  BY DEF FeedbackInv
<1>2. day' = day + 1 /\ UNCHANGED <<fires, fire, decisions, sent, heard>>
  BY DEF DayPasses
<1>3. day \in Nat /\ day' \in Nat /\ FbTypeOK' /\ DecisionsOK'
  BY <1>1, <1>2 DEF FbTypeOK, DecisionsOK
<1>4. HeardOK' /\ StoredOK'
  <2>1. \A h \in heard : h.at \in Nat /\ h.at <= day
    BY <1>1 DEF HeardOK
  <2>2. \A h \in heard : h.at <= day' /\ (day' - h.at <= DedupDays => day - h.at <= DedupDays)
    BY <1>2, <1>3, <2>1, FeedbackAssumption
  <2> QED  BY <1>1, <1>2, <2>2 DEF HeardOK, StoredOK
<1> QED  BY <1>1, <1>2, <1>3, <1>4 DEF FeedbackInv, Alone, GatedOK, NoRepeat

\* Every step of the feedback loop keeps the invariant.
LEMMA FeedbackStep ==
  ASSUME FeedbackInv, OneAtATime, [FeedbackNext]_feedbackVars
  PROVE  FeedbackInv'
<1>1. ASSUME NEW j \in FbJobs, AgentFails(j) \/ AgentDeclines(j) \/ SendFails(j) PROVE FeedbackInv'
  <2>1. fire[j].st # "idle" /\ UNCHANGED <<day, sent, heard, fires>>
    BY <1>1 DEF AgentFails, AgentDeclines, SendFails
  <2>2. \/ fire' = [fire EXCEPT ![j] = NoFire] /\ decisions' = decisions
        \/ Finalizes(j, "ran") \/ Finalizes(j, "declined")
    BY <1>1 DEF AgentFails, AgentDeclines, SendFails
  <2>3. "ran" \in Outcomes \ {"delivered"} /\ "declined" \in Outcomes \ {"delivered"}
    BY DEF Outcomes
  <2>4. \/ fire' = [fire EXCEPT ![j] = NoFire] /\ decisions' = decisions
        \/ \E how \in Outcomes \ {"delivered"} : Finalizes(j, how)
    BY <2>2, <2>3
  <2> QED  BY <2>1, <2>4, EndsUnheard
<1>2. CASE PresenceChanges \/ UNCHANGED feedbackVars
  BY <1>2 DEF PresenceChanges, feedbackVars, FeedbackInv, FbTypeOK, DecisionsOK, HeardOK, StoredOK,
              Alone, GatedOK, NoRepeat
<1> QED  BY <1>1, <1>2, BeginFireKeeps, GateKeeps, SendKeeps, WriteKeeps, ReplyKeeps, PruneKeeps, DayKeeps
          DEF FeedbackNext

(* While fires do not overlap, what the engine learns from them is true:   *)
(* no embedded text goes out twice within the window, through pruning and  *)
(* passing days, and a reply is credited only to what was                  *)
(* delivered and heard (executor.ts deliverResponse, learning-store.ts     *)
(* markUserResponse).                                                      *)
THEOREM FeedbackIsSound ==
  ASSUME OneAtATime
  PROVE  ProactiveSpec => []FeedbackSound
<1>1. ProactiveInit => FeedbackInv
  BY FeedbackStart DEF ProactiveInit
<1>2. FeedbackInv /\ [ProactiveNext]_allVars => FeedbackInv'
  <2>1. [ProactiveNext]_allVars => [FeedbackNext]_feedbackVars
    BY DEF ProactiveNext, StepExecutor, StepAdmin, StepConfig, StepMissed, StepFeedback, allVars, feedbackVars
  <2> QED  BY <2>1, FeedbackStep
<1>3. FeedbackInv => FeedbackSound
  <2> SUFFICES ASSUME FeedbackInv PROVE NoRepeat /\ CreditIsEarned
    BY DEF FeedbackSound
  <2>1. NoRepeat /\ DecisionsOK
    BY DEF FeedbackInv
  <2>2. \A r \in decisions : r.credited => \E h \in heard : h.n = r.n
    BY <2>1 DEF DecisionsOK
  <2>3. ASSUME NEW j \in FbJobs PROVE ReplyRateOver(j).replied <= ReplyRateOver(j).delivered
    <3> DEFINE own == OwnRows(j, 30)
               D == {r \in own : r.delivered}
               C == {r \in own : r.credited}
    <3>1. own \subseteq decisions
      BY DEF OwnRows, Newest
    <3>2. ReplyRateOver(j).replied = Cardinality(C) /\ ReplyRateOver(j).delivered = Cardinality(D)
      BY DEF ReplyRateOver
    <3> HIDE DEF own
    <3>3. C \subseteq D /\ D \subseteq decisions
      BY <2>1, <3>1 DEF DecisionsOK
    <3>4. IsFiniteSet(D)
      BY <2>1, <3>3, FS_Subset DEF DecisionsOK
    <3> QED  BY <3>2, <3>3, <3>4, FS_Subset
  <2> QED  BY <2>1, <2>2, <2>3 DEF CreditIsEarned
<1> QED  BY <1>1, <1>2, <1>3, PTL DEF ProactiveSpec

-----------------------------------------------------------------------------
(* The administration of schedules.                                        *)

(* A row has the kind and the name of an offer for its id, and the prompt  *)
(* of one; an edit under way is one that was asked for.                    *)
Kinds      == {"heartbeat", "cron", "webhook"}
Named(i)   == {<<o.kind, o.key>> : o \in {p \in Offers : p.id = i}}
FilesOf(i) == {CopyName(o) : o \in {p \in Offers : p.id = i}}
AllFiles   == UNION {FilesOf(i) : i \in SchedIds}
Keys       == {o.key : o \in Offers}
Rows(i)    == {r \in [kind : Kinds, id : {i}, key : Keys, file : FilesOf(i), skills : SUBSET SkillNames, on : BOOLEAN] :
                 Place(r) \in Named(i)}
LiveRows   == [kind : Kinds, id : SchedIds, key : Keys, file : AllFiles, skills : SUBSET SkillNames]
CreateRows == [op : {"create"}, offer : Offers]
UpdateRows == {e \in [op : {"update"}, offer : Offers, read : UNION {Rows(i) : i \in SchedIds}] : e.read \in Rows(e.offer.id)}
SkillRows  == [op : {"skills"}, id : SchedIds, skills : SUBSET SkillNames]

EditorsTypeOK ==
  /\ schedRows \in [SchedIds -> {NoRow} \cup UNION {Rows(i) : i \in SchedIds}]
  /\ \A i \in SchedIds : HasRow(i) => RowOf(i) \in Rows(i)
  /\ agentEdit \in {NoEdit} \cup CreateRows \cup UpdateRows
  /\ cliEdit \in {NoEdit} \cup CreateRows \cup SkillRows
AdminTypeOK ==
  /\ EditorsTypeOK
  /\ engineAt \in {"down", "loading", "cron", "up"}
  /\ queued \in Seq(LiveRows)

(* A creation under way has an id of its own, and none survives the engine;*)
(* an update began when the engine was up.                                 *)
EditsOK ==
  /\ \A e \in {agentEdit, cliEdit} :
       e.op = "create" => /\ ~HasRow(e.offer.id) /\ \A b \in System : b.id # e.offer.id
                          /\ engineAt # "down"
  /\ agentEdit.op = "create" /\ cliEdit.op = "create" => agentEdit.offer.id # cliEdit.offer.id
  /\ agentEdit.op = "update" => engineAt = "up"

(* What waits for its trigger is the registration of an enabled row.       *)
QueueOK ==
  /\ \A k \in DOMAIN queued : /\ HasRow(queued[k].id) /\ queued[k] = Entry(RowOf(queued[k].id)) /\ RowOf(queued[k].id).on
  /\ engineAt \in {"down", "up"} => queued = << >>

(* Whatever is live is the registration of a row, and every enabled        *)
(* heartbeat and cron job is live once the triggers run.                   *)
LiveOK ==
  /\ engineAt \in {"down", "loading"} => schedLive = {}
  /\ engineAt = "cron" => \A e \in schedLive : e.kind # "webhook"
  /\ \A e \in schedLive : /\ e.id \in SchedIds /\ HasRow(e.id) /\ e = Entry(RowOf(e.id))
                          /\ e.kind # "webhook" => RowOf(e.id).on
  /\ engineAt \in {"cron", "up"} =>
       \A i \in SchedIds : HasRow(i) /\ RowOf(i).on /\ RowOf(i).kind # "webhook" => Entry(RowOf(i)) \in schedLive

AdminInv == AdminTypeOK /\ EditsOK /\ QueueOK /\ LiveOK

(* The theorem's circumstances: creations use fresh ids, and nothing but a *)
(* creation reaches the engine before it is up.                            *)
OnlyCreatesEarly == FreshIds /\ BootEdits \subseteq {"create"}

\* What a row is.
LEMMA RowFacts ==
  ASSUME NEW i \in SchedIds, NEW r \in Rows(i)
  PROVE  /\ r # NoRow /\ r.id = i /\ r.kind \in Kinds /\ r.key \in Keys /\ r.file \in FilesOf(i)
         /\ r.skills \in SUBSET SkillNames /\ r.on \in BOOLEAN /\ Place(r) \in Named(i)
         /\ r = [kind |-> r.kind, id |-> i, key |-> r.key, file |-> r.file, skills |-> r.skills, on |-> r.on]
<1>1. r \in [kind : Kinds, id : {i}, key : Keys, file : FilesOf(i), skills : SUBSET SkillNames, on : BOOLEAN]
      /\ Place(r) \in Named(i)
  BY DEF Rows
<1>2. r.kind \in Kinds /\ r.id = i /\ r.key \in Keys /\ r.file \in FilesOf(i)
      /\ r.skills \in SUBSET SkillNames /\ r.on \in BOOLEAN
      /\ r = [kind |-> r.kind, id |-> i, key |-> r.key, file |-> r.file, skills |-> r.skills, on |-> r.on]
  BY <1>1
<1>3. r # NoRow
  BY <1>2 DEF NoRow, Kinds
<1> QED  BY <1>1, <1>2, <1>3

\* What EXCEPT makes of the three fields an update patches.
LEMMA PatchedRow ==
  ASSUME NEW i \in SchedIds, NEW r \in Rows(i), NEW a, NEW b, NEW c
  PROVE  [r EXCEPT !.key = a, !.file = b, !.on = c] =
           [kind |-> r.kind, id |-> i, key |-> a, file |-> b, skills |-> r.skills, on |-> c]
<1> DEFINE x == [r EXCEPT !.key = a]
           y == [x EXCEPT !.file = b]
<1>1. r = [kind |-> r.kind, id |-> i, key |-> r.key, file |-> r.file, skills |-> r.skills, on |-> r.on]
  BY RowFacts
<1>2. x = [kind |-> r.kind, id |-> i, key |-> a, file |-> r.file, skills |-> r.skills, on |-> r.on]
  BY <1>1
<1> HIDE DEF x
<1>3. y = [kind |-> r.kind, id |-> i, key |-> a, file |-> b, skills |-> r.skills, on |-> r.on]
  BY <1>2
<1> HIDE DEF y
<1>4. [y EXCEPT !.on = c] = [kind |-> r.kind, id |-> i, key |-> a, file |-> b, skills |-> r.skills, on |-> c]
  BY <1>3
<1>5. [r EXCEPT !.key = a, !.file = b, !.on = c] = [y EXCEPT !.on = c]
  BY DEF x, y
<1> QED  BY <1>4, <1>5

\* What the registration of a row is.
LEMMA EntryFacts ==
  ASSUME NEW i \in SchedIds, NEW r \in Rows(i)
  PROVE  /\ Entry(r) \in LiveRows /\ Entry(r).id = i /\ Entry(r).kind = r.kind /\ Entry(r).key = r.key
         /\ Place(Entry(r)) = Place(r)
<1>1. r.id = i /\ r.kind \in Kinds /\ r.key \in Keys /\ r.file \in FilesOf(i) /\ r.skills \in SUBSET SkillNames
  BY RowFacts
<1>2. r.file \in AllFiles
  BY <1>1 DEF AllFiles
<1>3. Entry(r) \in LiveRows
  BY <1>1, <1>2 DEF Entry, LiveRows
<1> QED  BY <1>1, <1>3 DEF Entry, Place

\* Rows of two schedules have two places: a name, an id or a path is one schedule's.
LEMMA PlacesApart ==
  ASSUME NEW i \in SchedIds, NEW j \in SchedIds, NEW r \in Rows(i), NEW q \in Rows(j), Place(r) = Place(q)
  PROVE  i = j
<1>1. Place(r) \in Named(i) /\ Place(q) \in Named(j)
  BY RowFacts
<1>2. PICK o \in Offers : o.id = i /\ Place(r) = <<o.kind, o.key>>
  BY <1>1 DEF Named
<1>3. PICK p \in Offers : p.id = j /\ Place(q) = <<p.kind, p.key>>
  BY <1>1 DEF Named
<1>4. <<o.kind, o.key>> = <<p.kind, p.key>>
  BY <1>2, <1>3
<1>5. o.kind = p.kind /\ o.key = p.key
  BY <1>4
<1> QED  BY <1>2, <1>3, <1>5, AdminAssumption

\* The row a creation writes is a row, enabled and of the kind asked for.
LEMMA NewRowFacts ==
  ASSUME NEW o \in Offers
  PROVE  o.id \in SchedIds /\ NewRow(o) \in Rows(o.id) /\ NewRow(o).on /\ NewRow(o).id = o.id /\ NewRow(o).kind = o.kind
         /\ NewRow(o).file = CopyName(o)
<1>1. o.id \in SchedIds /\ o.kind \in Kinds /\ o.key \in Keys
  BY AdminAssumption DEF SchedIds, Kinds, Keys
<1>2. CopyName(o) \in FilesOf(o.id) /\ <<o.kind, o.key>> \in Named(o.id)
  BY DEF FilesOf, Named
<1> HIDE DEF CopyName
<1>3. NewRow(o) \in [kind : Kinds, id : {o.id}, key : Keys, file : FilesOf(o.id), skills : SUBSET SkillNames, on : BOOLEAN]
  BY <1>1, <1>2 DEF NewRow
<1>4. Place(NewRow(o)) = <<o.kind, o.key>>
  BY DEF NewRow, Place
<1> QED  BY <1>1, <1>2, <1>3, <1>4 DEF Rows, NewRow

\* What is live under a row's place is that row's registration.
OfId(i) == {e \in schedLive : e.id = i}
\* What is live at the place of a row is live for its id.
LEMMA AtIsOwn ==
  ASSUME AdminTypeOK, LiveOK, NEW i \in SchedIds, NEW r \in Rows(i)
  PROVE  /\ At(schedLive, Place(r)) \subseteq OfId(i)
         /\ HasRow(i) /\ r = RowOf(i) => At(schedLive, Place(r)) = OfId(i)
<1>1. ASSUME NEW e \in schedLive, Place(e) = Place(r) PROVE e.id = i
  <2>1. e.id \in SchedIds /\ HasRow(e.id) /\ e = Entry(RowOf(e.id))
    BY DEF LiveOK
  <2>2. RowOf(e.id) \in Rows(e.id)
    BY <2>1 DEF AdminTypeOK, EditorsTypeOK
  <2>3. Place(RowOf(e.id)) = Place(r)
    BY <1>1, <2>1, <2>2, EntryFacts
  <2> QED  BY <2>1, <2>2, <2>3, PlacesApart
<1>2. ASSUME NEW e \in schedLive, e.id = i, HasRow(i), r = RowOf(i) PROVE Place(e) = Place(r)
  BY <1>2, EntryFacts DEF LiveOK
<1> QED  BY <1>1, <1>2 DEF At, OfId

\* A schedule leaves and enters under its own places only.
LEMMA ReplacedIs ==
  ASSUME AdminTypeOK, LiveOK, NEW i \in SchedIds, HasRow(i), NEW n \in Rows(i)
  PROVE  Replaced(RowOf(i), n) = (schedLive \ OfId(i)) \cup (IF n.on THEN {Entry(n)} ELSE {})
<1> DEFINE left == Without(schedLive, Place(RowOf(i)))
<1>1. RowOf(i) \in Rows(i)
  BY DEF AdminTypeOK, EditorsTypeOK
<1>2. left = schedLive \ OfId(i)
  BY <1>1, AtIsOwn DEF Without
<1>3. Place(Entry(n)) = Place(n)
  BY EntryFacts
<1>4. At(left, Place(Entry(n))) = {} /\ Without(left, Place(Entry(n))) = left
  BY <1>2, <1>3, AtIsOwn DEF At, Without
<1> HIDE DEF left
<1>5. Registered(left, Entry(n)) = left \cup {Entry(n)}
  BY <1>4 DEF Registered
<1> QED  BY <1>2, <1>5 DEF Replaced, left

\* A schedule that is not live enters beside the others.
LEMMA RegisteredIs ==
  ASSUME AdminTypeOK, LiveOK, NEW i \in SchedIds, OfId(i) = {}, NEW n \in Rows(i)
  PROVE  Registered(schedLive, Entry(n)) = (schedLive \ OfId(i)) \cup {Entry(n)}
<1>1. Place(Entry(n)) = Place(n)
  BY EntryFacts
<1>2. At(schedLive, Place(Entry(n))) = {} /\ Without(schedLive, Place(Entry(n))) = schedLive
  BY <1>1, AtIsOwn DEF Without
<1> QED  BY <1>2 DEF Registered

\* A schedule's row and its registration change together; the others stay.
LEMMA RowChanges ==
  ASSUME AdminTypeOK, LiveOK, engineAt \in {"cron", "up"}, UNCHANGED engineAt,
         NEW i \in SchedIds, NEW n \in Rows(i) \cup {NoRow}, NEW into \in BOOLEAN,
         schedRows' = [schedRows EXCEPT ![i] = n],
         schedLive' = (schedLive \ OfId(i)) \cup (IF into THEN {Entry(n)} ELSE {}),
         into => n # NoRow /\ (n.kind = "webhook" => engineAt = "up"),
         n # NoRow /\ n.kind # "webhook" => (into <=> n.on)
  PROVE  LiveOK'
<1>1. schedRows'[i] = n /\ \A j \in SchedIds : j # i => schedRows'[j] = schedRows[j]
  BY DEF AdminTypeOK, EditorsTypeOK
<1>2. engineAt' \in {"cron", "up"}
  OBVIOUS
<1>3. n # NoRow => n \in Rows(i) /\ Entry(n).id = i /\ Entry(n).kind = n.kind
  BY EntryFacts
<1>4. ASSUME NEW e \in schedLive' PROVE /\ e.id \in SchedIds /\ HasRow(e.id)' /\ e = Entry(RowOf(e.id)')
                                        /\ e.kind # "webhook" => RowOf(e.id)'.on
                                        /\ engineAt = "cron" => e.kind # "webhook"
  <2>1. CASE e \in schedLive /\ e.id # i
    BY <1>1, <2>1 DEF LiveOK, HasRow, RowOf
  <2>2. CASE into /\ e = Entry(n)
    BY <1>1, <1>3, <2>2 DEF HasRow, RowOf
  <2> QED  BY <2>1, <2>2 DEF OfId
<1>5. ASSUME NEW j \in SchedIds, HasRow(j)', RowOf(j)'.on, RowOf(j)'.kind # "webhook" PROVE Entry(RowOf(j)') \in schedLive'
  <2>1. CASE j = i
    BY <1>1, <1>5, <2>1 DEF HasRow, RowOf
  <2>2. CASE j # i
    <3>1. HasRow(j) /\ RowOf(j)' = RowOf(j)
      BY <1>1, <1>5, <2>2 DEF HasRow, RowOf
    <3>2. Entry(RowOf(j)) \in schedLive /\ Entry(RowOf(j)).id = j
      BY <1>5, <3>1, EntryFacts DEF LiveOK, AdminTypeOK, EditorsTypeOK
    <3> QED  BY <2>2, <3>1, <3>2 DEF OfId
  <2> QED  BY <2>1, <2>2
<1> QED  BY <1>2, <1>4, <1>5 DEF LiveOK

\* A changed row is a row.
LEMMA RowsTyped ==
  ASSUME EditorsTypeOK, NEW i \in SchedIds, NEW n \in Rows(i) \cup {NoRow}, schedRows' = [schedRows EXCEPT ![i] = n]
  PROVE  /\ schedRows' \in [SchedIds -> {NoRow} \cup UNION {Rows(j) : j \in SchedIds}]
         /\ \A j \in SchedIds : HasRow(j)' => RowOf(j)' \in Rows(j)
         /\ RowOf(i)' = n /\ \A j \in SchedIds : j # i => RowOf(j)' = RowOf(j)
<1>1. n \in {NoRow} \cup UNION {Rows(j) : j \in SchedIds}
  OBVIOUS
<1>2. schedRows' \in [SchedIds -> {NoRow} \cup UNION {Rows(j) : j \in SchedIds}]
  BY <1>1 DEF EditorsTypeOK
<1>3. schedRows'[i] = n /\ \A j \in SchedIds : j # i => schedRows'[j] = schedRows[j]
  BY DEF EditorsTypeOK
<1>4. ASSUME NEW j \in SchedIds, HasRow(j)' PROVE RowOf(j)' \in Rows(j)
  BY <1>3, <1>4 DEF EditorsTypeOK, HasRow, RowOf
<1> QED  BY <1>2, <1>3, <1>4 DEF RowOf

\* An edit of a row that is there, while the engine is up.
LEMMA EditKeepsAdmin ==
  ASSUME AdminInv, engineAt = "up", UNCHANGED <<engineAt, queued>>, NEW i \in SchedIds, HasRow(i),
         NEW n \in Rows(i) \cup {NoRow}, schedRows' = [schedRows EXCEPT ![i] = n], LiveOK',
         UNCHANGED agentEdit \/ agentEdit' = NoEdit,
         UNCHANGED cliEdit \/ cliEdit' = NoEdit
  PROVE  AdminInv'
<1>1. AdminTypeOK'
  BY RowsTyped DEF AdminInv, AdminTypeOK, EditorsTypeOK
<1>2. \A j \in SchedIds : HasRow(j)' => HasRow(j)
  BY RowsTyped DEF AdminInv, HasRow, RowOf
<1>3. \A e \in {agentEdit', cliEdit'} : e.op = "create" => e \in {agentEdit, cliEdit} /\ e.offer.id \in SchedIds
  BY DEF AdminInv, AdminTypeOK, EditorsTypeOK, NoEdit, CreateRows, UpdateRows, SkillRows, SchedIds
<1>4. EditsOK'
  BY <1>2, <1>3 DEF AdminInv, EditsOK, NoEdit
<1>5. QueueOK'
  <2>1. queued' = << >>
    BY DEF AdminInv, QueueOK
  <2> QED  BY <2>1 DEF QueueOK
<1> QED  BY <1>1, <1>4, <1>5 DEF AdminInv

\* Ending an edit without an effect.
LEMMA EditEnds ==
  ASSUME AdminInv, UNCHANGED <<schedRows, schedLive, engineAt, queued>>,
         UNCHANGED agentEdit \/ agentEdit' = NoEdit,
         UNCHANGED cliEdit \/ cliEdit' = NoEdit
  PROVE  AdminInv'
<1>1. AdminTypeOK' /\ QueueOK' /\ LiveOK'
  BY DEF AdminInv, AdminTypeOK, EditorsTypeOK, QueueOK, LiveOK, HasRow, RowOf
<1>2. EditsOK'
  BY DEF AdminInv, EditsOK, HasRow, NoEdit
<1> QED  BY <1>1, <1>2 DEF AdminInv

\* Only creations reach an engine that is not up.
LEMMA UpToEdit ==
  ASSUME OnlyCreatesEarly, NEW op \in {"update", "remove", "enable", "skills"}, Reached(op)
  PROVE  engineAt = "up"
BY DEF OnlyCreatesEarly, Reached

\* A row patched by an update is a row: the offer has the kind of the row.
Patched(read, r, o) ==
  [read EXCEPT !.key = IF r.kind = "heartbeat" THEN o.key ELSE @, !.file = CopyName(o), !.on = r.on]
\* What an offer makes of a row is a row of the same id, with its switch.
LEMMA PatchIsRow ==
  ASSUME NEW o \in Offers, NEW read \in Rows(o.id), NEW r \in Rows(o.id)
  PROVE  Patched(read, r, o) \in Rows(o.id) /\ Patched(read, r, o).on = r.on /\ Patched(read, r, o).file = CopyName(o)
<1> DEFINE i == o.id
           n == Patched(read, r, o)
           k == IF r.kind = "heartbeat" THEN o.key ELSE read.key
           f == CopyName(o)
<1>0. i \in SchedIds
  BY DEF SchedIds
<1>1. /\ read.kind \in Kinds /\ read.key \in Keys /\ read.skills \in SUBSET SkillNames /\ r.on \in BOOLEAN
      /\ Place(read) \in Named(i)
  BY <1>0, RowFacts
<1>2. read.kind = o.kind
  <2>1. PICK p \in Offers : p.id = i /\ Place(read) = <<p.kind, p.key>>
    BY <1>1 DEF Named
  <2>2. <<read.kind, read.key>> = <<p.kind, p.key>>
    BY <2>1 DEF Place
  <2> QED  BY <2>1, <2>2, AdminAssumption
<1>3. o.key \in Keys /\ f \in FilesOf(i) /\ <<o.kind, o.key>> \in Named(i)
  BY DEF Keys, FilesOf, Named
<1>4. k \in Keys /\ <<read.kind, k>> \in Named(i)
  BY <1>1, <1>2, <1>3 DEF Place
<1>5. n = [kind |-> read.kind, id |-> i, key |-> k, file |-> f, skills |-> read.skills, on |-> r.on]
  <2>1. \A a, b, c : [read EXCEPT !.key = a, !.file = b, !.on = c] =
           [kind |-> read.kind, id |-> i, key |-> a, file |-> b, skills |-> read.skills, on |-> c]
    BY <1>0, PatchedRow
  <2>2. n = [read EXCEPT !.key = k, !.file = f, !.on = r.on]
    BY DEF Patched
  <2> HIDE DEF k, f, i, n
  <2> QED  BY <2>1, <2>2
<1> HIDE DEF k, f, i, n
<1>6. n \in Rows(i) /\ n.on = r.on /\ n.file = f
  <2>1. n.kind = read.kind /\ n.key = k /\ n.on = r.on /\ n.file = f
    BY <1>5
  <2>2. n \in [kind : Kinds, id : {i}, key : Keys, file : FilesOf(i), skills : SUBSET SkillNames, on : BOOLEAN]
    BY <1>1, <1>3, <1>4, <1>5
  <2>3. Place(n) \in Named(i)
    BY <1>4, <2>1 DEF Place
  <2> QED  BY <2>1, <2>2, <2>3 DEF Rows
<1> QED  BY <1>6 DEF i, f, n

\* An update patches the row it read, whatever happened to the row meanwhile.
LEMMA ReplacesKeep ==
  ASSUME AdminInv, engineAt = "up", NEW o \in Offers, NEW read \in Rows(o.id), Replaces(o, read),
         UNCHANGED <<engineAt, queued, cliEdit>>, UNCHANGED agentEdit \/ agentEdit' = NoEdit
  PROVE  AdminInv'
<1> DEFINE i == o.id
           r == RowOf(i)
           n == Patched(read, r, o)
<1>0. i \in SchedIds
  BY DEF SchedIds
<1>1. CASE ~HasRow(i)
  BY <1>1, EditEnds DEF Replaces
<1>2. CASE HasRow(i)
  <2>1. r \in Rows(i)
    BY <1>0, <1>2 DEF AdminInv, AdminTypeOK, EditorsTypeOK
  <2>2. schedRows' = [schedRows EXCEPT ![i] = n] /\ schedLive' = (IF Served(r.kind) THEN Replaced(r, n) ELSE schedLive)
    BY <1>2 DEF Replaces, Patched
  <2>3. n \in Rows(i)
    BY <2>1, PatchIsRow
  <2> HIDE DEF n
  <2>4. Served(r.kind)
    BY DEF Served
  <2>5. schedLive' = (schedLive \ OfId(i)) \cup (IF n.on THEN {Entry(n)} ELSE {})
    BY <1>0, <1>2, <2>2, <2>3, <2>4, ReplacedIs DEF AdminInv
  <2>6. n # NoRow /\ n.on \in BOOLEAN
    BY <1>0, <2>3, RowFacts
  <2>7. LiveOK'
    BY <1>0, <2>2, <2>3, <2>5, <2>6, RowChanges DEF AdminInv
  <2> QED  BY <1>0, <1>2, <2>2, <2>3, <2>7, EditKeepsAdmin
<1> QED  BY <1>1, <1>2

\* Both ways of an update.
LEMMA UpdateKeeps ==
  ASSUME AdminInv, OnlyCreatesEarly, (\E o \in Offers : UpdateAtOnce(o)) \/ UpdateLands
  PROVE  AdminInv'
<1>1. ASSUME NEW o \in Offers, UpdateAtOnce(o) PROVE AdminInv'
  <2>1. engineAt = "up" /\ HasRow(o.id) /\ Replaces(o, RowOf(o.id)) /\ UNCHANGED <<engineAt, queued, cliEdit, agentEdit>>
    BY <1>1, UpToEdit DEF UpdateAtOnce, UpdateAsked
  <2>2. RowOf(o.id) \in Rows(o.id)
    BY <2>1 DEF AdminInv, AdminTypeOK, EditorsTypeOK, SchedIds
  <2> QED  BY <2>1, <2>2, ReplacesKeep
<1>2. CASE UpdateLands
  <2>1. agentEdit \in UpdateRows /\ engineAt = "up"
    BY <1>2 DEF UpdateLands, AdminInv, AdminTypeOK, EditorsTypeOK, EditsOK, NoEdit, CreateRows
  <2>2. agentEdit.offer \in Offers /\ agentEdit.read \in Rows(agentEdit.offer.id)
    BY <2>1 DEF UpdateRows
  <2> QED  BY <1>2, <2>1, <2>2, ReplacesKeep DEF UpdateLands
<1> QED  BY <1>1, <1>2

\* The start of an update remembers the row it read.
LEMMA UpdateBeginKeeps ==
  ASSUME AdminInv, OnlyCreatesEarly, NEW o \in Offers, UpdateBegins(o)
  PROVE  AdminInv'
<1>1. engineAt = "up" /\ HasRow(o.id) /\ o.id \in SchedIds
  BY UpToEdit DEF UpdateBegins, UpdateAsked, SchedIds
<1>2. RowOf(o.id) \in Rows(o.id)
  BY <1>1 DEF AdminInv, AdminTypeOK, EditorsTypeOK
<1>3. agentEdit' = [op |-> "update", offer |-> o, read |-> RowOf(o.id)] /\ UNCHANGED <<schedRows, schedLive, engineAt, queued, cliEdit>>
  BY DEF UpdateBegins
<1>4. agentEdit' \in UpdateRows
  BY <1>1, <1>2, <1>3 DEF UpdateRows
<1>5. AdminTypeOK' /\ QueueOK' /\ LiveOK'
  BY <1>3, <1>4 DEF AdminInv, AdminTypeOK, EditorsTypeOK, QueueOK, LiveOK, HasRow, RowOf
<1>6. EditsOK'
  BY <1>1, <1>3 DEF AdminInv, EditsOK, HasRow
<1> QED  BY <1>5, <1>6 DEF AdminInv

\* A removal takes the row and its registration.
LEMMA RemoveKeeps ==
  ASSUME AdminInv, OnlyCreatesEarly, NEW i \in SchedIds, RemoveSchedule(i)
  PROVE  AdminInv'
<1>1. engineAt = "up" /\ HasRow(i) /\ UNCHANGED <<engineAt, queued, agentEdit, cliEdit>> /\ schedRows' = [schedRows EXCEPT ![i] = NoRow]
  BY UpToEdit DEF RemoveSchedule
<1>2. RowOf(i) \in Rows(i)
  BY <1>1 DEF AdminInv, AdminTypeOK, EditorsTypeOK
<1>3. schedLive' = schedLive \ OfId(i)
  BY <1>1, <1>2, AtIsOwn DEF RemoveSchedule, Served, Without, AdminInv
<1>4. LiveOK'
  BY <1>1, <1>3, RowChanges DEF AdminInv
<1> QED  BY <1>1, <1>4, EditKeepsAdmin

\* A toggle enters or leaves; a webhook's route stays as it is.
LEMMA EnableKeeps ==
  ASSUME AdminInv, OnlyCreatesEarly, NEW i \in SchedIds, NEW on \in BOOLEAN, SetScheduleEnabled(i, on)
  PROVE  AdminInv'
<1> DEFINE r == RowOf(i)
           n == [r EXCEPT !.on = on]
<1>1. /\ engineAt = "up" /\ HasRow(i) /\ r.on # on /\ UNCHANGED <<engineAt, queued, agentEdit, cliEdit>>
      /\ schedRows' = [schedRows EXCEPT ![i] = n]
  BY UpToEdit DEF SetScheduleEnabled, RowOf
<1>2. r \in Rows(i)
  BY <1>1 DEF AdminInv, AdminTypeOK, EditorsTypeOK
<1>3. n = [kind |-> r.kind, id |-> i, key |-> r.key, file |-> r.file, skills |-> r.skills, on |-> on]
  <2> HIDE DEF r
  <2> QED  BY <1>2, RowFacts
<1>4. n \in Rows(i) /\ n # NoRow /\ n.on = on /\ n.kind = r.kind /\ Entry(n) = Entry(r)
  <2> HIDE DEF r, n
  <2>1. n \in Rows(i)
    BY <1>2, <1>3, RowFacts DEF Rows, Place
  <2>2. r.id = i
    BY <1>2, RowFacts
  <2>3. n.kind = r.kind /\ n.id = i /\ n.key = r.key /\ n.file = r.file /\ n.skills = r.skills /\ n.on = on
    BY <1>3
  <2>4. Entry(n) = Entry(r)
    BY <2>2, <2>3 DEF Entry
  <2> QED  BY <2>1, <2>3, <2>4, RowFacts
<1>5. AdminTypeOK /\ LiveOK
  BY DEF AdminInv
<1> HIDE DEF n
<1>6. CASE r.kind = "webhook"
  <2>1. schedLive' = schedLive
    BY <1>6 DEF SetScheduleEnabled
  <2>2. OfId(i) = {} \/ OfId(i) = {Entry(r)}
    BY <1>5 DEF OfId, LiveOK
  <2>3. schedLive' = (schedLive \ OfId(i)) \cup (IF OfId(i) # {} THEN {Entry(n)} ELSE {})
    BY <1>4, <2>1, <2>2 DEF OfId
  <2>4. LiveOK'
    BY <1>1, <1>4, <1>5, <1>6, <2>3, RowChanges
  <2> QED  BY <1>1, <1>4, <2>4, EditKeepsAdmin
<1>7. CASE r.kind # "webhook"
  <2>0. Served(r.kind)
    BY <1>1 DEF Served
  <2>1. schedLive' = IF on THEN Registered(schedLive, Entry(r)) ELSE Without(schedLive, Place(r))
    BY <1>7, <2>0 DEF SetScheduleEnabled
  <2>2. CASE on
    <3>1. OfId(i) = {}
      <4> SUFFICES ASSUME NEW e \in schedLive, e.id = i PROVE FALSE
        BY DEF OfId
      <4>1. e = Entry(r) /\ (e.kind # "webhook" => r.on)
        BY <1>5 DEF LiveOK
      <4>2. e.kind = r.kind
        BY <1>2, <4>1, EntryFacts
      <4> QED  BY <1>1, <1>7, <2>2, <4>1, <4>2
    <3>2. schedLive' = (schedLive \ OfId(i)) \cup {Entry(n)}
      BY <1>2, <1>4, <1>5, <2>1, <2>2, <3>1, RegisteredIs
    <3>3. LiveOK'
      BY <1>1, <1>4, <1>5, <1>7, <2>2, <3>2, RowChanges
    <3> QED  BY <1>1, <1>4, <3>3, EditKeepsAdmin
  <2>3. CASE ~on
    <3>1. schedLive' = schedLive \ OfId(i)
      BY <1>1, <1>2, <1>5, <2>1, <2>3, AtIsOwn DEF Without
    <3>2. LiveOK'
      BY <1>1, <1>4, <1>5, <2>3, <3>1, RowChanges
    <3> QED  BY <1>1, <1>4, <3>2, EditKeepsAdmin
  <2> QED  BY <2>2, <2>3
<1> QED  BY <1>6, <1>7

\* A list of skills, from a command or posted by the CLI after its own read.
LEMMA SkillsKeep ==
  ASSUME AdminInv, engineAt = "up", NEW i \in SchedIds, Bindable(i), NEW skills \in SUBSET SkillNames, SkillsSet(i, skills),
         UNCHANGED <<engineAt, queued, agentEdit>>, UNCHANGED cliEdit \/ cliEdit' = NoEdit
  PROVE  AdminInv'
<1> DEFINE r == RowOf(i)
           n == [r EXCEPT !.skills = skills]
<1>1. HasRow(i) /\ r \in Rows(i)
  BY DEF Bindable, AdminInv, AdminTypeOK, EditorsTypeOK
<1>2. n = [kind |-> r.kind, id |-> i, key |-> r.key, file |-> r.file, skills |-> skills, on |-> r.on]
  <2> HIDE DEF r
  <2> QED  BY <1>1, RowFacts
<1>3. n \in Rows(i) /\ n # NoRow /\ n.on \in BOOLEAN
  <2> HIDE DEF r, n
  <2>1. n \in Rows(i)
    BY <1>1, <1>2, RowFacts DEF Rows, Place
  <2> QED  BY <2>1, RowFacts
<1>4. schedRows' = [schedRows EXCEPT ![i] = n] /\ schedLive' = Replaced(r, n)
  BY DEF SkillsSet, Served
<1> HIDE DEF n
<1>5. schedLive' = (schedLive \ OfId(i)) \cup (IF n.on THEN {Entry(n)} ELSE {})
  BY <1>1, <1>3, <1>4, ReplacedIs DEF AdminInv
<1>6. LiveOK'
  BY <1>3, <1>4, <1>5, RowChanges DEF AdminInv
<1> QED  BY <1>1, <1>3, <1>4, <1>6, EditKeepsAdmin

\* What a creation does to rows, queue and registrations.
LEMMA CreatesKeep ==
  ASSUME AdminInv, NEW o \in Offers, ~HasRow(o.id), engineAt # "down", Creates(o), UNCHANGED engineAt
  PROVE  /\ schedRows' \in [SchedIds -> {NoRow} \cup UNION {Rows(j) : j \in SchedIds}]
         /\ \A j \in SchedIds : HasRow(j)' => RowOf(j)' \in Rows(j)
         /\ \A j \in SchedIds : j # o.id => RowOf(j)' = RowOf(j)
         /\ queued' \in Seq(LiveRows) /\ QueueOK' /\ LiveOK'
<1> DEFINE i == o.id
           n == NewRow(o)
<1>1. i \in SchedIds /\ n \in Rows(i) /\ n.on /\ n.id = i
  BY NewRowFacts
<1>2. AdminTypeOK /\ LiveOK /\ QueueOK
  BY DEF AdminInv
<1>3. schedRows' = [schedRows EXCEPT ![i] = n]
  BY <1>1 DEF Creates, InsertOrIgnore
<1>4. Register(n)
  BY DEF Creates
<1> HIDE DEF n
<1>5. /\ schedRows' \in [SchedIds -> {NoRow} \cup UNION {Rows(j) : j \in SchedIds}]
      /\ \A j \in SchedIds : HasRow(j)' => RowOf(j)' \in Rows(j)
      /\ RowOf(i)' = n /\ \A j \in SchedIds : j # i => RowOf(j)' = RowOf(j)
  BY <1>1, <1>2, <1>3, RowsTyped DEF AdminTypeOK
<1>6. n # NoRow /\ n.kind \in Kinds /\ Entry(n) \in LiveRows /\ Entry(n).id = i
  BY <1>1, RowFacts, EntryFacts
<1>7. \A j \in SchedIds : HasRow(j) => HasRow(j)' /\ RowOf(j)' = RowOf(j)
  BY <1>5 DEF HasRow, RowOf
<1>8. engineAt \in {"loading", "cron", "up"}
  BY <1>2 DEF AdminTypeOK, EditorsTypeOK
<1>9. \A k \in DOMAIN queued : queued[k].id \in SchedIds
  <2>1. \A k \in DOMAIN queued : queued[k] \in LiveRows
    BY <1>2 DEF AdminTypeOK, EditorsTypeOK
  <2> QED  BY <2>1 DEF LiveRows
<1>10. CASE Served(n.kind)
  <2>1. UNCHANGED queued /\ schedLive' = Registered(schedLive, Entry(n))
    BY <1>4, <1>10 DEF Register
  <2>2. OfId(i) = {}
    BY <1>2 DEF OfId, LiveOK
  <2>3. schedLive' = (schedLive \ OfId(i)) \cup {Entry(n)}
    BY <1>1, <1>2, <2>1, <2>2, RegisteredIs
  <2>4. engineAt \in {"cron", "up"} /\ (n.kind = "webhook" => engineAt = "up")
    BY <1>6, <1>10 DEF Served, Kinds
  <2>5. LiveOK'
    BY <1>1, <1>2, <1>3, <1>6, <2>3, <2>4, RowChanges
  <2>6. QueueOK'
    BY <1>2, <1>7, <1>9, <2>1 DEF QueueOK
  <2> QED  BY <1>2, <1>5, <2>1, <2>5, <2>6 DEF AdminTypeOK, EditorsTypeOK
<1>11. CASE ~Served(n.kind)
  <2>1. UNCHANGED schedLive /\ queued' = Append(queued, Entry(n))
    BY <1>4, <1>11 DEF Register
  <2>2. engineAt \in {"loading", "cron"} /\ (engineAt = "cron" => n.kind = "webhook")
    BY <1>6, <1>8, <1>11 DEF Served, Kinds
  <2>3. queued \in Seq(LiveRows) /\ queued' \in Seq(LiveRows)
    BY <1>2, <1>6, <2>1 DEF AdminTypeOK, EditorsTypeOK
  <2>4. ASSUME NEW k \in DOMAIN queued' PROVE (k \in DOMAIN queued /\ queued'[k] = queued[k]) \/ queued'[k] = Entry(n)
    BY <1>6, <2>1, <2>3
  <2>5. QueueOK'
    <3>1. ASSUME NEW x, NEW k \in DOMAIN queued', x = queued'[k]
          PROVE  HasRow(x.id)' /\ x = Entry(RowOf(x.id)') /\ RowOf(x.id)'.on
      <4>1. CASE k \in DOMAIN queued /\ x = queued[k]
        BY <1>2, <1>7, <1>9, <4>1 DEF QueueOK
      <4>2. CASE x = Entry(n)
        BY <1>1, <1>5, <1>6, <4>2 DEF HasRow, RowOf
      <4> QED  BY <2>4, <3>1, <4>1, <4>2
    <3> QED  BY <2>2, <3>1 DEF QueueOK, HasRow, RowOf
  <2>6. LiveOK'
    <3>1. ASSUME NEW j \in SchedIds, HasRow(j)', RowOf(j)'.on, RowOf(j)'.kind # "webhook", engineAt = "cron"
          PROVE  Entry(RowOf(j)') \in schedLive
      <4>1. j # i
        BY <1>5, <2>2, <3>1
      <4>2. RowOf(j)' = RowOf(j) /\ HasRow(j)
        BY <1>5, <3>1, <4>1 DEF HasRow, RowOf
      <4> QED  BY <1>2, <3>1, <4>2 DEF LiveOK
    <3>2. ASSUME NEW e \in schedLive PROVE /\ e.id \in SchedIds /\ HasRow(e.id)' /\ e = Entry(RowOf(e.id)')
                                           /\ e.kind # "webhook" => RowOf(e.id)'.on
                                           /\ engineAt = "cron" => e.kind # "webhook"
      BY <1>2, <1>7 DEF LiveOK
    <3>3. engineAt = "loading" => schedLive = {}
      BY <1>2 DEF LiveOK
    <3> QED  BY <2>1, <2>2, <3>1, <3>2, <3>3 DEF LiveOK
  <2> QED  BY <1>5, <2>3, <2>5, <2>6
<1> QED  BY <1>10, <1>11

\* A creation at once, and the end of one whose prompt was copied.
LEMMA CreationKeeps ==
  ASSUME AdminInv, OnlyCreatesEarly, (\E o \in Offers : CreateAtOnce(o)) \/ CopyLands
  PROVE  AdminInv'
<1>1. ASSUME NEW o \in Offers, ~HasRow(o.id), engineAt # "down", Creates(o), UNCHANGED engineAt,
             UNCHANGED agentEdit \/ agentEdit' = NoEdit, UNCHANGED cliEdit \/ cliEdit' = NoEdit,
             \A e \in {agentEdit', cliEdit'} : e.op = "create" => e.offer.id # o.id
      PROVE  AdminInv'
  <2>1. /\ schedRows' \in [SchedIds -> {NoRow} \cup UNION {Rows(j) : j \in SchedIds}]
        /\ \A j \in SchedIds : HasRow(j)' => RowOf(j)' \in Rows(j)
        /\ \A j \in SchedIds : j # o.id => RowOf(j)' = RowOf(j)
        /\ queued' \in Seq(LiveRows) /\ QueueOK' /\ LiveOK'
    BY <1>1, CreatesKeep
  <2>2. AdminTypeOK'
    BY <1>1, <2>1 DEF AdminInv, AdminTypeOK, EditorsTypeOK
  <2>3. \A e \in {agentEdit', cliEdit'} : e.op = "create" => e \in {agentEdit, cliEdit} /\ e.offer.id \in SchedIds
    BY <1>1 DEF AdminInv, AdminTypeOK, EditorsTypeOK, NoEdit, CreateRows, UpdateRows, SkillRows, SchedIds
  <2>4. \A e \in {agentEdit', cliEdit'} : e.op = "create" => ~HasRow(e.offer.id)'
    BY <1>1, <2>1, <2>3 DEF AdminInv, EditsOK, HasRow, RowOf
  <2>5. EditsOK'
    BY <1>1, <2>3, <2>4 DEF AdminInv, EditsOK, NoEdit
  <2> QED  BY <2>1, <2>2, <2>5 DEF AdminInv
<1>2. ASSUME NEW o \in Offers, CreateAtOnce(o) PROVE AdminInv'
  <2>1. engineAt # "down"
    BY <1>2 DEF CreateAtOnce, Asked, Reached
  <2>2. IdFree(o.id)
    BY <1>2 DEF CreateAtOnce, Asked, OnlyCreatesEarly
  <2>3. Creates(o) /\ UNCHANGED <<engineAt, agentEdit, cliEdit>>
    BY <1>2 DEF CreateAtOnce
  <2> QED  BY <1>1, <2>1, <2>2, <2>3 DEF IdFree
<1>3. CASE CopyLands
  <2>1. PICK e \in {agentEdit, cliEdit} : e.op = "create" /\ Creates(e.offer) /\ Answered(e) /\ UNCHANGED engineAt
    BY <1>3 DEF CopyLands
  <2>2. e.offer \in Offers
    BY <2>1 DEF AdminInv, AdminTypeOK, EditorsTypeOK, NoEdit, CreateRows, UpdateRows, SkillRows
  <2>3. ~HasRow(e.offer.id) /\ engineAt # "down"
    BY <2>1 DEF AdminInv, EditsOK
  <2>4. \A x \in {agentEdit', cliEdit'} : x.op = "create" => x.offer.id # e.offer.id
    BY <2>1 DEF Answered, AdminInv, EditsOK, NoEdit
  <2> QED  BY <1>1, <2>1, <2>2, <2>3, <2>4 DEF Answered
<1> QED  BY <1>2, <1>3

\* The start of a creation, under an id of its own.
LEMMA CreateBeginKeeps ==
  ASSUME AdminInv, OnlyCreatesEarly, NEW o \in Offers, CreateBegins(o)
  PROVE  AdminInv'
<1>1. IdFree(o.id) /\ engineAt # "down" /\ UNCHANGED <<schedRows, schedLive, engineAt, queued>>
  BY DEF CreateBegins, Asked, Reached, OnlyCreatesEarly
<1> DEFINE e == [op |-> "create", offer |-> o]
<1>2. e \in CreateRows /\ e.op = "create" /\ e.offer = o
  BY DEF CreateRows
<1>3. \/ agentEdit' = e /\ UNCHANGED cliEdit
      \/ cliEdit' = e /\ UNCHANGED agentEdit
  BY DEF CreateBegins
<1> HIDE DEF e
<1>4. AdminTypeOK' /\ QueueOK' /\ LiveOK'
  BY <1>1, <1>2, <1>3 DEF AdminInv, AdminTypeOK, EditorsTypeOK, QueueOK, LiveOK, HasRow, RowOf
<1>5. EditsOK'
  BY <1>1, <1>2, <1>3 DEF AdminInv, EditsOK, HasRow, IdFree
<1> QED  BY <1>4, <1>5 DEF AdminInv

\* The rows with the built-ins ensured: rows that were there stay, and new ones are built-ins'.
LEMMA SystemRows ==
  ASSUME EditorsTypeOK
  PROVE  /\ WithSystem \in [SchedIds -> {NoRow} \cup UNION {Rows(j) : j \in SchedIds}]
         /\ \A i \in SchedIds : /\ WithSystem[i] # NoRow => WithSystem[i] \in Rows(i)
                                /\ HasRow(i) => WithSystem[i] = RowOf(i)
                                /\ ~HasRow(i) /\ WithSystem[i] # NoRow => \E o \in System : o.id = i /\ WithSystem[i] = NewRow(o)
<1>1. ASSUME NEW i \in SchedIds
      PROVE  /\ WithSystem[i] # NoRow => WithSystem[i] \in Rows(i)
             /\ HasRow(i) => WithSystem[i] = RowOf(i)
             /\ ~HasRow(i) /\ WithSystem[i] # NoRow => \E o \in System : o.id = i /\ WithSystem[i] = NewRow(o)
  <2>0. WithSystem[i] = IF \E o \in System : o.id = i /\ ~HasRow(i) THEN NewRow(CHOOSE o \in System : o.id = i) ELSE RowOf(i)
    BY DEF WithSystem
  <2>1. CASE \E o \in System : o.id = i /\ ~HasRow(i)
    <3> DEFINE o == CHOOSE p \in System : p.id = i
    <3>1. o \in System /\ o.id = i /\ ~HasRow(i) /\ WithSystem[i] = NewRow(o)
      BY <2>0, <2>1
    <3> HIDE DEF o
    <3> QED  BY <3>1, NewRowFacts, AdminAssumption
  <2>2. CASE ~(\E o \in System : o.id = i /\ ~HasRow(i))
    BY <2>0, <2>2 DEF EditorsTypeOK, HasRow, RowOf
  <2> QED  BY <2>1, <2>2
<1>2. WithSystem = [i \in SchedIds |-> WithSystem[i]]
  BY DEF WithSystem
<1>3. \A i \in SchedIds : WithSystem[i] \in {NoRow} \cup UNION {Rows(j) : j \in SchedIds}
  BY <1>1
<1> QED  BY <1>1, <1>2, <1>3

\* The rows the triggers load.
LEMMA EnabledFacts ==
  ASSUME NEW rows, NEW K
  PROVE  \A r : r \in EnabledOf(rows, K) <=> \E i \in SchedIds : rows[i] # NoRow /\ rows[i].on /\ rows[i].kind \in K /\ r = rows[i]
BY DEF EnabledOf

\* The triggers start with the enabled rows; the heartbeats that waited are among them.
LEMMA TriggersKeep ==
  ASSUME AdminInv, TriggersStart
  PROVE  AdminInv'
<1> DEFINE W == WithSystem
           on == EnabledOf(W, {"heartbeat", "cron"})
           U == Unregistered({}, on)
<1>0. AdminTypeOK /\ EditsOK /\ QueueOK /\ LiveOK
  BY DEF AdminInv
<1>1. /\ engineAt = "loading" /\ engineAt' = "cron" /\ schedRows' = W /\ schedLive' = FlushOf(U, {"heartbeat"})
      /\ queued' = Unflushed({"heartbeat"}) /\ UNCHANGED <<agentEdit, cliEdit>>
  BY DEF TriggersStart
<1>2. /\ W \in [SchedIds -> {NoRow} \cup UNION {Rows(j) : j \in SchedIds}]
      /\ \A i \in SchedIds : /\ W[i] # NoRow => W[i] \in Rows(i)
                             /\ HasRow(i) => W[i] = RowOf(i)
                             /\ ~HasRow(i) /\ W[i] # NoRow => \E o \in System : o.id = i /\ W[i] = NewRow(o)
  BY <1>0, SystemRows DEF AdminTypeOK
<1> HIDE DEF W
<1>3. \A e : e \in U <=> \E i \in SchedIds : W[i] # NoRow /\ W[i].on /\ W[i].kind \in {"heartbeat", "cron"} /\ e = Entry(W[i])
  <2>1. \A e : e \in U <=> \E r \in on : e = Entry(r)
    BY DEF Unregistered, At
  <2> HIDE DEF on, U
  <2> QED  BY <2>1, EnabledFacts DEF on
<1> HIDE DEF U, on
<1>4. \A k \in DOMAIN queued : queued[k] \in LiveRows /\ queued[k].id \in SchedIds
  <2>1. \A k \in DOMAIN queued : queued[k] \in LiveRows
    BY <1>0 DEF AdminTypeOK, EditorsTypeOK
  <2> QED  BY <2>1 DEF LiveRows
<1>5. ASSUME NEW k \in DOMAIN queued PROVE W[queued[k].id] # NoRow /\ queued[k] = Entry(W[queued[k].id]) /\ W[queued[k].id].on
  <2>1. HasRow(queued[k].id) /\ queued[k] = Entry(RowOf(queued[k].id)) /\ RowOf(queued[k].id).on
    BY <1>0 DEF QueueOK
  <2>2. W[queued[k].id] = RowOf(queued[k].id) /\ RowOf(queued[k].id) # NoRow
    BY <1>2, <1>4, <2>1 DEF HasRow, RowOf
  <2> QED  BY <2>1, <2>2
<1>6. ASSUME NEW k \in DOMAIN queued, queued[k].kind = "heartbeat" PROVE queued[k] \in U
  <2>1. W[queued[k].id].kind = "heartbeat"
    BY <1>2, <1>4, <1>5, <1>6, EntryFacts
  <2> QED  BY <1>3, <1>4, <1>5, <2>1
<1>7. schedLive' = U
  <2> DEFINE drained == {k \in DOMAIN queued : queued[k].kind \in {"heartbeat"}}
             stay == {queued[k] : k \in {j \in drained : Stays(U, j, drained)}}
  <2>1. FlushOf(U, {"heartbeat"}) = {e \in U : \A f \in stay : Place(f) # Place(e)} \cup stay
    BY DEF FlushOf
  <2>2. ASSUME NEW k \in drained PROVE ~Stays(U, k, drained)
    <3>1. queued[k].kind = "heartbeat" /\ queued[k] \in U
      BY <1>6
    <3> QED  BY <3>1 DEF Stays, At
  <2>3. stay = {}
    BY <2>2
  <2> HIDE DEF stay
  <2> QED  BY <1>1, <2>1, <2>3
<1>8. schedRows'= W /\ \A i \in SchedIds : RowOf(i)' = W[i] /\ (HasRow(i)' <=> W[i] # NoRow)
  BY <1>1 DEF RowOf, HasRow
<1>9. queued' \in Seq(LiveRows) /\ \A k \in DOMAIN queued' : \E j \in DOMAIN queued : queued'[k] = queued[j]
  <2>1. queued \in Seq(LiveRows)
    BY <1>0 DEF AdminTypeOK, EditorsTypeOK
  <2> DEFINE S == {e \in Range(queued) : e.kind \notin {"heartbeat"}}
  <2>2. queued' = Filter(queued, S)
    BY <1>1 DEF Unflushed
  <2> HIDE DEF S
  <2>3. /\ Filter(queued, S) \in Seq(LiveRows)
        /\ \A k \in 1..Len(Filter(queued, S)) : \E i \in 1..Len(queued) : Filter(queued, S)[k] = queued[i]
    BY <2>1, FilterKeeps
  <2> QED  BY <2>1, <2>2, <2>3
<1>10. AdminTypeOK'
  BY <1>0, <1>1, <1>2, <1>8, <1>9 DEF AdminTypeOK, EditorsTypeOK
<1>11. EditsOK'
  <2>1. \A e \in {agentEdit, cliEdit} : e.op = "create" => e.offer.id \in SchedIds
    BY <1>0 DEF AdminTypeOK, EditorsTypeOK, NoEdit, CreateRows, UpdateRows, SkillRows, SchedIds
  <2>2. \A e \in {agentEdit, cliEdit} : e.op = "create" => W[e.offer.id] = NoRow
    BY <1>0, <1>2, <2>1 DEF EditsOK
  <2> QED  BY <1>0, <1>1, <2>1, <2>2 DEF EditsOK, HasRow
<1>12. QueueOK'
  <2>1. ASSUME NEW x, NEW k \in DOMAIN queued', x = queued'[k] PROVE W[x.id] # NoRow /\ x = Entry(W[x.id]) /\ W[x.id].on
    BY <1>5, <1>9, <2>1
  <2> QED  BY <1>1, <2>1 DEF QueueOK, HasRow, RowOf
<1>13. LiveOK'
  <2>1. ASSUME NEW e \in U PROVE /\ e.id \in SchedIds /\ W[e.id] # NoRow /\ e = Entry(W[e.id])
                                 /\ W[e.id].on /\ e.kind # "webhook"
    <3>1. PICK i \in SchedIds : W[i] # NoRow /\ W[i].on /\ W[i].kind \in {"heartbeat", "cron"} /\ e = Entry(W[i])
      BY <1>3
    <3>2. e.id = i /\ e.kind = W[i].kind
      BY <1>2, <3>1, EntryFacts
    <3> QED  BY <3>1, <3>2
  <2>2. ASSUME NEW i \in SchedIds, W[i] # NoRow, W[i].on, W[i].kind # "webhook" PROVE Entry(W[i]) \in U
    <3>1. W[i].kind \in {"heartbeat", "cron"}
      BY <1>2, <2>2, RowFacts DEF Kinds
    <3> QED  BY <1>3, <2>2, <3>1
  <2> QED  BY <1>1, <1>7, <1>8, <2>1, <2>2 DEF LiveOK
<1> QED  BY <1>10, <1>11, <1>12, <1>13 DEF AdminInv

\* The router gets its routes, and what waited is registered.
LEMMA RouterKeeps ==
  ASSUME AdminInv, RouterWired
  PROVE  AdminInv'
<1> DEFINE live == FlushOf(schedLive, {"cron", "webhook"})
           routes == {Entry(r) : r \in EnabledOf(schedRows, {"webhook"})}
<1>0. AdminTypeOK /\ EditsOK /\ QueueOK /\ LiveOK
  BY DEF AdminInv
<1>1. /\ engineAt = "cron" /\ engineAt' = "up" /\ queued' = << >> /\ UNCHANGED <<schedRows, agentEdit, cliEdit>>
      /\ schedLive' = {e \in live : \A w \in routes : Place(w) # Place(e)} \cup routes
  BY DEF RouterWired
<1>2. \A e : e \in routes <=> \E i \in SchedIds : HasRow(i) /\ RowOf(i).on /\ RowOf(i).kind = "webhook" /\ e = Entry(RowOf(i))
  <2>1. \A e : e \in routes <=> \E r \in EnabledOf(schedRows, {"webhook"}) : e = Entry(r)
    OBVIOUS
  <2> HIDE DEF routes
  <2> QED  BY <2>1, EnabledFacts DEF HasRow, RowOf
<1> HIDE DEF routes
<1> DEFINE drained == {k \in DOMAIN queued : queued[k].kind \in {"cron", "webhook"}}
           stay == {queued[k] : k \in {j \in drained : Stays(schedLive, j, drained)}}
<1>3. live = {e \in schedLive : \A f \in stay : Place(f) # Place(e)} \cup stay
  BY DEF FlushOf
<1>4. ASSUME NEW e \in stay PROVE e.id \in SchedIds /\ HasRow(e.id) /\ e = Entry(RowOf(e.id)) /\ RowOf(e.id).on
  <2>1. PICK k \in DOMAIN queued : e = queued[k]
    OBVIOUS
  <2>2. e \in LiveRows
    BY <1>0, <2>1 DEF AdminTypeOK, EditorsTypeOK
  <2> QED  BY <1>0, <2>1, <2>2 DEF QueueOK, LiveRows
<1> HIDE DEF live, drained, stay
<1>5. ASSUME NEW e \in schedLive' PROVE /\ e.id \in SchedIds /\ HasRow(e.id) /\ e = Entry(RowOf(e.id))
                                        /\ e.kind # "webhook" => RowOf(e.id).on
  <2>1. CASE e \in routes
    <3>1. PICK i \in SchedIds : HasRow(i) /\ RowOf(i).on /\ e = Entry(RowOf(i))
      BY <1>2, <2>1
    <3>2. e.id = i
      BY <1>0, <3>1, EntryFacts DEF AdminTypeOK, EditorsTypeOK
    <3> QED  BY <3>1, <3>2
  <2>2. CASE e \in stay
    BY <1>4, <2>2
  <2>3. CASE e \in schedLive
    BY <1>0, <2>3 DEF LiveOK
  <2> QED  BY <1>1, <1>3, <2>1, <2>2, <2>3
<1>6. ASSUME NEW i \in SchedIds, HasRow(i), RowOf(i).on, RowOf(i).kind # "webhook" PROVE Entry(RowOf(i)) \in schedLive'
  <2> DEFINE e == Entry(RowOf(i))
  <2>1. e \in schedLive /\ RowOf(i) \in Rows(i)
    BY <1>0, <1>1, <1>6 DEF LiveOK, AdminTypeOK, EditorsTypeOK
  <2>2. Place(e) = Place(RowOf(i)) /\ e.kind # "webhook" /\ e.id = i
    BY <1>6, <2>1, EntryFacts
  <2> HIDE DEF e
  <2>3. ASSUME NEW f \in stay, Place(f) = Place(e) PROVE f = e
    <3>1. f.id \in SchedIds /\ HasRow(f.id) /\ f = Entry(RowOf(f.id)) /\ RowOf(f.id) \in Rows(f.id)
      BY <1>0, <1>4 DEF AdminTypeOK, EditorsTypeOK
    <3>2. Place(RowOf(f.id)) = Place(RowOf(i))
      BY <2>2, <2>3, <3>1, EntryFacts
    <3>3. f.id = i
      BY <2>1, <3>1, <3>2, PlacesApart
    <3> QED  BY <3>1, <3>3 DEF e
  <2>4. e \in live
    BY <1>3, <2>1, <2>3
  <2>5. ASSUME NEW w \in routes PROVE Place(w) # Place(e)
    <3>1. PICK j \in SchedIds : HasRow(j) /\ RowOf(j).kind = "webhook" /\ w = Entry(RowOf(j))
      BY <1>2
    <3>2. w.kind = "webhook"
      BY <1>0, <3>1, EntryFacts DEF AdminTypeOK, EditorsTypeOK
    <3> QED  BY <2>2, <3>2 DEF Place
  <2> QED  BY <1>1, <2>4, <2>5 DEF e
<1>7. LiveOK'
  BY <1>1, <1>5, <1>6 DEF LiveOK, HasRow, RowOf
<1>8. AdminTypeOK' /\ EditsOK' /\ QueueOK'
  <2>1. AdminTypeOK'
    BY <1>0, <1>1 DEF AdminTypeOK, EditorsTypeOK, HasRow, RowOf
  <2>2. EditsOK' /\ QueueOK'
    BY <1>0, <1>1 DEF EditsOK, QueueOK, HasRow, RowOf
  <2> QED  BY <2>1, <2>2
<1> QED  BY <1>7, <1>8 DEF AdminInv

\* A reload finds nothing to do: what is live is what the rows say already.
LEMMA ReloadKeepsAdmin ==
  ASSUME AdminInv, ReloadSchedules
  PROVE  AdminInv'
<1> DEFINE rows == EnabledOf(schedRows, {"heartbeat", "cron"})
           kept == {e \in schedLive : e.kind = "webhook" \/ \E r \in rows : Place(r) = Place(e)}
<1>0. AdminTypeOK /\ LiveOK
  BY DEF AdminInv
<1>1. engineAt = "up" /\ schedLive' = kept \cup Unregistered(kept, rows) /\ UNCHANGED <<schedRows, engineAt, queued, agentEdit, cliEdit>>
  BY DEF ReloadSchedules
<1>2. \A r : r \in rows <=> \E i \in SchedIds : HasRow(i) /\ RowOf(i).on /\ RowOf(i).kind \in {"heartbeat", "cron"} /\ r = RowOf(i)
  BY EnabledFacts DEF HasRow, RowOf
<1> HIDE DEF rows
<1>3. kept = schedLive
  <2> SUFFICES ASSUME NEW e \in schedLive, e.kind # "webhook" PROVE \E r \in rows : Place(r) = Place(e)
    OBVIOUS
  <2>1. e.id \in SchedIds /\ HasRow(e.id) /\ e = Entry(RowOf(e.id)) /\ RowOf(e.id).on /\ RowOf(e.id) \in Rows(e.id)
    BY <1>0 DEF LiveOK, AdminTypeOK, EditorsTypeOK
  <2>2. RowOf(e.id).kind = e.kind /\ RowOf(e.id).kind \in Kinds /\ Place(RowOf(e.id)) = Place(e)
    BY <2>1, EntryFacts, RowFacts
  <2> QED  BY <1>2, <2>1, <2>2 DEF Kinds
<1>4. Unregistered(schedLive, rows) = {}
  <2> SUFFICES ASSUME NEW r \in rows, At(schedLive, Place(r)) = {} PROVE FALSE
    BY DEF Unregistered
  <2>1. PICK i \in SchedIds : HasRow(i) /\ RowOf(i).on /\ RowOf(i).kind \in {"heartbeat", "cron"} /\ r = RowOf(i)
    BY <1>2
  <2>2. Entry(r) \in schedLive /\ Place(Entry(r)) = Place(r)
    BY <1>0, <1>1, <2>1, EntryFacts DEF LiveOK, AdminTypeOK, EditorsTypeOK
  <2> QED  BY <2>2 DEF At
<1> HIDE DEF kept
<1>5. schedLive' = schedLive
  BY <1>1, <1>3, <1>4
<1> QED  BY <1>1, <1>5, EditEnds

\* Before the first start there is no row.
LEMMA AdminStart == AdminInit => AdminInv
<1> SUFFICES ASSUME AdminInit PROVE AdminInv
  OBVIOUS
<1>1. schedRows \in [SchedIds -> {NoRow} \cup UNION {Rows(i) : i \in SchedIds}] /\ \A i \in SchedIds : ~HasRow(i)
  BY DEF AdminInit, HasRow
<1>2. AdminTypeOK
  BY <1>1 DEF AdminInit, AdminTypeOK, EditorsTypeOK
<1>3. EditsOK /\ QueueOK /\ LiveOK
  BY <1>1 DEF AdminInit, EditsOK, QueueOK, LiveOK, NoEdit
<1> QED  BY <1>2, <1>3 DEF AdminInv

\* Every step of the editors and of the engine's start and stop keeps the invariant.
LEMMA AdminStep ==
  ASSUME OnlyCreatesEarly, AdminInv, [AdminNext]_adminVars
  PROVE  AdminInv'
<1>0. AdminTypeOK /\ EditsOK /\ QueueOK /\ LiveOK
  BY DEF AdminInv
<1>1. CASE EngineLoads
  <2>1. AdminTypeOK'
    BY <1>0, <1>1 DEF EngineLoads, AdminTypeOK, EditorsTypeOK, HasRow, RowOf
  <2>2. EditsOK' /\ QueueOK' /\ LiveOK'
    BY <1>0, <1>1 DEF EngineLoads, EditsOK, QueueOK, LiveOK, HasRow, RowOf
  <2> QED  BY <2>1, <2>2 DEF AdminInv
<1>2. CASE EngineStops
  <2>1. cliEdit' \in {NoEdit} \cup SkillRows
    BY <1>0, <1>2 DEF EngineStops, AdminTypeOK, EditorsTypeOK, CreateRows
  <2>2. AdminTypeOK'
    BY <1>0, <1>2, <2>1 DEF EngineStops, AdminTypeOK, EditorsTypeOK, HasRow, RowOf
  <2>3. EditsOK' /\ QueueOK' /\ LiveOK'
    BY <1>2, <2>1 DEF EngineStops, EditsOK, QueueOK, LiveOK, NoEdit, SkillRows
  <2> QED  BY <2>2, <2>3 DEF AdminInv
<1>3. CASE CopyFails
  BY <1>3, EditEnds DEF CopyFails, Answered
<1>4. ASSUME NEW i \in SchedIds, NEW s \in SkillNames, SlashSkill(i, s) \/ CliReadsSkills(i, s) PROVE AdminInv'
  <2>1. Bindable(i) => Toggled(i, s) \in SUBSET SkillNames
    <3> SUFFICES ASSUME Bindable(i) PROVE Toggled(i, s) \in SUBSET SkillNames
      OBVIOUS
    <3>1. RowOf(i).skills \in SUBSET SkillNames
      BY <1>0, RowFacts DEF Bindable, AdminTypeOK, EditorsTypeOK
    <3> QED  BY <3>1 DEF Toggled
  <2>2. CASE SlashSkill(i, s)
    <3>1. engineAt = "up"
      BY <2>2, UpToEdit DEF SlashSkill
    <3> QED  BY <2>1, <2>2, <3>1, SkillsKeep DEF SlashSkill
  <2>3. CASE CliReadsSkills(i, s)
    <3>1. cliEdit' \in SkillRows /\ cliEdit'.op = "skills"
      BY <2>1, <2>3 DEF CliReadsSkills, SkillRows
    <3>2. AdminTypeOK'
      BY <1>0, <2>3, <3>1 DEF CliReadsSkills, AdminTypeOK, EditorsTypeOK, HasRow, RowOf
    <3>3. EditsOK' /\ QueueOK' /\ LiveOK'
      BY <1>0, <2>3, <3>1 DEF CliReadsSkills, EditsOK, QueueOK, LiveOK, HasRow, RowOf
    <3> QED  BY <3>2, <3>3 DEF AdminInv
  <2> QED  BY <1>4, <2>2, <2>3
<1>5. CASE CliPostsSkills
  <2>1. cliEdit \in SkillRows /\ cliEdit' = NoEdit /\ UNCHANGED <<engineAt, queued, agentEdit>>
    BY <1>0, <1>5 DEF CliPostsSkills, AdminTypeOK, EditorsTypeOK, NoEdit, CreateRows
  <2>2. CASE Reached("skills") /\ Bindable(cliEdit.id)
    <3>1. engineAt = "up" /\ SkillsSet(cliEdit.id, cliEdit.skills)
      BY <1>5, <2>2, UpToEdit DEF CliPostsSkills
    <3>2. cliEdit.id \in SchedIds /\ cliEdit.skills \in SUBSET SkillNames
      BY <2>1 DEF SkillRows
    <3> QED  BY <2>1, <2>2, <3>1, <3>2, SkillsKeep
  <2>3. CASE ~(Reached("skills") /\ Bindable(cliEdit.id))
    BY <1>5, <2>1, <2>3, EditEnds DEF CliPostsSkills
  <2> QED  BY <2>2, <2>3
<1>6. CASE UNCHANGED adminVars
  BY <1>6, EditEnds DEF adminVars
<1> QED  BY <1>1, <1>2, <1>3, <1>4, <1>5, <1>6, TriggersKeep, RouterKeeps, CreationKeeps, CreateBeginKeeps, UpdateKeeps,
            UpdateBeginKeeps, RemoveKeeps, EnableKeeps, ReloadKeepsAdmin
         DEF AdminNext

(* Once the engine is up, what runs is what the rows say, with their       *)
(* prompts and skills, for any schedules, editors, restarts and copies in  *)
(* flight (the operations of engine.ts on runtime schedules), as long as   *)
(* creations use fresh ids and only they come before the engine is up.     *)
THEOREM LiveIsRows ==
  ASSUME OnlyCreatesEarly
  PROVE  ProactiveSpec => []LiveMatchesRows
<1>1. ProactiveInit => AdminInv
  BY AdminStart DEF ProactiveInit
<1>2. AdminInv /\ [ProactiveNext]_allVars => AdminInv'
  <2>1. [ProactiveNext]_allVars => [AdminNext]_adminVars
    BY DEF ProactiveNext, StepExecutor, StepAdmin, StepConfig, StepMissed, StepFeedback, allVars, adminVars
  <2> QED  BY <2>1, AdminStep
<1>3. AdminInv => LiveMatchesRows
  <2> SUFFICES ASSUME AdminInv, engineAt = "up"
               PROVE  /\ {e \in schedLive : e.kind # "webhook"} = {Entry(r) : r \in EnabledOf(schedRows, {"heartbeat", "cron"})}
                      /\ \A e \in schedLive : HasRow(e.id) /\ e = Entry(RowOf(e.id))
    BY DEF LiveMatchesRows
  <2>0. AdminTypeOK /\ LiveOK
    BY DEF AdminInv
  <2> DEFINE on == EnabledOf(schedRows, {"heartbeat", "cron"})
  <2>1. \A r : r \in on <=> \E i \in SchedIds : HasRow(i) /\ RowOf(i).on /\ RowOf(i).kind \in {"heartbeat", "cron"} /\ r = RowOf(i)
    BY EnabledFacts DEF HasRow, RowOf
  <2> HIDE DEF on
  <2>2. ASSUME NEW e \in schedLive, e.kind # "webhook" PROVE \E r \in on : e = Entry(r)
    <3>1. e.id \in SchedIds /\ HasRow(e.id) /\ e = Entry(RowOf(e.id)) /\ RowOf(e.id).on /\ RowOf(e.id) \in Rows(e.id)
      BY <2>0, <2>2 DEF LiveOK, AdminTypeOK, EditorsTypeOK
    <3>2. RowOf(e.id).kind = e.kind /\ RowOf(e.id).kind \in Kinds
      BY <3>1, EntryFacts, RowFacts
    <3> QED  BY <2>1, <2>2, <3>1, <3>2 DEF Kinds
  <2>3. ASSUME NEW r \in on PROVE Entry(r) \in schedLive /\ Entry(r).kind # "webhook"
    <3>1. PICK i \in SchedIds : HasRow(i) /\ RowOf(i).on /\ RowOf(i).kind \in {"heartbeat", "cron"} /\ r = RowOf(i)
      BY <2>1
    <3> QED  BY <2>0, <3>1, EntryFacts DEF LiveOK, AdminTypeOK, EditorsTypeOK
  <2>4. {e \in schedLive : e.kind # "webhook"} = {Entry(r) : r \in on}
    BY <2>2, <2>3
  <2> QED  BY <2>0, <2>4 DEF LiveOK, on
<1> QED  BY <1>1, <1>2, <1>3, PTL DEF ProactiveSpec

-----------------------------------------------------------------------------
(* The prompt files.  Only the type of the rows is needed, and of the      *)
(* edits that will write one.                                              *)

(* Two schedules have no prompt file in common, and nothing is removed     *)
(* before the engine is up.                                                *)
OwnPrompts ==
  /\ \A o, p \in Offers : CopyName(o) = CopyName(p) /\ o.src # "inline" => o.id = p.id
  /\ "remove" \notin BootEdits

(* Every row's prompt file is there, and from the moment the workspace was *)
(* seeded those of the built-ins; an edit under way is one that copies.    *)
PromptsOK ==
  /\ \A i \in SchedIds : HasRow(i) /\ RowOf(i).file[2] # "inline" => RowOf(i).file \in prompts
  /\ engineAt = "loading" => Originals(Seeded) \subseteq prompts
  /\ \A e \in {agentEdit, cliEdit} : e.op \in {"create", "update"} => Copies(e.offer.src)
PromptInv == EditorsTypeOK /\ PromptsOK

\* Where an edit ends, the edits left are ones that were there.
LEMMA EditsLeft ==
  ASSUME PromptInv, UNCHANGED agentEdit \/ agentEdit' = NoEdit, UNCHANGED cliEdit \/ cliEdit' = NoEdit
  PROVE  /\ agentEdit' \in {NoEdit} \cup CreateRows \cup UpdateRows /\ cliEdit' \in {NoEdit} \cup CreateRows \cup SkillRows
         /\ \A e \in {agentEdit', cliEdit'} : e.op \in {"create", "update"} => Copies(e.offer.src)
BY DEF PromptInv, EditorsTypeOK, PromptsOK, NoEdit

\* A row that is written names a prompt that is there.
LEMMA PromptWritten ==
  ASSUME PromptInv, NEW i \in SchedIds, NEW n \in Rows(i), schedRows' = [schedRows EXCEPT ![i] = n],
         prompts \subseteq prompts', n.file[2] # "inline" => n.file \in prompts', UNCHANGED engineAt,
         UNCHANGED agentEdit \/ agentEdit' = NoEdit, UNCHANGED cliEdit \/ cliEdit' = NoEdit
  PROVE  PromptInv'
<1>1. /\ schedRows' \in [SchedIds -> {NoRow} \cup UNION {Rows(j) : j \in SchedIds}]
      /\ \A j \in SchedIds : HasRow(j)' => RowOf(j)' \in Rows(j)
      /\ RowOf(i)' = n /\ \A j \in SchedIds : j # i => RowOf(j)' = RowOf(j)
  BY RowsTyped DEF PromptInv
<1>2. ASSUME NEW j \in SchedIds, HasRow(j)', RowOf(j)'.file[2] # "inline" PROVE RowOf(j)'.file \in prompts'
  <2>1. CASE j = i
    BY <1>1, <1>2, <2>1
  <2>2. CASE j # i
    <3>1. RowOf(j)' = RowOf(j) /\ HasRow(j)
      BY <1>1, <1>2, <2>2 DEF HasRow, RowOf
    <3> QED  BY <1>2, <3>1 DEF PromptInv, PromptsOK
  <2> QED  BY <2>1, <2>2
<1>3. EditorsTypeOK'
  BY <1>1, EditsLeft DEF EditorsTypeOK
<1>4. PromptsOK'
  BY <1>2, EditsLeft DEF PromptInv, PromptsOK
<1> QED  BY <1>3, <1>4 DEF PromptInv

\* The rows stay, and no prompt goes.
LEMMA PromptsGrow ==
  ASSUME PromptInv, UNCHANGED <<schedRows, engineAt>>, prompts \subseteq prompts',
         UNCHANGED agentEdit \/ agentEdit' = NoEdit, UNCHANGED cliEdit \/ cliEdit' = NoEdit
  PROVE  PromptInv'
<1>1. EditorsTypeOK'
  BY EditsLeft DEF PromptInv, EditorsTypeOK, HasRow, RowOf
<1>2. PromptsOK'
  BY EditsLeft DEF PromptInv, PromptsOK, HasRow, RowOf
<1> QED  BY <1>1, <1>2 DEF PromptInv

\* The file an offer becomes: there after its copy, or there already.
LEMMA LandedThere ==
  ASSUME NEW o \in Offers, SourceThere(o) \/ Copies(o.src)
  PROVE  /\ prompts \subseteq Landed(o) /\ CopyName(o)[2] = o.src
         /\ CopyName(o)[2] # "inline" => CopyName(o) \in Landed(o)
<1>1. CopyName(o)[2] = o.src
  BY DEF CopyName
<1> QED  BY <1>1 DEF Landed, SourceThere, Copies

\* Both ways of a creation.
LEMMA CreatesPrompt ==
  ASSUME PromptInv, NEW o \in Offers, SourceThere(o) \/ Copies(o.src), Creates(o), UNCHANGED engineAt,
         UNCHANGED agentEdit \/ agentEdit' = NoEdit, UNCHANGED cliEdit \/ cliEdit' = NoEdit
  PROVE  PromptInv'
<1>1. prompts' = Landed(o) /\ schedRows' = InsertOrIgnore(NewRow(o))
  BY DEF Creates
<1>2. o.id \in SchedIds /\ NewRow(o) \in Rows(o.id) /\ NewRow(o).file = CopyName(o) /\ NewRow(o).id = o.id
  BY NewRowFacts
<1>3. CASE HasRow(o.id)
  <2>1. UNCHANGED schedRows
    BY <1>1, <1>2, <1>3 DEF InsertOrIgnore
  <2> QED  BY <1>1, <2>1, LandedThere, PromptsGrow
<1>4. CASE ~HasRow(o.id)
  <2>1. schedRows' = [schedRows EXCEPT ![o.id] = NewRow(o)]
    BY <1>1, <1>2, <1>4 DEF InsertOrIgnore
  <2> QED  BY <1>1, <1>2, <2>1, LandedThere, PromptWritten
<1> QED  BY <1>3, <1>4

\* Both ways of an update.
LEMMA UpdatePrompt ==
  ASSUME PromptInv, NEW o \in Offers, NEW read \in Rows(o.id), SourceThere(o) \/ Copies(o.src), Replaces(o, read),
         prompts' = Landed(o), UNCHANGED <<engineAt, cliEdit>>, UNCHANGED agentEdit \/ agentEdit' = NoEdit
  PROVE  PromptInv'
<1>0. o.id \in SchedIds /\ prompts \subseteq prompts'
  BY LandedThere DEF SchedIds
<1>1. CASE ~HasRow(o.id)
  <2>1. UNCHANGED schedRows
    BY <1>1 DEF Replaces
  <2> QED  BY <1>0, <2>1, PromptsGrow
<1>2. CASE HasRow(o.id)
  <2> DEFINE n == Patched(read, RowOf(o.id), o)
  <2>1. RowOf(o.id) \in Rows(o.id)
    BY <1>0, <1>2 DEF PromptInv, EditorsTypeOK
  <2>2. schedRows' = [schedRows EXCEPT ![o.id] = n]
    BY <1>2 DEF Replaces, Patched
  <2>3. n \in Rows(o.id) /\ n.file = CopyName(o)
    BY <2>1, PatchIsRow
  <2> HIDE DEF n
  <2> QED  BY <1>0, <2>2, <2>3, LandedThere, PromptWritten
<1> QED  BY <1>1, <1>2

\* A removal deletes a prompt that no other row names.
LEMMA RemovePrompt ==
  ASSUME PromptInv, OwnPrompts, NEW i \in SchedIds, RemoveSchedule(i)
  PROVE  PromptInv'
<1>1. /\ engineAt = "up" /\ HasRow(i) /\ UNCHANGED <<engineAt, agentEdit, cliEdit>>
      /\ schedRows' = [schedRows EXCEPT ![i] = NoRow] /\ prompts' = prompts \ {RowOf(i).file}
  BY DEF RemoveSchedule, Reached, OwnPrompts
<1>2. /\ schedRows' \in [SchedIds -> {NoRow} \cup UNION {Rows(j) : j \in SchedIds}]
      /\ \A j \in SchedIds : HasRow(j)' => RowOf(j)' \in Rows(j)
      /\ RowOf(i)' = NoRow /\ \A j \in SchedIds : j # i => RowOf(j)' = RowOf(j)
  BY <1>1, RowsTyped DEF PromptInv
<1>3. ASSUME NEW j \in SchedIds, HasRow(j)', RowOf(j)'.file[2] # "inline" PROVE RowOf(j)'.file \in prompts'
  <2>1. j # i /\ RowOf(j)' = RowOf(j) /\ HasRow(j)
    BY <1>2, <1>3 DEF HasRow, RowOf
  <2>2. RowOf(j).file \in prompts
    BY <1>3, <2>1 DEF PromptInv, PromptsOK
  <2>3. RowOf(j).file \in FilesOf(j) /\ RowOf(i).file \in FilesOf(i)
    BY <1>1, <2>1, RowFacts DEF PromptInv, EditorsTypeOK
  <2>4. PICK p \in Offers : p.id = j /\ RowOf(j).file = CopyName(p)
    BY <2>3 DEF FilesOf
  <2>5. PICK o \in Offers : o.id = i /\ RowOf(i).file = CopyName(o)
    BY <2>3 DEF FilesOf
  <2>6. p.src # "inline"
    <3>1. CopyName(p)[2] = p.src
      BY DEF CopyName
    <3> QED  BY <1>3, <2>1, <2>4, <3>1
  <2>7. RowOf(j).file # RowOf(i).file
    BY <2>1, <2>4, <2>5, <2>6 DEF OwnPrompts
  <2> QED  BY <1>1, <2>1, <2>2, <2>7
<1>4. EditorsTypeOK'
  BY <1>1, <1>2 DEF PromptInv, EditorsTypeOK
<1>5. PromptsOK'
  BY <1>1, <1>3 DEF PromptInv, PromptsOK
<1> QED  BY <1>4, <1>5 DEF PromptInv

\* The built-ins are ensured after their prompts were restored.
LEMMA SystemPrompt ==
  ASSUME PromptInv, TriggersStart
  PROVE  PromptInv'
<1> DEFINE W == WithSystem
<1>1. engineAt = "loading" /\ engineAt' = "cron" /\ schedRows' = W /\ UNCHANGED <<prompts, agentEdit, cliEdit>>
  BY DEF TriggersStart
<1>2. /\ W \in [SchedIds -> {NoRow} \cup UNION {Rows(j) : j \in SchedIds}]
      /\ \A i \in SchedIds : /\ W[i] # NoRow => W[i] \in Rows(i)
                             /\ HasRow(i) => W[i] = RowOf(i)
                             /\ ~HasRow(i) /\ W[i] # NoRow => \E o \in System : o.id = i /\ W[i] = NewRow(o)
  BY SystemRows DEF PromptInv
<1> HIDE DEF W
<1>3. ASSUME NEW i \in SchedIds, W[i] # NoRow, W[i].file[2] # "inline" PROVE W[i].file \in prompts
  <2>1. CASE HasRow(i)
    BY <1>2, <1>3, <2>1 DEF PromptInv, PromptsOK
  <2>2. CASE ~HasRow(i)
    <3>1. PICK o \in System : W[i] = NewRow(o)
      BY <1>2, <1>3, <2>2
    <3>2. W[i].file = CopyName(o) /\ o \in Offers /\ o.kind = "heartbeat" /\ o.src \in Seeded \cup {"inline"} /\ Seeded \subseteq Canonical
      BY <3>1, NewRowFacts, AdminAssumption
    <3>3. CopyName(o)[2] = o.src
      BY DEF CopyName
    <3>4. o.src \in Seeded /\ CopyName(o) = <<"heartbeat", o.src, "">>
      BY <1>3, <3>2, <3>3 DEF CopyName, Copies
    <3>5. \A c \in Seeded : <<"heartbeat", c, "">> \in Originals(Seeded)
      BY DEF Originals
    <3> QED  BY <1>1, <3>2, <3>4, <3>5 DEF PromptInv, PromptsOK
  <2> QED  BY <2>1, <2>2
<1>4. EditorsTypeOK'
  BY <1>1, <1>2 DEF PromptInv, EditorsTypeOK, HasRow, RowOf
<1>5. PromptsOK'
  BY <1>1, <1>3 DEF PromptInv, PromptsOK, HasRow, RowOf
<1> QED  BY <1>4, <1>5 DEF PromptInv

\* A row that only changes its switch or its skills keeps its prompt.
LEMMA PromptStays ==
  ASSUME PromptInv, NEW i \in SchedIds, HasRow(i), NEW n \in Rows(i), n.file = RowOf(i).file,
         schedRows' = [schedRows EXCEPT ![i] = n], UNCHANGED <<prompts, engineAt, agentEdit>>,
         UNCHANGED cliEdit \/ cliEdit' = NoEdit
  PROVE  PromptInv'
<1>1. n.file[2] # "inline" => n.file \in prompts
  BY DEF PromptInv, PromptsOK
<1> QED  BY <1>1, PromptWritten

\* A row with other skills, or another switch, is a row.
LEMMA OtherField ==
  ASSUME NEW i \in SchedIds, NEW r \in Rows(i), NEW s \in SUBSET SkillNames, NEW b \in BOOLEAN
  PROVE  /\ [r EXCEPT !.skills = s] \in Rows(i) /\ [r EXCEPT !.skills = s].file = r.file
         /\ [r EXCEPT !.on = b] \in Rows(i) /\ [r EXCEPT !.on = b].file = r.file
<1>1. r \in [kind : Kinds, id : {i}, key : Keys, file : FilesOf(i), skills : SUBSET SkillNames, on : BOOLEAN] /\ Place(r) \in Named(i)
  BY DEF Rows
<1>2. [r EXCEPT !.skills = s] \in Rows(i) /\ [r EXCEPT !.skills = s].file = r.file
  BY <1>1 DEF Rows, Place
<1>3. [r EXCEPT !.on = b] \in Rows(i) /\ [r EXCEPT !.on = b].file = r.file
  BY <1>1 DEF Rows, Place
<1> QED  BY <1>2, <1>3

\* Before the first start there is no row to have a prompt.
LEMMA PromptStart == AdminInit => PromptInv
<1> SUFFICES ASSUME AdminInit PROVE PromptInv
  OBVIOUS
<1>1. EditorsTypeOK
  BY AdminStart DEF AdminInv, AdminTypeOK
<1>2. PromptsOK
  BY DEF AdminInit, PromptsOK, HasRow, NoEdit
<1> QED  BY <1>1, <1>2 DEF PromptInv

\* Every step keeps the prompts of the rows.
LEMMA PromptStep ==
  ASSUME OwnPrompts, PromptInv, [AdminNext]_adminVars
  PROVE  PromptInv'
<1>0. EditorsTypeOK /\ PromptsOK
  BY DEF PromptInv
<1>1. CASE EngineLoads
  <2>1. EditorsTypeOK'
    BY <1>0, <1>1 DEF EngineLoads, EditorsTypeOK, HasRow, RowOf
  <2>2. PromptsOK'
    BY <1>0, <1>1 DEF EngineLoads, PromptsOK, HasRow, RowOf
  <2> QED  BY <2>1, <2>2 DEF PromptInv
<1>2. CASE RouterWired \/ EngineStops
  <2>1. /\ UNCHANGED <<schedRows, prompts>> /\ engineAt' # "loading"
        /\ UNCHANGED agentEdit \/ agentEdit' = NoEdit
        /\ UNCHANGED cliEdit \/ cliEdit' = NoEdit
    BY <1>2 DEF RouterWired, EngineStops
  <2>2. EditorsTypeOK'
    BY <1>0, <2>1, EditsLeft DEF EditorsTypeOK, HasRow, RowOf
  <2>3. PromptsOK'
    BY <1>0, <2>1, EditsLeft DEF PromptsOK, HasRow, RowOf
  <2> QED  BY <2>2, <2>3 DEF PromptInv
<1>3. ASSUME NEW o \in Offers, CreateAtOnce(o) PROVE PromptInv'
  BY <1>3, CreatesPrompt DEF CreateAtOnce, Asked
<1>4. ASSUME NEW o \in Offers, CreateBegins(o) PROVE PromptInv'
  <2> DEFINE e == [op |-> "create", offer |-> o]
  <2>1. e \in CreateRows /\ e.op = "create" /\ e.offer = o /\ Copies(o.src)
    BY <1>4 DEF CreateRows, CreateBegins
  <2>2. /\ UNCHANGED <<schedRows, prompts, engineAt>>
        /\ \/ agentEdit' = e /\ UNCHANGED cliEdit
           \/ cliEdit' = e /\ UNCHANGED agentEdit
    BY <1>4 DEF CreateBegins
  <2> HIDE DEF e
  <2>3. EditorsTypeOK'
    BY <1>0, <2>1, <2>2 DEF EditorsTypeOK, HasRow, RowOf
  <2>4. PromptsOK'
    BY <1>0, <2>1, <2>2 DEF PromptsOK, HasRow, RowOf
  <2> QED  BY <2>3, <2>4 DEF PromptInv
<1>5. ASSUME NEW o \in Offers, UpdateAtOnce(o) PROVE PromptInv'
  <2>1. HasRow(o.id) /\ SourceThere(o) /\ ~Copies(o.src) /\ Replaces(o, RowOf(o.id)) /\ UNCHANGED <<prompts, engineAt, agentEdit, cliEdit>>
    BY <1>5 DEF UpdateAtOnce, UpdateAsked
  <2>2. RowOf(o.id) \in Rows(o.id)
    BY <1>0, <2>1 DEF EditorsTypeOK, SchedIds
  <2>3. prompts' = Landed(o)
    BY <2>1 DEF Landed
  <2> QED  BY <2>1, <2>2, <2>3, UpdatePrompt
<1>6. ASSUME NEW o \in Offers, UpdateBegins(o) PROVE PromptInv'
  <2>1. HasRow(o.id) /\ Copies(o.src) /\ UNCHANGED <<schedRows, prompts, engineAt, cliEdit>> /\ agentEdit' = [op |-> "update", offer |-> o, read |-> RowOf(o.id)]
    BY <1>6 DEF UpdateBegins, UpdateAsked
  <2>2. RowOf(o.id) \in Rows(o.id) /\ o.id \in SchedIds
    BY <1>0, <2>1 DEF EditorsTypeOK, SchedIds
  <2>3. agentEdit' \in UpdateRows /\ agentEdit'.offer = o
    BY <2>1, <2>2 DEF UpdateRows
  <2>4. EditorsTypeOK'
    BY <1>0, <2>1, <2>3 DEF EditorsTypeOK, HasRow, RowOf
  <2>5. PromptsOK'
    BY <1>0, <2>1, <2>3 DEF PromptsOK, HasRow, RowOf
  <2> QED  BY <2>4, <2>5 DEF PromptInv
<1>7. CASE CopyLands
  <2>1. PICK e \in {agentEdit, cliEdit} : e.op = "create" /\ Creates(e.offer) /\ Answered(e) /\ UNCHANGED engineAt
    BY <1>7 DEF CopyLands
  <2>2. e.offer \in Offers /\ Copies(e.offer.src)
    BY <1>0, <2>1 DEF EditorsTypeOK, PromptsOK, NoEdit, CreateRows, UpdateRows, SkillRows
  <2> QED  BY <2>1, <2>2, CreatesPrompt DEF Answered
<1>8. CASE CopyFails
  BY <1>8, PromptsGrow DEF CopyFails, Answered
<1>9. CASE UpdateLands
  <2>1. agentEdit \in UpdateRows /\ agentEdit.op = "update"
    BY <1>0, <1>9 DEF UpdateLands, EditorsTypeOK, NoEdit, CreateRows
  <2>2. agentEdit.offer \in Offers /\ agentEdit.read \in Rows(agentEdit.offer.id) /\ Copies(agentEdit.offer.src)
    BY <1>0, <2>1 DEF UpdateRows, PromptsOK
  <2> QED  BY <1>9, <2>2, UpdatePrompt DEF UpdateLands
<1>10. ASSUME NEW i \in SchedIds, NEW on \in BOOLEAN, SetScheduleEnabled(i, on) PROVE PromptInv'
  <2>1. HasRow(i) /\ schedRows' = [schedRows EXCEPT ![i] = [RowOf(i) EXCEPT !.on = on]] /\ UNCHANGED <<prompts, engineAt, agentEdit, cliEdit>>
    BY <1>10 DEF SetScheduleEnabled, RowOf
  <2>2. RowOf(i) \in Rows(i)
    BY <1>0, <2>1 DEF EditorsTypeOK
  <2>3. [RowOf(i) EXCEPT !.on = on] \in Rows(i) /\ [RowOf(i) EXCEPT !.on = on].file = RowOf(i).file
    BY <2>2, OtherField
  <2> QED  BY <2>1, <2>3, PromptStays
<1>11. ASSUME NEW i \in SchedIds, Bindable(i), NEW s \in SUBSET SkillNames, SkillsSet(i, s), UNCHANGED <<prompts, engineAt, agentEdit>>,
              UNCHANGED cliEdit \/ cliEdit' = NoEdit
       PROVE  PromptInv'
  <2>1. HasRow(i) /\ schedRows' = [schedRows EXCEPT ![i] = [RowOf(i) EXCEPT !.skills = s]]
    BY <1>11 DEF SkillsSet, Bindable
  <2>2. RowOf(i) \in Rows(i)
    BY <1>0, <2>1 DEF EditorsTypeOK
  <2>3. [RowOf(i) EXCEPT !.skills = s] \in Rows(i) /\ [RowOf(i) EXCEPT !.skills = s].file = RowOf(i).file
    BY <2>2, OtherField
  <2> QED  BY <1>11, <2>1, <2>3, PromptStays
<1>12. ASSUME NEW i \in SchedIds, NEW s \in SkillNames, SlashSkill(i, s) \/ CliReadsSkills(i, s) PROVE PromptInv'
  <2>1. Bindable(i)
    BY <1>12 DEF SlashSkill, CliReadsSkills
  <2>2. RowOf(i).skills \in SUBSET SkillNames
    BY <1>0, <2>1, RowFacts DEF Bindable, EditorsTypeOK
  <2>3. Toggled(i, s) \in SUBSET SkillNames
    BY <2>2 DEF Toggled
  <2>4. CASE SlashSkill(i, s)
    BY <1>11, <2>1, <2>3, <2>4 DEF SlashSkill
  <2>5. CASE CliReadsSkills(i, s)
    <3>1. cliEdit' \in SkillRows /\ cliEdit'.op = "skills" /\ UNCHANGED <<schedRows, prompts, engineAt, agentEdit>>
      BY <2>3, <2>5 DEF CliReadsSkills, SkillRows
    <3>2. EditorsTypeOK'
      BY <1>0, <3>1 DEF EditorsTypeOK, HasRow, RowOf
    <3>3. PromptsOK'
      BY <1>0, <3>1 DEF PromptsOK, HasRow, RowOf
    <3> QED  BY <3>2, <3>3 DEF PromptInv
  <2> QED  BY <1>12, <2>4, <2>5
<1>13. CASE CliPostsSkills
  <2>1. cliEdit \in SkillRows /\ cliEdit' = NoEdit /\ UNCHANGED <<prompts, engineAt, agentEdit>>
    BY <1>0, <1>13 DEF CliPostsSkills, EditorsTypeOK, NoEdit, CreateRows
  <2>2. cliEdit.id \in SchedIds /\ cliEdit.skills \in SUBSET SkillNames
    BY <2>1 DEF SkillRows
  <2>3. CASE Reached("skills") /\ Bindable(cliEdit.id)
    BY <1>11, <1>13, <2>1, <2>2, <2>3 DEF CliPostsSkills
  <2>4. CASE ~(Reached("skills") /\ Bindable(cliEdit.id))
    BY <1>13, <2>1, <2>4, PromptsGrow DEF CliPostsSkills
  <2> QED  BY <2>3, <2>4
<1>14. CASE ReloadSchedules
  BY <1>14, PromptsGrow DEF ReloadSchedules
<1>15. CASE UNCHANGED adminVars
  BY <1>15, PromptsGrow DEF adminVars
<1> QED  BY <1>1, <1>2, <1>3, <1>4, <1>5, <1>6, <1>7, <1>8, <1>9, <1>10, <1>12, <1>13, <1>14, <1>15, RemovePrompt, SystemPrompt
         DEF AdminNext

(* No schedule loses its prompt to another's removal, for any schedules,   *)
(* sources, edits in flight and restarts (prompt-files.ts, engine.ts       *)
(* removeRuntimeSchedule), provided no two schedules were made from one    *)
(* file of the prompt directory, which is shared instead of copied.        *)
THEOREM PromptsStay ==
  ASSUME OwnPrompts
  PROVE  ProactiveSpec => []PromptKept
<1>1. ProactiveInit => PromptInv
  BY PromptStart DEF ProactiveInit
<1>2. PromptInv /\ [ProactiveNext]_allVars => PromptInv'
  <2>1. [ProactiveNext]_allVars => [AdminNext]_adminVars
    BY DEF ProactiveNext, StepExecutor, StepAdmin, StepConfig, StepMissed, StepFeedback, allVars, adminVars
  <2> QED  BY <2>1, PromptStep
<1>3. PromptInv => PromptKept
  BY DEF PromptInv, PromptsOK, PromptKept
<1> QED  BY <1>1, <1>2, <1>3, PTL DEF ProactiveSpec
=============================================================================
