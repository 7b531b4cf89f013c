------------------------------ MODULE LiveProofs ------------------------------
(***************************************************************************)
(* Theorems about the path of a message.  The worker (ChannelWorker), for  *)
(* any number of messages, tasks and webhooks and any queue caps: types    *)
(* and wakeups first, then what happens to a message (once, lost only in   *)
(* one way, as an Inbox), then what the worker shows to the outside.  The  *)
(* delivery of a turn's reply and the reasoning shown beside it            *)
(* (TurnDelivery), and the daemon around its workers (Gateway), each for   *)
(* every value of its constants, and for their composition in MCLive.      *)
(***************************************************************************)
EXTENDS MCLive, MCChannelWorker, SequenceTheorems, TLAPS

-----------------------------------------------------------------------------
(* The worker.                                                             *)

(* The invariant that is inductive: the wakeup invariant rests on the      *)
(* ownership of the waiter and on the turn flags.                          *)
WakeupInv == TypeOK /\ TurnFlags /\ WaiterOwned /\ NoLostWakeup

(* A part of a sequence over S is one, too.                                *)
LEMMA SubSeqType ==
  ASSUME NEW S, NEW s \in Seq(S), NEW m \in Nat \ {0}, NEW n \in Nat, n <= Len(s)
  PROVE  SubSeq(s, m, n) \in Seq(S)
OBVIOUS

(* The mirror of a sequence of messages is a sequence of ids.              *)
LEMMA IdsOfType ==
  ASSUME NEW s \in Seq(Messages), NEW list \in {"pending", "queued"}
  PROVE  IdsOf(s, list) \in Seq(GlobalId)
BY DEF IdsOf, GlobalId

(* The range of a sequence over S lies in S.                               *)
LEMMA RangeType ==
  ASSUME NEW S, NEW s \in Seq(S)
  PROVE  Range(s) \subseteq S
BY DEF Range

(* Concatenation adds lengths.                                             *)
LEMMA ConcatType ==
  ASSUME NEW S, NEW s \in Seq(S), NEW t \in Seq(S)
  PROVE  s \o t \in Seq(S) /\ Len(s \o t) = Len(s) + Len(t)
OBVIOUS

(* The two ways a message enters keep the queues and the mirror typed.     *)
LEMMA ParkType ==
  ASSUME WakeupInv, NEW m \in Messages, Park(m),
         UNCHANGED <<buffer, coalesceTimer, queuedIds, waiter, events>>
  PROVE  QueueTypeOK' /\ IdTypeOK'
<1>0. <<m, "pending">> \in GlobalId
  BY DEF GlobalId
<1>1. CASE Len(pending) >= MAX_PENDING
  BY <1>1 DEF Park, WakeupInv, TypeOK, QueueTypeOK, IdTypeOK
<1>2. CASE ~(Len(pending) >= MAX_PENDING)
  <2>1. /\ pending' = Append(pending, m) /\ pendingIds' = Append(pendingIds, <<m, "pending">>)
        /\ globalQueue' = globalQueue \cup {<<m, "pending">>}
    BY <1>2 DEF Park
  <2>2. pending' \in Seq(Messages) /\ Len(pending') <= MAX_PENDING
    BY <1>2, <2>1, CapAssumption DEF WakeupInv, TypeOK, QueueTypeOK
  <2>3. pendingIds' \in Seq(GlobalId)
    BY <1>0, <2>1 DEF WakeupInv, TypeOK, IdTypeOK
  <2>4. QueueTypeOK'
    BY <2>2 DEF WakeupInv, TypeOK, QueueTypeOK
  <2>5. IdTypeOK'
    BY <1>0, <2>1, <2>3 DEF WakeupInv, TypeOK, IdTypeOK
  <2> QED  BY <2>4, <2>5
<1> QED  BY <1>1, <1>2

(* MessageQueue.enqueue keeps the buffer within its cap and the mirror     *)
(* typed.                                                                  *)
LEMMA EnqueueType ==
  ASSUME WakeupInv, NEW m \in Messages, Enqueue(m),
         UNCHANGED <<pending, pendingIds, waiter, events>>
  PROVE  QueueTypeOK' /\ IdTypeOK'
<1>0. <<m, "queued">> \in GlobalId
  BY DEF GlobalId
<1>1. CASE Len(buffer) >= MAX_QUEUED_MESSAGES
  BY <1>1 DEF Enqueue, WakeupInv, TypeOK, QueueTypeOK, IdTypeOK
<1>2. CASE ~(Len(buffer) >= MAX_QUEUED_MESSAGES)
  <2>1. /\ buffer' = Append(buffer, m) /\ queuedIds' = Append(queuedIds, <<m, "queued">>)
        /\ globalQueue' = globalQueue \cup {<<m, "queued">>}
    BY <1>2 DEF Enqueue
  <2>2. buffer' \in Seq(Messages) /\ Len(buffer') <= MAX_QUEUED_MESSAGES
    BY <1>2, <2>1, CapAssumption DEF WakeupInv, TypeOK, QueueTypeOK
  <2>3. queuedIds' \in Seq(GlobalId)
    BY <1>0, <2>1 DEF WakeupInv, TypeOK, IdTypeOK
  <2>4. coalesceTimer' \in BOOLEAN
    BY <1>2 DEF Enqueue
  <2>5. QueueTypeOK'
    BY <2>2, <2>4 DEF WakeupInv, TypeOK, QueueTypeOK
  <2>6. IdTypeOK'
    BY <1>0, <2>1, <2>3 DEF WakeupInv, TypeOK, IdTypeOK
  <2> QED  BY <2>5, <2>6
<1> QED  BY <1>1, <1>2

(* So does a dispatched message, whichever way it goes.                    *)
LEMMA AcceptType ==
  ASSUME WakeupInv, NEW m \in Messages, Accept(m)
  PROVE  QueueTypeOK' /\ IdTypeOK'
<1>1. CASE turnActive
  BY <1>1, ParkType DEF Accept
<1>2. CASE ~turnActive
  BY <1>2, EnqueueType DEF Accept
<1> QED  BY <1>1, <1>2

(* Handing the buffer to the agent keeps ids and histories typed.          *)
LEMMA TakeBatchType ==
  ASSUME WakeupInv, TakeBatch, UNCHANGED <<pendingIds, accepted, discarded, commands>>
  PROVE  IdTypeOK' /\ HistTypeOK'
<1>1. queuedIds' \in Seq(GlobalId)
  <2>1. queuedIds \in Seq(GlobalId) /\ Len(buffer) + 1 \in Nat \ {0}
    BY DEF WakeupInv, TypeOK, IdTypeOK, QueueTypeOK
  <2> QED  BY <2>1, SubSeqType DEF TakeBatch
<1>2. globalQueue' \subseteq globalQueue
  BY DEF TakeBatch
<1>3. given' \in Seq(Messages)
  BY ConcatType DEF TakeBatch, WakeupInv, TypeOK, HistTypeOK, QueueTypeOK
<1> QED  BY <1>1, <1>2, <1>3 DEF WakeupInv, TypeOK, IdTypeOK, HistTypeOK

(* What stop() clears stays typed.                                         *)
LEMMA ClearAllType ==
  ASSUME WakeupInv, ClearAll
  PROVE  QueueTypeOK' /\ IdTypeOK' /\ HistTypeOK'
<1>1. QueueTypeOK'
  <2>1. pending' = << >> /\ buffer' = << >> /\ events' = << >> /\ waiter' = "none"
    BY DEF ClearAll
  <2>2. coalesceTimer' \in BOOLEAN
    BY DEF ClearAll
  <2>3. \A S : << >> \in Seq(S) /\ Len(<< >>) = 0
    OBVIOUS
  <2> QED  BY <2>1, <2>2, <2>3, CapAssumption DEF QueueTypeOK
<1>2. IdTypeOK'
  BY DEF ClearAll, WakeupInv, TypeOK, IdTypeOK
<1>3. Range(pending) \subseteq Messages /\ Range(buffer) \subseteq Messages
  BY RangeType DEF WakeupInv, TypeOK, QueueTypeOK
<1>4. HistTypeOK'
  BY <1>3 DEF ClearAll, WakeupInv, TypeOK, HistTypeOK
<1> QED  BY <1>1, <1>2, <1>4

(* The coalesce flush keeps the queues, the ids, the histories and the turn *)
(* flags right: a live waiter means that no turn was running.              *)
LEMMA CoalesceType ==
  ASSUME WakeupInv, CoalesceFires
  PROVE  QueueTypeOK' /\ IdTypeOK' /\ HistTypeOK' /\ TurnFlags'
<1>0. UNCHANGED <<pending, events, pendingIds, commands, accepted, discarded>> /\ waiter' = "none" /\ coalesceTimer' \in BOOLEAN
  BY DEF CoalesceFires
<1>1. CASE waiter = "live" /\ buffer # << >>
  <2>0. TakeBatch
    BY <1>1 DEF CoalesceFires
  <2>1. QueueTypeOK'
    BY <1>0, <2>0, CapAssumption DEF TakeBatch, WakeupInv, TypeOK, QueueTypeOK
  <2>2. TurnFlags'
    BY <2>0 DEF TakeBatch, StartTurn, TurnFlags
  <2> QED  BY <1>0, <2>0, <2>1, <2>2, TakeBatchType
<1>2. CASE waiter = "live" /\ buffer = << >>
  <2>0. loop' = "top" /\ UNCHANGED <<buffer, queuedIds, globalQueue, given, turnActive, currentAbort, turnTimer>>
    BY <1>2 DEF CoalesceFires
  <2>1. QueueTypeOK' /\ IdTypeOK' /\ HistTypeOK'
    BY <1>0, <2>0 DEF WakeupInv, TypeOK, QueueTypeOK, IdTypeOK, HistTypeOK
  <2>2. ~turnActive
    BY <1>2 DEF WakeupInv, WaiterOwned, TurnFlags
  <2>3. TurnFlags'
    BY <2>0, <2>2 DEF WakeupInv, TurnFlags
  <2> QED  BY <2>1, <2>3
<1>3. CASE waiter # "live"
  <2>0. buffer' \in {<< >>, buffer} /\ UNCHANGED <<loop, queuedIds, globalQueue, given, turnActive, currentAbort, turnTimer>>
    BY <1>3 DEF CoalesceFires
  <2>1. QueueTypeOK'
    <3>1. CASE buffer' = << >>
      <4>1. buffer' \in Seq(Messages) /\ Len(buffer') = 0
        BY <3>1
      <4> QED  BY <1>0, <4>1, CapAssumption DEF WakeupInv, TypeOK, QueueTypeOK
    <3>2. CASE buffer' = buffer
      BY <1>0, <3>2 DEF WakeupInv, TypeOK, QueueTypeOK
    <3> QED  BY <2>0, <3>1, <3>2
  <2>2. IdTypeOK' /\ HistTypeOK'
    BY <1>0, <2>0 DEF WakeupInv, TypeOK, IdTypeOK, HistTypeOK
  <2>3. TurnFlags'
    BY <2>0 DEF WakeupInv, TurnFlags
  <2> QED  BY <2>1, <2>2, <2>3
<1> QED  BY <1>1, <1>2, <1>3

(* drainPendingToQueue moves only what fits.                               *)
LEMMA EndTurnType ==
  ASSUME WakeupInv, EndTurn
  PROVE  QueueTypeOK' /\ IdTypeOK' /\ HistTypeOK'
<1> DEFINE room  == MAX_QUEUED_MESSAGES - Len(buffer)
           moved == IF Len(pending) <= room THEN pending ELSE SubSeq(pending, 1, room)
<1>0. /\ pending \in Seq(Messages) /\ buffer \in Seq(Messages) /\ room \in Nat
      /\ moved \in Seq(Messages) /\ Len(moved) <= room
  BY CapAssumption DEF WakeupInv, TypeOK, QueueTypeOK
<1>1. /\ pending' = << >> /\ buffer' = buffer \o moved /\ UNCHANGED <<events, waiter, pendingIds, accepted, given, commands>>
      /\ queuedIds' = queuedIds \o IdsOf(moved, "queued")
      /\ globalQueue' = globalQueue \cup Range(IdsOf(moved, "queued"))
      /\ discarded' = discarded \cup (Range(pending) \ Range(moved))
  BY DEF EndTurn
<1>2. coalesceTimer' \in BOOLEAN
  BY DEF EndTurn
<1>3. IdsOf(moved, "queued") \in Seq(GlobalId)
  BY <1>0, IdsOfType
<1> HIDE DEF moved, room
<1>4. buffer' \in Seq(Messages) /\ Len(buffer') = Len(buffer) + Len(moved)
  BY <1>0, <1>1, ConcatType
<1>5. Len(buffer') <= MAX_QUEUED_MESSAGES
  BY <1>0, <1>4, CapAssumption DEF room
<1>6. QueueTypeOK'
  BY <1>1, <1>2, <1>4, <1>5, CapAssumption DEF WakeupInv, TypeOK, QueueTypeOK
<1>7. queuedIds' \in Seq(GlobalId)
  BY <1>1, <1>3, ConcatType DEF WakeupInv, TypeOK, IdTypeOK
<1>8. IdTypeOK'
  BY <1>1, <1>3, <1>7, RangeType DEF WakeupInv, TypeOK, IdTypeOK
<1>9. HistTypeOK'
  BY <1>0, <1>1, RangeType DEF WakeupInv, TypeOK, HistTypeOK
<1> QED  BY <1>6, <1>8, <1>9

(* A task reports progress at most MaxProgress times.                      *)
LEMMA TaskReportsType ==
  ASSUME WakeupInv, NEW t \in Tasks, NEW type \in {"progress", "error", "always"},
         TaskReports(t, type)
  PROVE  TaskTypeOK'
<1>1. CASE type = "progress"
  <2>1. progress[t] \in 0..MaxProgress /\ progress[t] < MaxProgress
    BY <1>1 DEF TaskReports, WakeupInv, TypeOK, TaskTypeOK
  <2>2. progress' \in [Tasks -> 0..MaxProgress]
    BY <1>1, <2>1, CapAssumption DEF TaskReports, WakeupInv, TypeOK, TaskTypeOK
  <2> QED  BY <1>1, <2>2 DEF TaskReports, WakeupInv, TypeOK, TaskTypeOK
<1>2. CASE type # "progress"
  BY <1>2 DEF TaskReports, WakeupInv, TypeOK, TaskTypeOK
<1> QED  BY <1>1, <1>2

(* Handling an event touches the presence of its own task only.            *)
LEMMA LoopTakesEventType ==
  ASSUME WakeupInv, LoopTakesEvent
  PROVE  TaskTypeOK'
<1> DEFINE e == Head(events)
<1>0. e \in Event /\ e.task \in Tasks \cup Hooks
  <2>1. events \in Seq(Event) /\ events # << >>
    BY DEF LoopTakesEvent, WakeupInv, TypeOK, QueueTypeOK
  <2>2. e \in Event
    BY <2>1
  <2> QED  BY <2>2 DEF Event
<1>1. HandleEvent(e) /\ UNCHANGED <<tasks, progress, hooks>>
  BY DEF LoopTakesEvent
<1> HIDE DEF e
<1>2. taskMarks' \subseteq taskMarks \cup {e.task}
  BY <1>1 DEF HandleEvent, BeginPresence, EndPresence
<1>3. woken' \subseteq woken \cup {e.task}
  BY <1>1 DEF HandleEvent, NoTurn, ForwardThrows
<1>4. typing' \in BOOLEAN
  BY <1>1, CapabilityAssumption DEF HandleEvent, BeginPresence, EndPresence, WakeupInv, TypeOK, TaskTypeOK
<1> QED  BY <1>0, <1>1, <1>2, <1>3, <1>4 DEF WakeupInv, TypeOK, TaskTypeOK

(* What the agent takes over mid-turn are messages.                        *)
LEMMA DrainPendingType ==
  ASSUME WakeupInv, DrainPending
  PROVE  HistTypeOK'
BY ConcatType DEF DrainPending, WakeupInv, TypeOK, HistTypeOK, QueueTypeOK

(* A fresh worker satisfies the invariant.                                 *)
THEOREM InitWakeup == Init => WakeupInv
<1> SUFFICES ASSUME Init PROVE WakeupInv
  OBVIOUS
<1>1. LoopTypeOK /\ EndTypeOK
  BY DEF Init, LoopTypeOK, EndTypeOK, LoopStates
<1>2. QueueTypeOK
  <2>1. coalesceTimer \in BOOLEAN /\ waiter = "none"
    BY DEF Init
  <2>2. \A S : << >> \in Seq(S) /\ Len(<< >>) = 0
    OBVIOUS
  <2>3. pending = << >> /\ buffer = << >> /\ events = << >>
    BY DEF Init
  <2> QED  BY <2>1, <2>2, <2>3, CapAssumption DEF QueueTypeOK
<1>3. IdTypeOK /\ HistTypeOK
  BY DEF Init, IdTypeOK, HistTypeOK
<1>4. TaskTypeOK
  <2>1. typing \in BOOLEAN
    BY DEF Init
  <2> QED  BY <2>1, CapAssumption DEF Init, TaskTypeOK
<1>5. TurnFlags
  BY DEF Init, TurnFlags
<1>6. WaiterOwned /\ NoLostWakeup
  BY DEF Init, WaiterOwned, NoLostWakeup
<1> QED  BY <1>1, <1>2, <1>3, <1>4, <1>5, <1>6 DEF WakeupInv, TypeOK

(* Every step keeps the invariant: one step per action, and for the        *)
(* actions that move messages one per conjunct.                            *)
THEOREM StepWakeup == WakeupInv /\ [Next]_vars => WakeupInv'
<1> SUFFICES ASSUME WakeupInv, [Next]_vars PROVE WakeupInv'
  OBVIOUS
<1> USE CapAssumption, CapabilityAssumption
<1> USE DEF WakeupInv, TypeOK, loopVars, queueVars, idVars, taskVars, endVars, histVars
<1>1. ASSUME NEW m \in Messages, Dispatch(m) PROVE WakeupInv'
  <2>1. LoopTypeOK'
    BY <1>1 DEF Dispatch, Accept, Park, Enqueue, LoopTypeOK, LoopStates
  <2>2. QueueTypeOK'
    BY <1>1, AcceptType DEF Dispatch
  <2>3. IdTypeOK'
    BY <1>1, AcceptType DEF Dispatch
  <2>4. TaskTypeOK'
    BY <1>1 DEF Dispatch, Accept, Park, Enqueue, TaskTypeOK
  <2>5. EndTypeOK'
    BY <1>1 DEF Dispatch, Accept, Park, Enqueue, EndTypeOK
  <2>6. HistTypeOK'
    BY <1>1 DEF Dispatch, Accept, Park, Enqueue, HistTypeOK
  <2>7. TurnFlags'
    BY <1>1 DEF Dispatch, Accept, Park, Enqueue, TurnFlags, Parked
  <2>8. WaiterOwned'
    BY <1>1 DEF Dispatch, Accept, Park, Enqueue, WaiterOwned, NoLostWakeup
  <2>9. NoLostWakeup'
    BY <1>1 DEF Dispatch, Accept, Park, Enqueue, NoLostWakeup, TurnFlags, WaiterOwned
  <2> QED  BY <2>1, <2>2, <2>3, <2>4, <2>5, <2>6, <2>7, <2>8, <2>9
<1>2. ASSUME NEW m \in Messages, DispatchCommand(m) PROVE WakeupInv'
  BY <1>2 DEF LoopTypeOK, QueueTypeOK, IdTypeOK, TaskTypeOK, EndTypeOK, HistTypeOK,
       TurnFlags, WaiterOwned, NoLostWakeup, LoopStates, DispatchCommand
<1>3. ASSUME NEW m \in Messages, CommandForwards(m) PROVE WakeupInv'
  <2>1. LoopTypeOK'
    BY <1>3 DEF CommandForwards, Accept, Park, Enqueue, LoopTypeOK, LoopStates
  <2>2. QueueTypeOK'
    BY <1>3, AcceptType DEF CommandForwards
  <2>3. IdTypeOK'
    BY <1>3, AcceptType DEF CommandForwards
  <2>4. TaskTypeOK'
    BY <1>3 DEF CommandForwards, Accept, Park, Enqueue, TaskTypeOK
  <2>5. EndTypeOK'
    BY <1>3 DEF CommandForwards, Accept, Park, Enqueue, EndTypeOK
  <2>6. HistTypeOK'
    BY <1>3 DEF CommandForwards, Accept, Park, Enqueue, HistTypeOK
  <2>7. TurnFlags'
    BY <1>3 DEF CommandForwards, Accept, Park, Enqueue, TurnFlags, Parked
  <2>8. WaiterOwned'
    BY <1>3 DEF CommandForwards, Accept, Park, Enqueue, WaiterOwned, NoLostWakeup
  <2>9. NoLostWakeup'
    BY <1>3 DEF CommandForwards, Accept, Park, Enqueue, NoLostWakeup, TurnFlags, WaiterOwned
  <2> QED  BY <2>1, <2>2, <2>3, <2>4, <2>5, <2>6, <2>7, <2>8, <2>9
<1>4. ASSUME NEW m \in Messages, CommandReplies(m) PROVE WakeupInv'
  BY <1>4 DEF LoopTypeOK, QueueTypeOK, IdTypeOK, TaskTypeOK, EndTypeOK, HistTypeOK,
       TurnFlags, WaiterOwned, NoLostWakeup, LoopStates, CommandReplies
<1>5. CASE DispatchAbort
  BY <1>5 DEF LoopTypeOK, QueueTypeOK, IdTypeOK, TaskTypeOK, EndTypeOK, HistTypeOK,
       TurnFlags, WaiterOwned, NoLostWakeup, LoopStates, DispatchAbort
<1>6. ASSUME NEW h \in Hooks, NEW type \in {"always", "silent", "conditional"},
             InjectEvent(h, type) PROVE WakeupInv'
  BY <1>6 DEF LoopTypeOK, QueueTypeOK, IdTypeOK, TaskTypeOK, EndTypeOK, HistTypeOK,
       TurnFlags, WaiterOwned, NoLostWakeup, LoopStates, Event, EventTypes, InjectEvent,
       Push
<1>7. ASSUME NEW t \in Tasks, SpawnTask(t) PROVE WakeupInv'
  BY <1>7 DEF LoopTypeOK, QueueTypeOK, IdTypeOK, TaskTypeOK, EndTypeOK, HistTypeOK,
       TurnFlags, WaiterOwned, NoLostWakeup, LoopStates, Event, EventTypes, SpawnTask,
       Push
<1>8. ASSUME NEW t \in Tasks, NEW type \in {"progress", "error", "always"},
             TaskReports(t, type) PROVE WakeupInv'
  <2>1. LoopTypeOK'
    BY <1>8 DEF TaskReports, Push, LoopTypeOK, LoopStates
  <2>2. QueueTypeOK'
    BY <1>8 DEF TaskReports, Push, QueueTypeOK, Event, EventTypes
  <2>3. IdTypeOK'
    BY <1>8 DEF TaskReports, Push, IdTypeOK
  <2>4. TaskTypeOK'
    BY <1>8, TaskReportsType DEF TaskReports
  <2>5. EndTypeOK'
    BY <1>8 DEF TaskReports, Push, EndTypeOK
  <2>6. HistTypeOK'
    BY <1>8 DEF TaskReports, Push, HistTypeOK
  <2>7. TurnFlags'
    BY <1>8 DEF TaskReports, Push, TurnFlags, Parked
  <2>8. WaiterOwned'
    BY <1>8 DEF TaskReports, Push, WaiterOwned, NoLostWakeup
  <2>9. NoLostWakeup'
    BY <1>8 DEF TaskReports, Push, NoLostWakeup, TurnFlags, WaiterOwned
  <2> QED  BY <2>1, <2>2, <2>3, <2>4, <2>5, <2>6, <2>7, <2>8, <2>9
<1>9. CASE LoopExits
  BY <1>9 DEF LoopTypeOK, QueueTypeOK, IdTypeOK, TaskTypeOK, EndTypeOK, HistTypeOK,
       TurnFlags, WaiterOwned, NoLostWakeup, LoopStates, LoopExits
<1>10. CASE LoopTakesBatch
  <2>1. LoopTypeOK'
    BY <1>10 DEF LoopTakesBatch, TakeBatch, StartTurn, LoopTypeOK, LoopStates
  <2>2. QueueTypeOK'
    BY <1>10 DEF LoopTakesBatch, TakeBatch, StartTurn, QueueTypeOK, Event, EventTypes
  <2>3. IdTypeOK'
    BY <1>10, TakeBatchType DEF LoopTakesBatch
  <2>4. TaskTypeOK'
    BY <1>10 DEF LoopTakesBatch, TakeBatch, StartTurn, TaskTypeOK
  <2>5. EndTypeOK'
    BY <1>10 DEF LoopTakesBatch, TakeBatch, StartTurn, EndTypeOK
  <2>6. HistTypeOK'
    BY <1>10, TakeBatchType DEF LoopTakesBatch
  <2>7. TurnFlags'
    BY <1>10 DEF LoopTakesBatch, TakeBatch, StartTurn, TurnFlags, Parked
  <2>8. WaiterOwned'
    BY <1>10 DEF LoopTakesBatch, TakeBatch, StartTurn, WaiterOwned, NoLostWakeup
  <2>9. NoLostWakeup'
    BY <1>10 DEF LoopTakesBatch, TakeBatch, StartTurn, NoLostWakeup, TurnFlags, WaiterOwned
  <2> QED  BY <2>1, <2>2, <2>3, <2>4, <2>5, <2>6, <2>7, <2>8, <2>9
<1>11. CASE LoopWaits
  BY <1>11 DEF LoopTypeOK, QueueTypeOK, IdTypeOK, TaskTypeOK, EndTypeOK, HistTypeOK,
       TurnFlags, WaiterOwned, NoLostWakeup, LoopStates, LoopWaits
<1>12. CASE LoopTakesEvent
  <2>1. LoopTypeOK'
    BY <1>12 DEF LoopTakesEvent, HandleEvent, NoTurn, ForwardThrows, StartTurn,
         LoopTypeOK, LoopStates
  <2>2. QueueTypeOK'
    BY <1>12 DEF LoopTakesEvent, HandleEvent, NoTurn, ForwardThrows, StartTurn,
         QueueTypeOK, Event, EventTypes
  <2>3. IdTypeOK'
    BY <1>12 DEF LoopTakesEvent, HandleEvent, NoTurn, ForwardThrows, StartTurn, IdTypeOK
  <2>4. TaskTypeOK'
    BY <1>12, LoopTakesEventType DEF LoopTakesEvent
  <2>5. EndTypeOK'
    BY <1>12 DEF LoopTakesEvent, HandleEvent, NoTurn, ForwardThrows, StartTurn, EndTypeOK
  <2>6. HistTypeOK'
    BY <1>12 DEF LoopTakesEvent, HandleEvent, NoTurn, ForwardThrows, StartTurn, HistTypeOK
  <2>7. TurnFlags'
    BY <1>12 DEF LoopTakesEvent, HandleEvent, NoTurn, ForwardThrows, StartTurn,
         TurnFlags, Parked
  <2>8. WaiterOwned'
    BY <1>12 DEF LoopTakesEvent, HandleEvent, NoTurn, ForwardThrows, StartTurn,
         WaiterOwned, NoLostWakeup
  <2>9. NoLostWakeup'
    BY <1>12 DEF LoopTakesEvent, HandleEvent, NoTurn, ForwardThrows, StartTurn,
         NoLostWakeup, TurnFlags, WaiterOwned
  <2> QED  BY <2>1, <2>2, <2>3, <2>4, <2>5, <2>6, <2>7, <2>8, <2>9
<1>13. CASE WaitTimesOut
  BY <1>13 DEF LoopTypeOK, QueueTypeOK, IdTypeOK, TaskTypeOK, EndTypeOK, HistTypeOK,
       TurnFlags, WaiterOwned, NoLostWakeup, LoopStates, WaitTimesOut
<1>14. CASE CoalesceFires
  <2>1. LoopTypeOK'
    BY <1>14 DEF CoalesceFires, TakeBatch, StartTurn, LoopTypeOK, LoopStates
  <2>2. QueueTypeOK'
    BY <1>14, CoalesceType DEF CoalesceFires
  <2>3. IdTypeOK'
    BY <1>14, CoalesceType DEF CoalesceFires
  <2>4. TaskTypeOK'
    BY <1>14 DEF CoalesceFires, TakeBatch, StartTurn, TaskTypeOK
  <2>5. EndTypeOK'
    BY <1>14 DEF CoalesceFires, TakeBatch, StartTurn, EndTypeOK
  <2>6. HistTypeOK'
    BY <1>14, CoalesceType DEF CoalesceFires
  <2>7. TurnFlags'
    BY <1>14, CoalesceType DEF CoalesceFires
  <2>8. WaiterOwned'
    BY <1>14 DEF CoalesceFires, TakeBatch, StartTurn, WaiterOwned, NoLostWakeup
  <2>9. NoLostWakeup'
    BY <1>14 DEF CoalesceFires, TakeBatch, StartTurn, NoLostWakeup, TurnFlags, WaiterOwned
  <2> QED  BY <2>1, <2>2, <2>3, <2>4, <2>5, <2>6, <2>7, <2>8, <2>9
<1>15. CASE RefreshEnds
  BY <1>15 DEF LoopTypeOK, QueueTypeOK, IdTypeOK, TaskTypeOK, EndTypeOK, HistTypeOK,
       TurnFlags, WaiterOwned, NoLostWakeup, LoopStates, RefreshEnds
<1>16. CASE DecisionEnds
  BY <1>16 DEF LoopTypeOK, QueueTypeOK, IdTypeOK, TaskTypeOK, EndTypeOK, HistTypeOK,
       TurnFlags, WaiterOwned, NoLostWakeup, LoopStates, DecisionEnds
<1>17. CASE BackoffEnds
  BY <1>17 DEF LoopTypeOK, QueueTypeOK, IdTypeOK, TaskTypeOK, EndTypeOK, HistTypeOK,
       TurnFlags, WaiterOwned, NoLostWakeup, LoopStates, BackoffEnds
<1>18. CASE DrainPending
  <2>1. LoopTypeOK'
    BY <1>18 DEF DrainPending, LoopTypeOK, LoopStates
  <2>2. QueueTypeOK'
    BY <1>18 DEF DrainPending, QueueTypeOK, Event, EventTypes
  <2>3. IdTypeOK'
    BY <1>18 DEF DrainPending, IdTypeOK
  <2>4. TaskTypeOK'
    BY <1>18 DEF DrainPending, TaskTypeOK
  <2>5. EndTypeOK'
    BY <1>18 DEF DrainPending, EndTypeOK
  <2>6. HistTypeOK'
    BY <1>18, DrainPendingType DEF DrainPending
  <2>7. TurnFlags'
    BY <1>18 DEF DrainPending, TurnFlags, Parked
  <2>8. WaiterOwned'
    BY <1>18 DEF DrainPending, WaiterOwned, NoLostWakeup
  <2>9. NoLostWakeup'
    BY <1>18 DEF DrainPending, NoLostWakeup, TurnFlags, WaiterOwned
  <2> QED  BY <2>1, <2>2, <2>3, <2>4, <2>5, <2>6, <2>7, <2>8, <2>9
<1>19. CASE TurnTimesOut
  BY <1>19, ZenonT(60) DEF LoopTypeOK, QueueTypeOK, IdTypeOK, TaskTypeOK, EndTypeOK, HistTypeOK,
       TurnFlags, WaiterOwned, NoLostWakeup, LoopStates, TurnTimesOut
<1>20. CASE EndTurn
  <2>1. LoopTypeOK'
    BY <1>20 DEF EndTurn, LoopTypeOK, LoopStates
  <2>2. QueueTypeOK'
    BY <1>20, EndTurnType DEF EndTurn
  <2>3. IdTypeOK'
    BY <1>20, EndTurnType DEF EndTurn
  <2>4. TaskTypeOK'
    BY <1>20 DEF EndTurn, TaskTypeOK
  <2>5. EndTypeOK'
    BY <1>20 DEF EndTurn, EndTypeOK
  <2>6. HistTypeOK'
    BY <1>20, EndTurnType DEF EndTurn
  <2>7. TurnFlags'
    BY <1>20 DEF EndTurn, TurnFlags, Parked
  <2>8. WaiterOwned'
    BY <1>20 DEF EndTurn, WaiterOwned, NoLostWakeup
  <2>9. NoLostWakeup'
    BY <1>20 DEF EndTurn, NoLostWakeup, TurnFlags, WaiterOwned
  <2> QED  BY <2>1, <2>2, <2>3, <2>4, <2>5, <2>6, <2>7, <2>8, <2>9
<1>21. ASSUME Stop \/ Sweep PROVE WakeupInv'
  <2>1. CASE turnActive
    <3>1. /\ running' = FALSE /\ stopping' = "draining"
          /\ UNCHANGED <<loop, turnActive, currentAbort, turnTimer, contact, queueVars, idVars,
                         commands, taskVars, recentlyActive, histVars>>
          /\ evicted' \in BOOLEAN
      BY <1>21, <2>1 DEF Stop, Sweep, StopBegins, ClearAll, EndTypeOK
    <3>2. LoopTypeOK' /\ EndTypeOK'
      BY <3>1 DEF LoopTypeOK, EndTypeOK
    <3>3. QueueTypeOK' /\ IdTypeOK' /\ TaskTypeOK' /\ HistTypeOK'
      BY <3>1 DEF QueueTypeOK, IdTypeOK, TaskTypeOK, HistTypeOK
    <3>4. TurnFlags' /\ WaiterOwned' /\ NoLostWakeup'
      BY <3>1 DEF TurnFlags, WaiterOwned, NoLostWakeup
    <3> QED  BY <3>2, <3>3, <3>4
  <2>2. CASE ClearAll
    <3>1. running' = FALSE /\ evicted' \in BOOLEAN /\ UNCHANGED recentlyActive
      BY <1>21 DEF Stop, Sweep, StopBegins, EndTypeOK
    <3>2. QueueTypeOK' /\ IdTypeOK' /\ HistTypeOK'
      BY <2>2, ClearAllType
    <3>3. LoopTypeOK' /\ EndTypeOK'
      BY <2>2, <3>1 DEF ClearAll, LoopTypeOK, EndTypeOK, LoopStates
    <3>4. TaskTypeOK'
      BY <2>2 DEF ClearAll, TaskTypeOK
    <3>5. TurnFlags'
      BY <2>2 DEF ClearAll, TurnFlags
    <3>6. WaiterOwned' /\ NoLostWakeup'
      BY <2>2 DEF ClearAll, WaiterOwned, NoLostWakeup, TurnFlags
    <3> QED  BY <3>2, <3>3, <3>4, <3>5, <3>6
  <2> QED  BY <1>21, <2>1, <2>2 DEF Stop, Sweep, StopBegins
<1>22. CASE IdleTtlElapses
  <2>1. LoopTypeOK'
    BY <1>22 DEF IdleTtlElapses, LoopTypeOK, LoopStates
  <2>2. QueueTypeOK'
    BY <1>22 DEF IdleTtlElapses, QueueTypeOK, Event, EventTypes
  <2>3. IdTypeOK'
    BY <1>22 DEF IdleTtlElapses, IdTypeOK
  <2>4. TaskTypeOK'
    BY <1>22 DEF IdleTtlElapses, TaskTypeOK
  <2>5. EndTypeOK'
    BY <1>22 DEF IdleTtlElapses, EndTypeOK
  <2>6. HistTypeOK'
    BY <1>22 DEF IdleTtlElapses, HistTypeOK
  <2>7. TurnFlags'
    BY <1>22 DEF IdleTtlElapses, TurnFlags, Parked
  <2>8. WaiterOwned'
    BY <1>22 DEF IdleTtlElapses, WaiterOwned, NoLostWakeup
  <2>9. NoLostWakeup'
    BY <1>22 DEF IdleTtlElapses, NoLostWakeup, TurnFlags, WaiterOwned
  <2> QED  BY <2>1, <2>2, <2>3, <2>4, <2>5, <2>6, <2>7, <2>8, <2>9
<1>23. CASE StopClears
  <2>1. LoopTypeOK'
    BY <1>23 DEF StopClears, ClearAll, LoopTypeOK, LoopStates
  <2>2. QueueTypeOK'
    BY <1>23, ClearAllType DEF StopClears
  <2>3. IdTypeOK'
    BY <1>23, ClearAllType DEF StopClears
  <2>4. TaskTypeOK'
    BY <1>23 DEF StopClears, ClearAll, TaskTypeOK
  <2>5. EndTypeOK'
    BY <1>23 DEF StopClears, ClearAll, EndTypeOK
  <2>6. HistTypeOK'
    BY <1>23, ClearAllType DEF StopClears
  <2>7. TurnFlags'
    BY <1>23 DEF StopClears, ClearAll, TurnFlags, Parked
  <2>8. WaiterOwned'
    BY <1>23 DEF StopClears, ClearAll, WaiterOwned, NoLostWakeup
  <2>9. NoLostWakeup'
    BY <1>23 DEF StopClears, ClearAll, NoLostWakeup, TurnFlags, WaiterOwned
  <2> QED  BY <2>1, <2>2, <2>3, <2>4, <2>5, <2>6, <2>7, <2>8, <2>9
<1>24. CASE StopReturns
  BY <1>24 DEF LoopTypeOK, QueueTypeOK, IdTypeOK, TaskTypeOK, EndTypeOK, HistTypeOK,
       TurnFlags, WaiterOwned, NoLostWakeup, LoopStates, StopReturns
<1>25. CASE UNCHANGED vars
  BY <1>25 DEF vars, LoopTypeOK, QueueTypeOK, IdTypeOK, TaskTypeOK, EndTypeOK, HistTypeOK,
              TurnFlags, WaiterOwned, NoLostWakeup
<1> QED
  BY <1>1, <1>2, <1>3, <1>4, <1>5, <1>6, <1>7, <1>8, <1>9, <1>10, <1>11, <1>12, <1>13,
       <1>14, <1>15, <1>16, <1>17, <1>18, <1>19, <1>20, <1>21, <1>22, <1>23, <1>24, <1>25
  DEF Next, Loop, Inbound, Background, Timers, Turn, Stopping

(* The inductive invariant holds throughout.                               *)
THEOREM Wakeup == Spec => []WakeupInv
BY InitWakeup, StepWakeup, PTL DEF Spec

(* Type correctness, caps included, for every value of the constants.      *)
THEOREM TypeCorrect == Spec => []TypeOK
<1>1. WakeupInv => TypeOK
  BY DEF WakeupInv
<1> QED  BY <1>1, Wakeup, PTL

(* No lost wakeup: whenever loop() sleeps, whatever is queued has an armed *)
(* trigger that will wake it.                                              *)
THEOREM WakeupNeverLost == Spec => []NoLostWakeup
<1>1. WakeupInv => NoLostWakeup
  BY DEF WakeupInv
<1> QED  BY <1>1, Wakeup, PTL

-----------------------------------------------------------------------------
(* What happens to a message.                                              *)

(* What a sequence holds after a message is appended.                      *)
LEMMA RangeAppend ==
  ASSUME NEW S, NEW s \in Seq(S), NEW x \in S
  PROVE  Range(Append(s, x)) = Range(s) \cup {x}
<1> DEFINE t == Append(s, x)
<1>1. /\ DOMAIN t = 1..(Len(s) + 1) /\ DOMAIN s = 1..Len(s) /\ Len(s) \in Nat
      /\ \A i \in 1..Len(s) : t[i] = s[i]
      /\ t[Len(s) + 1] = x
  OBVIOUS
<1> HIDE DEF t
<1> QED  BY <1>1 DEF Range, t

(* A concatenation holds what its two parts hold.                          *)
LEMMA RangeConcat ==
  ASSUME NEW S, NEW s \in Seq(S), NEW t \in Seq(S)
  PROVE  Range(s \o t) = Range(s) \cup Range(t)
<1> DEFINE u == s \o t
<1>1. /\ DOMAIN u = 1..(Len(s) + Len(t)) /\ DOMAIN s = 1..Len(s) /\ DOMAIN t = 1..Len(t)
      /\ Len(s) \in Nat /\ Len(t) \in Nat
      /\ \A i \in 1..Len(s) : u[i] = s[i]
      /\ \A i \in 1..Len(t) : u[Len(s) + i] = t[i]
      /\ \A i \in (Len(s) + 1)..(Len(s) + Len(t)) : u[i] = t[i - Len(s)]
  OBVIOUS
<1> HIDE DEF u
<1>2. ASSUME NEW y \in Range(u) PROVE y \in Range(s) \cup Range(t)
  <2>1. PICK i \in DOMAIN u : y = u[i]
    BY DEF Range
  <2>2. CASE i <= Len(s)
    BY <1>1, <2>1, <2>2 DEF Range
  <2>3. CASE i > Len(s)
    <3>1. i - Len(s) \in DOMAIN t /\ u[i] = t[i - Len(s)]
      BY <1>1, <2>1, <2>3
    <3> QED  BY <2>1, <3>1 DEF Range
  <2> QED  BY <1>1, <2>1, <2>2, <2>3
<1>3. ASSUME NEW y \in Range(s) PROVE y \in Range(u)
  BY <1>1 DEF Range
<1>4. ASSUME NEW y \in Range(t) PROVE y \in Range(u)
  <2>1. PICK i \in DOMAIN t : y = t[i]
    BY DEF Range
  <2>2. Len(s) + i \in DOMAIN u /\ u[Len(s) + i] = y
    BY <1>1, <2>1
  <2> QED  BY <2>2 DEF Range
<1> QED  BY <1>2, <1>3, <1>4 DEF u

(* Appending what a list does not hold repeats nothing.                    *)
LEMMA InjectiveAppend ==
  ASSUME NEW S, NEW s \in Seq(S), NEW x \in S, IsInjective(s), x \notin Range(s)
  PROVE  IsInjective(Append(s, x))
<1> DEFINE t == Append(s, x)
<1>1. /\ DOMAIN t = 1..(Len(s) + 1) /\ DOMAIN s = 1..Len(s) /\ Len(s) \in Nat
      /\ \A i \in 1..Len(s) : t[i] = s[i]
      /\ t[Len(s) + 1] = x
  OBVIOUS
<1>2. \A i \in 1..Len(s) : s[i] # x
  BY <1>1 DEF Range
<1> HIDE DEF t
<1>3. IsInjective(t)
  <2> SUFFICES ASSUME NEW a \in DOMAIN t, NEW b \in DOMAIN t, t[a] = t[b] PROVE a = b
    BY DEF IsInjective
  <2> QED  BY <1>1, <1>2 DEF IsInjective
<1> QED  BY <1>3 DEF t

(* A concatenation repeats nothing when neither part does and they share   *)
(* nothing, and only then.                                                 *)
LEMMA InjectiveConcat ==
  ASSUME NEW S, NEW s \in Seq(S), NEW t \in Seq(S)
  PROVE  IsInjective(s \o t) <=>
           IsInjective(s) /\ IsInjective(t) /\ Range(s) \cap Range(t) = {}
<1> DEFINE u == s \o t
<1>1. /\ DOMAIN u = 1..(Len(s) + Len(t)) /\ DOMAIN s = 1..Len(s) /\ DOMAIN t = 1..Len(t)
      /\ Len(s) \in Nat /\ Len(t) \in Nat
      /\ \A i \in 1..Len(s) : u[i] = s[i]
      /\ \A i \in 1..Len(t) : u[Len(s) + i] = t[i]
      /\ \A i \in (Len(s) + 1)..(Len(s) + Len(t)) : u[i] = t[i - Len(s)]
  OBVIOUS
<1> HIDE DEF u
<1>2. ASSUME IsInjective(s), IsInjective(t), Range(s) \cap Range(t) = {}
      PROVE  IsInjective(u)
  <2> SUFFICES ASSUME NEW a \in DOMAIN u, NEW b \in DOMAIN u, u[a] = u[b] PROVE a = b
    BY DEF IsInjective
  <2>0. \A i \in DOMAIN s, j \in DOMAIN t : s[i] # t[j]
    BY <1>2 DEF Range
  <2>1. CASE a <= Len(s) /\ b <= Len(s)
    BY <1>1, <1>2, <2>1 DEF IsInjective
  <2>2. CASE a > Len(s) /\ b > Len(s)
    <3>1. /\ a - Len(s) \in DOMAIN t /\ b - Len(s) \in DOMAIN t
          /\ t[a - Len(s)] = t[b - Len(s)]
      BY <1>1, <2>2
    <3>2. a - Len(s) = b - Len(s)
      BY <1>2, <3>1 DEF IsInjective
    <3> QED  BY <1>1, <3>2
  <2>3. CASE a <= Len(s) /\ b > Len(s)
    <3>1. /\ a \in DOMAIN s /\ u[a] = s[a]
          /\ b - Len(s) \in DOMAIN t /\ u[b] = t[b - Len(s)]
      BY <1>1, <2>3
    <3> QED  BY <2>0, <3>1
  <2>4. CASE a > Len(s) /\ b <= Len(s)
    <3>1. /\ b \in DOMAIN s /\ u[b] = s[b]
          /\ a - Len(s) \in DOMAIN t /\ u[a] = t[a - Len(s)]
      BY <1>1, <2>4
    <3> QED  BY <2>0, <3>1
  <2> QED  BY <1>1, <2>1, <2>2, <2>3, <2>4
<1>3. ASSUME IsInjective(u)
      PROVE  IsInjective(s) /\ IsInjective(t) /\ Range(s) \cap Range(t) = {}
  <2>1. IsInjective(s)
    BY <1>1, <1>3 DEF IsInjective
  <2>2. IsInjective(t)
    <3> SUFFICES ASSUME NEW a \in DOMAIN t, NEW b \in DOMAIN t, t[a] = t[b] PROVE a = b
      BY DEF IsInjective
    <3>1. Len(s) + a \in DOMAIN u /\ Len(s) + b \in DOMAIN u /\ u[Len(s) + a] = u[Len(s) + b]
      BY <1>1
    <3>2. Len(s) + a = Len(s) + b
      BY <1>3, <3>1 DEF IsInjective
    <3> QED  BY <1>1, <3>2
  <2>3. Range(s) \cap Range(t) = {}
    <3> SUFFICES ASSUME NEW i \in DOMAIN s, NEW j \in DOMAIN t, s[i] = t[j] PROVE FALSE
      BY DEF Range
    <3>1. i \in DOMAIN u /\ Len(s) + j \in DOMAIN u /\ u[i] = u[Len(s) + j] /\ i # Len(s) + j
      BY <1>1
    <3> QED  BY <1>3, <3>1 DEF IsInjective
  <2> QED  BY <2>1, <2>2, <2>3
<1> QED  BY <1>2, <1>3 DEF u

(* The first elements of a list: a list without repetitions, of elements   *)
(* of the list.                                                            *)
LEMMA PrefixOf ==
  ASSUME NEW S, NEW s \in Seq(S), NEW n \in Nat, n <= Len(s)
  PROVE  /\ SubSeq(s, 1, n) \in Seq(S) /\ Len(SubSeq(s, 1, n)) = n
         /\ \A i \in 1..n : SubSeq(s, 1, n)[i] = s[i]
         /\ Range(SubSeq(s, 1, n)) \subseteq Range(s)
         /\ IsInjective(s) => IsInjective(SubSeq(s, 1, n))
<1> DEFINE t == SubSeq(s, 1, n)
<1>1. t \in Seq(S) /\ Len(t) = n /\ \A i \in 1..n : t[i] = s[i]
  OBVIOUS
<1>2. DOMAIN t = 1..n /\ DOMAIN s = 1..Len(s)
  BY <1>1
<1> HIDE DEF t
<1>3. Range(t) \subseteq Range(s)
  BY <1>1, <1>2 DEF Range
<1>4. IsInjective(s) => IsInjective(t)
  BY <1>1, <1>2 DEF IsInjective
<1> QED  BY <1>1, <1>3, <1>4 DEF t

-----------------------------------------------------------------------------
(* stop() clears the running flag at once, and the turn that outlives its  *)
(* drain is aborted: no message can be drained into it.                    *)
StopFlags ==
  /\ running <=> stopping = "no"
  /\ loop = "waiting" => running
  /\ stopping \in {"cleared", "stopped"} => currentAbort # "live"

(* Everything the worker knows of is in one place: handed over, buffered,  *)
(* parked, being dispatched as a command, or disposed of.                  *)
Held == Range(given) \cup Range(buffer) \cup Range(pending)
Apart ==
  /\ IsInjective(given) /\ IsInjective(buffer) /\ IsInjective(pending)
  /\ Range(given) \cap Range(buffer) = {}
  /\ Range(given) \cap Range(pending) = {}
  /\ Range(buffer) \cap Range(pending) = {}
  /\ Held \subseteq accepted
  /\ discarded \cap Held = {}
  /\ commands \cap (accepted \cup discarded) = {}

(* What a step does to the messages, whichever action it is.               *)
Still == UNCHANGED <<pending, buffer, given, accepted, discarded>>

(* No message moves; at most one becomes a slash command being dispatched. *)
Quiet ==
  /\ Still /\ UNCHANGED turnActive
  /\ commands' = commands \/ \E m \in Messages : Unseen(m) /\ commands' = commands \cup {m}
  /\ stopping' = stopping \/ (stopping = "cleared" /\ stopping' = "stopped")

(* loop() enters a turn.                                                   *)
BeginsTurn ==
  /\ Still /\ UNCHANGED <<commands, stopping>>
  /\ stopping = "no" /\ ~turnActive /\ turnActive' = TRUE

(* stop() is called while a turn runs.                                     *)
StartsDrain ==
  /\ Still /\ UNCHANGED <<commands, turnActive>>
  /\ turnActive /\ stopping = "no" /\ stopping' = "draining"

(* Message m has not been in the worker before, and is no command any more. *)
NewTo(m) ==
  /\ m \notin accepted \cup discarded
  /\ commands' \subseteq commands /\ m \notin commands'

(* dispatch() parks m or queues it.                                        *)
TakesIn(m) ==
  /\ NewTo(m)
  /\ accepted' = accepted \cup {m}
  /\ \/ pending' = Append(pending, m) /\ UNCHANGED buffer
     \/ buffer' = Append(buffer, m) /\ UNCHANGED pending
  /\ UNCHANGED <<given, discarded, turnActive, stopping>>

(* dispatch() or a command ends with m outside.                            *)
Refuses(m) ==
  /\ NewTo(m)
  /\ discarded' = discarded \cup {m}
  /\ UNCHANGED <<pending, buffer, given, accepted, turnActive, stopping>>

(* The buffer is the next batch of the agent.                              *)
HandsBatch ==
  /\ stopping = "no" /\ ~turnActive /\ turnActive' = TRUE
  /\ buffer # << >> /\ buffer' = << >> /\ given' = given \o buffer
  /\ UNCHANGED <<pending, accepted, discarded, stopping, commands>>

(* drainPending hands what is parked to the running turn.                  *)
HandsPending ==
  /\ turnActive /\ stopping \in {"no", "draining"}
  /\ pending # << >> /\ pending' = << >> /\ given' = given \o pending
  /\ UNCHANGED <<buffer, accepted, discarded, turnActive, stopping, commands>>

(* The coalesce timer flushes into a waiter nobody awaits.                 *)
FlushesToOrphan ==
  /\ waiter = "stale" /\ coalesceTimer /\ ~coalesceTimer'
  /\ buffer' = << >>
  /\ UNCHANGED <<pending, given, accepted, discarded, turnActive, stopping, commands>>

(* The turn ends and what was parked moves to the queue, as far as it fits. *)
TurnOver(moved) ==
  /\ turnActive /\ turnActive' = FALSE
  /\ Range(moved) \subseteq Range(pending)
  /\ IsInjective(pending) => IsInjective(moved)
  /\ pending' = << >> /\ buffer' = buffer \o moved
  /\ discarded' = discarded \cup (Range(pending) \ Range(moved))
  /\ UNCHANGED <<given, accepted, stopping, commands>>

(* stop() throws away what waits.                                          *)
Clears ==
  /\ stopping = "draining" \/ (stopping = "no" /\ ~turnActive)
  /\ stopping' = "cleared"
  /\ discarded' = discarded \cup Range(pending) \cup Range(buffer)
  /\ pending' = << >> /\ buffer' = << >>
  /\ UNCHANGED <<given, accepted, turnActive, commands>>

(* The ten things that can happen to the messages.                         *)
MessageStep ==
  \/ Quiet \/ BeginsTurn \/ StartsDrain
  \/ \E m \in Messages : TakesIn(m) \/ Refuses(m)
  \/ HandsBatch \/ HandsPending \/ FlushesToOrphan
  \/ \E moved \in Seq(Messages) : TurnOver(moved)
  \/ Clears

(* Only these things happen to a message.                                  *)
LEMMA AcceptIsMessageStep ==
  ASSUME NEW m \in Messages, Accept(m), NewTo(m)
  PROVE  MessageStep
<1>1. UNCHANGED <<given, turnActive, stopping>>
  BY DEF Accept, endVars
<1>2. CASE turnActive
  <2>1. CASE Len(pending) >= MAX_PENDING
    BY <1>1, <1>2, <2>1 DEF Accept, Park, Refuses, MessageStep
  <2>2. CASE ~(Len(pending) >= MAX_PENDING)
    BY <1>1, <1>2, <2>2 DEF Accept, Park, TakesIn, MessageStep
  <2> QED  BY <2>1, <2>2
<1>3. CASE ~turnActive
  <2>1. CASE Len(buffer) >= MAX_QUEUED_MESSAGES
    BY <1>1, <1>3, <2>1 DEF Accept, Enqueue, Refuses, MessageStep
  <2>2. CASE ~(Len(buffer) >= MAX_QUEUED_MESSAGES)
    BY <1>1, <1>3, <2>2 DEF Accept, Enqueue, TakesIn, MessageStep
  <2> QED  BY <2>1, <2>2
<1> QED  BY <1>2, <1>3

(* The end of a turn moves what is parked, or refuses what does not fit.   *)
LEMMA EndTurnIsMessageStep ==
  ASSUME WakeupInv, EndTurn
  PROVE  MessageStep
<1> DEFINE room  == MAX_QUEUED_MESSAGES - Len(buffer)
           moved == IF Len(pending) <= room THEN pending ELSE SubSeq(pending, 1, room)
<1>0. pending \in Seq(Messages) /\ room \in Nat /\ Len(pending) \in Nat
  BY CapAssumption DEF WakeupInv, TypeOK, QueueTypeOK
<1>1. /\ moved \in Seq(Messages) /\ Range(moved) \subseteq Range(pending)
      /\ IsInjective(pending) => IsInjective(moved)
  <2>1. CASE Len(pending) <= room
    BY <1>0, <2>1
  <2>2. CASE ~(Len(pending) <= room)
    <3>1. room <= Len(pending) /\ moved = SubSeq(pending, 1, room)
      BY <1>0, <2>2
    <3> QED  BY <1>0, <3>1, PrefixOf
  <2> QED  BY <2>1, <2>2
<1>2. /\ pending' = << >> /\ buffer' = buffer \o moved /\ turnActive' = FALSE
      /\ discarded' = discarded \cup (Range(pending) \ Range(moved))
      /\ UNCHANGED <<given, accepted, stopping, commands>>
  BY DEF EndTurn, endVars
<1>3. turnActive
  BY DEF EndTurn, WakeupInv, TurnFlags
<1> HIDE DEF moved
<1>4. TurnOver(moved)
  BY <1>1, <1>2, <1>3 DEF TurnOver
<1> QED  BY <1>1, <1>4 DEF MessageStep

(* Every step of the worker is one of the ten.                             *)
LEMMA StepIsMessageStep ==
  ASSUME WakeupInv, StopFlags, Apart, [Next]_vars
  PROVE  MessageStep
<1> USE DEF loopVars, queueVars, idVars, taskVars, endVars, histVars
<1>1. ASSUME NEW m \in Messages, Dispatch(m) PROVE MessageStep
  BY <1>1, AcceptIsMessageStep DEF Dispatch, Unseen, NewTo
<1>2. ASSUME NEW m \in Messages, DispatchCommand(m) PROVE MessageStep
  BY <1>2 DEF DispatchCommand, Quiet, Still, MessageStep
<1>3. ASSUME NEW m \in Messages, CommandForwards(m) PROVE MessageStep
  <2>1. NewTo(m)
    BY <1>3 DEF CommandForwards, NewTo, Apart
  <2> QED  BY <1>3, <2>1, AcceptIsMessageStep DEF CommandForwards
<1>4. ASSUME NEW m \in Messages, CommandReplies(m) PROVE MessageStep
  <2>1. NewTo(m)
    BY <1>4 DEF CommandReplies, NewTo, Apart
  <2> QED  BY <1>4, <2>1 DEF CommandReplies, Refuses, MessageStep
<1>5. CASE DispatchAbort
  BY <1>5 DEF DispatchAbort, Quiet, Still, MessageStep
<1>6. CASE Background
  BY <1>6 DEF Background, InjectEvent, SpawnTask, TaskReports, Quiet, Still, MessageStep
<1>7. CASE LoopExits
  BY <1>7 DEF LoopExits, Quiet, Still, MessageStep
<1>8. CASE LoopTakesBatch
  <2>1. stopping = "no" /\ ~turnActive
    BY <1>8 DEF LoopTakesBatch, StopFlags, WakeupInv, TurnFlags
  <2>2. HandsBatch
    BY <1>8, <2>1 DEF LoopTakesBatch, TakeBatch, StartTurn, HandsBatch
  <2> QED  BY <2>2 DEF MessageStep
<1>9. CASE LoopWaits
  BY <1>9 DEF LoopWaits, Quiet, Still, MessageStep
<1>10. CASE LoopTakesEvent
  <2>0. stopping = "no" /\ ~turnActive
    BY <1>10 DEF LoopTakesEvent, StopFlags, WakeupInv, TurnFlags
  <2>1. Still /\ UNCHANGED <<commands, stopping>> /\ HandleEvent(Head(events))
    BY <1>10 DEF LoopTakesEvent, Still
  <2>2. UNCHANGED turnActive \/ turnActive' = TRUE
    BY <2>1 DEF HandleEvent, NoTurn, ForwardThrows, StartTurn
  <2>3. Quiet \/ BeginsTurn
    BY <2>0, <2>1, <2>2 DEF Quiet, BeginsTurn
  <2> QED  BY <2>3 DEF MessageStep
<1>11. CASE WaitTimesOut
  BY <1>11 DEF WaitTimesOut, Quiet, Still, MessageStep
<1>12. CASE CoalesceFires
  <2>0. /\ UNCHANGED <<pending, commands, accepted, discarded, stopping>>
        /\ coalesceTimer /\ ~coalesceTimer'
    BY <1>12 DEF CoalesceFires
  <2>1. CASE waiter = "live" /\ buffer # << >>
    <3>1. stopping = "no" /\ ~turnActive
      BY <2>1 DEF StopFlags, WakeupInv, WaiterOwned, TurnFlags
    <3>2. TakeBatch
      BY <1>12, <2>1 DEF CoalesceFires
    <3>3. HandsBatch
      BY <2>0, <2>1, <3>1, <3>2 DEF TakeBatch, StartTurn, HandsBatch
    <3> QED  BY <3>3 DEF MessageStep
  <2>2. CASE waiter = "live" /\ buffer = << >>
    BY <1>12, <2>0, <2>2 DEF CoalesceFires, Quiet, Still, MessageStep
  <2>3. CASE waiter = "stale"
    BY <1>12, <2>0, <2>3 DEF CoalesceFires, FlushesToOrphan, MessageStep
  <2>4. CASE waiter \notin {"live", "stale"}
    BY <1>12, <2>0, <2>4 DEF CoalesceFires, Quiet, Still, MessageStep
  <2> QED  BY <2>1, <2>2, <2>3, <2>4
<1>13. CASE RefreshEnds \/ DecisionEnds \/ BackoffEnds
  BY <1>13 DEF RefreshEnds, DecisionEnds, BackoffEnds, Quiet, Still, MessageStep
<1>14. CASE DrainPending
  <2>1. turnActive /\ stopping \in {"no", "draining"}
    BY <1>14 DEF DrainPending, StopFlags, WakeupInv, TurnFlags, TypeOK, EndTypeOK
  <2> QED  BY <1>14, <2>1 DEF DrainPending, HandsPending, MessageStep
<1>15. CASE TurnTimesOut
  BY <1>15 DEF TurnTimesOut, Quiet, Still, MessageStep
<1>16. CASE EndTurn
  BY <1>16, EndTurnIsMessageStep
<1>17. CASE Stop \/ Sweep
  <2>1. StopBegins
    BY <1>17 DEF Stop, Sweep
  <2>2. CASE turnActive
    BY <2>1, <2>2 DEF StopBegins, StartsDrain, Still, MessageStep
  <2>3. CASE ~turnActive
    BY <2>1, <2>3 DEF StopBegins, ClearAll, Clears, MessageStep
  <2> QED  BY <2>2, <2>3
<1>18. CASE IdleTtlElapses
  BY <1>18 DEF IdleTtlElapses, Quiet, Still, MessageStep
<1>19. CASE StopClears
  BY <1>19 DEF StopClears, ClearAll, Clears, MessageStep
<1>20. CASE StopReturns
  BY <1>20 DEF StopReturns, Quiet, Still, MessageStep
<1>21. CASE UNCHANGED vars
  BY <1>21 DEF vars, Quiet, Still, MessageStep
<1> QED
  BY <1>1, <1>2, <1>3, <1>4, <1>5, <1>6, <1>7, <1>8, <1>9, <1>10, <1>11, <1>12, <1>13,
     <1>14, <1>15, <1>16, <1>17, <1>18, <1>19, <1>20, <1>21
  DEF Next, Loop, Inbound, Timers, Turn, Stopping

(* Every step keeps the stop flags.                                        *)
LEMMA StepStopFlags ==
  ASSUME WakeupInv, StopFlags, [Next]_vars
  PROVE  StopFlags'
<1> USE DEF loopVars, queueVars, idVars, taskVars, endVars, histVars, StopFlags
<1>1. CASE Inbound
  BY <1>1 DEF Inbound, Dispatch, DispatchCommand, CommandForwards, CommandReplies,
              DispatchAbort, Accept
<1>2. CASE Background
  <2>1. UNCHANGED <<running, stopping, currentAbort>>
    BY <1>2 DEF Background, InjectEvent, SpawnTask, TaskReports
  <2>2. \E e : Push(e)
    BY <1>2 DEF Background, InjectEvent, SpawnTask, TaskReports
  <2>3. loop' \in {loop, "top"}
    BY <2>2 DEF Push
  <2> QED  BY <2>1, <2>3
<1>3. CASE LoopExits \/ LoopTakesBatch \/ LoopWaits
  BY <1>3 DEF LoopExits, LoopTakesBatch, LoopWaits, TakeBatch, StartTurn
<1>4. CASE LoopTakesEvent
  <2>1. /\ running /\ UNCHANGED <<running, stopping>> /\ HandleEvent(Head(events))
    BY <1>4 DEF LoopTakesEvent
  <2>2. loop' # "waiting"
    BY <2>1 DEF HandleEvent, NoTurn, ForwardThrows, StartTurn
  <2> QED  BY <2>1, <2>2
<1>5. CASE WaitTimesOut \/ RefreshEnds \/ DecisionEnds \/ BackoffEnds
  BY <1>5 DEF WaitTimesOut, RefreshEnds, DecisionEnds, BackoffEnds
<1>6. CASE CoalesceFires
  BY <1>6 DEF CoalesceFires, TakeBatch, StartTurn, WakeupInv, WaiterOwned
<1>7. CASE DrainPending \/ TurnTimesOut \/ EndTurn
  BY <1>7 DEF DrainPending, TurnTimesOut, EndTurn
<1>8. CASE Stop \/ Sweep
  <2>1. StopBegins
    BY <1>8 DEF Stop, Sweep
  <2>2. CASE turnActive
    BY <2>1, <2>2 DEF StopBegins, ClearAll, WakeupInv, TurnFlags
  <2>3. CASE ~turnActive
    BY <2>1, <2>3 DEF StopBegins, ClearAll
  <2> QED  BY <2>2, <2>3
<1>9. CASE IdleTtlElapses \/ StopClears \/ StopReturns
  BY <1>9 DEF IdleTtlElapses, StopClears, StopReturns, ClearAll
<1>10. CASE UNCHANGED vars
  BY <1>10 DEF vars
<1> QED
  BY <1>1, <1>2, <1>3, <1>4, <1>5, <1>6, <1>7, <1>8, <1>9, <1>10
  DEF Next, Loop, Timers, Turn, Stopping

(* An empty list holds nothing.                                            *)
LEMMA EmptyList == Range(<< >>) = {} /\ IsInjective(<< >>)
BY DEF Range, IsInjective

(* Nothing that happens to a message puts it in two places.                *)
LEMMA StepApart ==
  ASSUME WakeupInv, Apart, MessageStep
  PROVE  Apart'
<1>0. pending \in Seq(Messages) /\ buffer \in Seq(Messages) /\ given \in Seq(Messages)
  BY DEF WakeupInv, TypeOK, QueueTypeOK, HistTypeOK
<1>1. CASE Quiet
  BY <1>1 DEF Quiet, Still, Unseen, Apart, Held
<1>2. CASE BeginsTurn \/ StartsDrain
  BY <1>2 DEF BeginsTurn, StartsDrain, Still, Apart, Held
<1>3. ASSUME NEW m \in Messages, TakesIn(m) PROVE Apart'
  <2>1. m \notin Held /\ m \notin discarded /\ m \notin commands'
    BY <1>3 DEF TakesIn, NewTo, Apart
  <2>2. CASE pending' = Append(pending, m) /\ UNCHANGED buffer
    <3>1. Range(pending') = Range(pending) \cup {m} /\ IsInjective(pending')
      BY <1>0, <2>1, <2>2, RangeAppend, InjectiveAppend DEF Apart, Held
    <3> QED  BY <1>3, <2>1, <2>2, <3>1 DEF TakesIn, NewTo, Apart, Held
  <2>3. CASE buffer' = Append(buffer, m) /\ UNCHANGED pending
    <3>1. Range(buffer') = Range(buffer) \cup {m} /\ IsInjective(buffer')
      BY <1>0, <2>1, <2>3, RangeAppend, InjectiveAppend DEF Apart, Held
    <3> QED  BY <1>3, <2>1, <2>3, <3>1 DEF TakesIn, NewTo, Apart, Held
  <2> QED  BY <1>3, <2>2, <2>3 DEF TakesIn
<1>4. ASSUME NEW m \in Messages, Refuses(m) PROVE Apart'
  BY <1>4 DEF Refuses, NewTo, Apart, Held
<1>5. CASE HandsBatch
  <2>1. /\ Range(given') = Range(given) \cup Range(buffer) /\ IsInjective(given')
        /\ Range(buffer') = {} /\ IsInjective(buffer')
    BY <1>0, <1>5, RangeConcat, InjectiveConcat, EmptyList DEF HandsBatch, Apart
  <2> QED  BY <1>5, <2>1 DEF HandsBatch, Apart, Held
<1>6. CASE HandsPending
  <2>1. /\ Range(given') = Range(given) \cup Range(pending) /\ IsInjective(given')
        /\ Range(pending') = {} /\ IsInjective(pending')
    BY <1>0, <1>6, RangeConcat, InjectiveConcat, EmptyList DEF HandsPending, Apart
  <2> QED  BY <1>6, <2>1 DEF HandsPending, Apart, Held
<1>7. CASE FlushesToOrphan
  BY <1>7, EmptyList DEF FlushesToOrphan, Apart, Held
<1>8. ASSUME NEW moved \in Seq(Messages), TurnOver(moved) PROVE Apart'
  <2>0. Range(moved) \subseteq Range(pending) /\ IsInjective(moved)
    BY <1>8 DEF TurnOver, Apart
  <2>1. /\ Range(buffer') = Range(buffer) \cup Range(moved) /\ IsInjective(buffer')
        /\ Range(pending') = {} /\ IsInjective(pending')
    BY <1>0, <1>8, <2>0, RangeConcat, InjectiveConcat, EmptyList DEF TurnOver, Apart
  <2> QED  BY <1>8, <2>0, <2>1 DEF TurnOver, Apart, Held
<1>9. CASE Clears
  <2>1. /\ Range(buffer') = {} /\ IsInjective(buffer')
        /\ Range(pending') = {} /\ IsInjective(pending')
    BY <1>9, EmptyList DEF Clears
  <2> QED  BY <1>9, <2>1 DEF Clears, Apart, Held
<1> QED  BY <1>1, <1>2, <1>3, <1>4, <1>5, <1>6, <1>7, <1>8, <1>9 DEF MessageStep

(* The inductive invariant under the message properties.                   *)
MessageInv == WakeupInv /\ StopFlags /\ Apart

(* A new worker holds nothing.                                             *)
THEOREM InitMessage == Init => MessageInv
<1> SUFFICES ASSUME Init PROVE MessageInv
  OBVIOUS
<1>1. WakeupInv
  BY InitWakeup
<1>2. StopFlags
  BY DEF Init, StopFlags
<1>3. Apart
  BY EmptyList DEF Init, Apart, Held
<1> QED  BY <1>1, <1>2, <1>3 DEF MessageInv

(* Every step of the worker keeps the invariant.                           *)
THEOREM StepMessage == MessageInv /\ [Next]_vars => MessageInv'
<1> SUFFICES ASSUME MessageInv, [Next]_vars PROVE MessageInv'
  OBVIOUS
<1>1. WakeupInv'
  BY StepWakeup DEF MessageInv
<1>2. StopFlags'
  BY StepStopFlags DEF MessageInv
<1>3. Apart'
  BY StepIsMessageStep, StepApart DEF MessageInv
<1> QED  BY <1>1, <1>2, <1>3 DEF MessageInv

(* The invariant holds throughout.                                         *)
THEOREM Message == Spec => []MessageInv
BY InitMessage, StepMessage, PTL DEF Spec

(* No message is in two places, so none is handed to the agent twice,      *)
(* however turns end, drains, timeouts and stop() interleave with dispatch.*)
THEOREM DeliversOnce == Spec => []DeliveredOnce
<1>1. MessageInv => DeliveredOnce
  <2> SUFFICES ASSUME MessageInv PROVE DeliveredOnce
    OBVIOUS
  <2>0. pending \in Seq(Messages) /\ buffer \in Seq(Messages) /\ given \in Seq(Messages)
    BY DEF MessageInv, WakeupInv, TypeOK, QueueTypeOK, HistTypeOK
  <2>1. /\ given \o buffer \in Seq(Messages) /\ IsInjective(given \o buffer)
        /\ Range(given \o buffer) = Range(given) \cup Range(buffer)
    BY <2>0, ConcatType, InjectiveConcat, RangeConcat DEF MessageInv, Apart
  <2>2. IsInjective(pending) /\ Range(given \o buffer) \cap Range(pending) = {}
    BY <2>1 DEF MessageInv, Apart
  <2> QED  BY <2>0, <2>1, <2>2, InjectiveConcat DEF DeliveredOnce
<1> QED  BY <1>1, Message, PTL

(* The lists a step leaves, as sets: what the loss property and the        *)
(* refinement read off a message step.                                     *)
Waiting == Range(pending) \cup Range(buffer)
Gone    == discarded \cup Vanished

(* What a step does to the sets of waiting, handed and gone messages.      *)
LEMMA StepSets ==
  ASSUME MessageInv, MessageStep
  PROVE  \/ /\ UNCHANGED <<Waiting, Vanished, Gone, turnActive>> /\ Range(given') = Range(given)
            /\ \/ stopping' = stopping
               \/ stopping = "cleared" /\ stopping' = "stopped"
               \/ turnActive /\ stopping = "no" /\ stopping' = "draining"
         \/ /\ UNCHANGED <<Waiting, Vanished, Gone, stopping>> /\ Range(given') = Range(given)
            /\ stopping = "no" /\ ~turnActive /\ turnActive' = TRUE
         \/ /\ UNCHANGED <<Vanished, turnActive, stopping>> /\ Range(given') = Range(given)
            /\ \E m \in Messages :
                 /\ m \notin Waiting \cup Range(given) \cup Gone
                 /\ \/ Waiting' = Waiting \cup {m} /\ UNCHANGED Gone
                    \/ Gone' = Gone \cup {m} /\ UNCHANGED Waiting
         \/ /\ UNCHANGED <<Vanished, Gone, stopping>>
            /\ \/ stopping = "no" /\ ~turnActive
               \/ turnActive /\ stopping \in {"no", "draining"}
            /\ turnActive' = TRUE
            /\ \E S \in SUBSET Waiting : /\ S # {}
                                         /\ Waiting' = Waiting \ S
                                         /\ Range(given') = Range(given) \cup S
         \/ /\ waiter = "stale" /\ coalesceTimer /\ ~coalesceTimer'
            /\ UNCHANGED <<turnActive, stopping>> /\ Range(given') = Range(given)
            /\ \E S \in SUBSET Waiting : Waiting' = Waiting \ S /\ Gone' = Gone \cup S
         \/ /\ UNCHANGED <<Vanished, stopping>> /\ Range(given') = Range(given)
            /\ turnActive /\ turnActive' = FALSE
            /\ \E S \in SUBSET Waiting : Waiting' = Waiting \ S /\ Gone' = Gone \cup S
         \/ /\ UNCHANGED <<Vanished, turnActive>> /\ Range(given') = Range(given)
            /\ stopping = "draining" \/ (stopping = "no" /\ ~turnActive)
            /\ stopping' = "cleared"
            /\ Waiting' = {} /\ Gone' = Gone \cup Waiting
<1>0. pending \in Seq(Messages) /\ buffer \in Seq(Messages) /\ given \in Seq(Messages)
  BY DEF MessageInv, WakeupInv, TypeOK, QueueTypeOK, HistTypeOK
<1> USE DEF MessageInv
<1>1. CASE Quiet
  BY <1>1 DEF Quiet, Still, Waiting, Gone, Vanished
<1>2. CASE BeginsTurn
  BY <1>2 DEF BeginsTurn, Still, Waiting, Gone, Vanished
<1>3. CASE StartsDrain
  BY <1>3 DEF StartsDrain, Still, Waiting, Gone, Vanished
<1>4. ASSUME NEW m \in Messages, TakesIn(m)
      PROVE  /\ UNCHANGED <<Vanished, turnActive, stopping, Gone>> /\ Range(given') = Range(given)
             /\ m \notin Waiting \cup Range(given) \cup Gone
             /\ Waiting' = Waiting \cup {m}
  <2>1. Range(pending') \cup Range(buffer') = Range(pending) \cup Range(buffer) \cup {m}
    <3>1. CASE pending' = Append(pending, m) /\ buffer' = buffer
      <4>1. Range(pending') = Range(pending) \cup {m}
        BY <1>0, <3>1, RangeAppend
      <4> QED  BY <3>1, <4>1
    <3>2. CASE buffer' = Append(buffer, m) /\ pending' = pending
      <4>1. Range(buffer') = Range(buffer) \cup {m}
        BY <1>0, <3>2, RangeAppend
      <4> QED  BY <3>2, <4>1
    <3> QED  BY <1>4, <3>1, <3>2 DEF TakesIn
  <2> QED  BY <1>4, <2>1 DEF TakesIn, NewTo, Apart, Held, Waiting, Gone, Vanished
<1>5. ASSUME NEW m \in Messages, Refuses(m)
      PROVE  /\ UNCHANGED <<Vanished, turnActive, stopping, Waiting>> /\ Range(given') = Range(given)
             /\ m \notin Waiting \cup Range(given) \cup Gone
             /\ Gone' = Gone \cup {m}
  BY <1>5 DEF Refuses, NewTo, Apart, Held, Waiting, Gone, Vanished
<1>6. CASE HandsBatch
  <2>1. Range(given') = Range(given) \cup Range(buffer) /\ Range(buffer') = {}
    BY <1>0, <1>6, RangeConcat, EmptyList DEF HandsBatch
  <2>2. Range(buffer) # {} /\ Range(buffer) \in SUBSET Waiting
    BY <1>0, <1>6 DEF HandsBatch, Range, Waiting
  <2>3. Waiting' = Waiting \ Range(buffer) /\ UNCHANGED <<Vanished, Gone>>
    BY <1>6, <2>1 DEF HandsBatch, Apart, Held, Waiting, Gone, Vanished
  <2> QED  BY <1>6, <2>1, <2>2, <2>3 DEF HandsBatch
<1>7. CASE HandsPending
  <2>1. Range(given') = Range(given) \cup Range(pending) /\ Range(pending') = {}
    BY <1>0, <1>7, RangeConcat, EmptyList DEF HandsPending
  <2>2. Range(pending) # {} /\ Range(pending) \in SUBSET Waiting
    BY <1>0, <1>7 DEF HandsPending, Range, Waiting
  <2>3. Waiting' = Waiting \ Range(pending) /\ UNCHANGED <<Vanished, Gone>>
    BY <1>7, <2>1 DEF HandsPending, Apart, Held, Waiting, Gone, Vanished
  <2> QED  BY <1>7, <2>1, <2>2, <2>3 DEF HandsPending
<1>8. CASE FlushesToOrphan
  <2>1. Range(buffer') = {}
    BY <1>8, EmptyList DEF FlushesToOrphan
  <2>2. /\ Range(buffer) \in SUBSET Waiting
        /\ Waiting' = Waiting \ Range(buffer) /\ Gone' = Gone \cup Range(buffer)
    BY <1>8, <2>1 DEF FlushesToOrphan, Apart, Held, Waiting, Gone, Vanished
  <2> QED  BY <1>8, <2>2 DEF FlushesToOrphan
<1>9. ASSUME NEW moved \in Seq(Messages), TurnOver(moved)
      PROVE  /\ UNCHANGED <<Vanished, stopping>> /\ Range(given') = Range(given)
             /\ turnActive /\ turnActive' = FALSE
             /\ \E S \in SUBSET Waiting : Waiting' = Waiting \ S /\ Gone' = Gone \cup S
  <2>1. Range(buffer') = Range(buffer) \cup Range(moved) /\ Range(pending') = {}
    BY <1>0, <1>9, RangeConcat, EmptyList DEF TurnOver
  <2> DEFINE S == Range(pending) \ Range(moved)
  <2>2. S \in SUBSET Waiting /\ Waiting' = Waiting \ S
    BY <1>9, <2>1 DEF TurnOver, Apart, Held, Waiting
  <2>3. UNCHANGED Vanished /\ Gone' = Gone \cup S
    BY <1>9, <2>1 DEF TurnOver, Apart, Held, Gone, Vanished
  <2> QED  BY <1>9, <2>2, <2>3 DEF TurnOver
<1>10. CASE Clears
  <2>1. Range(buffer') = {} /\ Range(pending') = {}
    BY <1>10, EmptyList DEF Clears
  <2>2. Waiting' = {} /\ UNCHANGED Vanished /\ Gone' = Gone \cup Waiting
    BY <1>10, <2>1 DEF Clears, Apart, Held, Waiting, Gone, Vanished
  <2> QED  BY <1>10, <2>2 DEF Clears
<1> QED  BY <1>1, <1>2, <1>3, <1>4, <1>5, <1>6, <1>7, <1>8, <1>9, <1>10 DEF MessageStep

(* Only a flush into an orphaned waiter loses an accepted message: neither *)
(* the end of a turn nor stop() nor any other step of the loop does.       *)
THEOREM LosesOnlyToOrphan == Spec => LossOnlyThroughOrphanedWaiter
<1>1. MessageInv /\ [Next]_vars =>
        [Vanished' # Vanished => waiter = "stale" /\ coalesceTimer /\ ~coalesceTimer']_vars
  <2> SUFFICES ASSUME MessageInv, [Next]_vars, Vanished' # Vanished
               PROVE  waiter = "stale" /\ coalesceTimer /\ ~coalesceTimer'
    OBVIOUS
  <2>1. MessageStep
    BY StepIsMessageStep DEF MessageInv
  <2> QED  BY <2>1, StepSets
<1> QED  BY <1>1, Message, PTL DEF Spec, LossOnlyThroughOrphanedWaiter

(* The worker is an Inbox: each of the ten message steps is a step of it   *)
(* or a stutter, under the refinement mapping of ChannelWorker.            *)
THEOREM InboxImplemented == Spec => ImplementsInbox
<1> USE DEF Waiting, Gone
<1>1. Init => Mailbox!Init
  <2> SUFFICES ASSUME Init PROVE Mailbox!Init
    OBVIOUS
  <2> QED  BY EmptyList DEF Init, Vanished, Mailbox!Init
<1>2. MessageInv /\ [Next]_vars => [Mailbox!Next]_(Mailbox!inboxVars)
  <2> SUFFICES ASSUME MessageInv, [Next]_vars PROVE [Mailbox!Next]_(Mailbox!inboxVars)
    OBVIOUS
  <2>1. MessageStep
    BY StepIsMessageStep DEF MessageInv
  <2> QED
    BY <2>1, StepSets
    DEF Mailbox!Next, Mailbox!inboxVars, Mailbox!Arrives, Mailbox!HandOver, Mailbox!Begins,
        Mailbox!Ends, Mailbox!Loses, Mailbox!Closing, Mailbox!Closes
<1> QED  BY <1>1, <1>2, Message, PTL DEF Spec, ImplementsInbox, Mailbox!Spec

-----------------------------------------------------------------------------
(* The mirror in the global queue.                                         *)

(* The ids of list s are the last ones of ids, in the same order.          *)
EndsWith(ids, s, list) ==
  /\ Len(s) <= Len(ids)
  /\ \A i \in DOMAIN s : ids[Len(ids) - Len(s) + i] = <<s[i], list>>

(* Any list of ids ends with those of an empty list.                       *)
LEMMA EndsWithEmpty ==
  ASSUME NEW ids \in Seq(GlobalId), NEW list
  PROVE  EndsWith(ids, << >>, list)
BY DEF EndsWith

(* Appending a message and its id keeps the two lists aligned.             *)
LEMMA EndsWithAppend ==
  ASSUME NEW ids \in Seq(GlobalId), NEW s \in Seq(Messages), NEW list \in {"pending", "queued"},
         NEW m \in Messages, EndsWith(ids, s, list)
  PROVE  EndsWith(Append(ids, <<m, list>>), Append(s, m), list)
<1> DEFINE u == Append(ids, <<m, list>>)
           v == Append(s, m)
<1>1. <<m, list>> \in GlobalId
  BY DEF GlobalId
<1>2. /\ Len(u) = Len(ids) + 1 /\ Len(v) = Len(s) + 1 /\ DOMAIN v = 1..(Len(s) + 1)
      /\ Len(ids) \in Nat /\ Len(s) \in Nat /\ DOMAIN s = 1..Len(s)
      /\ \A i \in 1..Len(ids) : u[i] = ids[i]
      /\ u[Len(ids) + 1] = <<m, list>>
      /\ \A i \in 1..Len(s) : v[i] = s[i]
      /\ v[Len(s) + 1] = m
  BY <1>1
<1> HIDE DEF u, v
<1>3. ASSUME NEW i \in DOMAIN v PROVE u[Len(u) - Len(v) + i] = <<v[i], list>>
  <2>1. Len(u) - Len(v) = Len(ids) - Len(s) /\ Len(s) <= Len(ids)
    BY <1>2 DEF EndsWith
  <2>2. CASE i = Len(s) + 1
    BY <1>2, <2>1, <2>2
  <2>3. CASE i # Len(s) + 1
    <3>1. i \in DOMAIN s /\ Len(ids) - Len(s) + i \in 1..Len(ids)
      BY <1>2, <2>1, <2>3
    <3>2. ids[Len(ids) - Len(s) + i] = <<s[i], list>>
      BY <3>1 DEF EndsWith
    <3> QED  BY <1>2, <2>1, <3>1, <3>2
  <2> QED  BY <2>2, <2>3
<1>4. Len(v) <= Len(u)
  BY <1>2 DEF EndsWith
<1>5. EndsWith(u, v, list)
  BY <1>3, <1>4 DEF EndsWith
<1> QED  BY <1>5 DEF u, v

(* So does appending several at the end of a turn.                         *)
LEMMA EndsWithConcat ==
  ASSUME NEW ids \in Seq(GlobalId), NEW s \in Seq(Messages), NEW list \in {"pending", "queued"},
         NEW t \in Seq(Messages), EndsWith(ids, s, list)
  PROVE  EndsWith(ids \o IdsOf(t, list), s \o t, list)
<1> DEFINE w == IdsOf(t, list)
           u == ids \o w
           v == s \o t
<1>1. w \in Seq(GlobalId)
  BY IdsOfType
<1>2. Len(w) = Len(t) /\ \A i \in 1..Len(t) : w[i] = <<t[i], list>>
  BY DEF IdsOf
<1> HIDE DEF w
<1>3. /\ Len(u) = Len(ids) + Len(w) /\ Len(ids) \in Nat
      /\ \A i \in 1..Len(ids) : u[i] = ids[i]
      /\ \A i \in (Len(ids) + 1)..(Len(ids) + Len(w)) : u[i] = w[i - Len(ids)]
  BY <1>1
<1>4. /\ Len(v) = Len(s) + Len(t) /\ DOMAIN v = 1..(Len(s) + Len(t))
      /\ Len(s) \in Nat /\ Len(t) \in Nat /\ DOMAIN s = 1..Len(s)
      /\ \A i \in 1..Len(s) : v[i] = s[i]
      /\ \A i \in (Len(s) + 1)..(Len(s) + Len(t)) : v[i] = t[i - Len(s)]
  OBVIOUS
<1> HIDE DEF u, v
<1>5. ASSUME NEW i \in DOMAIN v PROVE u[Len(u) - Len(v) + i] = <<v[i], list>>
  <2>1. Len(u) - Len(v) = Len(ids) - Len(s) /\ Len(s) <= Len(ids)
    BY <1>2, <1>3, <1>4 DEF EndsWith
  <2>2. CASE i > Len(s)
    <3>1. /\ Len(ids) - Len(s) + i \in (Len(ids) + 1)..(Len(ids) + Len(t))
          /\ (Len(ids) - Len(s) + i) - Len(ids) = i - Len(s) /\ i - Len(s) \in 1..Len(t)
          /\ i \in (Len(s) + 1)..(Len(s) + Len(t))
      BY <1>2, <1>3, <1>4, <2>1, <2>2
    <3>2. u[Len(ids) - Len(s) + i] = w[i - Len(s)]
      BY <1>2, <1>3, <1>4, <3>1
    <3>3. w[i - Len(s)] = <<t[i - Len(s)], list>> /\ v[i] = t[i - Len(s)]
      BY <1>2, <1>3, <1>4, <3>1
    <3> QED  BY <2>1, <3>2, <3>3
  <2>3. CASE ~(i > Len(s))
    <3>1. i \in DOMAIN s /\ Len(ids) - Len(s) + i \in 1..Len(ids)
      BY <1>3, <1>4, <2>1, <2>3
    <3>2. ids[Len(ids) - Len(s) + i] = <<s[i], list>>
      BY <3>1 DEF EndsWith
    <3> QED  BY <1>3, <1>4, <2>1, <3>1, <3>2
  <2> QED  BY <2>2, <2>3
<1>6. Len(v) <= Len(u)
  BY <1>2, <1>3, <1>4 DEF EndsWith
<1>7. EndsWith(u, v, list)
  BY <1>5, <1>6 DEF EndsWith
<1> QED  BY <1>7 DEF u, v, w

(* Cutting a list in two where no id occurs twice gives disjoint parts.    *)
LEMMA CutApart ==
  ASSUME NEW S, NEW s \in Seq(S), NEW n \in Nat, n <= Len(s), IsInjective(s)
  PROVE  LET front == SubSeq(s, 1, n)
             rest  == SubSeq(s, n + 1, Len(s))
         IN  /\ rest \in Seq(S) /\ IsInjective(rest)
             /\ Range(rest) \subseteq Range(s) \ Range(front)
<1> DEFINE front == SubSeq(s, 1, n)
           rest  == SubSeq(s, n + 1, Len(s))
<1>1. /\ front \in Seq(S) /\ Len(front) = n /\ \A i \in 1..n : front[i] = s[i]
      /\ rest \in Seq(S) /\ Len(rest) = Len(s) - n /\ \A i \in 1..(Len(s) - n) : rest[i] = s[n + i]
  OBVIOUS
<1>2. DOMAIN front = 1..n /\ DOMAIN rest = 1..(Len(s) - n) /\ DOMAIN s = 1..Len(s) /\ Len(s) \in Nat
  BY <1>1
<1> HIDE DEF front, rest
<1>3. IsInjective(rest)
  <2> SUFFICES ASSUME NEW a \in DOMAIN rest, NEW b \in DOMAIN rest, rest[a] = rest[b] PROVE a = b
    BY DEF IsInjective
  <2>1. n + a \in DOMAIN s /\ n + b \in DOMAIN s /\ s[n + a] = s[n + b]
    BY <1>1, <1>2
  <2>2. n + a = n + b
    BY <2>1 DEF IsInjective
  <2> QED  BY <1>2, <2>2
<1>4. ASSUME NEW y \in Range(rest) PROVE y \in Range(s) /\ y \notin Range(front)
  <2>1. PICK i \in DOMAIN rest : y = rest[i]
    BY DEF Range
  <2>2. n + i \in DOMAIN s /\ y = s[n + i]
    BY <1>1, <1>2, <2>1
  <2>3. ASSUME NEW j \in DOMAIN front, y = front[j] PROVE FALSE
    <3>1. j \in DOMAIN s /\ s[j] = s[n + i] /\ j # n + i
      BY <1>1, <1>2, <2>2, <2>3
    <3> QED  BY <2>2, <3>1 DEF IsInjective
  <2> QED  BY <2>2, <2>3 DEF Range
<1> QED  BY <1>1, <1>3, <1>4 DEF front, rest

(* The invariant that makes MirrorCovers inductive: no id is listed twice, *)
(* each list holds ids of its own kind, and a queued id is never that of a *)
(* message still parked.                                                   *)
Mirrored ==
  /\ IsInjective(queuedIds)
  /\ \A q \in Range(queuedIds) : q[2] = "queued" /\ q[1] \in accepted \ Range(pending)
  /\ \A q \in Range(pendingIds) : q[2] = "pending"
  /\ EndsWith(queuedIds, buffer, "queued")
  /\ EndsWith(pendingIds, pending, "pending")
  /\ Range(queuedIds) \cup Range(pendingIds) \subseteq globalQueue

(* A message that is parked or queued gets its id.                         *)
LEMMA AcceptMirrored ==
  ASSUME MessageInv, Mirrored, NEW m \in Messages, NewTo(m), Accept(m)
  PROVE  Mirrored'
<1>0. /\ pending \in Seq(Messages) /\ buffer \in Seq(Messages)
      /\ pendingIds \in Seq(GlobalId) /\ queuedIds \in Seq(GlobalId)
      /\ <<m, "pending">> \in GlobalId /\ <<m, "queued">> \in GlobalId
  BY DEF MessageInv, WakeupInv, TypeOK, QueueTypeOK, IdTypeOK, GlobalId
<1>1. m \notin accepted /\ m \notin Range(pending)
  BY DEF NewTo, MessageInv, Apart, Held
<1>2. CASE turnActive /\ ~(Len(pending) >= MAX_PENDING)
  <2>1. /\ pending' = Append(pending, m) /\ pendingIds' = Append(pendingIds, <<m, "pending">>)
        /\ globalQueue' = globalQueue \cup {<<m, "pending">>}
        /\ accepted' = accepted \cup {m}
        /\ UNCHANGED <<buffer, queuedIds>>
    BY <1>2 DEF Accept, Park
  <2>2. /\ Range(pending') = Range(pending) \cup {m}
        /\ Range(pendingIds') = Range(pendingIds) \cup {<<m, "pending">>}
    BY <1>0, <2>1, RangeAppend, ZenonT(60)
  <2>3. EndsWith(pendingIds', pending', "pending")
    BY <1>0, <2>1, EndsWithAppend DEF Mirrored
  <2>4. <<m, "pending">>[2] = "pending"
    OBVIOUS
  <2>5. \A q \in Range(queuedIds') : q[2] = "queued" /\ q[1] \in accepted' \ Range(pending')
    BY <1>1, <2>1, <2>2 DEF Mirrored
  <2>6. \A q \in Range(pendingIds') : q[2] = "pending"
    BY <2>2, <2>4 DEF Mirrored
  <2>7. Range(queuedIds') \cup Range(pendingIds') \subseteq globalQueue'
    BY <2>1, <2>2 DEF Mirrored
  <2> QED  BY <2>1, <2>3, <2>5, <2>6, <2>7 DEF Mirrored
<1>3. CASE ~turnActive /\ ~(Len(buffer) >= MAX_QUEUED_MESSAGES)
  <2>1. /\ buffer' = Append(buffer, m) /\ queuedIds' = Append(queuedIds, <<m, "queued">>)
        /\ globalQueue' = globalQueue \cup {<<m, "queued">>}
        /\ accepted' = accepted \cup {m}
        /\ UNCHANGED <<pending, pendingIds>>
    BY <1>3 DEF Accept, Enqueue
  <2>2. <<m, "queued">>[2] = "queued" /\ <<m, "queued">>[1] = m
    OBVIOUS
  <2>3. <<m, "queued">> \notin Range(queuedIds)
    BY <1>1, <2>2 DEF Mirrored
  <2>4. Range(queuedIds') = Range(queuedIds) \cup {<<m, "queued">>} /\ IsInjective(queuedIds')
    BY <1>0, <2>1, <2>3, RangeAppend, InjectiveAppend DEF Mirrored
  <2>5. EndsWith(queuedIds', buffer', "queued")
    BY <1>0, <2>1, EndsWithAppend DEF Mirrored
  <2>6. \A q \in Range(queuedIds') : q[2] = "queued" /\ q[1] \in accepted' \ Range(pending')
    BY <1>1, <2>1, <2>2, <2>4 DEF Mirrored
  <2>7. Range(queuedIds') \cup Range(pendingIds') \subseteq globalQueue'
    BY <2>1, <2>4 DEF Mirrored
  <2> QED  BY <2>1, <2>4, <2>5, <2>6, <2>7 DEF Mirrored
<1>4. CASE (turnActive /\ Len(pending) >= MAX_PENDING) \/ (~turnActive /\ Len(buffer) >= MAX_QUEUED_MESSAGES)
  <2>1. UNCHANGED <<pending, buffer, pendingIds, queuedIds, globalQueue, accepted>>
    BY <1>4 DEF Accept, Park, Enqueue
  <2> QED  BY <2>1 DEF Mirrored
<1> QED  BY <1>2, <1>3, <1>4

(* Handing a batch over removes as many ids as it has messages.            *)
LEMMA TakeBatchMirrored ==
  ASSUME MessageInv, Mirrored, TakeBatch, UNCHANGED <<pending, pendingIds, accepted>>
  PROVE  Mirrored'
<1> DEFINE front == SubSeq(queuedIds, 1, Len(buffer))
<1>0. queuedIds \in Seq(GlobalId) /\ Len(buffer) \in Nat /\ Len(buffer) <= Len(queuedIds)
  BY DEF MessageInv, WakeupInv, TypeOK, QueueTypeOK, IdTypeOK, Mirrored, EndsWith
<1>1. /\ buffer' = << >> /\ queuedIds' = SubSeq(queuedIds, Len(buffer) + 1, Len(queuedIds))
      /\ globalQueue' = globalQueue \ Range(front)
  BY DEF TakeBatch
<1>2. /\ queuedIds' \in Seq(GlobalId) /\ IsInjective(queuedIds')
      /\ Range(queuedIds') \subseteq Range(queuedIds) \ Range(front)
  BY <1>0, <1>1, CutApart DEF Mirrored
<1>3. Range(front) \subseteq Range(queuedIds)
  BY <1>0, PrefixOf
<1>4. Range(front) \cap Range(pendingIds) = {}
  BY <1>3 DEF Mirrored
<1>5. EndsWith(queuedIds', buffer', "queued")
  BY <1>1, <1>2, EndsWithEmpty
<1> HIDE DEF front
<1> QED  BY <1>1, <1>2, <1>4, <1>5 DEF Mirrored

(* The end of a turn exchanges parked ids for queued ones.                 *)
LEMMA EndTurnMirrored ==
  ASSUME MessageInv, Mirrored, EndTurn
  PROVE  Mirrored'
<1> DEFINE room  == MAX_QUEUED_MESSAGES - Len(buffer)
           moved == IF Len(pending) <= room THEN pending ELSE SubSeq(pending, 1, room)
           ids   == IdsOf(moved, "queued")
<1>0. /\ pending \in Seq(Messages) /\ room \in Nat /\ Len(pending) \in Nat
      /\ buffer \in Seq(Messages) /\ queuedIds \in Seq(GlobalId) /\ pendingIds \in Seq(GlobalId)
  BY CapAssumption DEF MessageInv, WakeupInv, TypeOK, QueueTypeOK, IdTypeOK
<1>1. /\ moved \in Seq(Messages) /\ Range(moved) \subseteq Range(pending) /\ IsInjective(moved)
  <2>0. IsInjective(pending)
    BY DEF MessageInv, Apart
  <2>1. CASE Len(pending) <= room
    BY <1>0, <2>0, <2>1
  <2>2. CASE ~(Len(pending) <= room)
    <3>1. room <= Len(pending) /\ moved = SubSeq(pending, 1, room)
      BY <1>0, <2>2
    <3> QED  BY <1>0, <2>0, <3>1, PrefixOf
  <2> QED  BY <2>1, <2>2
<1>2. /\ pending' = << >> /\ buffer' = buffer \o moved
      /\ queuedIds' = queuedIds \o ids /\ globalQueue' = globalQueue \cup Range(ids)
      /\ UNCHANGED <<pendingIds, accepted>>
  BY DEF EndTurn
<1> HIDE DEF moved
<1>3. /\ ids \in Seq(GlobalId)
      /\ \A q \in Range(ids) : q[2] = "queued" /\ q[1] \in Range(moved)
      /\ IsInjective(ids)
  <2>1. ids \in Seq(GlobalId)
    BY <1>1, IdsOfType
  <2>2. DOMAIN ids = DOMAIN moved /\ \A i \in DOMAIN moved : ids[i] = <<moved[i], "queued">>
    BY DEF IdsOf
  <2> HIDE DEF ids
  <2>3. \A q \in Range(ids) : q[2] = "queued" /\ q[1] \in Range(moved)
    BY <2>2 DEF Range
  <2>4. IsInjective(ids)
    BY <1>1, <2>2 DEF IsInjective
  <2> QED  BY <2>1, <2>3, <2>4
<1> HIDE DEF ids
<1>4. Range(queuedIds) \cap Range(ids) = {}
  BY <1>1, <1>3 DEF Mirrored
<1>5. Range(queuedIds') = Range(queuedIds) \cup Range(ids) /\ IsInjective(queuedIds')
  BY <1>0, <1>2, <1>3, <1>4, RangeConcat, InjectiveConcat DEF Mirrored
<1>6. EndsWith(queuedIds', buffer', "queued")
  BY <1>0, <1>1, <1>2, EndsWithConcat DEF Mirrored, ids
<1>7. EndsWith(pendingIds', pending', "pending")
  BY <1>0, <1>2, EndsWithEmpty
<1>8. \A q \in Range(queuedIds') : q[2] = "queued" /\ q[1] \in accepted' \ Range(pending')
  <2>1. Range(pending') = {} /\ Range(moved) \subseteq accepted
    BY <1>1, <1>2, EmptyList DEF MessageInv, Apart, Held
  <2> QED  BY <1>2, <1>3, <1>5, <2>1 DEF Mirrored
<1>9. Range(queuedIds') \cup Range(pendingIds') \subseteq globalQueue'
  BY <1>2, <1>5 DEF Mirrored
<1> QED  BY <1>2, <1>5, <1>6, <1>7, <1>8, <1>9 DEF Mirrored

(* stop() removes every id.                                                *)
LEMMA ClearAllMirrored ==
  ASSUME ClearAll
  PROVE  Mirrored'
<1>1. pending' = << >> /\ buffer' = << >> /\ pendingIds' = << >> /\ queuedIds' = << >>
  BY DEF ClearAll
<1>2. << >> \in Seq(GlobalId)
  OBVIOUS
<1> QED  BY <1>1, <1>2, EmptyList, EndsWithEmpty DEF Mirrored

(* Every step keeps the mirror.                                            *)
LEMMA StepMirrored ==
  ASSUME MessageInv, Mirrored, [Next]_vars
  PROVE  Mirrored'
<1> USE DEF loopVars, queueVars, idVars, taskVars, endVars, histVars
<1> DEFINE Kept == UNCHANGED <<pending, buffer, pendingIds, queuedIds, globalQueue, accepted>>
<1>0. ASSUME Kept PROVE Mirrored'
  BY <1>0 DEF Mirrored
<1>1. ASSUME NEW m \in Messages, Dispatch(m) \/ CommandForwards(m) PROVE Mirrored'
  <2>1. NewTo(m) /\ Accept(m)
    BY <1>1 DEF Dispatch, CommandForwards, Unseen, NewTo, MessageInv, Apart
  <2> QED  BY <2>1, AcceptMirrored
<1>2. ASSUME NEW m \in Messages, DispatchCommand(m) \/ CommandReplies(m) PROVE Mirrored'
  BY <1>0, <1>2 DEF DispatchCommand, CommandReplies
<1>3. CASE DispatchAbort \/ Background
  BY <1>0, <1>3 DEF DispatchAbort, Background, InjectEvent, SpawnTask, TaskReports
<1>4. CASE LoopExits \/ LoopWaits \/ LoopTakesEvent
  BY <1>0, <1>4 DEF LoopExits, LoopWaits, LoopTakesEvent
<1>5. CASE LoopTakesBatch
  BY <1>5, TakeBatchMirrored DEF LoopTakesBatch
<1>6. CASE CoalesceFires
  <2>0. UNCHANGED <<pending, pendingIds, accepted>>
    BY <1>6 DEF CoalesceFires
  <2>1. CASE TakeBatch
    BY <2>0, <2>1, TakeBatchMirrored
  <2>2. CASE UNCHANGED <<buffer, queuedIds, globalQueue>>
    BY <1>0, <2>0, <2>2
  <2>3. CASE buffer' = << >> /\ UNCHANGED <<queuedIds, globalQueue>>
    <3>1. EndsWith(queuedIds', buffer', "queued")
      BY <2>3, EndsWithEmpty DEF MessageInv, WakeupInv, TypeOK, IdTypeOK
    <3> QED  BY <2>0, <2>3, <3>1 DEF Mirrored
  <2> QED  BY <1>6, <2>1, <2>2, <2>3 DEF CoalesceFires
<1>7. CASE WaitTimesOut \/ RefreshEnds \/ DecisionEnds \/ BackoffEnds \/ TurnTimesOut
  BY <1>0, <1>7 DEF WaitTimesOut, RefreshEnds, DecisionEnds, BackoffEnds, TurnTimesOut
<1>8. CASE DrainPending
  <2>1. /\ pending' = << >> /\ pendingIds' = << >> /\ UNCHANGED <<buffer, queuedIds, accepted>>
        /\ globalQueue' = globalQueue \ Range(pendingIds)
    BY <1>8 DEF DrainPending
  <2>2. EndsWith(pendingIds', pending', "pending")
    <3>1. << >> \in Seq(GlobalId)
      OBVIOUS
    <3> QED  BY <2>1, <3>1, EndsWithEmpty
  <2>3. Range(queuedIds) \cap Range(pendingIds) = {}
    BY DEF Mirrored
  <2> QED  BY <2>1, <2>2, <2>3, EmptyList DEF Mirrored
<1>9. CASE EndTurn
  BY <1>9, EndTurnMirrored
<1>10. CASE Stop \/ Sweep
  BY <1>0, <1>10, ClearAllMirrored DEF Stop, Sweep, StopBegins
<1>11. CASE StopClears
  BY <1>11, ClearAllMirrored DEF StopClears
<1>12. CASE IdleTtlElapses \/ StopReturns \/ UNCHANGED vars
  BY <1>0, <1>12 DEF IdleTtlElapses, StopReturns, vars
<1> QED
  BY <1>1, <1>2, <1>3, <1>4, <1>5, <1>6, <1>7, <1>8, <1>9, <1>10, <1>11, <1>12
  DEF Next, Loop, Inbound, Timers, Turn, Stopping

(* What waits is visible in the global queue, in order, for every value of *)
(* the constants.                                                          *)
THEOREM MirrorHolds == Spec => []MirrorCovers
<1>1. Init => Mirrored
  <2> SUFFICES ASSUME Init PROVE Mirrored
    OBVIOUS
  <2>1. << >> \in Seq(GlobalId)
    OBVIOUS
  <2> QED  BY <2>1, EmptyList, EndsWithEmpty DEF Init, Mirrored
<1>2. MessageInv /\ Mirrored /\ [Next]_vars => Mirrored'
  BY StepMirrored
<1>3. Mirrored => MirrorCovers
  BY DEF Mirrored, MirrorCovers, EndsWith
<1> QED  BY <1>1, <1>2, <1>3, Message, PTL DEF Spec

-----------------------------------------------------------------------------
(* What is shown has a cause.                                              *)

(* An overflow of the event queue that drops a task's last event.          *)
FinalTypes == EventTypes \ {"start", "progress"}
DropsFinal ==
  /\ Len(events) >= MAX_QUEUED_EVENTS /\ Head(events).type \in FinalTypes
  /\ \E e \in Event : events' = Append(Tail(events), e)

(* The final event of t waits in q, behind position n.                     *)
FinalAfter(t, q, n) ==
  \E j \in 1..Len(q) : j > n /\ q[j].task = t /\ q[j].type \in FinalTypes

(* A mark has a task that runs or whose final event is still to come, and  *)
(* so has a start event, which will make one.                              *)
StartsCaused(q, ts) ==
  \A i \in 1..Len(q) : q[i].type = "start" =>
     q[i].task \in Tasks /\ (ts[q[i].task] = "running" \/ FinalAfter(q[i].task, q, i))
Caused(t, q, ts) == t \in Tasks /\ (ts[t] = "running" \/ FinalAfter(t, q, 0))
PresenceInv ==
  /\ StartsCaused(events, tasks)
  /\ \A t \in taskMarks : Caused(t, events, tasks)
  /\ typing => \E t \in Tasks : Caused(t, events, tasks)
  /\ taskMarks # {} \/ typing => contact # "none"

(* A task that ran still runs, or its final event has been pushed.         *)
LEMMA PushKeepsCauses ==
  ASSUME TypeOK, ~DropsFinal, NEW e \in Event, Push(e),
         \A t \in Tasks : tasks[t] = "running" => tasks'[t] = "running" \/ (e.task = t /\ e.type \in FinalTypes),
         e.type = "start" => e.task \in Tasks /\ tasks'[e.task] = "running"
  PROVE  /\ StartsCaused(events, tasks) => StartsCaused(events', tasks')
         /\ \A t : Caused(t, events, tasks) => Caused(t, events', tasks')
<1> DEFINE cut == Len(events) >= MAX_QUEUED_EVENTS
           q == IF cut THEN Tail(events) ELSE events
           d == IF cut THEN 1 ELSE 0
<1>1. events \in Seq(Event) /\ Len(events) \in Nat /\ MAX_QUEUED_EVENTS \in Nat \ {0}
  BY CapAssumption DEF TypeOK, QueueTypeOK
<1>2. /\ q \in Seq(Event) /\ Len(q) = Len(events) - d /\ d \in {0, 1} /\ Len(q) \in Nat
      /\ \A i \in 1..Len(q) : q[i] = events[i + d]
  <2>1. CASE cut
    <3>1. events # << >>
      BY <1>1, <2>1
    <3>2. /\ Tail(events) \in Seq(Event) /\ Len(Tail(events)) = Len(events) - 1
          /\ \A i \in 1..Len(Tail(events)) : Tail(events)[i] = events[i + 1]
      BY <1>1, <3>1
    <3> QED  BY <1>1, <2>1, <3>1, <3>2
  <2>2. CASE ~cut
    BY <1>1, <2>2
  <2> QED  BY <2>1, <2>2
<1>3. events' = Append(q, e)
  BY DEF Push
<1>4. d = 1 => events[1].type \notin FinalTypes
  <2> SUFFICES ASSUME d = 1 PROVE events[1].type \notin FinalTypes
    OBVIOUS
  <2>1. cut /\ Head(events) = events[1]
    BY <1>1
  <2>2. \E f \in Event : events' = Append(Tail(events), f)
    BY <1>3, <2>1
  <2> QED  BY <2>1, <2>2 DEF DropsFinal
<1> HIDE DEF q, d, cut
<1>5. /\ Len(events') = Len(q) + 1 /\ events'[Len(q) + 1] = e
      /\ \A i \in 1..Len(q) : events'[i] = events[i + d]
  BY <1>2, <1>3
<1>6. ASSUME NEW t, NEW n \in Nat, n >= d \/ n = 0, FinalAfter(t, events, n)
      PROVE  FinalAfter(t, events', IF n >= d THEN n - d ELSE 0)
  <2>1. PICK j \in 1..Len(events) : j > n /\ events[j].task = t /\ events[j].type \in FinalTypes
    BY <1>6 DEF FinalAfter
  <2>2. j - d \in 1..Len(q)
    <3>1. j > d
      <4>1. d = 1 => j # 1
        BY <1>4, <2>1
      <4> QED  BY <1>2, <2>1, <4>1
    <3> QED  BY <1>1, <1>2, <2>1, <3>1
  <2>3. events'[j - d] = events[j]
    BY <1>2, <1>5, <2>1, <2>2
  <2>4. j - d \in 1..Len(events') /\ j - d > (IF n >= d THEN n - d ELSE 0)
    BY <1>2, <1>5, <2>1, <2>2
  <2> QED  BY <2>1, <2>3, <2>4 DEF FinalAfter
<1>7. ASSUME NEW t, e.task = t, e.type \in FinalTypes, NEW n \in Nat, n <= Len(q)
      PROVE  FinalAfter(t, events', n)
  BY <1>2, <1>5, <1>7 DEF FinalAfter
<1>8. ASSUME NEW t, Caused(t, events, tasks) PROVE Caused(t, events', tasks')
  <2>1. t \in Tasks
    BY <1>8 DEF Caused
  <2>2. CASE tasks[t] = "running"
    BY <1>2, <1>7, <2>1, <2>2 DEF Caused
  <2>3. CASE FinalAfter(t, events, 0)
    <3>1. FinalAfter(t, events', 0)
      BY <1>2, <1>6, <2>3
    <3> QED  BY <2>1, <3>1 DEF Caused
  <2> QED  BY <1>8, <2>2, <2>3 DEF Caused
<1>9. ASSUME StartsCaused(events, tasks) PROVE StartsCaused(events', tasks')
  <2> SUFFICES ASSUME NEW i \in 1..Len(events'), events'[i].type = "start"
               PROVE  /\ events'[i].task \in Tasks
                      /\ tasks'[events'[i].task] = "running" \/ FinalAfter(events'[i].task, events', i)
    BY DEF StartsCaused
  <2>1. CASE i = Len(q) + 1
    BY <1>5, <2>1
  <2>2. CASE i # Len(q) + 1
    <3>1. i \in 1..Len(q) /\ i + d \in 1..Len(events) /\ events'[i] = events[i + d] /\ i + d >= d /\ (i + d) - d = i
      <4>1. Len(events) \in Nat /\ Len(q) \in Nat /\ Len(q) = Len(events) - d /\ d \in {0, 1}
        BY <1>1, <1>2
      <4>2. i \in 1..(Len(q) + 1)
        BY <1>5
      <4>3. i \in 1..Len(q) /\ i + d \in 1..Len(events) /\ i + d >= d /\ (i + d) - d = i
        BY <2>2, <4>1, <4>2
      <4>4. events'[i] = events[i + d]
        BY <1>5, <4>3
      <4> QED  BY <4>3, <4>4
    <3> DEFINE t == events[i + d].task
    <3>2. t \in Tasks /\ (tasks[t] = "running" \/ FinalAfter(t, events, i + d))
      BY <1>9, <3>1 DEF StartsCaused
    <3>3. CASE tasks[t] = "running"
      <4>1. tasks'[t] = "running" \/ FinalAfter(t, events', i)
        BY <1>7, <3>1, <3>2, <3>3
      <4> QED  BY <3>1, <3>2, <4>1
    <3>4. CASE FinalAfter(t, events, i + d)
      <4>1. FinalAfter(t, events', i)
        BY <1>2, <1>6, <3>1, <3>4
      <4> QED  BY <3>1, <3>2, <4>1
    <3> QED  BY <3>2, <3>3, <3>4
  <2> QED  BY <2>1, <2>2
<1> QED  BY <1>8, <1>9

(* A push changes nothing of what is shown.                                *)
LEMMA PushPresence ==
  ASSUME PresenceInv, TypeOK, ~DropsFinal, NEW e \in Event, Push(e), UNCHANGED <<taskMarks, typing, contact>>,
         \A t \in Tasks : tasks[t] = "running" => tasks'[t] = "running" \/ (e.task = t /\ e.type \in FinalTypes),
         e.type = "start" => e.task \in Tasks /\ tasks'[e.task] = "running"
  PROVE  PresenceInv'
<1>1. /\ StartsCaused(events, tasks) => StartsCaused(events', tasks')
      /\ \A t : Caused(t, events, tasks) => Caused(t, events', tasks')
  BY PushKeepsCauses
<1>2. StartsCaused(events, tasks)'
  BY <1>1 DEF PresenceInv
<1>3. (\A t \in taskMarks : Caused(t, events, tasks))'
  BY <1>1 DEF PresenceInv
<1>4. (typing => \E t \in Tasks : Caused(t, events, tasks))'
  BY <1>1 DEF PresenceInv
<1> QED  BY <1>2, <1>3, <1>4 DEF PresenceInv

(* Taking an event: its own task may lose its cause, and loses its mark.   *)
LEMMA TakePresence ==
  ASSUME PresenceInv, TypeOK, LoopTakesEvent
  PROVE  PresenceInv'
<1> DEFINE e == Head(events)
<1>1. /\ events \in Seq(Event) /\ events # << >> /\ Len(events) \in Nat /\ events' = Tail(events)
      /\ UNCHANGED <<contact, tasks>> /\ HandleEvent(e)
  BY DEF LoopTakesEvent, TypeOK, QueueTypeOK
<1>2. /\ Len(events') = Len(events) - 1 /\ \A i \in 1..Len(events') : events'[i] = events[i + 1]
      /\ e = events[1] /\ e \in Event /\ 1 \in 1..Len(events)
  BY <1>1
<1> HIDE DEF e
<1>3. ASSUME NEW t, NEW n \in Nat, FinalAfter(t, events, n + 1) PROVE FinalAfter(t, events', n)
  <2>1. PICK j \in 1..Len(events) : j > n + 1 /\ events[j].task = t /\ events[j].type \in FinalTypes
    BY <1>3 DEF FinalAfter
  <2>2. j - 1 \in 1..Len(events') /\ j - 1 > n /\ events'[j - 1] = events[j]
    BY <1>1, <1>2, <2>1
  <2> QED  BY <2>1, <2>2 DEF FinalAfter
<1>4. StartsCaused(events, tasks)'
  <2> SUFFICES ASSUME NEW i \in 1..Len(events'), events'[i].type = "start"
               PROVE  /\ events'[i].task \in Tasks
                      /\ tasks[events'[i].task] = "running" \/ FinalAfter(events'[i].task, events', i)
    BY <1>1 DEF StartsCaused
  <2>1. i + 1 \in 1..Len(events) /\ events'[i] = events[i + 1] /\ i \in Nat
    BY <1>1, <1>2
  <2>2. /\ events[i + 1].task \in Tasks
        /\ tasks[events[i + 1].task] = "running" \/ FinalAfter(events[i + 1].task, events, i + 1)
    BY <2>1 DEF PresenceInv, StartsCaused
  <2> QED  BY <1>3, <2>1, <2>2
<1>5. ASSUME NEW t, Caused(t, events, tasks), ~(e.task = t /\ e.type \in FinalTypes) PROVE Caused(t, events', tasks')
  <2>1. FinalAfter(t, events, 0) => FinalAfter(t, events, 0 + 1)
    BY <1>2, <1>5 DEF FinalAfter
  <2>2. FinalAfter(t, events, 0) => FinalAfter(t, events', 0)
    BY <1>3, <2>1
  <2> QED  BY <1>1, <1>5, <2>2 DEF Caused
<1>6. CASE UNCHANGED <<taskMarks, typing>> /\ (contact = "none" \/ e.type \notin FinalTypes)
  <2>1. (taskMarks = {} /\ ~typing) \/ e.type \notin FinalTypes
    BY <1>6 DEF PresenceInv
  <2>2. (\A t \in taskMarks : Caused(t, events, tasks))'
    BY <1>5, <1>6, <2>1 DEF PresenceInv
  <2>3. (typing => \E t \in Tasks : Caused(t, events, tasks))'
    BY <1>5, <1>6, <2>1 DEF PresenceInv
  <2>4. (taskMarks # {} \/ typing => contact # "none")'
    BY <1>1, <1>6 DEF PresenceInv
  <2> QED  BY <1>4, <2>2, <2>3, <2>4 DEF PresenceInv
<1>7. CASE contact # "none" /\ e.type = "start" /\ BeginPresence(e.task)
  <2>1. e.type \notin FinalTypes
    BY <1>7 DEF FinalTypes
  <2>2. Caused(e.task, events', tasks')
    <3>1. e.task \in Tasks /\ (tasks[e.task] = "running" \/ FinalAfter(e.task, events, 1))
      BY <1>2, <1>7 DEF PresenceInv, StartsCaused
    <3>2. FinalAfter(e.task, events, 0 + 1) => FinalAfter(e.task, events', 0)
      BY <1>3
    <3> QED  BY <1>1, <3>1, <3>2 DEF Caused
  <2>3. taskMarks' \subseteq taskMarks \cup {e.task}
    BY <1>7 DEF BeginPresence
  <2>4. (\A t \in taskMarks : Caused(t, events, tasks))'
    BY <1>5, <2>1, <2>2, <2>3 DEF PresenceInv
  <2>5. (typing => \E t \in Tasks : Caused(t, events, tasks))'
    BY <2>2 DEF Caused
  <2>6. (taskMarks # {} \/ typing => contact # "none")'
    BY <1>1, <1>7
  <2> QED  BY <1>4, <2>4, <2>5, <2>6 DEF PresenceInv
<1>8. CASE contact # "none" /\ EndPresence(e.task)
  <2>1. taskMarks' = taskMarks \ {e.task} /\ (typing' => taskMarks' # {})
    BY <1>8 DEF EndPresence
  <2>2. (\A t \in taskMarks : Caused(t, events, tasks))'
    BY <1>5, <2>1 DEF PresenceInv
  <2>3. (typing => \E t \in Tasks : Caused(t, events, tasks))'
    BY <2>1, <2>2 DEF Caused
  <2>4. (taskMarks # {} \/ typing => contact # "none")'
    BY <1>1, <1>8
  <2> QED  BY <1>4, <2>2, <2>3, <2>4 DEF PresenceInv
<1>9. \/ UNCHANGED <<taskMarks, typing>> /\ (contact = "none" \/ e.type \notin FinalTypes)
      \/ contact # "none" /\ e.type = "start" /\ BeginPresence(e.task)
      \/ contact # "none" /\ EndPresence(e.task)
  BY <1>1 DEF HandleEvent, FinalTypes
<1> QED  BY <1>6, <1>7, <1>8, <1>9

(* Every step that drops no final event.                                   *)
LEMMA StepPresence ==
  ASSUME PresenceInv, TypeOK, [Next]_vars, ~DropsFinal
  PROVE  PresenceInv'
<1>1. CASE \E h \in Hooks, type \in {"always", "silent", "conditional"} : InjectEvent(h, type)
  <2> PICK h \in Hooks, type \in {"always", "silent", "conditional"} : InjectEvent(h, type)
    BY <1>1
  <2> DEFINE e == [task |-> h, type |-> type]
  <2>1. e \in Event /\ e.type # "start"
    BY DEF Event, EventTypes
  <2>2. Push(e) /\ UNCHANGED <<taskMarks, typing, contact, tasks>>
    BY DEF InjectEvent
  <2> HIDE DEF e
  <2> QED  BY <2>1, <2>2, PushPresence
<1>2. CASE \E t \in Tasks : SpawnTask(t)
  <2> PICK t \in Tasks : SpawnTask(t)
    BY <1>2
  <2> DEFINE e == [task |-> t, type |-> "start"]
  <2>1. e \in Event /\ e.type = "start" /\ e.task = t
    BY DEF Event, EventTypes
  <2>2. Push(e) /\ UNCHANGED <<taskMarks, typing, contact>> /\ tasks[t] = "new"
        /\ tasks' = [tasks EXCEPT ![t] = "running"]
    BY DEF SpawnTask
  <2>3. tasks'[t] = "running" /\ \A u \in Tasks : tasks[u] = "running" => tasks'[u] = "running"
    BY <2>2 DEF TypeOK, TaskTypeOK
  <2> HIDE DEF e
  <2> QED  BY <2>1, <2>2, <2>3, PushPresence
<1>3. CASE \E t \in Tasks, type \in {"progress", "error", "always"} : TaskReports(t, type)
  <2> PICK t \in Tasks, type \in {"progress", "error", "always"} : TaskReports(t, type)
    BY <1>3
  <2> DEFINE e == [task |-> t, type |-> type]
  <2>1. e \in Event /\ e.type # "start" /\ e.task = t /\ (type # "progress" => e.type \in FinalTypes)
    BY DEF Event, EventTypes, FinalTypes
  <2>2. Push(e) /\ UNCHANGED <<taskMarks, typing, contact>>
        /\ (tasks' = tasks \/ (type # "progress" /\ tasks' = [tasks EXCEPT ![t] = "done"]))
    BY DEF TaskReports
  <2>3. \A u \in Tasks : tasks[u] = "running" => tasks'[u] = "running" \/ (e.task = u /\ e.type \in FinalTypes)
    BY <2>1, <2>2 DEF TypeOK, TaskTypeOK
  <2> HIDE DEF e
  <2> QED  BY <2>1, <2>2, <2>3, PushPresence
<1>4. CASE LoopTakesEvent
  BY <1>4, TakePresence
<1>5. CASE UNCHANGED <<events, tasks, taskMarks, typing>> /\ (contact' = contact \/ contact' = "message")
  BY <1>5 DEF PresenceInv
<1>6. CASE ClearAll
  BY <1>6 DEF ClearAll, PresenceInv, StartsCaused
<1>7. CASE Loop /\ ~LoopTakesEvent
  BY <1>5, <1>7 DEF Loop, LoopExits, LoopTakesBatch, LoopWaits, queueVars, taskVars
<1>8. CASE Inbound
  BY <1>5, <1>8 DEF Inbound, Dispatch, DispatchCommand, CommandForwards, CommandReplies, DispatchAbort, Accept,
     loopVars, queueVars, taskVars
<1>9. CASE Timers
  BY <1>5, <1>9 DEF Timers, WaitTimesOut, CoalesceFires, RefreshEnds, DecisionEnds, BackoffEnds, queueVars, taskVars
<1>10. CASE Turn
  BY <1>5, <1>10 DEF Turn, DrainPending, TurnTimesOut, EndTurn, loopVars, queueVars, taskVars
<1>11. CASE Stopping
  BY <1>5, <1>6, <1>11 DEF Stopping, Stop, IdleTtlElapses, Sweep, StopClears, StopReturns, StopBegins, loopVars, queueVars, taskVars
<1>12. CASE UNCHANGED vars
  BY <1>5, <1>12 DEF vars, loopVars, queueVars, taskVars
<1> QED  BY <1>1, <1>2, <1>3, <1>4, <1>7, <1>8, <1>9, <1>10, <1>11, <1>12 DEF Next, Background

(* What the worker shows is true (queuedGlobalIds, beginTaskPresence) as   *)
(* long as no overflow of the event queue drops a task's last event, which *)
(* push() does to the oldest event without looking at it.                  *)
THEOREM OutsideIsTrue == Spec /\ [][~DropsFinal]_vars => []OutsideTrue
<1>1. Init => PresenceInv
  BY DEF Init, PresenceInv, StartsCaused
<1>2. PresenceInv /\ TypeOK /\ [Next]_vars /\ [~DropsFinal]_vars => PresenceInv'
  <2>1. CASE UNCHANGED vars
    BY <2>1 DEF vars, loopVars, queueVars, taskVars, PresenceInv
  <2> QED  BY <2>1, StepPresence
<1>3. PresenceInv => PresenceHasCause
  BY DEF PresenceInv, PresenceHasCause, StartsCaused, Caused, FinalAfter, FinalTypes
<1>4. Spec => []TypeOK
  BY TypeCorrect
<1>5. Spec => []MirrorCovers
  BY MirrorHolds
<1>6. MirrorCovers /\ PresenceHasCause => OutsideTrue
  BY DEF OutsideTrue
<1> QED  BY <1>1, <1>2, <1>3, <1>4, <1>5, <1>6, PTL DEF Spec

-----------------------------------------------------------------------------
(* The delivery of a reply.                                                *)

(* The two ways invoke() ends: it resolves, or it does not.                *)
Answers  == {"reply", "long", "silent", "empty"}
Failures == {"aborted", "timeout", "error", "limited"}

(* What each await of runAgentTurn knows of how the agent ended.           *)
OutcomeAtPhase ==
  /\ turnPhase = "run" => outcome = "none"
  /\ turnPhase \in {"settling", "deleteOld", "tick"} => outcome \in Answers
  /\ turnPhase = "deleteSilent" => outcome = "silent"
  /\ turnPhase \in {"edit", "send", "deleteFailedEdit"} => outcome \in {"reply", "long"} /\ ~viaTool
  /\ turnPhase = "deleteOld" => viaTool \/ outcome \in {"reply", "long"}
  /\ turnPhase = "tick" => viaTool
  /\ turnPhase \in {"stopped", "notice"} => outcome \in Failures
  /\ turnPhase \in {"partialEdit", "partialSend"} => outcome = "timeout" /\ text > 0
  /\ turnPhase \in {"finished", "done"} => outcome # "none"

(* The reply is put before the user by the last await before the end, and  *)
(* a turn that is about to end has done what ReplyOnce and UserHearsBack   *)
(* ask of one that has.                                                    *)
EndAccounted ==
  /\ finals \in {0, 1}
  /\ finals = 1 => turnPhase \in {"finished", "done"}
  /\ viaTool => "tool" \in sent
  /\ turnPhase \in {"finished", "done"} =>
       /\ outcome \in {"reply", "long"} /\ ~viaTool => finals = 1
       /\ ~failed /\ outcome \notin {"silent", "empty", "limited"}
            => \/ sent # {} \/ finals > 0
               \/ outcome = "timeout" /\ text > 0 /\ shown # "none"

(* A closed breaker has strikes to spare.                                  *)
BreakerCounts == ~editsDisabled => strikes < MAX_FLOOD_STRIKES

(* The inductive invariant of a turn.                                      *)
DeliveryInv ==
  DeliveryTypeOK /\ OutcomeAtPhase /\ EndAccounted /\ BreakerCounts /\ BreakerHolds

(* A fresh turn satisfies the invariant.                                   *)
LEMMA DeliveryStart == DeliveryInit => DeliveryInv
<1> SUFFICES ASSUME DeliveryInit PROVE DeliveryInv
  OBVIOUS
<1>0. 0 \in 0..MaxChunks /\ 0 \in 0..MAX_FLOOD_STRIKES /\ 0 < MAX_FLOOD_STRIKES
  BY TurnAssumption
<1>1. composePreview \in Preview
  BY <1>0 DEF DeliveryInit, composePreview, Preview
<1>2. DeliveryTypeOK
  BY <1>0, <1>1 DEF DeliveryInit, DeliveryTypeOK, Outcomes
<1>3. OutcomeAtPhase /\ EndAccounted /\ BreakerHolds
  BY DEF DeliveryInit, OutcomeAtPhase, EndAccounted, BreakerHolds
<1>4. BreakerCounts
  BY <1>0 DEF DeliveryInit, BreakerCounts
<1> QED  BY <1>2, <1>3, <1>4 DEF DeliveryInv

(* Where the code goes once the initial send is settled.                   *)
LEMMA FinalWriteCases ==
  ASSUME NEW o \in Answers, NEW edits, NEW preview, viaTool \in BOOLEAN
  PROVE  LET f == FinalWrite(o, edits, preview)
         IN  \/ f = "deleteSilent" /\ o = "silent"
             \/ f = "deleteOld" /\ (viaTool \/ o \in {"reply", "long"})
             \/ f \in {"edit", "send"} /\ o \in {"reply", "long"} /\ ~viaTool
             \/ f = "tick" /\ viaTool
             \/ f = "finished" /\ (viaTool \/ o \in {"silent", "empty"})
BY DEF FinalWrite, Answers

(* Streaming and landing calls: the preview only.                          *)
LEMMA StreamDelivery ==
  ASSUME DeliveryInv, Streaming \/ Landing
  PROVE  DeliveryInv'
<1> USE TurnAssumption DEF streamVars, previewVars, turnEndVars, userVars, deliveryVars
<1>0. composePreview \in Preview
  BY DEF DeliveryInv, DeliveryTypeOK, composePreview, Preview
<1>1. CASE AgentStreams
  <2>1. PICK n \in 0..MaxChunks, s \in BOOLEAN : Chunk(n, s)
    <3>0. /\ text \in 0..MaxChunks /\ status \in BOOLEAN
          /\ text < MaxChunks => text + 1 \in 0..MaxChunks
      BY DEF DeliveryInv, DeliveryTypeOK
    <3> QED  BY <1>1, <3>0 DEF AgentStreams
  <2>2. [n |-> n, tool |-> s] \in Preview
    BY DEF Preview
  <2>3. /\ turnPhase = "run"
        /\ UNCHANGED <<canDelete, turnPhase, previewId, lastSent, strikes, editsDisabled, viaTool,
                       turnEndVars, userVars>>
    BY <1>1 DEF AgentStreams
  <2>4. /\ text' = n /\ status' = s
        /\ editInFlight' \in {editInFlight, "sending"} /\ initialText' \in Preview
        /\ flush' \in {flush, "editing"} /\ flushText' \in Preview /\ flushTimer' \in BOOLEAN
        /\ editsDisabled => flush' = flush
    BY <2>1, <2>2 DEF Chunk, EnsurePreview, FlushPreviewEdit, DeliveryInv, DeliveryTypeOK
  <2>5. DeliveryTypeOK'
    BY <2>3, <2>4 DEF DeliveryInv, DeliveryTypeOK
  <2> QED  BY <2>3, <2>4, <2>5
           DEF DeliveryInv, OutcomeAtPhase, EndAccounted, BreakerCounts, BreakerHolds
<1>2. CASE AgentSendsViaTool
  <2>1. DeliveryTypeOK'
    BY <1>2 DEF AgentSendsViaTool, DeliveryInv, DeliveryTypeOK
  <2> QED  BY <1>2, <2>1 DEF AgentSendsViaTool, DeliveryInv, OutcomeAtPhase, EndAccounted,
                             BreakerCounts, BreakerHolds
<1>3. CASE TrailingFlush
  <2>1. /\ flushTimer' \in BOOLEAN /\ flush' \in {flush, "editing"} /\ flushText' \in Preview
        /\ editsDisabled => flush' = flush
        /\ UNCHANGED <<canDelete, turnPhase, streamVars, editInFlight, initialText, previewId,
                       lastSent, strikes, editsDisabled, viaTool, turnEndVars, userVars>>
    BY <1>0, <1>3 DEF TrailingFlush, FlushPreviewEdit, DeliveryInv, DeliveryTypeOK
  <2>2. DeliveryTypeOK'
    BY <2>1 DEF DeliveryInv, DeliveryTypeOK
  <2> QED  BY <2>1, <2>2 DEF DeliveryInv, OutcomeAtPhase, EndAccounted, BreakerCounts, BreakerHolds
<1>4. CASE PreviewLands
  <2>1. /\ editInFlight' = "settled" /\ previewId' \in BOOLEAN /\ shown' \in {shown, "preview"}
        /\ lastSent' \in Preview /\ flush' \in {flush, "editing"} /\ flushText' \in Preview
        /\ editsDisabled => flush' = flush
        /\ UNCHANGED <<canDelete, turnPhase, streamVars, initialText, strikes, editsDisabled,
                       flushTimer, viaTool, turnEndVars, sent, finals>>
    BY <1>0, <1>4 DEF PreviewLands, DeliveryInv, DeliveryTypeOK
  <2>2. DeliveryTypeOK'
    BY <2>1 DEF DeliveryInv, DeliveryTypeOK
  <2> QED  BY <2>1, <2>2 DEF DeliveryInv, OutcomeAtPhase, EndAccounted, BreakerCounts, BreakerHolds
<1>5. CASE FlushLands \/ RetryLands
  <2>1. /\ flush \in {"editing", "retrying"}
        /\ UNCHANGED <<canDelete, turnPhase, streamVars, editInFlight, initialText, previewId,
                       flushText, flushTimer, viaTool, turnEndVars, sent, finals>>
    BY <1>5 DEF FlushLands, RetryLands
  <2>2. ~editsDisabled /\ strikes < MAX_FLOOD_STRIKES
    BY <2>1 DEF DeliveryInv, BreakerHolds, BreakerCounts
  <2>3. /\ flush' \in {"none", "waiting"} /\ lastSent' \in Preview
        /\ shown' \in {shown, "preview"}
        /\ strikes' \in 0..MAX_FLOOD_STRIKES /\ editsDisabled' \in BOOLEAN
        /\ ~editsDisabled' => strikes' < MAX_FLOOD_STRIKES
        /\ editsDisabled' => flush' = "none"
    <3>1. CASE Strike
      <4>0. flush' = "none" /\ strikes' = strikes + 1 /\ UNCHANGED <<lastSent, shown>>
        BY <3>1 DEF Strike
      <4>1. editsDisabled' \in BOOLEAN /\ (editsDisabled' <=> strikes + 1 >= MAX_FLOOD_STRIKES)
        <5> DEFINE open == strikes + 1 >= MAX_FLOOD_STRIKES
        <5>1. editsDisabled' = open
          BY <3>1 DEF Strike
        <5>2. open \in BOOLEAN
          OBVIOUS
        <5> HIDE DEF open
        <5>3. editsDisabled' \in BOOLEAN /\ (editsDisabled' <=> open)
          BY <5>1, <5>2, Zenon
        <5> QED  BY <5>3 DEF open
      <4>2. strikes \in Nat /\ lastSent \in Preview
        BY DEF DeliveryInv, DeliveryTypeOK
      <4> QED  BY <2>2, <4>0, <4>1, <4>2
    <3>2. CASE FlushApplied \/ FlushNotModified
      BY <2>2, <3>2 DEF FlushApplied, FlushNotModified, DeliveryInv, DeliveryTypeOK
    <3>3. CASE flush' \in {"none", "waiting"} /\ UNCHANGED <<lastSent, strikes, editsDisabled, shown>>
      BY <2>2, <3>3 DEF DeliveryInv, DeliveryTypeOK
    <3> QED  BY <1>5, <3>1, <3>2, <3>3 DEF FlushLands, RetryLands
  <2>4. DeliveryTypeOK'
    BY <2>1, <2>3 DEF DeliveryInv, DeliveryTypeOK
  <2> QED  BY <2>1, <2>3, <2>4 DEF DeliveryInv, OutcomeAtPhase, EndAccounted, BreakerCounts, BreakerHolds
<1>6. CASE RetryStarts
  <2>1. DeliveryTypeOK'
    BY <1>6 DEF RetryStarts, DeliveryInv, DeliveryTypeOK
  <2> QED  BY <1>6, <2>1 DEF RetryStarts, DeliveryInv, OutcomeAtPhase, EndAccounted,
                             BreakerCounts, BreakerHolds
<1> QED  BY <1>1, <1>2, <1>3, <1>4, <1>5, <1>6 DEF Streaming, Landing

(* The end of the turn: whichever way it goes, the outcome fits the await  *)
(* it has reached.                                                         *)
LEMMA EndDelivery ==
  ASSUME DeliveryInv, Ending \/ Delivering
  PROVE  DeliveryInv'
<1> USE TurnAssumption DEF streamVars, previewVars, turnEndVars, userVars, deliveryVars
<1> DEFINE Kept == UNCHANGED <<canDelete, text, status, editInFlight, initialText, previewId, flush,
                               flushText, lastSent, strikes, editsDisabled, viaTool>>
<1>0. ASSUME Kept, flushTimer' \in BOOLEAN,
             DeliveryTypeOK /\ turnPhase' \in {"run", "settling", "deleteSilent", "deleteOld",
                "deleteFailedEdit", "edit", "tick", "send", "partialEdit", "partialSend", "stopped",
                "notice", "finished", "done"},
             outcome' \in Outcomes \cup {"none"}, presence' \in {"running", "ok", "error", "aborted"},
             failed' \in BOOLEAN, shown' \in {"none", "preview", "final", "partial", "tick", "deleted"},
             sent' \subseteq {"tool", "final", "piece", "partial", "stopped", "notice"}, finals' \in Nat,
             OutcomeAtPhase', EndAccounted'
      PROVE  DeliveryInv'
  <2>1. DeliveryTypeOK'
    BY <1>0 DEF DeliveryTypeOK
  <2>2. BreakerCounts' /\ BreakerHolds'
    BY <1>0 DEF DeliveryInv, BreakerCounts, BreakerHolds
  <2> QED  BY <1>0, <2>1, <2>2 DEF DeliveryInv
<1>1. ASSUME NEW o \in Answers, AgentReturns(o) PROVE DeliveryInv'
  <2>1. /\ turnPhase = "run" /\ outcome' = o /\ flushTimer' = FALSE /\ Kept
        /\ UNCHANGED <<presence, failed, shown, sent, finals>>
        /\ turnPhase' = "settling" \/ turnPhase' = FinalWrite(o, editsDisabled, previewId)
    BY <1>1 DEF AgentReturns
  <2>2. OutcomeAtPhase'
    BY <2>1, FinalWriteCases DEF OutcomeAtPhase, Answers, DeliveryInv, DeliveryTypeOK
  <2>3. EndAccounted'
    BY <2>1, FinalWriteCases DEF EndAccounted, Answers, DeliveryInv, DeliveryTypeOK
  <2>4. /\ turnPhase' \in {"settling", "deleteSilent", "deleteOld", "edit", "tick", "send", "finished"}
        /\ outcome' \in Outcomes
    BY <2>1, FinalWriteCases DEF Answers, Outcomes, DeliveryInv, DeliveryTypeOK
  <2> QED  BY <1>0, <2>1, <2>2, <2>3, <2>4, ZenonT(60) DEF DeliveryInv, DeliveryTypeOK
<1>2. ASSUME NEW o \in Failures, AgentFails(o) PROVE DeliveryInv'
  <2>1. /\ turnPhase = "run" /\ outcome' = o /\ UNCHANGED flushTimer /\ Kept
        /\ UNCHANGED <<failed, shown, sent, finals>>
        /\ presence' \in {presence, "aborted"}
        /\ \/ turnPhase' = "finished" /\ (o = "limited" \/ viaTool)
           \/ turnPhase' \in {"stopped", "notice"}
           \/ turnPhase' \in {"partialEdit", "partialSend"} /\ o = "timeout" /\ text > 0
    BY <1>2 DEF AgentFails, Failures
  <2>2. OutcomeAtPhase'
    BY <2>1 DEF OutcomeAtPhase, Failures
  <2>3. EndAccounted'
    BY <2>1 DEF EndAccounted, Failures, DeliveryInv
  <2>4. outcome' \in Outcomes
    BY <2>1 DEF Failures, Outcomes
  <2> QED  BY <1>0, <2>1, <2>2, <2>3, <2>4 DEF DeliveryInv, DeliveryTypeOK
<1>3. CASE Settled
  <2>1. /\ turnPhase = "settling" /\ outcome \in Answers /\ Kept
        /\ turnPhase' = FinalWrite(outcome, editsDisabled, previewId)
        /\ UNCHANGED <<flushTimer, outcome, presence, failed, shown, sent, finals>>
    BY <1>3 DEF Settled, DeliveryInv, OutcomeAtPhase
  <2>2. OutcomeAtPhase'
    BY <2>1, FinalWriteCases DEF OutcomeAtPhase, Answers, DeliveryInv, DeliveryTypeOK
  <2>3. EndAccounted'
    BY <2>1, FinalWriteCases DEF EndAccounted, Answers, DeliveryInv, DeliveryTypeOK
  <2>4. turnPhase' \in {"deleteSilent", "deleteOld", "edit", "tick", "send", "finished"}
    BY <2>1, FinalWriteCases DEF DeliveryInv, DeliveryTypeOK
  <2> QED  BY <1>0, <2>1, <2>2, <2>3, <2>4 DEF DeliveryInv, DeliveryTypeOK
<1>4. CASE PreviewDeleted
  <2>1. /\ Kept /\ UNCHANGED <<flushTimer, outcome, presence, sent, finals>>
        /\ turnPhase \in {"deleteSilent", "deleteOld", "deleteFailedEdit"}
        /\ shown' \in {shown, "deleted"} /\ failed' \in BOOLEAN
        /\ turnPhase' = IF turnPhase = "deleteSilent" \/ viaTool THEN "finished" ELSE "send"
    BY <1>4 DEF PreviewDeleted, DeliveryInv, DeliveryTypeOK
  <2>2. /\ turnPhase = "deleteSilent" => outcome = "silent"
        /\ turnPhase # "deleteSilent" /\ ~viaTool => outcome \in {"reply", "long"}
        /\ viaTool => "tool" \in sent
        /\ finals = 0 /\ outcome # "none"
    BY <2>1 DEF OutcomeAtPhase, EndAccounted, Answers, DeliveryInv
  <2>3. OutcomeAtPhase'
    BY <2>1, <2>2 DEF OutcomeAtPhase
  <2>4. EndAccounted'
    BY <2>1, <2>2 DEF EndAccounted
  <2> QED  BY <1>0, <2>1, <2>3, <2>4 DEF DeliveryInv, DeliveryTypeOK
<1>5. CASE FinalEditLands
  <2>1. /\ Kept /\ UNCHANGED <<flushTimer, outcome, presence, sent>>
        /\ turnPhase = "edit" /\ finals = 0
        /\ \/ shown' = "final" /\ finals' = 1 /\ turnPhase' = "finished" /\ UNCHANGED failed
           \/ /\ failed' = TRUE /\ turnPhase' \in {"deleteFailedEdit", "send"}
              /\ UNCHANGED <<shown, finals>>
    BY <1>5 DEF FinalEditLands, DeliveryInv, EndAccounted
  <2>2. OutcomeAtPhase' /\ EndAccounted'
    BY <2>1 DEF OutcomeAtPhase, EndAccounted, DeliveryInv
  <2>3. failed' \in BOOLEAN
    BY <2>1, Zenon DEF DeliveryInv, DeliveryTypeOK
  <2>5. finals' \in Nat /\ shown' \in {shown, "final"}
    BY <2>1 DEF DeliveryInv, DeliveryTypeOK
  <2>4. turnPhase' \in {"finished", "deleteFailedEdit", "send"}
    BY <2>1
  <2> QED  BY <1>0, <2>1, <2>2, <2>3, <2>4, <2>5 DEF DeliveryInv, DeliveryTypeOK
<1>6. CASE TickLands
  <2>1. /\ Kept /\ UNCHANGED <<flushTimer, outcome, presence, sent, finals>>
        /\ turnPhase = "tick" /\ turnPhase' = "finished"
        /\ shown' \in {shown, "tick"} /\ failed' \in BOOLEAN
    BY <1>6 DEF TickLands, DeliveryInv, DeliveryTypeOK
  <2>2. OutcomeAtPhase' /\ EndAccounted'
    BY <2>1 DEF OutcomeAtPhase, EndAccounted, Answers, DeliveryInv
  <2> QED  BY <1>0, <2>1, <2>2 DEF DeliveryInv, DeliveryTypeOK
<1>7. CASE FinalSendLands
  <2>1. /\ Kept /\ UNCHANGED <<flushTimer, presence, shown>>
        /\ turnPhase = "send" /\ finals = 0
        /\ \/ /\ sent' = sent \cup {"final"} /\ finals' = 1 /\ turnPhase' = "finished"
              /\ UNCHANGED <<failed, outcome>>
           \/ /\ failed' = TRUE /\ outcome' \in {"error", "limited"}
              /\ turnPhase' \in {"finished", "notice"}
              /\ sent' \in {sent, sent \cup {"piece"}} /\ UNCHANGED finals
    BY <1>7 DEF FinalSendLands, DeliveryInv, EndAccounted
  <2>2. OutcomeAtPhase'
    BY <2>1 DEF OutcomeAtPhase, Failures, DeliveryInv
  <2>3. EndAccounted'
    BY <2>1 DEF EndAccounted, DeliveryInv
  <2>4. sent' \subseteq {"tool", "final", "piece", "partial", "stopped", "notice"}
    BY <2>1 DEF DeliveryInv, DeliveryTypeOK
  <2>5. outcome' \in Outcomes \cup {"none"} /\ failed' \in BOOLEAN
    BY <2>1 DEF DeliveryInv, DeliveryTypeOK, Outcomes
  <2> QED  BY <1>0, <2>1, <2>2, <2>3, <2>4, <2>5 DEF DeliveryInv, DeliveryTypeOK
<1>8. CASE PartialEditLands
  <2>1. /\ Kept /\ UNCHANGED <<flushTimer, outcome, presence, sent, finals>>
        /\ turnPhase = "partialEdit"
        /\ \/ shown' = "partial" /\ turnPhase' = "finished" /\ UNCHANGED failed
           \/ failed' = TRUE /\ turnPhase' = "partialSend" /\ UNCHANGED shown
    BY <1>8 DEF PartialEditLands
  <2>2. OutcomeAtPhase' /\ EndAccounted'
    BY <2>1 DEF OutcomeAtPhase, EndAccounted, DeliveryInv
  <2> QED  BY <1>0, <2>1, <2>2, ZenonT(60) DEF DeliveryInv, DeliveryTypeOK
<1>9. CASE NoticeLands
  <2>1. /\ Kept /\ UNCHANGED <<flushTimer, outcome, presence, shown, finals>>
        /\ turnPhase \in {"partialSend", "stopped", "notice"} /\ turnPhase' = "finished"
        /\ \/ (\E x \in {"partial", "stopped", "notice"} : sent' = sent \cup {x}) /\ UNCHANGED failed
           \/ failed' = TRUE /\ UNCHANGED sent
    BY <1>9 DEF NoticeLands
  <2>2. OutcomeAtPhase' /\ EndAccounted'
    BY <2>1 DEF OutcomeAtPhase, EndAccounted, Failures, DeliveryInv
  <2>3. sent' \subseteq {"tool", "final", "piece", "partial", "stopped", "notice"} /\ failed' \in BOOLEAN
    BY <2>1 DEF DeliveryInv, DeliveryTypeOK
  <2> QED  BY <1>0, <2>1, <2>2, <2>3 DEF DeliveryInv, DeliveryTypeOK
<1>10. CASE Finish
  <2>1. /\ Kept /\ UNCHANGED <<outcome, failed, shown, sent, finals>>
        /\ flushTimer' = FALSE /\ presence' \in {presence, "error", "ok"}
        /\ turnPhase = "finished" /\ turnPhase' = "done"
    BY <1>10 DEF Finish
  <2>2. OutcomeAtPhase' /\ EndAccounted'
    BY <2>1 DEF OutcomeAtPhase, EndAccounted, DeliveryInv
  <2> QED  BY <1>0, <2>1, <2>2 DEF DeliveryInv, DeliveryTypeOK
<1> QED
  BY <1>1, <1>2, <1>3, <1>4, <1>5, <1>6, <1>7, <1>8, <1>9, <1>10
  DEF Ending, Delivering, Answers, Failures

(* Every step of a turn keeps its invariant.                               *)
LEMMA DeliveryStep == DeliveryInv /\ [DeliveryNext]_deliveryVars => DeliveryInv'
<1> SUFFICES ASSUME DeliveryInv, [DeliveryNext]_deliveryVars PROVE DeliveryInv'
  OBVIOUS
<1>1. CASE UNCHANGED deliveryVars
  BY <1>1 DEF deliveryVars, streamVars, previewVars, turnEndVars, userVars, DeliveryInv,
              DeliveryTypeOK, OutcomeAtPhase, EndAccounted, BreakerCounts, BreakerHolds
<1> QED  BY <1>1, StreamDelivery, EndDelivery DEF DeliveryNext

-----------------------------------------------------------------------------
(* The reasoning lane.                                                     *)

(* Every variable of the lane has its type.                                *)
LaneTypeOK ==
  /\ lanePhase \in {"run", "settling", "answering", "grace", "cleaning", "leaving", "done"}
  /\ laneOutcome \in {"none", "answered", "silent", "failed"}
  /\ streaming \in BOOLEAN /\ laneTimer \in BOOLEAN /\ laneId \in BOOLEAN /\ laneLate \in BOOLEAN
  /\ laneCall \in [call : {"none", "send", "edit"}, body : Nat]
  /\ thinking \in Nat /\ lanePosts \in {0, 1}

(* The lane is quiet from the moment its timer is cancelled on.            *)
LaneQuiet == ~streaming /\ ~laneTimer

(* What each stage of the turn's end knows of the calls in flight.         *)
LaneStages ==
  /\ lanePhase = "settling" => ~streaming
  /\ lanePhase \in {"answering", "grace", "cleaning"} => LaneQuiet
  /\ lanePhase \in {"run", "settling", "answering"} <=> laneOutcome = "none"
  /\ lanePhase \in {"grace", "cleaning"} => laneOutcome = "answered"
  /\ lanePhase = "cleaning" => laneId
  /\ laneOutcome = "answered" => LaneQuiet
  /\ lanePhase \in {"run", "settling", "answering", "grace"} => ~laneLate

(* One message: a send is under way only while none has reached the user,  *)
(* and a message that was cleaned up is not sent again.                    *)
LaneOneMessage ==
  /\ laneCall.call = "send" => lanePosts = 0
  /\ laneId => lanePosts = 1
  /\ lanePosts = 1 /\ ~laneId =>
       laneOutcome = "answered" /\ lanePhase \in {"leaving", "done"}

(* What is shown is under the lane's control, or the turn left too early.  *)
LaneInHand ==
  /\ ~laneId /\ ~laneLate => laneBoard # "thinking" /\ laneCall.call # "edit"
  /\ lanePhase = "cleaning" /\ ~laneLate => LaneIdle
  /\ lanePhase \in {"leaving", "done"} /\ laneOutcome = "answered" /\ ~laneLate
       => LaneIdle /\ ~laneId

(* The inductive invariant of the lane.                                    *)
LaneInv == LaneTypeOK /\ LaneStages /\ LaneOneMessage /\ LaneInHand

(* A lane starts in it.                                                    *)
LEMMA LaneStart == LaneInit => LaneInv
<1> SUFFICES ASSUME LaneInit PROVE LaneInv
  OBVIOUS
<1>1. laneCall \in [call : {"none", "send", "edit"}, body : Nat] /\ laneCall.call = "none"
  BY DEF LaneInit, NoLaneCall
<1>2. LaneTypeOK
  BY <1>1 DEF LaneInit, LaneTypeOK
<1>3. LaneStages /\ LaneOneMessage /\ LaneInHand
  BY <1>1 DEF LaneInit, LaneStages, LaneQuiet, LaneOneMessage, LaneInHand, LaneIdle
<1> QED  BY <1>2, <1>3 DEF LaneInv

(* A flush is ignored, arms the timer, or starts a call on the one message *)
(* there is.                                                               *)
LEMMA FlushCases ==
  ASSUME LaneInv, NEW body \in Nat, FlushReasoning(body)
  PROVE  \/ UNCHANGED <<laneCall, laneTimer>>
         \/ laneTimer' = TRUE /\ UNCHANGED laneCall /\ laneId
         \/ /\ laneTimer' = FALSE /\ laneCall.call = "none"
            /\ laneCall' \in [call : {"none", "send", "edit"}, body : Nat]
            /\ laneCall'.call = IF laneId THEN "edit" ELSE "send"
BY DEF FlushReasoning, LaneIdle

(* Every step of the lane keeps it.                                        *)
LEMMA LaneStep == LaneInv /\ [LaneNext]_laneVars => LaneInv'
<1> SUFFICES ASSUME LaneInv, [LaneNext]_laneVars PROVE LaneInv'
  OBVIOUS
<1> USE DEF LaneInv, LaneIdle
<1>1. CASE ThinkingChunk
  <2>1. /\ streaming /\ thinking' \in Nat /\ FlushReasoning(thinking + 1) /\ thinking + 1 \in Nat
        /\ UNCHANGED <<laneDeletes, lanePhase, laneOutcome, streaming, laneId, laneSent, laneBoard,
                       lanePosts, laneLate>>
    BY <1>1 DEF ThinkingChunk, LaneTypeOK
  <2>2. lanePhase \in {"run", "leaving", "done"} /\ laneOutcome # "answered"
    BY <2>1 DEF LaneStages, LaneQuiet, LaneTypeOK
  <2>3. CASE UNCHANGED <<laneCall, laneTimer>>
    BY <2>1, <2>3 DEF LaneTypeOK, LaneStages, LaneQuiet, LaneOneMessage, LaneInHand
  <2>4. CASE laneTimer' = TRUE /\ UNCHANGED laneCall /\ laneId
    BY <2>1, <2>2, <2>4 DEF LaneTypeOK, LaneStages, LaneQuiet, LaneOneMessage, LaneInHand
  <2>5. CASE /\ laneTimer' = FALSE /\ laneCall.call = "none"
             /\ laneCall' \in [call : {"none", "send", "edit"}, body : Nat]
             /\ laneCall'.call = IF laneId THEN "edit" ELSE "send"
    BY <2>1, <2>2, <2>5 DEF LaneTypeOK, LaneStages, LaneQuiet, LaneOneMessage, LaneInHand
  <2> QED  BY <2>1, <2>3, <2>4, <2>5, FlushCases
<1>2. CASE LaneTimerFires
  <2>1. /\ laneTimer /\ laneTimer' = FALSE
        /\ UNCHANGED <<laneDeletes, lanePhase, laneOutcome, streaming, thinking, laneId, laneSent,
                       laneBoard, lanePosts, laneLate>>
    BY <1>2 DEF LaneTimerFires
  <2>2. lanePhase \in {"run", "settling", "leaving", "done"} /\ laneOutcome # "answered"
    BY <2>1 DEF LaneStages, LaneQuiet, LaneTypeOK
  <2>3. CASE UNCHANGED laneCall
    BY <2>1, <2>3 DEF LaneTypeOK, LaneStages, LaneQuiet, LaneOneMessage, LaneInHand
  <2>4. CASE laneCall' = [call |-> IF laneId THEN "edit" ELSE "send", body |-> thinking]
    <3>1. /\ laneCall' \in [call : {"none", "send", "edit"}, body : Nat]
          /\ laneCall'.call = IF laneId THEN "edit" ELSE "send"
      BY <2>4 DEF LaneTypeOK
    <3> QED  BY <2>1, <2>2, <3>1 DEF LaneTypeOK, LaneStages, LaneQuiet, LaneOneMessage, LaneInHand
  <2> QED  BY <1>2, <2>3, <2>4 DEF LaneTimerFires
<1>3. CASE LaneCallLands
  <2>1. /\ laneCall.call # "none" /\ laneCall'.call = "none"
        /\ laneCall' \in [call : {"none", "send", "edit"}, body : Nat]
        /\ UNCHANGED <<lanePhase, laneOutcome, streaming, thinking, laneTimer, laneLate>>
    BY <1>3 DEF LaneCallLands, NoLaneCall
  <2>2. CASE /\ laneCall.call = "send" /\ laneId' = TRUE /\ lanePosts' = lanePosts + 1
             /\ laneBoard' = "thinking"
    BY <2>1, <2>2 DEF LaneTypeOK, LaneStages, LaneQuiet, LaneOneMessage, LaneInHand
  <2>3. CASE laneCall.call = "edit" /\ laneBoard' = "thinking" /\ UNCHANGED <<laneId, lanePosts>>
    BY <2>1, <2>3 DEF LaneTypeOK, LaneStages, LaneQuiet, LaneOneMessage, LaneInHand
  <2>4. CASE UNCHANGED <<laneId, lanePosts, laneBoard>>
    BY <2>1, <2>4 DEF LaneTypeOK, LaneStages, LaneQuiet, LaneOneMessage, LaneInHand
  <2> QED  BY <1>3, <2>2, <2>3, <2>4 DEF LaneCallLands
<1>4. CASE LaneAgentReturns \/ LaneSilent \/ LaneAnswers
  <2>1. LaneTypeOK'
    BY <1>4 DEF LaneAgentReturns, LaneSilent, LaneAnswers, LaneTypeOK
  <2>2. LaneStages'
    BY <1>4 DEF LaneAgentReturns, LaneSilent, LaneAnswers, LaneTypeOK, LaneStages, LaneQuiet
  <2>3. LaneOneMessage' /\ LaneInHand'
    BY <1>4 DEF LaneAgentReturns, LaneSilent, LaneAnswers, LaneStages, LaneOneMessage, LaneInHand
  <2> QED  BY <2>1, <2>2, <2>3
<1>5. CASE LaneAnswered
  BY <1>5 DEF LaneAnswered, LaneTypeOK, LaneStages, LaneQuiet, LaneOneMessage, LaneInHand
<1>6. CASE LaneGraceEnds
  BY <1>6 DEF LaneGraceEnds, LaneTypeOK, LaneStages, LaneQuiet, LaneOneMessage, LaneInHand
<1>7. CASE LaneCleaned
  BY <1>7 DEF LaneCleaned, LaneTypeOK, LaneStages, LaneQuiet, LaneOneMessage, LaneInHand
<1>8. CASE LaneTurnFails \/ LaneTurnEnds
  <2>1. LaneTypeOK'
    BY <1>8 DEF LaneTurnFails, LaneTurnEnds, LaneTypeOK
  <2>2. LaneStages'
    BY <1>8 DEF LaneTurnFails, LaneTurnEnds, LaneTypeOK, LaneStages, LaneQuiet
  <2>3. LaneOneMessage' /\ LaneInHand'
    BY <1>8 DEF LaneTurnFails, LaneTurnEnds, LaneStages, LaneOneMessage, LaneInHand
  <2> QED  BY <2>1, <2>2, <2>3
<1>9. CASE UNCHANGED laneVars
  BY <1>9 DEF laneVars, LaneTypeOK, LaneStages, LaneQuiet, LaneOneMessage, LaneInHand
<1> QED  BY <1>1, <1>2, <1>3, <1>4, <1>5, <1>6, <1>7, <1>8, <1>9 DEF LaneNext

-----------------------------------------------------------------------------
(* The daemon around its workers.                                          *)

(* The daemon has seen m, whether or not the dedup map still has it.       *)
Known(m) == m \in Range(dedup) \cup forgotten

(* An id let go by the dedup map is in `forgotten`; what is on its way to  *)
(* a worker, or was there, is known or forgotten.                          *)
DedupCovers ==
  /\ \A i \in DOMAIN acking : acking[i] \notin Synthetic /\ Known(acking[i])
  /\ \A i \in DOMAIN dispatched : dispatched[i] \in Synthetic \/ Known(dispatched[i])
  /\ \A i, j \in DOMAIN acking : acking[i] = acking[j] /\ i # j => acking[i] \in forgotten
  /\ \A i \in DOMAIN acking, j \in DOMAIN dispatched :
       acking[i] = dispatched[j] => acking[i] \in forgotten

(* The router's map finds the worker that has the work of a key.           *)
MapCurrent ==
  /\ \A k \in Keys : worker[k] # 0 => wk[worker[k]].key = k
  /\ phase # "stopped" => \A w \in DOMAIN wk : ~WorkerIsIdle(w) => worker[wk[w].key] = w
  /\ phase = "running" => \A k \in Keys : worker[k] # 0 => wk[worker[k]].state = "live"

(* The inductive invariant of the daemon.                                  *)
GatewayInv ==
  GatewayTypeOK /\ DedupCovers /\ DispatchOnce /\ MapCurrent /\ ThreadSingleWriter

(* A daemon starts in it.                                                  *)
LEMMA GatewayStart == GatewayInit => GatewayInv
<1> SUFFICES ASSUME GatewayInit PROVE GatewayInv
  OBVIOUS
<1>1. GatewayTypeOK
  BY GatewayAssumption DEF GatewayInit, GatewayTypeOK, Phases
<1>2. DedupCovers /\ DispatchOnce
  BY DEF GatewayInit, DedupCovers, DispatchOnce
<1>3. MapCurrent /\ ThreadSingleWriter
  BY DEF GatewayInit, MapCurrent, ThreadSingleWriter
<1> QED  BY <1>1, <1>2, <1>3 DEF GatewayInv

(* The elements of two sequences joined.                                   *)
LEMMA ConcatElements ==
  ASSUME NEW S, NEW s \in Seq(S), NEW t \in Seq(S)
  PROVE  /\ s \o t \in Seq(S) /\ Len(s \o t) = Len(s) + Len(t)
         /\ \A a \in 1..Len(s) : (s \o t)[a] = s[a]
         /\ \A a \in (Len(s) + 1)..(Len(s) + Len(t)) : (s \o t)[a] = t[a - Len(s)]
OBVIOUS

(* The elements of a sequence cut after the n-th.                          *)
LEMMA CutElements ==
  ASSUME NEW S, NEW s \in Seq(S), NEW n \in Nat, n <= Len(s)
  PROVE  LET f == SubSeq(s, 1, n)
             r == SubSeq(s, n + 1, Len(s))
         IN  /\ f \in Seq(S) /\ Len(f) = n /\ \A i \in 1..n : f[i] = s[i]
             /\ r \in Seq(S) /\ Len(r) = Len(s) - n /\ \A i \in 1..(Len(s) - n) : r[i] = s[n + i]
OBVIOUS

(* Taking the i-th element out of a sequence.                              *)
LEMMA RemoveAtElements ==
  ASSUME NEW S, NEW s \in Seq(S), NEW i \in 1..Len(s)
  PROVE  /\ RemoveAt(s, i) \in Seq(S) /\ Len(RemoveAt(s, i)) = Len(s) - 1
         /\ \A a \in 1..(Len(s) - 1) : RemoveAt(s, i)[a] = IF a < i THEN s[a] ELSE s[a + 1]
<1> DEFINE f == SubSeq(s, 1, i - 1)
           r == SubSeq(s, i + 1, Len(s))
<1>1. /\ f \in Seq(S) /\ Len(f) = i - 1 /\ \A a \in 1..(i - 1) : f[a] = s[a]
      /\ r \in Seq(S) /\ Len(r) = Len(s) - i /\ \A a \in 1..(Len(s) - i) : r[a] = s[i + a]
  OBVIOUS
<1> HIDE DEF f, r
<1>2. /\ f \o r \in Seq(S) /\ Len(f \o r) = Len(f) + Len(r)
      /\ \A a \in 1..Len(f) : (f \o r)[a] = f[a]
      /\ \A a \in (Len(f) + 1)..(Len(f) + Len(r)) : (f \o r)[a] = r[a - Len(f)]
  BY <1>1, ConcatElements
<1>3. ASSUME NEW a \in 1..(Len(s) - 1) PROVE (f \o r)[a] = IF a < i THEN s[a] ELSE s[a + 1]
  <2>1. CASE a < i
    BY <1>1, <1>2, <2>1
  <2>2. CASE ~(a < i)
    <3>1. /\ a \in (Len(f) + 1)..(Len(f) + Len(r)) /\ a - Len(f) \in 1..(Len(s) - i)
          /\ i + (a - Len(f)) = a + 1
      BY <1>1, <2>2
    <3> QED  BY <1>1, <1>2, <2>2, <3>1
  <2> QED  BY <2>1, <2>2
<1>4. Len(f) + Len(r) = Len(s) - 1
  BY <1>1
<1> QED  BY <1>2, <1>3, <1>4 DEF RemoveAt, f, r

(* isDuplicate records the id and forgets at most the oldest one.          *)
LEMMA RecordIdKeeps ==
  ASSUME GatewayTypeOK, NEW m \in Inbounds, RecordId(m)
  PROVE  /\ dedup' \in Seq(Inbounds) /\ Len(dedup') <= maxDeduplicationEntries
         /\ forgotten \subseteq forgotten' /\ forgotten' \subseteq Inbounds
         /\ Known(m)' /\ \A x : Known(x) => Known(x)'
<1>0. /\ dedup \in Seq(Inbounds) /\ Len(dedup) \in Nat /\ maxDeduplicationEntries \in Nat \ {0}
      /\ Len(dedup) <= maxDeduplicationEntries /\ forgotten \subseteq Inbounds
  BY GatewayAssumption DEF GatewayTypeOK
<1>1. CASE Len(dedup) >= maxDeduplicationEntries
  <2>0. dedup # << >>
    BY <1>0, <1>1
  <2> DEFINE t == Tail(dedup)
  <2>1. /\ t \in Seq(Inbounds) /\ Len(t) = Len(dedup) - 1 /\ Head(dedup) = dedup[1]
        /\ Head(dedup) \in Inbounds /\ \A i \in 1..(Len(dedup) - 1) : t[i] = dedup[i + 1]
    BY <1>0, <2>0
  <2>2. dedup' = Append(t, m) /\ forgotten' = forgotten \cup {Head(dedup)}
    BY <1>1 DEF RecordId
  <2> HIDE DEF t
  <2>3. /\ dedup' \in Seq(Inbounds) /\ Len(dedup') = Len(t) + 1
        /\ \A i \in 1..Len(t) : dedup'[i] = t[i]
        /\ dedup'[Len(t) + 1] = m
    BY <2>1, <2>2
  <2>4. DOMAIN dedup' = 1..Len(dedup) /\ DOMAIN dedup = 1..Len(dedup)
    BY <1>0, <2>1, <2>3
  <2>5. m \in Range(dedup')
    BY <1>0, <2>0, <2>1, <2>3, <2>4 DEF Range
  <2>6. ASSUME NEW x \in Range(dedup) PROVE x \in Range(dedup') \/ x = Head(dedup)
    <3>1. PICK i \in 1..Len(dedup) : x = dedup[i]
      BY <2>4 DEF Range
    <3>2. CASE i = 1
      BY <2>1, <3>1, <3>2
    <3>3. CASE i # 1
      <4>1. i - 1 \in 1..Len(t) /\ i - 1 \in DOMAIN dedup' /\ (i - 1) + 1 = i
        BY <1>0, <2>1, <2>4, <3>3
      <4>2. dedup'[i - 1] = x
        BY <2>1, <2>3, <3>1, <4>1
      <4> QED  BY <4>1, <4>2 DEF Range
    <3> QED  BY <3>2, <3>3
  <2>7. Len(dedup') <= maxDeduplicationEntries
    BY <1>0, <2>1, <2>3
  <2> QED  BY <1>0, <2>1, <2>2, <2>3, <2>5, <2>6, <2>7 DEF Known
<1>2. CASE ~(Len(dedup) >= maxDeduplicationEntries)
  <2>1. dedup' = Append(dedup, m) /\ UNCHANGED forgotten
    BY <1>2 DEF RecordId
  <2>2. /\ dedup' \in Seq(Inbounds) /\ Len(dedup') = Len(dedup) + 1
        /\ \A i \in 1..Len(dedup) : dedup'[i] = dedup[i]
        /\ dedup'[Len(dedup) + 1] = m
        /\ DOMAIN dedup' = 1..(Len(dedup) + 1) /\ DOMAIN dedup = 1..Len(dedup)
    BY <1>0, <2>1
  <2>3. m \in Range(dedup') /\ Range(dedup) \subseteq Range(dedup')
    BY <1>0, <2>2 DEF Range
  <2> QED  BY <1>0, <1>2, <2>1, <2>2, <2>3 DEF Known
<1> QED  BY <1>1, <1>2

(* The sweep drops entries from the front and forgets them.                *)
LEMMA SweepDedupKeeps ==
  ASSUME GatewayTypeOK, SweepDedup
  PROVE  /\ dedup' \in Seq(Inbounds) /\ Len(dedup') <= maxDeduplicationEntries
         /\ forgotten \subseteq forgotten' /\ forgotten' \subseteq Inbounds
         /\ \A x : Known(x) => Known(x)'
<1>0. /\ dedup \in Seq(Inbounds) /\ Len(dedup) \in Nat /\ maxDeduplicationEntries \in Nat
      /\ Len(dedup) <= maxDeduplicationEntries /\ forgotten \subseteq Inbounds
      /\ DOMAIN dedup = 1..Len(dedup)
  BY GatewayAssumption DEF GatewayTypeOK
<1>1. PICK n \in 1..Len(dedup) :
        /\ dedup' = SubSeq(dedup, n + 1, Len(dedup))
        /\ forgotten' = forgotten \cup Range(SubSeq(dedup, 1, n))
  BY DEF SweepDedup
<1> DEFINE f == SubSeq(dedup, 1, n)
<1>2. n \in Nat /\ n <= Len(dedup)
  BY <1>0, SMTT(30)
<1>3. /\ f \in Seq(Inbounds) /\ Len(f) = n /\ \A i \in 1..n : f[i] = dedup[i]
      /\ dedup' \in Seq(Inbounds) /\ Len(dedup') = Len(dedup) - n
      /\ \A i \in 1..(Len(dedup) - n) : dedup'[i] = dedup[n + i]
  BY <1>0, <1>1, <1>2, CutElements, ZenonT(60)
<1> HIDE DEF f
<1>4. DOMAIN f = 1..n /\ DOMAIN dedup' = 1..(Len(dedup) - n)
  BY <1>3
<1>5. ASSUME NEW x \in Range(dedup) PROVE x \in Range(dedup') \cup Range(f)
  <2>1. PICK i \in 1..Len(dedup) : x = dedup[i]
    BY <1>0 DEF Range
  <2>2. CASE i <= n
    BY <1>4, <1>3, <2>1, <2>2, SMTT(30) DEF Range
  <2>3. CASE ~(i <= n)
    <3>1. i - n \in DOMAIN dedup' /\ n + (i - n) = i
      BY <1>0, <1>4, <1>2, <2>3
    <3>2. dedup'[i - n] = x
      BY <1>4, <1>3, <2>1, <3>1
    <3> QED  BY <3>1, <3>2 DEF Range
  <2> QED  BY <2>2, <2>3
<1>6. forgotten' = forgotten \cup Range(f) /\ Range(f) \subseteq Inbounds
  <2>1. forgotten' = forgotten \cup Range(f)
    BY <1>1 DEF f
  <2> QED  BY <1>3, <2>1 DEF Range
<1>7. Len(dedup') <= maxDeduplicationEntries
  BY <1>0, <1>2, <1>3
<1> QED  BY <1>0, <1>4, <1>3, <1>5, <1>6, <1>7 DEF Known

(* Nothing about past messages changes when ids are only let go.           *)
LEMMA DedupKept ==
  ASSUME DedupCovers, DispatchOnce, forgotten \subseteq forgotten',
         \A x : Known(x) => Known(x)', UNCHANGED <<acking, dispatched>>
  PROVE  DedupCovers' /\ DispatchOnce'
<1>1. DedupCovers'
  BY DEF DedupCovers
<1>2. DispatchOnce'
  BY DEF DispatchOnce
<1> QED  BY <1>1, <1>2

(* Routing appends to the record of dispatched messages; the rest of what  *)
(* it does is in the router's map.                                         *)
LEMMA RouteDedup ==
  ASSUME GatewayTypeOK, DedupCovers, DispatchOnce, NEW m \in Inbounds,
         dispatched' = Append(dispatched, m), UNCHANGED <<dedup, forgotten>>,
         m \in Synthetic \/ Known(m),
         \A j \in DOMAIN dispatched : dispatched[j] = m => m \in forgotten,
         \A a \in DOMAIN acking' : acking'[a] \notin Synthetic /\ Known(acking'[a]),
         \A a, b \in DOMAIN acking' : acking'[a] = acking'[b] /\ a # b => acking'[a] \in forgotten,
         \A a \in DOMAIN acking', j \in DOMAIN dispatched :
            acking'[a] = dispatched[j] => acking'[a] \in forgotten,
         \A a \in DOMAIN acking' : acking'[a] = m => m \in forgotten
  PROVE  DedupCovers' /\ DispatchOnce'
<1>0. dispatched \in Seq(Inbounds)
  BY DEF GatewayTypeOK
<1>1. /\ DOMAIN dispatched' = 1..(Len(dispatched) + 1) /\ DOMAIN dispatched = 1..Len(dispatched)
      /\ \A j \in 1..Len(dispatched) : dispatched'[j] = dispatched[j]
      /\ dispatched'[Len(dispatched) + 1] = m /\ Len(dispatched) \in Nat
  BY <1>0
<1>2. \A x : Known(x)' <=> Known(x)
  BY DEF Known
<1>3. \A j \in DOMAIN dispatched' : dispatched'[j] \in Synthetic \/ Known(dispatched'[j])
  BY <1>1 DEF DedupCovers
<1>4. \A a \in DOMAIN acking', j \in DOMAIN dispatched' :
        acking'[a] = dispatched'[j] => acking'[a] \in forgotten
  BY <1>1
<1>5. DedupCovers'
  BY <1>2, <1>3, <1>4 DEF DedupCovers
<1>6. DispatchOnce'
  BY <1>1 DEF DispatchOnce
<1> QED  BY <1>5, <1>6

(* One worker changes; its key does not.                                   *)
LEMMA OneWorkerChanges ==
  ASSUME GatewayTypeOK, NEW w \in DOMAIN wk, NEW r \in Worker, r.key = wk[w].key,
         wk' = [wk EXCEPT ![w] = r]
  PROVE  /\ wk' \in Seq(Worker) /\ Len(wk') = Len(wk) /\ DOMAIN wk' = DOMAIN wk
         /\ wk'[w] = r /\ \A v \in DOMAIN wk : v # w => wk'[v] = wk[v]
         /\ \A v \in DOMAIN wk : wk'[v].key = wk[v].key
BY DEF GatewayTypeOK

(* While the router is up a worker with work is the one its key maps to,   *)
(* so no two workers of a key have any.                                    *)
LEMMA MapGivesSingleWriter ==
  ASSUME MapCurrent, phase # "stopped"
  PROVE  ThreadSingleWriter
BY DEF MapCurrent, ThreadSingleWriter

(* router.route: the message goes to the worker the map names, or to a new *)
(* one that the map will name.                                             *)
LEMMA RouteMap ==
  ASSUME GatewayInv, NEW m \in Inbounds, RouterUp, RouteToWorker(m), UNCHANGED <<phase, stops>>
  PROVE  /\ wk' \in Seq(Worker) /\ worker' \in [Keys -> 0..Len(wk')] /\ stops' \subseteq DOMAIN wk'
         /\ dispatched' = Append(dispatched, m) /\ dispatched' \in Seq(Inbounds)
         /\ MapCurrent' /\ ThreadSingleWriter'
<1> DEFINE k == KeyOf[m]
<1>0. /\ k \in Keys /\ wk \in Seq(Worker) /\ worker \in [Keys -> 0..Len(wk)]
      /\ stops \subseteq DOMAIN wk /\ DOMAIN wk = 1..Len(wk) /\ Len(wk) \in Nat
      /\ dispatched \in Seq(Inbounds) /\ phase # "stopped" /\ MapCurrent
  BY GatewayAssumption DEF GatewayInv, GatewayTypeOK, RouterUp
<1>1. dispatched' = Append(dispatched, m) /\ dispatched' \in Seq(Inbounds)
  BY <1>0 DEF RouteToWorker
<1>2. CASE worker[k] = 0
  <2> DEFINE r == [key |-> k, inbox |-> <<m>>, turn |-> None, state |-> "live"]
  <2>1. wk' = Append(wk, r) /\ worker' = [worker EXCEPT ![k] = Len(wk) + 1]
    BY <1>2 DEF RouteToWorker
  <2>2. r \in Worker /\ r.key = k /\ r.state = "live"
    BY <1>0 DEF Worker
  <2> HIDE DEF r
  <2>3. /\ wk' \in Seq(Worker) /\ Len(wk') = Len(wk) + 1 /\ DOMAIN wk' = 1..(Len(wk) + 1)
        /\ wk'[Len(wk) + 1] = r /\ \A v \in DOMAIN wk : wk'[v] = wk[v]
    BY <1>0, <2>1, <2>2
  <2>4. /\ worker' \in [Keys -> 0..Len(wk')] /\ worker'[k] = Len(wk) + 1
        /\ \A j \in Keys : j # k => worker'[j] = worker[j]
    BY <1>0, <2>1, <2>3
  <2>5. \A j \in Keys : worker'[j] # 0 => wk'[worker'[j]].key = j
    <3> SUFFICES ASSUME NEW j \in Keys, worker'[j] # 0 PROVE wk'[worker'[j]].key = j
      OBVIOUS
    <3>1. CASE j = k
      BY <2>2, <2>3, <2>4, <3>1
    <3>2. CASE j # k
      <4>1. worker'[j] = worker[j] /\ worker[j] \in DOMAIN wk
        BY <1>0, <2>4, <3>2
      <4> QED  BY <1>0, <2>3, <4>1 DEF MapCurrent
    <3> QED  BY <3>1, <3>2
  <2>6. \A v \in DOMAIN wk' : ~WorkerIsIdle(v)' => worker'[wk'[v].key] = v
    <3> SUFFICES ASSUME NEW v \in DOMAIN wk', ~WorkerIsIdle(v)' PROVE worker'[wk'[v].key] = v
      OBVIOUS
    <3>1. CASE v = Len(wk) + 1
      BY <2>2, <2>3, <2>4, <3>1
    <3>2. CASE v # Len(wk) + 1
      <4>1. v \in DOMAIN wk /\ wk'[v] = wk[v] /\ ~WorkerIsIdle(v)
        BY <1>0, <2>3, <3>2 DEF WorkerIsIdle
      <4>2. worker[wk[v].key] = v /\ wk[v].key \in Keys /\ v # 0
        <5>1. wk[v] \in Worker /\ v # 0
          BY <1>0, <4>1
        <5>2. wk[v].key \in Keys
          BY <5>1 DEF Worker
        <5> QED  BY <1>0, <4>1, <5>1, <5>2 DEF MapCurrent
      <4>3. wk[v].key # k
        BY <1>2, <4>2
      <4> QED  BY <2>4, <4>1, <4>2, <4>3
    <3> QED  BY <3>1, <3>2
  <2>7. phase' = "running" => \A j \in Keys : worker'[j] # 0 => wk'[worker'[j]].state = "live"
    <3> SUFFICES ASSUME phase = "running", NEW j \in Keys, worker'[j] # 0
                 PROVE  wk'[worker'[j]].state = "live"
      OBVIOUS
    <3>1. CASE j = k
      BY <2>2, <2>3, <2>4, <3>1
    <3>2. CASE j # k
      <4>1. worker'[j] = worker[j] /\ worker[j] \in DOMAIN wk
        BY <1>0, <2>4, <3>2
      <4> QED  BY <1>0, <2>3, <4>1 DEF MapCurrent
    <3> QED  BY <3>1, <3>2
  <2>8. MapCurrent'
    BY <2>5, <2>6, <2>7 DEF MapCurrent
  <2>9. ThreadSingleWriter'
    <3>1. \A u, v \in DOMAIN wk' : wk'[u].key = wk'[v].key /\ u # v
            => WorkerIsIdle(u)' \/ WorkerIsIdle(v)'
      BY <2>6
    <3> QED  BY <3>1 DEF ThreadSingleWriter
  <2>10. stops' \subseteq DOMAIN wk'
    BY <1>0, <2>3
  <2> QED  BY <1>1, <2>3, <2>4, <2>8, <2>9, <2>10
<1>3. CASE worker[k] # 0
  <2> DEFINE w == worker[k]
             r == [wk[w] EXCEPT !.inbox = Append(@, m)]
  <2>0. w \in DOMAIN wk
    BY <1>0, <1>3
  <2>1. wk' = [wk EXCEPT ![w] = r] /\ UNCHANGED worker
    BY <1>3 DEF RouteToWorker
  <2>2. wk[w] \in Worker
    BY <1>0, <2>0
  <2>3. r \in Worker /\ r.key = wk[w].key /\ r.state = wk[w].state
    BY <2>2, SMTT(30) DEF Worker
  <2> HIDE DEF r, w
  <2>4. /\ wk' \in Seq(Worker) /\ Len(wk') = Len(wk) /\ DOMAIN wk' = DOMAIN wk
        /\ wk'[w] = r /\ \A v \in DOMAIN wk : v # w => wk'[v] = wk[v]
        /\ \A v \in DOMAIN wk : wk'[v].key = wk[v].key
    BY <2>0, <2>1, <2>3, OneWorkerChanges DEF GatewayInv
  <2>5. wk[w].key = k
    BY <1>0, <1>3 DEF MapCurrent, w
  <2>6. \A v \in DOMAIN wk : wk'[v].state = wk[v].state
    BY <2>3, <2>4
  <2>7. \A j \in Keys : worker[j] # 0 => worker[j] \in DOMAIN wk
    BY <1>0
  <2>8. \A v \in DOMAIN wk' : ~WorkerIsIdle(v)' => worker'[wk'[v].key] = v
    <3> SUFFICES ASSUME NEW v \in DOMAIN wk, ~WorkerIsIdle(v)' PROVE worker[wk[v].key] = v
      BY <2>1, <2>4
    <3>1. CASE v = w
      BY <2>5, <3>1 DEF w
    <3>2. CASE v # w
      BY <1>0, <2>4, <3>2 DEF MapCurrent, WorkerIsIdle
    <3> QED  BY <3>1, <3>2
  <2>9. MapCurrent'
    BY <1>0, <2>1, <2>4, <2>6, <2>7, <2>8 DEF MapCurrent
  <2>10. ThreadSingleWriter'
    <3>1. \A u, v \in DOMAIN wk' : wk'[u].key = wk'[v].key /\ u # v
            => WorkerIsIdle(u)' \/ WorkerIsIdle(v)'
      BY <2>8
    <3> QED  BY <3>1 DEF ThreadSingleWriter
  <2> QED  BY <1>0, <1>1, <2>1, <2>4, <2>9, <2>10
<1> QED  BY <1>2, <1>3

(* A step that leaves the workers and the map alone.                       *)
LEMMA MapKept ==
  ASSUME MapCurrent, ThreadSingleWriter, UNCHANGED <<wk, worker>>,
         phase' = phase \/ (phase # "stopped" /\ phase' # "running")
  PROVE  MapCurrent' /\ ThreadSingleWriter'
<1>1. MapCurrent'
  BY DEF MapCurrent, WorkerIsIdle
<1>2. ThreadSingleWriter'
  BY DEF ThreadSingleWriter, WorkerIsIdle
<1> QED  BY <1>1, <1>2

(* A worker steps by itself: it gets no work it did not have.              *)
LEMMA WorkerMap ==
  ASSUME GatewayInv, NEW w \in DOMAIN wk, NEW r \in Worker, r.key = wk[w].key,
         wk' = [wk EXCEPT ![w] = r], UNCHANGED <<worker, phase, stops>>,
         WorkerIsIdle(w) => r.turn = None /\ r.inbox = << >>,
         r.state = wk[w].state \/ wk[w].state # "live"
  PROVE  /\ wk' \in Seq(Worker) /\ worker' \in [Keys -> 0..Len(wk')] /\ stops' \subseteq DOMAIN wk'
         /\ MapCurrent' /\ ThreadSingleWriter'
<1>0. /\ wk \in Seq(Worker) /\ worker \in [Keys -> 0..Len(wk)] /\ stops \subseteq DOMAIN wk
      /\ DOMAIN wk = 1..Len(wk) /\ Len(wk) \in Nat
  BY DEF GatewayInv, GatewayTypeOK
<1>1. /\ wk' \in Seq(Worker) /\ Len(wk') = Len(wk) /\ DOMAIN wk' = DOMAIN wk
      /\ wk'[w] = r /\ \A v \in DOMAIN wk : v # w => wk'[v] = wk[v]
      /\ \A v \in DOMAIN wk : wk'[v].key = wk[v].key
  BY OneWorkerChanges DEF GatewayInv
<1>2. \A v \in DOMAIN wk : WorkerIsIdle(v) => WorkerIsIdle(v)'
  BY <1>1 DEF WorkerIsIdle
<1>3. \A j \in Keys : worker[j] # 0 => worker[j] \in DOMAIN wk
  BY <1>0
<1>4. phase = "running" => \A j \in Keys : worker[j] # 0 => wk'[worker[j]].state = "live"
  BY <1>1, <1>3 DEF GatewayInv, MapCurrent
<1>5. MapCurrent'
  BY <1>1, <1>2, <1>3, <1>4 DEF GatewayInv, MapCurrent
<1>6. ThreadSingleWriter'
  BY <1>1, <1>2 DEF GatewayInv, ThreadSingleWriter
<1> QED  BY <1>0, <1>1, <1>5, <1>6

(* Every step of the daemon keeps its invariant.                           *)
LEMMA GatewayStep == GatewayInv /\ [GatewayNext]_gatewayVars => GatewayInv'
<1> SUFFICES ASSUME GatewayInv, [GatewayNext]_gatewayVars PROVE GatewayInv'
  OBVIOUS
<1> USE GatewayAssumption DEF ingressVars, routerVars, stopVars, gatewayVars
<1>0. GatewayTypeOK /\ DedupCovers /\ DispatchOnce /\ MapCurrent /\ ThreadSingleWriter
  BY DEF GatewayInv
<1>1. ASSUME NEW m \in Inbounds, HandleInbound(m) PROVE GatewayInv'
  <2>0. UNCHANGED <<worker, wk, dispatched, phase, signals, connected, stops, handled>>
    BY <1>1 DEF HandleInbound
  <2>1. MapCurrent' /\ ThreadSingleWriter'
    BY <1>0, <2>0, MapKept
  <2>2. deliveries' \in 0..MaxDeliveries
    BY <1>0, <1>1 DEF HandleInbound, GatewayTypeOK
  <2>3. CASE m \in Range(dedup)
    <3>1. UNCHANGED <<dedup, forgotten, acking, arrived>>
      BY <1>1, <2>3 DEF HandleInbound
    <3>2. DedupCovers' /\ DispatchOnce'
      BY <1>0, <2>0, <3>1, DedupKept DEF Known
    <3>3. GatewayTypeOK'
      BY <1>0, <2>0, <2>2, <3>1 DEF GatewayTypeOK
    <3> QED  BY <2>1, <3>2, <3>3 DEF GatewayInv
  <2>4. CASE m \notin Range(dedup)
    <3>1. /\ RecordId(m) /\ acking' = Append(acking, m) /\ arrived' = Append(arrived, m)
          /\ m \notin Synthetic
      BY <1>1, <2>4 DEF HandleInbound
    <3>2. /\ dedup' \in Seq(Inbounds) /\ Len(dedup') <= maxDeduplicationEntries
          /\ forgotten \subseteq forgotten' /\ forgotten' \subseteq Inbounds
          /\ Known(m)' /\ \A x : Known(x) => Known(x)'
      BY <1>0, <3>1, RecordIdKeeps
    <3>3. acking \in Seq(Inbounds) /\ arrived \in Seq(Inbounds)
      BY <1>0 DEF GatewayTypeOK
    <3>4. /\ acking' \in Seq(Inbounds) /\ arrived' \in Seq(Inbounds)
          /\ DOMAIN acking' = 1..(Len(acking) + 1) /\ DOMAIN acking = 1..Len(acking)
          /\ \A i \in 1..Len(acking) : acking'[i] = acking[i]
          /\ acking'[Len(acking) + 1] = m /\ Len(acking) \in Nat
      BY <3>1, <3>3
    <3>5. /\ \A i \in DOMAIN acking : acking[i] = m => m \in forgotten
          /\ \A j \in DOMAIN dispatched : dispatched[j] = m => m \in forgotten
      BY <1>0, <2>4, <3>1 DEF DedupCovers, Known
    <3>6. \A i \in DOMAIN acking' :
            acking'[i] \notin Synthetic /\ acking'[i] \in Range(dedup') \cup forgotten'
      <4>1. m \in Range(dedup') \cup forgotten'
        BY <3>2 DEF Known
      <4>2. \A i \in DOMAIN acking :
              acking[i] \notin Synthetic /\ acking[i] \in Range(dedup') \cup forgotten'
        BY <1>0, <3>2 DEF DedupCovers, Known
      <4> SUFFICES ASSUME NEW i \in DOMAIN acking'
                   PROVE  acking'[i] \notin Synthetic /\ acking'[i] \in Range(dedup') \cup forgotten'
        OBVIOUS
      <4>3. CASE i \in DOMAIN acking
        <5>1. acking'[i] = acking[i]
          BY <3>4, <4>3, SMTT(30)
        <5> QED  BY <4>2, <4>3, <5>1
      <4>4. CASE i = Len(acking) + 1
        BY <3>1, <3>4, <4>1, <4>4
      <4> QED  BY <3>4, <4>3, <4>4
    <3>7. \A j \in DOMAIN dispatched' :
            dispatched'[j] \in Synthetic \/ dispatched'[j] \in Range(dedup') \cup forgotten'
      BY <1>0, <2>0, <3>2 DEF DedupCovers, Known
    <3>8. \A i, j \in DOMAIN acking' : acking'[i] = acking'[j] /\ i # j => acking'[i] \in forgotten'
      <4> SUFFICES ASSUME NEW i \in DOMAIN acking', NEW j \in DOMAIN acking',
                          acking'[i] = acking'[j], i # j
                   PROVE  acking'[i] \in forgotten
        BY <3>2
      <4>1. CASE i \in DOMAIN acking /\ j \in DOMAIN acking
        BY <1>0, <3>4, <4>1 DEF DedupCovers
      <4>2. CASE i = Len(acking) + 1 \/ j = Len(acking) + 1
        BY <3>4, <3>5, <4>2
      <4> QED  BY <3>4, <4>1, <4>2
    <3>9. \A i \in DOMAIN acking', j \in DOMAIN dispatched' :
            acking'[i] = dispatched'[j] => acking'[i] \in forgotten'
      <4> SUFFICES ASSUME NEW i \in DOMAIN acking', NEW j \in DOMAIN dispatched,
                          acking'[i] = dispatched[j]
                   PROVE  acking'[i] \in forgotten
        BY <2>0, <3>2
      <4>1. CASE i \in DOMAIN acking
        BY <1>0, <3>4, <4>1 DEF DedupCovers
      <4>2. CASE i = Len(acking) + 1
        BY <3>4, <3>5, <4>2
      <4> QED  BY <3>4, <4>1, <4>2
    <3>10. DedupCovers'
      BY <3>6, <3>7, <3>8, <3>9 DEF DedupCovers, Known
    <3>11. DispatchOnce'
      BY <1>0, <2>0, <3>2 DEF DispatchOnce
    <3>12. GatewayTypeOK'
      BY <1>0, <2>0, <2>2, <3>2, <3>4 DEF GatewayTypeOK
    <3> QED  BY <2>1, <3>10, <3>11, <3>12 DEF GatewayInv
  <2> QED  BY <2>3, <2>4
<1>2. ASSUME NEW m \in Inbounds, GoalContinues(m) PROVE GatewayInv'
  <2>0. /\ m \in Synthetic /\ m \notin Range(dispatched) /\ RouterUp /\ RouteToWorker(m)
        /\ UNCHANGED <<dedup, forgotten, acking, deliveries, arrived, phase, signals, connected,
                       stops, handled>>
    BY <1>2 DEF GoalContinues
  <2>1. /\ wk' \in Seq(Worker) /\ worker' \in [Keys -> 0..Len(wk')] /\ stops' \subseteq DOMAIN wk'
        /\ dispatched' = Append(dispatched, m) /\ dispatched' \in Seq(Inbounds)
        /\ MapCurrent' /\ ThreadSingleWriter'
    BY <2>0, RouteMap
  <2>2. \A j \in DOMAIN dispatched : dispatched[j] # m
    BY <2>0 DEF Range
  <2>3. DedupCovers' /\ DispatchOnce'
    BY <1>0, <2>0, <2>1, <2>2, RouteDedup DEF DedupCovers
  <2>4. GatewayTypeOK'
    BY <1>0, <2>0, <2>1 DEF GatewayTypeOK
  <2> QED  BY <2>1, <2>3, <2>4 DEF GatewayInv
<1>3. CASE SweepDedup
  <2>0. UNCHANGED <<acking, deliveries, arrived, worker, wk, dispatched, phase, signals, connected,
                    stops, handled>>
    BY <1>3 DEF SweepDedup
  <2>1. MapCurrent' /\ ThreadSingleWriter'
    BY <1>0, <2>0, MapKept
  <2>2. /\ dedup' \in Seq(Inbounds) /\ Len(dedup') <= maxDeduplicationEntries
        /\ forgotten \subseteq forgotten' /\ forgotten' \subseteq Inbounds
        /\ \A x : Known(x) => Known(x)'
    BY <1>0, <1>3, SweepDedupKeeps
  <2>3. DedupCovers' /\ DispatchOnce'
    BY <1>0, <2>0, <2>2, DedupKept
  <2>4. GatewayTypeOK'
    BY <1>0, <2>0, <2>2 DEF GatewayTypeOK
  <2> QED  BY <2>1, <2>3, <2>4 DEF GatewayInv
<1>4. CASE AckLands
  <2>0. UNCHANGED <<dedup, forgotten, deliveries, arrived, phase, signals, connected, stops, handled>>
    BY <1>4 DEF AckLands
  <2>1. PICK i \in 1..Len(acking) :
          /\ acking' = RemoveAt(acking, i)
          /\ IF RouterUp THEN RouteToWorker(acking[i]) ELSE UNCHANGED <<worker, wk, dispatched>>
    BY <1>4 DEF AckLands
  <2>2. acking \in Seq(Inbounds) /\ DOMAIN acking = 1..Len(acking) /\ Len(acking) \in Nat
        /\ acking[i] \in Inbounds
    BY <1>0, SMTT(30) DEF GatewayTypeOK
  <2>3. /\ acking' \in Seq(Inbounds) /\ Len(acking') = Len(acking) - 1
        /\ \A a \in 1..(Len(acking) - 1) : acking'[a] = IF a < i THEN acking[a] ELSE acking[a + 1]
    BY <2>1, <2>2, RemoveAtElements
  <2> DEFINE from(a) == IF a < i THEN a ELSE a + 1
  <2>4. ASSUME NEW a \in DOMAIN acking'
        PROVE  from(a) \in DOMAIN acking /\ from(a) # i /\ acking'[a] = acking[from(a)]
    <3>1. a \in 1..(Len(acking) - 1)
      BY <2>2, <2>3
    <3> QED  BY <2>2, <2>3, <3>1
  <2>5. \A a, b \in DOMAIN acking' : a # b => from(a) # from(b)
    BY <2>2, <2>3
  <2> HIDE DEF from
  <2>6. \A a \in DOMAIN acking' : acking'[a] \notin Synthetic /\ Known(acking'[a])
    BY <1>0, <2>4 DEF DedupCovers
  <2>7. \A a, b \in DOMAIN acking' : acking'[a] = acking'[b] /\ a # b => acking'[a] \in forgotten
    BY <1>0, <2>4, <2>5 DEF DedupCovers
  <2>8. \A a \in DOMAIN acking', j \in DOMAIN dispatched :
          acking'[a] = dispatched[j] => acking'[a] \in forgotten
    BY <1>0, <2>4 DEF DedupCovers
  <2>9. \A a \in DOMAIN acking' : acking'[a] = acking[i] => acking[i] \in forgotten
    BY <1>0, <2>2, <2>4 DEF DedupCovers
  <2>10. CASE RouterUp
    <3>1. /\ wk' \in Seq(Worker) /\ worker' \in [Keys -> 0..Len(wk')] /\ stops' \subseteq DOMAIN wk'
          /\ dispatched' = Append(dispatched, acking[i]) /\ dispatched' \in Seq(Inbounds)
          /\ MapCurrent' /\ ThreadSingleWriter'
      BY <2>0, <2>1, <2>2, <2>10, RouteMap
    <3>2. Known(acking[i]) /\ \A j \in DOMAIN dispatched : dispatched[j] = acking[i] => acking[i] \in forgotten
      BY <1>0, <2>2 DEF DedupCovers
    <3>3. DedupCovers' /\ DispatchOnce'
      BY <1>0, <2>0, <2>2, <2>6, <2>7, <2>8, <2>9, <3>1, <3>2, RouteDedup
    <3>4. GatewayTypeOK'
      BY <1>0, <2>0, <2>3, <3>1 DEF GatewayTypeOK
    <3> QED  BY <3>1, <3>3, <3>4 DEF GatewayInv
  <2>11. CASE ~RouterUp
    <3>0. UNCHANGED <<worker, wk, dispatched>>
      BY <2>1, <2>11
    <3>1. MapCurrent' /\ ThreadSingleWriter'
      BY <1>0, <2>0, <3>0, MapKept
    <3>2. DedupCovers'
      BY <1>0, <2>0, <2>6, <2>7, <2>8, <3>0 DEF DedupCovers, Known
    <3>3. DispatchOnce'
      BY <1>0, <2>0, <3>0 DEF DispatchOnce
    <3>4. GatewayTypeOK'
      BY <1>0, <2>0, <2>3, <3>0 DEF GatewayTypeOK
    <3> QED  BY <3>1, <3>2, <3>3, <3>4 DEF GatewayInv
  <2> QED  BY <2>10, <2>11
<1>5. ASSUME NEW w \in DOMAIN wk, TurnStarts(w) \/ WorkerTurnEnds(w) \/ WorkerStops(w)
      PROVE  GatewayInv'
  <2>0. /\ UNCHANGED <<dedup, forgotten, acking, deliveries, arrived, worker, dispatched, phase,
                       signals, connected, stops>>
    BY <1>5 DEF TurnStarts, WorkerTurnEnds, WorkerStops
  <2>1. wk[w] \in Worker
    BY <1>0 DEF GatewayTypeOK
  <2>2. PICK r \in Worker :
          /\ r.key = wk[w].key /\ wk' = [wk EXCEPT ![w] = r]
          /\ WorkerIsIdle(w) => r.turn = None /\ r.inbox = << >>
          /\ r.state = wk[w].state \/ wk[w].state # "live"
    <3>1. CASE TurnStarts(w)
      <4> DEFINE r == [wk[w] EXCEPT !.turn = Head(wk[w].inbox), !.inbox = Tail(@)]
      <4>1. wk' = [wk EXCEPT ![w] = r] /\ ~WorkerIsIdle(w)
        BY <3>1 DEF TurnStarts, WorkerIsIdle
      <4>2. r \in Worker /\ r.key = wk[w].key /\ r.state = wk[w].state
        <5>1. wk[w].inbox \in Seq(Inbounds) /\ wk[w].inbox # << >>
          BY <2>1, <3>1 DEF TurnStarts, Worker
        <5>2. Head(wk[w].inbox) \in Inbounds /\ Tail(wk[w].inbox) \in Seq(Inbounds)
          BY <5>1
        <5> QED  BY <2>1, <5>2 DEF Worker
      <4> QED  BY <4>1, <4>2
    <3>2. CASE WorkerTurnEnds(w)
      <4> DEFINE r == [wk[w] EXCEPT !.turn = None]
      <4>1. wk' = [wk EXCEPT ![w] = r] /\ ~WorkerIsIdle(w)
        BY <3>2 DEF WorkerTurnEnds, WorkerIsIdle
      <4>2. r \in Worker /\ r.key = wk[w].key /\ r.state = wk[w].state
        BY <2>1 DEF Worker
      <4> QED  BY <4>1, <4>2
    <3>3. CASE WorkerStops(w)
      <4> DEFINE r == [wk[w] EXCEPT !.state = "stopped"]
      <4>1. wk' = [wk EXCEPT ![w] = r] /\ wk[w].state # "live"
        BY <3>3 DEF WorkerStops
      <4>2. r \in Worker /\ r.key = wk[w].key /\ r.turn = wk[w].turn /\ r.inbox = wk[w].inbox
        BY <2>1 DEF Worker
      <4> QED  BY <4>1, <4>2 DEF WorkerIsIdle
    <3> QED  BY <1>5, <3>1, <3>2, <3>3
  <2>3. /\ wk' \in Seq(Worker) /\ worker' \in [Keys -> 0..Len(wk')] /\ stops' \subseteq DOMAIN wk'
        /\ MapCurrent' /\ ThreadSingleWriter'
    BY <2>0, <2>2, WorkerMap
  <2>4. DedupCovers' /\ DispatchOnce'
    BY <1>0, <2>0, DedupKept DEF Known
  <2>5. handled' \subseteq Inbounds
    <3>1. wk[w].turn \in Inbounds \cup {None}
      BY <2>1 DEF Worker
    <3> QED  BY <1>0, <1>5, <3>1 DEF TurnStarts, WorkerTurnEnds, WorkerStops, GatewayTypeOK
  <2>6. GatewayTypeOK'
    BY <1>0, <2>0, <2>3, <2>5 DEF GatewayTypeOK
  <2> QED  BY <2>3, <2>4, <2>6 DEF GatewayInv
<1>6. CASE SweepIdleWorkers
  <2>0. UNCHANGED <<dedup, forgotten, acking, deliveries, arrived, dispatched, phase, signals,
                    connected, stops, handled>>
    BY <1>6 DEF SweepIdleWorkers
  <2>1. PICK k \in Keys :
          /\ worker[k] # 0 /\ WorkerIsIdle(worker[k])
          /\ wk' = [wk EXCEPT ![worker[k]].state = "stopping"]
          /\ worker' = [worker EXCEPT ![k] = 0]
    BY <1>6 DEF SweepIdleWorkers
  <2> DEFINE w == worker[k]
             r == [wk[w] EXCEPT !.state = "stopping"]
  <2>2. /\ wk \in Seq(Worker) /\ worker \in [Keys -> 0..Len(wk)] /\ stops \subseteq DOMAIN wk
        /\ DOMAIN wk = 1..Len(wk) /\ Len(wk) \in Nat
    BY <1>0 DEF GatewayTypeOK
  <2>3. w \in DOMAIN wk /\ wk[w] \in Worker
    BY <2>1, <2>2
  <2>4. r \in Worker /\ r.key = wk[w].key /\ r.turn = wk[w].turn /\ r.inbox = wk[w].inbox
    BY <2>3 DEF Worker
  <2>5. wk' = [wk EXCEPT ![w] = r]
    BY <2>1
  <2> HIDE DEF r
  <2>6. /\ wk' \in Seq(Worker) /\ Len(wk') = Len(wk) /\ DOMAIN wk' = DOMAIN wk
        /\ wk'[w] = r /\ \A v \in DOMAIN wk : v # w => wk'[v] = wk[v]
        /\ \A v \in DOMAIN wk : wk'[v].key = wk[v].key
    BY <1>0, <2>3, <2>4, <2>5, OneWorkerChanges
  <2>7. \A v \in DOMAIN wk : WorkerIsIdle(v)' <=> WorkerIsIdle(v)
    BY <2>4, <2>6 DEF WorkerIsIdle
  <2>8. /\ worker' \in [Keys -> 0..Len(wk')] /\ worker'[k] = 0
        /\ \A j \in Keys : j # k => worker'[j] = worker[j]
    BY <2>1, <2>2, <2>6
  <2>9. ASSUME NEW j \in Keys, worker'[j] # 0
        PROVE  worker'[j] = worker[j] /\ worker[j] \in DOMAIN wk /\ wk'[worker[j]] = wk[worker[j]]
    <3>1. j # k /\ worker'[j] = worker[j] /\ worker[j] \in DOMAIN wk
      BY <2>2, <2>8, <2>9
    <3>2. worker[j] # w
      BY <1>0, <2>1, <2>9, <3>1 DEF MapCurrent
    <3> QED  BY <2>6, <3>1, <3>2
  <2>10. phase # "stopped" => \A v \in DOMAIN wk : ~WorkerIsIdle(v) => worker'[wk[v].key] = v
    <3> SUFFICES ASSUME phase # "stopped", NEW v \in DOMAIN wk, ~WorkerIsIdle(v)
                 PROVE  worker'[wk[v].key] = v
      OBVIOUS
    <3>1. worker[wk[v].key] = v
      BY <1>0 DEF MapCurrent
    <3>2. wk[v].key \in Keys
      <4>1. wk[v] \in Worker
        BY <2>2
      <4> QED  BY <4>1 DEF Worker
    <3>3. wk[v].key # k
      BY <2>1, <3>1
    <3> QED  BY <2>8, <3>1, <3>2, <3>3
  <2>11. MapCurrent'
    BY <1>0, <2>0, <2>6, <2>7, <2>9, <2>10 DEF MapCurrent
  <2>12. ThreadSingleWriter'
    BY <1>0, <2>6, <2>7 DEF ThreadSingleWriter
  <2>13. DedupCovers' /\ DispatchOnce'
    BY <1>0, <2>0, DedupKept DEF Known
  <2>14. GatewayTypeOK'
    BY <1>0, <2>0, <2>2, <2>6, <2>8 DEF GatewayTypeOK
  <2> QED  BY <2>11, <2>12, <2>13, <2>14 DEF GatewayInv
<1>7. ASSUME Shutdown \/ \E c \in Channels : DisconnectChannel(c) PROVE GatewayInv'
  <2>0. /\ UNCHANGED <<dedup, forgotten, acking, deliveries, arrived, worker, wk, dispatched,
                       stops, handled>>
        /\ phase # "stopped" /\ phase' \in {phase, "notice", "engine"}
        /\ signals' \in 0..2 /\ connected' \subseteq connected
    BY <1>0, <1>7 DEF Shutdown, DisconnectChannel, GatewayTypeOK
  <2>1. MapCurrent' /\ ThreadSingleWriter'
    BY <1>0, <2>0, MapKept
  <2>2. DedupCovers' /\ DispatchOnce'
    BY <1>0, <2>0, DedupKept DEF Known
  <2>3. GatewayTypeOK'
    BY <1>0, <2>0 DEF GatewayTypeOK, Phases
  <2> QED  BY <2>1, <2>2, <2>3 DEF GatewayInv
<1>8. CASE OnBeforeStop
  <2>0. /\ UNCHANGED <<acking, deliveries, arrived, worker, wk, dispatched, signals, connected,
                       stops, handled>>
        /\ phase = "notice" /\ phase' = "closing"
        /\ dedup' = << >> /\ forgotten' = forgotten \cup Range(dedup)
    BY <1>8 DEF OnBeforeStop
  <2>1. MapCurrent' /\ ThreadSingleWriter'
    BY <1>0, <2>0, MapKept
  <2>2. DedupCovers' /\ DispatchOnce'
    BY <1>0, <2>0, DedupKept DEF Known
  <2>3. forgotten' \subseteq Inbounds
    BY <1>0, <2>0 DEF GatewayTypeOK, Range
  <2>4. dedup' \in Seq(Inbounds) /\ Len(dedup') <= maxDeduplicationEntries
    BY <2>0
  <2>5. GatewayTypeOK'
    BY <1>0, <2>0, <2>3, <2>4 DEF GatewayTypeOK, Phases
  <2> QED  BY <2>1, <2>2, <2>5 DEF GatewayInv
<1>9. CASE StopAll
  <2>0. /\ UNCHANGED <<dedup, forgotten, acking, deliveries, arrived, worker, dispatched, signals,
                       connected, handled>>
        /\ phase = "engine" /\ phase' = "draining" /\ stops' = Range(worker) \ {0}
        /\ wk' = [w \in DOMAIN wk |-> IF w \in stops' THEN [wk[w] EXCEPT !.state = "stopping"]
                                                      ELSE wk[w]]
    BY <1>9 DEF StopAll
  <2>1. /\ wk \in Seq(Worker) /\ worker \in [Keys -> 0..Len(wk)]
        /\ DOMAIN wk = 1..Len(wk) /\ Len(wk) \in Nat
    BY <1>0 DEF GatewayTypeOK
  <2>2. ASSUME NEW w \in DOMAIN wk
        PROVE  /\ wk'[w] \in Worker /\ wk'[w].key = wk[w].key
               /\ WorkerIsIdle(w)' <=> WorkerIsIdle(w)
    <3>1. wk[w] \in Worker
      BY <2>1
    <3>2. CASE w \in stops'
      <4>1. wk'[w] = [wk[w] EXCEPT !.state = "stopping"]
        BY <2>0, <3>2
      <4> QED  BY <3>1, <4>1 DEF Worker, WorkerIsIdle
    <3>3. CASE w \notin stops'
      <4>1. wk'[w] = wk[w]
        BY <2>0, <3>3
      <4> QED  BY <3>1, <4>1 DEF WorkerIsIdle
    <3> QED  BY <3>2, <3>3
  <2>3. DOMAIN wk' = 1..Len(wk) /\ wk' \in Seq(Worker) /\ Len(wk') = Len(wk)
    <3>1. wk' = [w \in 1..Len(wk) |-> wk'[w]]
      BY <2>0, <2>1
    <3>2. wk' \in [1..Len(wk) -> Worker]
      BY <2>1, <2>2, <3>1
    <3> QED  BY <2>1, <3>2
  <2>4. \A j \in Keys : worker[j] # 0 => worker[j] \in DOMAIN wk
    BY <2>1
  <2>5. MapCurrent'
    BY <1>0, <2>0, <2>1, <2>2, <2>3, <2>4 DEF MapCurrent
  <2>6. ThreadSingleWriter'
    BY <1>0, <2>1, <2>2, <2>3 DEF ThreadSingleWriter
  <2>7. DedupCovers' /\ DispatchOnce'
    BY <1>0, <2>0, DedupKept DEF Known
  <2>8. stops' \subseteq DOMAIN wk'
    BY <2>0, <2>1, <2>3 DEF Range
  <2>9. GatewayTypeOK'
    BY <1>0, <2>0, <2>1, <2>3, <2>8 DEF GatewayTypeOK, Phases
  <2> QED  BY <2>5, <2>6, <2>7, <2>9 DEF GatewayInv
<1>10. CASE Exit
  <2>0. /\ UNCHANGED <<dedup, forgotten, acking, deliveries, arrived, wk, dispatched, signals,
                       connected, stops, handled>>
        /\ phase' = "stopped" /\ worker' = [k \in Keys |-> 0]
    BY <1>10 DEF Exit
  <2>1. MapCurrent'
    BY <2>0 DEF MapCurrent
  <2>2. ThreadSingleWriter'
    BY <1>0, <2>0 DEF ThreadSingleWriter, WorkerIsIdle
  <2>3. DedupCovers' /\ DispatchOnce'
    BY <1>0, <2>0, DedupKept DEF Known
  <2>4. GatewayTypeOK'
    BY <1>0, <2>0 DEF GatewayTypeOK, Phases
  <2> QED  BY <2>1, <2>2, <2>3, <2>4 DEF GatewayInv
<1>11. CASE UNCHANGED gatewayVars
  <2>1. MapCurrent' /\ ThreadSingleWriter'
    BY <1>0, <1>11, MapKept
  <2>2. DedupCovers' /\ DispatchOnce'
    BY <1>0, <1>11, DedupKept DEF Known
  <2>3. GatewayTypeOK'
    BY <1>0, <1>11 DEF GatewayTypeOK
  <2> QED  BY <2>1, <2>2, <2>3 DEF GatewayInv
<1> QED
  BY <1>1, <1>2, <1>3, <1>4, <1>5, <1>6, <1>7, <1>8, <1>9, <1>10, <1>11 DEF GatewayNext

(* The invariant gives what the daemon promises.                           *)
LEMMA GatewaySound == GatewayInv => RoutingSound
<1> SUFFICES ASSUME GatewayInv PROVE RoutingSound
  OBVIOUS
<1>1. NoMessageOnDeadWorker
  <2> SUFFICES ASSUME phase = "running", NEW w \in DOMAIN wk, wk[w].state # "live", ~WorkerIsIdle(w)
               PROVE  FALSE
    BY DEF NoMessageOnDeadWorker
  <2>1. wk[w] \in Worker /\ w # 0
    BY DEF GatewayInv, GatewayTypeOK
  <2>2. wk[w].key \in Keys
    BY <2>1 DEF Worker
  <2>3. worker[wk[w].key] = w
    BY DEF GatewayInv, MapCurrent
  <2> QED  BY <2>1, <2>2, <2>3 DEF GatewayInv, MapCurrent
<1> QED  BY <1>1 DEF GatewayInv, RoutingSound

-----------------------------------------------------------------------------
(* The theorems, for a daemon, and for the composition MCLive checks.      *)

(* The invariants side by side: the parts share no state.                  *)
LiveInv == DeliveryInv /\ LaneInv /\ GatewayInv

(* The composition keeps them.                                             *)
THEOREM LiveInvariant == LiveSpec => []LiveInv
<1>1. LiveInit => LiveInv
  BY DeliveryStart, LaneStart, GatewayStart DEF LiveInit, LiveInv
<1>2. LiveInv /\ [LiveNext]_allVars => LiveInv'
  <2> SUFFICES ASSUME LiveInv, [LiveNext]_allVars PROVE LiveInv'
    OBVIOUS
  <2>1. [DeliveryNext]_deliveryVars /\ [LaneNext]_laneVars /\ [GatewayNext]_gatewayVars
    BY DEF LiveNext, StepWorker, StepDelivery, StepLane, StepGateway, allVars
  <2> QED  BY <2>1, DeliveryStep, LaneStep, GatewayStep DEF LiveInv
<1> QED  BY <1>1, <1>2, PTL DEF LiveSpec

(* For turns of any length and any flood limit: a turn's reply reaches the *)
(* user once, or its failure does, through every order in which previews,  *)
(* edits, retries and timers land (channel-worker.ts runAgentTurn); the    *)
(* breaker holds; and the thinking shown is one message that does not      *)
(* outlive the turn.                                                       *)
THEOREM TurnIsSound == LiveSpec => []TurnSound
<1>1. LiveInv => TurnSound
  <2> SUFFICES ASSUME LiveInv PROVE TurnSound
    OBVIOUS
  <2>1. DeliveryTypeOK /\ BreakerHolds
    BY DEF LiveInv, DeliveryInv
  <2>2. ReplyOnce /\ UserHearsBack
    BY DEF LiveInv, DeliveryInv, EndAccounted, ReplyOnce, UserHearsBack
  <2>3. OneReasoningMessage /\ ReasoningCleared
    BY DEF LiveInv, LaneInv, LaneTypeOK, LaneInHand, OneReasoningMessage, ReasoningCleared
  <2> QED  BY <2>1, <2>2, <2>3 DEF TurnSound
<1> QED  BY <1>1, LiveInvariant, PTL

(* For any inbound messages, conversations and workers: a message goes to  *)
(* a worker once while the dedup map knows it, a thread has one writer at  *)
(* a time across evictions and respawns, and no message waits at a worker  *)
(* that has stopped (gateway.ts, message-router.ts route, sweep, stopAll). *)
THEOREM RoutingIsSound == LiveSpec => []RoutingSound
<1>1. LiveInv => RoutingSound
  BY GatewaySound DEF LiveInv
<1> QED  BY <1>1, LiveInvariant, PTL

(* The same of a daemon on its own.                                        *)
THEOREM DaemonIsSound == GatewaySpec => []RoutingSound
BY GatewayStart, GatewayStep, GatewaySound, PTL DEF GatewaySpec

(* Once the agent has returned the trailing timer is off.                  *)
TimerOff == outcome \in Answers => ~flushTimer

(* A turn's steps keep the timer off: no chunk arrives after the return.   *)
LEMMA TimerOffStep ==
  ASSUME DeliveryInv, TimerOff, [DeliveryNext]_deliveryVars
  PROVE  TimerOff'
<1> USE DEF TimerOff, Answers, deliveryVars, streamVars, previewVars, turnEndVars, userVars
<1>0. turnPhase = "run" => outcome = "none"
  BY DEF DeliveryInv, OutcomeAtPhase
<1>1. CASE Streaming
  BY <1>0, <1>1 DEF Streaming, AgentStreams, AgentSendsViaTool, TrailingFlush
<1>2. CASE Landing
  BY <1>2 DEF Landing, PreviewLands, FlushLands, RetryStarts, RetryLands
<1>3. CASE Ending
  BY <1>3 DEF Ending, AgentReturns, AgentFails
<1>4. CASE Delivering
  BY <1>4 DEF Delivering, Settled, PreviewDeleted, FinalEditLands, TickLands, FinalSendLands,
              PartialEditLands, NoticeLands, Finish
<1>5. CASE UNCHANGED deliveryVars
  BY <1>5
<1> QED  BY <1>1, <1>2, <1>3, <1>4, <1>5 DEF DeliveryNext

(* Once the agent has returned only the catch-up of an initial send still  *)
(* in flight starts a preview edit, in a turn of any length: every other   *)
(* way to flush goes through a chunk or through the cancelled timer.       *)
THEOREM NoLateEdit == DeliverySpec => NoEditStartsLate
<1> DEFINE Late == /\ outcome \in {"reply", "long", "silent", "empty"}
                   /\ flush = "none" /\ editInFlight # "sending"
<1>1. DeliveryInit => DeliveryInv /\ TimerOff
  BY DeliveryStart DEF DeliveryInit, TimerOff
<1>2. DeliveryInv /\ TimerOff /\ [DeliveryNext]_deliveryVars => (DeliveryInv /\ TimerOff)'
  BY DeliveryStep, TimerOffStep
<1>3. DeliveryInv /\ TimerOff /\ [DeliveryNext]_deliveryVars => (Late => flush' = "none")
  <2> SUFFICES ASSUME DeliveryInv, TimerOff, [DeliveryNext]_deliveryVars, Late
               PROVE  flush' = "none"
    OBVIOUS
  <2>0. turnPhase # "run" /\ ~flushTimer
    BY DEF DeliveryInv, OutcomeAtPhase, TimerOff, Answers
  <2>1. CASE Streaming
    BY <2>0, <2>1 DEF Streaming, AgentStreams, AgentSendsViaTool, TrailingFlush
  <2>2. CASE Landing
    BY <2>2 DEF Landing, PreviewLands, FlushLands, RetryStarts, RetryLands
  <2>3. CASE Ending
    BY <2>0, <2>3 DEF Ending, AgentReturns, AgentFails
  <2>4. CASE Delivering
    BY <2>4 DEF Delivering, Settled, PreviewDeleted, FinalEditLands, TickLands, FinalSendLands,
                PartialEditLands, NoticeLands, Finish, previewVars
  <2>5. CASE UNCHANGED deliveryVars
    BY <2>5 DEF deliveryVars, previewVars
  <2> QED  BY <2>1, <2>2, <2>3, <2>4, <2>5 DEF DeliveryNext
<1>4. DeliveryInv /\ TimerOff /\ [DeliveryNext]_deliveryVars
        => [Late => flush' = "none"]_deliveryVars
  BY <1>3
<1>5. DeliverySpec => [][Late => flush' = "none"]_deliveryVars
  BY <1>1, <1>2, <1>4, PTL DEF DeliverySpec
<1> QED  BY <1>5, PTL DEF NoEditStartsLate
=============================================================================
