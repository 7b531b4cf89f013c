-------------------------------- MODULE Inbox --------------------------------
(***************************************************************************)
(* What a conversation's worker promises the router and the user, with     *)
(* none of its queues, timers and waiters: letters wait in any order, are  *)
(* handed to the agent in turns of which one runs at a time, each letter   *)
(* at most once, and stop() closes the inbox for good: no turn begins once *)
(* it is closing, and nothing is handed over once it is closed             *)
(* (MessageRouter and BaseGateway rely on this much of                     *)
(* src/src/gateway/src/core/channel-worker.ts).                            *)
(***************************************************************************)
CONSTANT Letters

VARIABLES
  waiting,  \* taken in, not yet handed to the agent
  handed,   \* handed to the agent
  gone,     \* refused, cleared by stop() or lost
  turn,     \* a turn runs
  life      \* "open", "closing" or "closed"

inboxVars == <<waiting, handed, gone, turn, life>>

Init == waiting = {} /\ handed = {} /\ gone = {} /\ turn = FALSE /\ life = "open"

(* A letter comes once: it is taken in, or refused.                        *)
Arrives(l) ==
  /\ l \notin waiting \cup handed \cup gone
  /\ \/ waiting' = waiting \cup {l} /\ UNCHANGED gone
     \/ gone' = gone \cup {l} /\ UNCHANGED waiting
  /\ UNCHANGED <<handed, turn, life>>

(* Letters are handed over together, in the turn that runs or in one that  *)
(* begins for them.                                                        *)
HandOver(S) ==
  /\ S # {}
  /\ life = "open" \/ (turn /\ life = "closing")
  /\ turn' = TRUE
  /\ waiting' = waiting \ S /\ handed' = handed \cup S
  /\ UNCHANGED <<gone, life>>

(* A background event begins a turn without letters.                       *)
Begins ==
  /\ ~turn /\ life = "open"
  /\ turn' = TRUE
  /\ UNCHANGED <<waiting, handed, gone, life>>

(* A turn ends; letters that find no room afterwards are refused.          *)
Ends(S) ==
  /\ turn /\ turn' = FALSE
  /\ waiting' = waiting \ S /\ gone' = gone \cup S
  /\ UNCHANGED <<handed, life>>

(* Letters may get lost while they wait.                                   *)
Loses(S) ==
  /\ waiting' = waiting \ S /\ gone' = gone \cup S
  /\ UNCHANGED <<handed, turn, life>>

(* stop() waits for the turn, if there is one, and then clears the inbox.  *)
Closing ==
  /\ turn /\ life = "open" /\ life' = "closing"
  /\ UNCHANGED <<waiting, handed, gone, turn>>

Closes ==
  /\ life = "closing" \/ (life = "open" /\ ~turn)
  /\ life' = "closed"
  /\ waiting' = {} /\ gone' = gone \cup waiting
  /\ UNCHANGED <<handed, turn>>

Next ==
  \/ \E l \in Letters : Arrives(l)
  \/ \E S \in SUBSET waiting : HandOver(S) \/ Ends(S) \/ Loses(S)
  \/ Begins \/ Closing \/ Closes

Spec == Init /\ [][Next]_inboxVars
=============================================================================
