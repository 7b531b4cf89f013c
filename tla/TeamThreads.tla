---------------------------- MODULE TeamThreads ----------------------------
(***************************************************************************)
(* TeamHandler.invoke and the state around it: the sessions of each peer   *)
(* in the learning store, the pool of cached thread entries, the checkpoint*)
(* of each thread, the resume flag in its side file, the recap of the last *)
(* session, and the commands that change all of these (/new, /compact,     *)
(* /branch) while a turn may be running.                                   *)
(*                                                                         *)
(* A thread is named by its session.  The channel worker runs one turn at  *)
(* a time for a peer; commands are not queued behind it.                   *)
(***************************************************************************)
EXTENDS Naturals, FiniteSets, SequencesExt, SequenceFilter

CONSTANTS
  Peers,
  Labels,         \* branch labels
  MaxSession,     \* bound: sessions opened
  MaxTurn,        \* bound: turns invoked
  MaxThreads,     \* maxThreads of the pool
  ExtractEvery    \* MID_SESSION_EXTRACT_EVERY

Sessions == 1..MaxSession
NoSession == 0
NoLabel == "none"
ASSUME SessionBounds == {MaxSession, MaxThreads} \subseteq Nat /\ ExtractEvery \in Nat \ {0} /\ NoLabel \notin Labels

VARIABLES
  sess,          \* rows of sessions
  activeSession, \* peers.active_session_id
  pool,          \* cached thread entries, least recently used first
  activeTurns,   \* of the cached entry of a thread
  turn,          \* peer -> its turn in flight
  turnCount,     \* turns invoked so far, the next turn's name
  history,       \* thread -> turns its latest checkpoint carries
  command,       \* peer -> the /compact, /branch or /new that is awaiting something
  recaps,        \* threads with a pending recap
  resumePending, \* peers flagged in resume-pending.json
  cutOff,        \* peers whose last turn was aborted or died with the process
  midExtract     \* midSessionExtractInFlight

threadVars == <<sess, activeSession, pool, activeTurns, turn, turnCount, history, command,
                recaps, resumePending, cutOff, midExtract>>

NoRow == [st |-> "none", peer |-> "none", label |-> NoLabel, turns |-> 0]
Idle == [pc |-> "idle", s |-> NoSession, n |-> 0, role |-> "none", held |-> "no", seen |-> {}]
NoCommand == [kind |-> "none", s |-> NoSession, src |-> NoSession, seen |-> {}]

ThreadsInit ==
  /\ sess = [s \in Sessions |-> NoRow]
  /\ activeSession = [p \in Peers |-> NoSession]
  /\ pool = <<>>
  /\ activeTurns = [s \in Sessions |-> 0]
  /\ turn = [p \in Peers |-> Idle]
  /\ turnCount = 0
  /\ history = [s \in Sessions |-> {}]
  /\ command = [p \in Peers |-> NoCommand]
  /\ recaps = {} /\ resumePending = {} /\ cutOff = {} /\ midExtract = {}

-----------------------------------------------------------------------------
(* The sessions table.  Each operator is one transaction of runWrite.      *)
NextSession == 1 + Cardinality({s \in Sessions : sess[s].st # "none"})
GetActiveSession(p) ==
  LET s == activeSession[p] IN
  IF s # NoSession /\ sess[s].st = "open" THEN s ELSE NoSession

CloseRow(rows, s) == IF s = NoSession THEN rows ELSE [rows EXCEPT ![s].st = "closed"]
OpenRow(rows, p, label) ==
  [rows EXCEPT ![NextSession] = [st |-> "open", peer |-> p, label |-> label, turns |-> 0]]

(* resolve: closes the active session and opens the next one *)
Rotate(p) ==
  /\ sess' = OpenRow(CloseRow(sess, GetActiveSession(p)), p, NoLabel)
  /\ activeSession' = [activeSession EXCEPT ![p] = NextSession]

(* invoke: resolveSessionThreadId picks the thread, rotating a session that *)
(* is too old and queueing the recap of the one it closed; a user turn that *)
(* finds a recap takes it and waits for it.                                 *)
InvokeStart(p, role, expired) ==
  LET old == GetActiveSession(p)
      rotates == old = NoSession \/ expired
      s == IF rotates THEN NextSession ELSE old
      queued == recaps \cup (IF rotates /\ old # NoSession THEN {s} ELSE {})
      waits == role = "user" /\ s \in queued
  IN
  /\ turn[p].pc = "idle" /\ turnCount < MaxTurn /\ s \in Sessions
  /\ IF rotates THEN Rotate(p) ELSE UNCHANGED <<sess, activeSession>>
  /\ recaps' = IF waits THEN queued \ {s} ELSE queued
  /\ turnCount' = turnCount + 1
  /\ turn' = [turn EXCEPT ![p] = [Idle EXCEPT !.pc = IF waits THEN "recap" ELSE "opening",
                                              !.s = s, !.n = turnCount + 1, !.role = role]]
  /\ UNCHANGED <<pool, activeTurns, history, command, resumePending, cutOff, midExtract>>

(* the recap, or its eight seconds *)
RecapOver(p) ==
  /\ turn[p].pc = "recap"
  /\ turn' = [turn EXCEPT ![p].pc = "opening"]
  /\ UNCHANGED <<sess, activeSession, pool, activeTurns, turnCount, history, command, recaps,
                 resumePending, cutOff, midExtract>>

(* evictIfAtCapacity: the least recently used entry without a turn *)
Victims(q) == {i \in DOMAIN q : activeTurns[q[i]] = 0}
WithoutVictimAtCap(q) ==
  IF Len(q) <= MaxThreads + 1 \/ Victims(q) = {} THEN q
  ELSE RemoveAt(q, CHOOSE i \in Victims(q) : \A j \in Victims(q) : i <= j)
WithoutVictim(q) ==
  IF Len(q) <= MaxThreads \/ Victims(q) = {} THEN q
  ELSE RemoveAt(q, CHOOSE i \in Victims(q) : \A j \in Victims(q) : i <= j)

(* getOrCreateThread returns at once for a cached entry; otherwise it puts *)
(* the new entry, no turn counted on it yet, into the pool and shrinks the *)
(* pool.  invoke then marks the entry used, reads and sets the resume flag *)
(* and counts the turn; the agent loads the latest checkpoint.             *)
Moved(q, s) == Append(RemoveAt(q, CHOOSE i \in DOMAIN q : q[i] = s), s)
TurnOpens(p) ==
  LET s == turn[p].s
      q == IF s \in Range(pool) THEN Moved(pool, s) ELSE WithoutVictim(Append(pool, s)) IN
  /\ turn[p].pc = "opening"
  /\ pool' = q
  /\ activeTurns' = [t \in Sessions |-> IF t \notin Range(q) THEN 0
                                        ELSE IF t = s THEN activeTurns[t] + 1 ELSE activeTurns[t]]
  /\ turn' = [turn EXCEPT ![p].pc = "running", ![p].held = IF s \in Range(q) THEN "yes" ELSE "lru", ![p].seen = history[s]]
  /\ resumePending' = resumePending \cup {p}
  /\ UNCHANGED <<sess, activeSession, turnCount, history, command, recaps, cutOff, midExtract>>

(* The turn ends.  A finished user turn is counted on whatever session is  *)
(* active by now, and may start an extraction; an aborted turn leaves the  *)
(* resume flag for the next message.                                       *)
ClearsAlways(p, how) == resumePending \ {p}
ClearsFlag(p, how) == IF how = "abort" THEN resumePending ELSE resumePending \ {p}
UncountUnlessAborted(p, how) ==
  IF turn[p].held = "yes" /\ how # "abort" THEN [activeTurns EXCEPT ![turn[p].s] = @ - 1] ELSE activeTurns
Uncount(p, how) == IF turn[p].held = "yes" THEN [activeTurns EXCEPT ![turn[p].s] = @ - 1] ELSE activeTurns
TouchSession(rows, s) == [rows EXCEPT ![s].turns = @ + 1]
TurnEnds(p, how) ==
  LET s == turn[p].s
      a == GetActiveSession(p)
      counted == how = "ok" /\ turn[p].role = "user" /\ a # NoSession IN
  /\ turn[p].pc = "running"
  /\ history' = IF how = "ok" THEN [history EXCEPT ![s] = turn[p].seen \cup {turn[p].n}] ELSE history
  /\ sess' = IF counted THEN TouchSession(sess, a) ELSE sess
  /\ midExtract' = IF counted /\ (sess[a].turns + 1) % ExtractEvery = 0 THEN midExtract \cup {p}
                                                                         ELSE midExtract
  /\ activeTurns' = Uncount(p, how)
  /\ resumePending' = ClearsFlag(p, how)
  /\ cutOff' = IF how = "abort" THEN cutOff \cup {p} ELSE cutOff \ {p}
  /\ turn' = [turn EXCEPT ![p] = Idle]
  /\ UNCHANGED <<activeSession, pool, turnCount, command, recaps>>

ExtractionOver(p) ==
  /\ p \in midExtract
  /\ midExtract' = midExtract \ {p}
  /\ UNCHANGED <<sess, activeSession, pool, activeTurns, turn, turnCount, history, command, recaps,
                 resumePending, cutOff>>

-----------------------------------------------------------------------------
(* evictPeerThreads takes the peer's entries out, running turns or not. *)
EvictPeerThreads(p, rows) ==
  LET mine == {s \in Sessions : rows[s].peer = p} IN
  /\ pool' = Filter(pool, Sessions \ mine)
  /\ activeTurns' = [s \in Sessions |-> IF s \in mine THEN 0 ELSE activeTurns[s]]
  /\ turn' = [turn EXCEPT ![p].held = IF @ = "yes" THEN "command" ELSE @]

(* /new: rotate, then wait for the summary of the closed session *)
ForceNewSession(p) ==
  /\ command[p] = NoCommand /\ NextSession \in Sessions
  /\ Rotate(p)
  /\ command' = [command EXCEPT ![p] = IF GetActiveSession(p) = NoSession THEN NoCommand
                                       ELSE [NoCommand EXCEPT !.kind = "new", !.s = NextSession]]
  /\ UNCHANGED <<pool, activeTurns, turn, turnCount, history, recaps, resumePending, cutOff, midExtract>>
ForceNewEnds(p, summary) ==
  /\ command[p].kind = "new"
  /\ recaps' = IF summary THEN recaps \cup {command[p].s} ELSE recaps
  /\ command' = [command EXCEPT ![p] = NoCommand]
  /\ UNCHANGED <<sess, activeSession, pool, activeTurns, turn, turnCount, history, resumePending,
                 cutOff, midExtract>>

(* /compact: reads the checkpoint of the active session, waits for the     *)
(* model, writes one summary message over it and evicts the peer's entries *)
CompactReads(p) ==
  LET s == GetActiveSession(p) IN
  /\ command[p] = NoCommand /\ s # NoSession /\ history[s] # {}
  /\ command' = [command EXCEPT ![p] = [NoCommand EXCEPT !.kind = "compact", !.s = s, !.seen = history[s]]]
  /\ UNCHANGED <<sess, activeSession, pool, activeTurns, turn, turnCount, history, recaps,
                 resumePending, cutOff, midExtract>>
CompactTargetLate(p) == IF GetActiveSession(p) = NoSession THEN command[p].s ELSE GetActiveSession(p)
CompactTarget(p) == command[p].s
CompactEnds(p, ok) ==
  /\ command[p].kind = "compact"
  /\ IF ok THEN /\ history' = [history EXCEPT ![CompactTarget(p)] = command[p].seen]
                /\ EvictPeerThreads(p, sess)
           ELSE UNCHANGED <<history, pool, activeTurns, turn>>
  /\ command' = [command EXCEPT ![p] = NoCommand]
  /\ UNCHANGED <<sess, activeSession, turnCount, recaps, resumePending, cutOff, midExtract>>

(* /branch <label>: forkSession closes the source, opens the labelled      *)
(* session and flips the pointer in one transaction; a label in use undoes *)
(* it all.  The checkpoint is cloned afterwards.                           *)
Labelled(p, label) == {s \in Sessions : sess[s].peer = p /\ sess[s].label = label}
BranchSession(p, label) ==
  LET src == GetActiveSession(p) IN
  /\ command[p] = NoCommand /\ src # NoSession /\ NextSession \in Sessions
  /\ Labelled(p, label) = {}
  /\ sess' = OpenRow(CloseRow(sess, src), p, label)
  /\ activeSession' = [activeSession EXCEPT ![p] = NextSession]
  /\ command' = [command EXCEPT ![p] = [NoCommand EXCEPT !.kind = "branch", !.s = NextSession, !.src = src]]
  /\ UNCHANGED <<pool, activeTurns, turn, turnCount, history, recaps, resumePending, cutOff, midExtract>>
BranchCloned(p, ok) ==
  /\ command[p].kind = "branch"
  /\ IF ok THEN /\ history' = [history EXCEPT ![command[p].s] = history[command[p].src]]
                /\ EvictPeerThreads(p, sess)
           ELSE UNCHANGED <<history, pool, activeTurns, turn>>
  /\ command' = [command EXCEPT ![p] = NoCommand]
  /\ UNCHANGED <<sess, activeSession, turnCount, recaps, resumePending, cutOff, midExtract>>

(* /branch switch <label>: switchToBranch closes the current session,      *)
(* reopens the target and flips the pointer                                *)
SwitchRowsKeeping(p, target) == [sess EXCEPT ![target].st = "open"]
SwitchRows(p, target) ==
  [CloseRow(sess, IF activeSession[p] = target THEN NoSession ELSE activeSession[p])
     EXCEPT ![target].st = "open"]
SwitchBranch(p, label) ==
  \E target \in Labelled(p, label) :
    /\ sess' = SwitchRows(p, target)
    /\ activeSession' = [activeSession EXCEPT ![p] = target]
    /\ EvictPeerThreads(p, sess)
    /\ UNCHANGED <<turnCount, history, command, recaps, resumePending, cutOff, midExtract>>

(* The process dies and boots again. *)
HandlerRestart ==
  /\ \E p \in Peers : turn[p].pc # "idle" \/ command[p] # NoCommand
  /\ pool' = <<>> /\ activeTurns' = [s \in Sessions |-> 0]
  /\ cutOff' = cutOff \cup {p \in Peers : turn[p].pc = "running"}
  /\ turn' = [p \in Peers |-> Idle] /\ command' = [p \in Peers |-> NoCommand]
  /\ recaps' = {} /\ midExtract' = {}
  /\ UNCHANGED <<sess, activeSession, turnCount, history, resumePending>>

ThreadsNext ==
  \/ \E p \in Peers :
       \/ \E role \in {"user", "system"}, e \in BOOLEAN : InvokeStart(p, role, e)
       \/ RecapOver(p) \/ TurnOpens(p) \/ ExtractionOver(p)
       \/ \E how \in {"ok", "error", "abort"} : TurnEnds(p, how)
       \/ ForceNewSession(p) \/ CompactReads(p)
       \/ \E ok \in BOOLEAN : ForceNewEnds(p, ok) \/ CompactEnds(p, ok) \/ BranchCloned(p, ok)
       \/ \E l \in Labels : BranchSession(p, l) \/ SwitchBranch(p, l)
  \/ HandlerRestart

-----------------------------------------------------------------------------
(* A peer has at most one open session, the one its pointer names, however *)
(* rotation, branching, switching and a restart follow each other: what    *)
(* getActiveSession returns is the only session a turn can land in.        *)
OpenIsActive == \A s \in Sessions : sess[s].st = "open" => activeSession[sess[s].peer] = s

(* The resume flag says the truth between turns: it is set for a peer      *)
(* exactly when its last turn was cut off, also across a restart.          *)
ResumeFlagTrue ==
  \A p \in Peers : turn[p].pc # "running" => (p \in resumePending <=> p \in cutOff)

(* The pool stays within its cap, whatever is running. *)
PoolWithinCap == Len(pool) <= MaxThreads

(* Every cached entry counts the turns that run on it and no other, so an  *)
(* idle entry never stays unevictable and a busy one is never a victim.    *)
TurnsCounted ==
  \A s \in Range(pool) :
    activeTurns[s] = Cardinality({p \in Peers : turn[p].pc = "running" /\ turn[p].held = "yes" /\ turn[p].s = s})

(* A step takes a finished turn out of a thread's checkpoint only as the   *)
(* end of a /compact or /branch on that same thread, or of a turn that     *)
(* loaded the checkpoint earlier: a command of one session never writes    *)
(* over another session the peer has moved to in the meantime.             *)
HistoryKept ==
  [][\A s \in Sessions : ~(history[s] \subseteq history'[s]) =>
       \E p \in Peers : \/ command[p].s = s /\ command'[p] = NoCommand
                        \/ turn[p].s = s /\ turn'[p] = Idle]_threadVars

(* A turn in flight keeps its place in the pool unless the peer's own      *)
(* command evicts it: evictIfAtCapacity promises to skip such entries.     *)
TurnKeepsEntry == \A p \in Peers : turn[p].held # "lru"
=============================================================================
