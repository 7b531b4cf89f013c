------------------------------ MODULE Connectors ------------------------------
(***************************************************************************)
(* What connects an agent to services: MCP servers, and in the second half *)
(* of the module the logins by device code.                                *)
(*                                                                         *)
(* The MCP connectors of the team handler (team/src/mcp,                   *)
(* handler/mcp-lifecycle.ts): one child process per configured server, the *)
(* map of connected clients, the promise of the bridged tools that every   *)
(* new thread awaits, and the operations on them: the connect at boot,     *)
(* /mcp reload and the hot reload of the configuration, the restart after  *)
(* an authorisation, and close at shutdown.  An operation loads what the   *)
(* configuration allows, connects what is not connected, and bridges; a    *)
(* child may hang, fail or die at any time in between.                     *)
(***************************************************************************)
EXTENDS Naturals, FiniteSets

CONSTANTS
    McpNames,   \* the servers of flopsy.json5
    McpOps,     \* the operations that ever run; the first is the boot
    MaxEdits    \* bound: edits of the configuration and of the credentials

ASSUME McpAssumption == McpOps \subseteq Nat /\ 0 \in McpOps

VARIABLES
    enabledCfg, \* servers enabled on disk
    authed,     \* servers whose credential is valid
    kids,       \* the child each operation spawned for each server
    clients,    \* manager.clients: the operation whose child serves each name
    failed,     \* manager.failed
    ready,      \* readyPromise: the operation that set it, its state, the servers with tools
    mcpOps,     \* each operation: stage, what it loaded, what it saw connected
    leftOver,   \* servers a reload found connected, not enabled, and left connected
    edits
mcpVars == <<enabledCfg, authed, kids, clients, failed, ready, mcpOps, leftOver, edits>>

NoOp == 99
Connected == {n \in McpNames : clients[n] # NoOp}

McpInit ==
    /\ enabledCfg \in SUBSET McpNames /\ authed = McpNames
    /\ kids = [o \in McpOps |-> [n \in McpNames |-> "none"]]
    /\ clients = [n \in McpNames |-> NoOp] /\ failed = {}
    /\ ready = [by |-> 0, at |-> "ok", names |-> {}]
    /\ mcpOps = [o \in McpOps |-> [at |-> "idle", kind |-> "boot", cfg |-> {}, saw |-> {}]]
    /\ leftOver = {} /\ edits = 0

(* flopsy mcp set, remove, enable, disable and install rewrite the file;   *)
(* flopsy auth and a token that expires change what may connect.           *)
FlipEnabled(n) == IF n \in enabledCfg THEN enabledCfg \ {n} ELSE enabledCfg \cup {n}
ConfigEdited(n) ==
    /\ edits < MaxEdits /\ edits' = edits + 1
    /\ enabledCfg' = FlipEnabled(n)
    /\ UNCHANGED <<authed, kids, clients, failed, ready, mcpOps, leftOver>>
AuthChanges(n) ==
    /\ edits < MaxEdits /\ edits' = edits + 1
    /\ authed' = IF n \in authed THEN authed \ {n} ELSE authed \cup {n}
    /\ UNCHANGED <<enabledCfg, kids, clients, failed, ready, mcpOps, leftOver>>

(* initialize(), reload() and restartAfterAuth() begin; boot and reload    *)
(* read the file, and the boot makes threads wait from here on.            *)
OpBegins(o, how) ==
    /\ mcpOps[o].at = "idle" /\ (how = "boot") = (o = 0) /\ (o # 0 => mcpOps[0].at # "idle")
    /\ mcpOps' = [mcpOps EXCEPT ![o] = [at |-> "loading", kind |-> how, cfg |-> enabledCfg, saw |-> Connected]]
    /\ ready' = IF how = "boot" THEN [ready EXCEPT !.at = "pending"] ELSE ready
    /\ UNCHANGED <<enabledCfg, authed, kids, clients, failed, leftOver, edits>>

(* loadMcpServers() awaits credentials; restartServers() first closes the  *)
(* clients of the servers it restarts and forgets that they failed; then   *)
(* connect() spawns a child for every server that is not connected.        *)
Loads(o) == mcpOps[o].cfg \cap authed
Closing(o) == IF mcpOps[o].kind = "restart" THEN Loads(o) \cap Connected ELSE {}
Spawned(o) == Loads(o) \ (Connected \ Closing(o))
OpConnects(o) ==
    /\ mcpOps[o].at = "loading" /\ mcpOps' = [mcpOps EXCEPT ![o].at = "connecting"]
    /\ kids' = [p \in McpOps |-> [n \in McpNames |->
                  IF p = o /\ n \in Spawned(o) THEN "connecting"
                  ELSE IF n \in Closing(o) /\ clients[n] = p THEN "dead" ELSE kids[p][n]]]
    /\ clients' = [n \in McpNames |-> IF n \in Closing(o) THEN NoOp ELSE clients[n]]
    /\ failed' = failed \ Closing(o)
    /\ UNCHANGED <<enabledCfg, authed, ready, leftOver, edits>>

(* A child answers the handshake, fails it, or hangs until the 30 seconds  *)
(* are over: the promise is rejected and the child left running.           *)
KidUp(o, n) ==
    /\ kids[o][n] = "connecting" /\ kids' = [kids EXCEPT ![o][n] = "up"]
    /\ clients' = [clients EXCEPT ![n] = o]
    /\ UNCHANGED <<enabledCfg, authed, failed, ready, mcpOps, leftOver, edits>>
KidFails(o, n, left) ==
    /\ kids[o][n] = "connecting" /\ kids' = [kids EXCEPT ![o][n] = left]
    /\ failed' = failed \cup {n}
    /\ UNCHANGED <<enabledCfg, authed, clients, ready, mcpOps, leftOver, edits>>
KidRefuses(o, n) == KidFails(o, n, "dead")
NoConnectTimeout(o, n) == FALSE
ConnectTimeout(o, n) == kids[o][n] = "connecting"
KidHangs(o, n) == ConnectTimeout(o, n) /\ KidFails(o, n, "stray")
(* transport.onclose and onerror go by the server's name.                  *)
KeepsEntry(n) == clients
DropsEntry(n) == [clients EXCEPT ![n] = NoOp]
KidDies(o, n) ==
    /\ kids[o][n] \in {"up", "stray"} /\ kids' = [kids EXCEPT ![o][n] = "dead"]
    /\ clients' = DropsEntry(n) /\ failed' = IF n \in Connected THEN failed \cup {n} ELSE failed
    /\ UNCHANGED <<enabledCfg, authed, ready, mcpOps, leftOver, edits>>

(* connect() settles; boot and reload bridge, a reload only when something *)
(* is connected, and make the promise of it the one threads await.         *)
Left(o) == IF mcpOps[o].kind = "reload" THEN (mcpOps[o].saw \cap Connected) \ mcpOps[o].cfg ELSE leftOver
Bridging(o) == mcpOps[o].kind = "boot" \/ (mcpOps[o].kind = "reload" /\ Connected # {})
OpSettles(o) ==
    /\ mcpOps[o].at = "connecting" /\ \A n \in McpNames : kids[o][n] # "connecting"
    /\ \/ /\ Bridging(o) /\ mcpOps' = [mcpOps EXCEPT ![o].at = "bridging"]
          /\ ready' = [by |-> o, at |-> "pending", names |-> Connected] /\ UNCHANGED leftOver
       \/ ~Bridging(o) /\ mcpOps' = [mcpOps EXCEPT ![o].at = "done"] /\ leftOver' = Left(o) /\ UNCHANGED ready
    /\ UNCHANGED <<enabledCfg, authed, kids, clients, failed, edits>>

(* bridgeAllTools() lists the tools of every server that was connected     *)
(* when it began and throws when one is not any more; the boot catches it, *)
(* a reload leaves the rejected promise behind.                            *)
OpBridges(o) ==
    /\ mcpOps[o].at = "bridging" /\ mcpOps' = [mcpOps EXCEPT ![o].at = "done"] /\ leftOver' = Left(o)
    /\ ready' = IF ready.by # o THEN ready
                ELSE IF ready.names \subseteq Connected THEN [ready EXCEPT !.at = "ok"]
                ELSE [ready EXCEPT !.at = IF mcpOps[o].kind = "boot" THEN "ok" ELSE "rejected", !.names = {}]
    /\ UNCHANGED <<enabledCfg, authed, kids, clients, failed, edits>>

(* close(): every client is closed and the map cleared.                    *)
McpCloses ==
    /\ Connected # {} /\ clients' = [n \in McpNames |-> NoOp]
    /\ kids' = [o \in McpOps |-> [n \in McpNames |-> IF clients[n] = o THEN "dead" ELSE kids[o][n]]]
    /\ UNCHANGED <<enabledCfg, authed, failed, ready, mcpOps, leftOver, edits>>

McpNext ==
    \/ \E n \in McpNames : ConfigEdited(n) \/ AuthChanges(n)
    \/ \E o \in McpOps, how \in {"boot", "reload", "restart"} : OpBegins(o, how)
    \/ \E o \in McpOps : OpConnects(o) \/ OpSettles(o) \/ OpBridges(o)
    \/ \E o \in McpOps, n \in McpNames : KidUp(o, n) \/ KidRefuses(o, n) \/ KidHangs(o, n) \/ KidDies(o, n)
    \/ McpCloses
(* Timers fire and settled promises run their continuations; a child need  *)
(* never answer.                                                           *)
McpFairness ==
    /\ \A o \in McpOps : WF_mcpVars(OpConnects(o)) /\ WF_mcpVars(OpSettles(o)) /\ WF_mcpVars(OpBridges(o))
    /\ \A o \in McpOps, n \in McpNames : WF_mcpVars(KidHangs(o, n))
-----------------------------------------------------------------------------
(* "Close after connect = child died; mark failed so callers get a clean   *)
(* error" (client-manager.ts:119): a listed client is always a child that  *)
(* is up, across boots, reloads and restarts that overlap.                 *)
ListedIsUp == \A n \in Connected : kids[clients[n]][n] = "up"

(* Threads never wait for their tools forever: every promise of tools      *)
(* settles, although a child may hang in the handshake                     *)
(* (client-manager.ts 138-142, handler.ts 1761).                           *)
ReadySettles == ready.at = "pending" ~> ready.at # "pending"

(* "Live-apply an MCP config change (server added/edited/toggled in        *)
(* flopsy.json5) ... so the new surface is visible immediately, no gateway *)
(* restart" (gateway.ts:1069-1073): when a reload has returned, no server  *)
(* is connected that the configuration it applied does not enable.         *)
ToggleApplies == leftOver = {}

-----------------------------------------------------------------------------
(***************************************************************************)
(* Device-flow authorization: the connect_service tool of a chat thread    *)
(* (team/src/tools/connect-service.ts with team/src/auth/device-poller.ts) *)
(* and `flopsy auth --device` (runDeviceFlowCli).  The tool asks Google    *)
(* for a code, registers a task, tells the user, and leaves a poller       *)
(* behind, entered in ACTIVE_DEVICE_POLLS; the poller ends the task and    *)
(* queues an event for the agent.  All calls are about one service.        *)
(***************************************************************************)
CONSTANTS
    ChatCalls,  \* connect_service calls, all of one thread
    CliLogins   \* `flopsy auth <service> --device` commands

VARIABLES
    flow,        \* per call: where it is
    activePoll,  \* ACTIVE_DEVICE_POLLS' entry of the thread: a call, or NoFlow
    codeExpired, \* calls whose code expired
    authTask,    \* per chat call: "none", "running", "completed", "failed"
    authEvents,  \* per chat call: events queued for the agent
    connected    \* calls whose credential was saved
deviceVars == <<flow, activePoll, codeExpired, authTask, authEvents, connected>>

Flows == ChatCalls \cup CliLogins
NoFlow == "nobody"

DeviceInit ==
    /\ flow = [c \in Flows |-> "idle"] /\ activePoll = NoFlow /\ codeExpired = {}
    /\ authTask = [c \in ChatCalls |-> "none"] /\ authEvents = [c \in ChatCalls |-> 0]
    /\ connected = {}

Moves(c, to) == flow' = [flow EXCEPT ![c] = to]

(* connect_service: a thread with a poller is told to wait for it.          *)
MayConnect(c) == activePoll = NoFlow
Calls(c) ==
    /\ flow[c] = "idle"
    /\ Moves(c, IF c \in CliLogins \/ MayConnect(c) THEN "starting" ELSE "done")
    /\ UNCHANGED <<activePoll, codeExpired, authTask, authEvents, connected>>
StartFails(c) ==
    /\ flow[c] = "starting" /\ Moves(c, "done")
    /\ UNCHANGED <<activePoll, codeExpired, authTask, authEvents, connected>>
CodeGiven(c) ==
    /\ flow[c] = "starting"
    /\ Moves(c, IF c \in CliLogins THEN "polling" ELSE "telling")
    /\ authTask' = IF c \in ChatCalls THEN [authTask EXCEPT ![c] = "running"] ELSE authTask
    /\ UNCHANGED <<activePoll, codeExpired, authEvents, connected>>
Told(c) ==
    /\ flow[c] = "telling" /\ Moves(c, "polling") /\ activePoll' = c
    /\ UNCHANGED <<codeExpired, authTask, authEvents, connected>>
(* onReply throws: the tool returns, the task it registered stays running.  *)
TellFails(c) ==
    /\ flow[c] = "telling" /\ Moves(c, "done")
    /\ UNCHANGED <<activePoll, codeExpired, authTask, authEvents, connected>>

CodeExpires(c) ==
    /\ flow[c] \in {"telling", "polling", "asked"} /\ c \notin codeExpired
    /\ codeExpired' = codeExpired \cup {c}
    /\ UNCHANGED <<flow, activePoll, authTask, authEvents, connected>>

(* The poller's two ends: the entry goes, the task ends, the agent is told. *)
Settled(c, outcome) ==
    /\ Moves(c, "done")
    /\ activePoll' = IF c \in ChatCalls THEN NoFlow ELSE activePoll
    /\ authTask' = IF c \in ChatCalls THEN [authTask EXCEPT ![c] = outcome] ELSE authTask
    /\ authEvents' = IF c \in ChatCalls THEN [authEvents EXCEPT ![c] = @ + 1] ELSE authEvents
TooLateNever(c) == FALSE
TooLate(c) == c \in codeExpired
Polls(c) ==
    /\ flow[c] = "polling" /\ ~TooLate(c) /\ Moves(c, "asked")
    /\ UNCHANGED <<activePoll, codeExpired, authTask, authEvents, connected>>
PollsTooLate(c) ==
    /\ flow[c] = "polling" /\ TooLate(c) /\ Settled(c, "failed")
    /\ UNCHANGED <<codeExpired, connected>>
PollGranted(c) ==
    /\ flow[c] = "asked" /\ connected' = connected \cup {c} /\ Settled(c, "completed")
    /\ UNCHANGED codeExpired
PollRefused(c) ==
    /\ flow[c] = "asked" /\ Settled(c, "failed")
    /\ UNCHANGED <<codeExpired, connected>>
(* Pending, or a poll that threw: the chat's poller tries again, the CLI    *)
(* lets the exception end the command.                                      *)
PollPending(c) ==
    /\ flow[c] = "asked" /\ Moves(c, "polling")
    /\ UNCHANGED <<activePoll, codeExpired, authTask, authEvents, connected>>
PollThrows(c) ==
    /\ flow[c] = "asked" /\ Moves(c, IF c \in ChatCalls THEN "polling" ELSE "done")
    /\ UNCHANGED <<activePoll, codeExpired, authTask, authEvents, connected>>

DeviceNext ==
    \E c \in Flows :
        \/ Calls(c) \/ StartFails(c) \/ CodeGiven(c) \/ Told(c) \/ TellFails(c) \/ CodeExpires(c)
        \/ Polls(c) \/ PollsTooLate(c) \/ PollGranted(c) \/ PollRefused(c) \/ PollPending(c) \/ PollThrows(c)
(* Timers fire, Google answers or the call throws, codes expire.            *)
DeviceFairness ==
    \A c \in Flows :
        /\ WF_deviceVars(CodeExpires(c)) /\ WF_deviceVars(Polls(c)) /\ WF_deviceVars(PollsTooLate(c))
        /\ WF_deviceVars(PollGranted(c) \/ PollRefused(c) \/ PollPending(c) \/ PollThrows(c))

--------------------------------------------------------------------------------
(* A poller does not outlive its code: the thread's entry, which bars every *)
(* later connect_service, goes away, and the agent hears of the end.        *)
PollerEnds == \A c \in ChatCalls : flow[c] = "polling" ~> (flow[c] = "done" /\ authEvents[c] = 1)

(* connect-service.ts: "a <service> authorization is already in progress    *)
(* for this thread": at most one poller of a thread at a time.              *)
OnePoller == Cardinality({c \in ChatCalls : flow[c] \in {"polling", "asked"}}) <= 1
=============================================================================
