------------------------------ MODULE Credentials ------------------------------
(***************************************************************************)
(* The OAuth credential of one provider (cli/src/auth, gateway/src/auth,   *)
(* mcp-servers/shared): the file <provider>.json, the lock file around a   *)
(* refresh, and everyone who spends or replaces the refresh token in it:   *)
(* the gateway's refresh scheduler, the MCP loader's getValidCredential,   *)
(* `flopsy auth refresh`, `flopsy auth <provider>`, `flopsy auth revoke`   *)
(* and the MCP child, which refreshes with the token it was started with   *)
(* and takes no lock.  A provider may rotate: an exchange then retires the *)
(* token it used.  `left` counts an access token's life: 2 beyond the      *)
(* scheduler's margin, 1 within it, 0 within the request path's buffer.    *)
(***************************************************************************)
EXTENDS Naturals, FiniteSets

CONSTANTS
    Settings,   \* the pairs <<the provider rotates, an MCP child runs>> considered
    MaxIssued,  \* refresh tokens the provider issues
    MaxLogins   \* logins and revocations by the user

VARIABLES
    setting,     \* the pair of this run
    store,       \* the credential file, or NoCred
    valid,       \* refresh tokens the provider accepts
    spentWell,   \* tokens of a revoked credential, or lost with an answer
    issued,      \* the number of tokens issued
    credLock,    \* who made the lock file, whether that process died, whether the file is old
    refresher,   \* each refresh under the lock: where it is and the credential it works from
    needsReauth, \* the scheduler's mark
    child,       \* the MCP child: where it is and its own copy of the credential
    userCmd,     \* the `flopsy auth` command under way, and what it has
    credCommands,    \* the number of those so far
    refused      \* history: tokens refused although neither revoked nor lost
credVars == <<setting, store, valid, spentWell, issued, credLock, refresher, needsReauth, child, userCmd, credCommands, refused>>

RefreshPaths == {"tick", "request", "force"}
InGateway == {"tick", "request"}
Nobody == "nobody"
NoLock == [by |-> Nobody, dead |-> FALSE, old |-> FALSE]
Credential(token, left) == [token |-> token, left |-> left]
NoCred == Credential(0, 3)
RefreshIdle == [at |-> "idle", cred |-> NoCred]
ChildOff == [at |-> "off", cred |-> NoCred]
NoCredCommand == [at |-> "idle", token |-> 0]
Rotates == setting[1]
ChildRuns == setting[2]

CredInit ==
    /\ setting \in Settings
    /\ store = Credential(1, 2) /\ valid = {1} /\ spentWell = {} /\ issued = 1
    /\ credLock = NoLock /\ refresher = [p \in RefreshPaths |-> RefreshIdle]
    /\ needsReauth = FALSE /\ child = ChildOff
    /\ userCmd = NoCredCommand /\ credCommands = 0 /\ refused = {}

Aged(cred) == IF cred = NoCred \/ cred.left = 0 THEN cred ELSE [cred EXCEPT !.left = @ - 1]
TimePasses ==
    /\ Aged(store) # store \/ Aged(child.cred) # child.cred
    /\ store' = Aged(store) /\ child' = [child EXCEPT !.cred = Aged(@)]
    /\ UNCHANGED <<setting, valid, spentWell, issued, credLock, refresher, needsReauth, userCmd, credCommands, refused>>

--------------------------------------------------------------------------------
(* The provider.  An exchange with a live token gives its successor, or the *)
(* token itself where tokens are not rotated.                               *)
Successor(token) == IF Rotates THEN issued + 1 ELSE token
Spend(token) ==
    /\ token \in valid
    /\ Rotates => issued < MaxIssued
    /\ valid' = (valid \ IF Rotates THEN {token} ELSE {}) \cup {Successor(token)}
    /\ issued' = IF Rotates THEN issued + 1 ELSE issued
(* A refusal is the provider's doing unless the token was revoked or lost.  *)
Blamed(token) == {token} \ (spentWell \cup {0})

--------------------------------------------------------------------------------
(* The refreshes under the lock: the scheduler within its margin, a request *)
(* within its buffer, the CLI in any case.                                  *)
Due(p, cred) == p = "force" \/ cred.left <= (IF p = "tick" THEN 1 ELSE 0)
CommandBegins(p) ==
    /\ refresher[p].at = "idle" /\ store # NoCred /\ Due(p, store)
    /\ p = "tick" => ~needsReauth /\ store.token # 0
    /\ refresher' = [refresher EXCEPT ![p] = [at |-> "want", cred |-> store]]
    /\ UNCHANGED <<setting, store, valid, spentWell, issued, credLock, needsReauth, child, userCmd, credCommands, refused>>
TickFindsNoToken ==
    /\ refresher["tick"].at = "idle" /\ ~needsReauth
    /\ store # NoCred /\ Due("tick", store) /\ store.token = 0
    /\ needsReauth' = TRUE
    /\ UNCHANGED <<setting, store, valid, spentWell, issued, credLock, refresher, child, userCmd, credCommands, refused>>
LatestAsRead(p) == refresher[p].cred
Latest(p) == IF store = NoCred THEN refresher[p].cred ELSE store
Acquires(p) ==
    /\ refresher[p].at = "want" /\ credLock = NoLock
    /\ IF Due(p, Latest(p))
          THEN /\ credLock' = [NoLock EXCEPT !.by = p]
               /\ refresher' = [refresher EXCEPT ![p] = [at |-> "asking", cred |-> Latest(p)]]
          ELSE /\ refresher' = [refresher EXCEPT ![p] = RefreshIdle]
               /\ UNCHANGED credLock
    /\ UNCHANGED <<setting, store, valid, spentWell, issued, needsReauth, child, userCmd, credCommands, refused>>
BreaksStaleLock(p) ==
    /\ refresher[p].at = "want" /\ credLock.old
    /\ credLock' = NoLock
    /\ UNCHANGED <<setting, store, valid, spentWell, issued, refresher, needsReauth, child, userCmd, credCommands, refused>>
WaitTimesOut(p) ==
    /\ refresher[p].at = "want" /\ credLock # NoLock
    /\ refresher' = [refresher EXCEPT ![p] = RefreshIdle]
    /\ UNCHANGED <<setting, store, valid, spentWell, issued, credLock, needsReauth, child, userCmd, credCommands, refused>>
Exchanges(p) ==
    /\ refresher[p].at = "asking" /\ Spend(refresher[p].cred.token)
    /\ refresher' = [refresher EXCEPT ![p] = [at |-> "answered", cred |-> Credential(Successor(refresher[p].cred.token), 2)]]
    /\ UNCHANGED <<setting, store, spentWell, credLock, needsReauth, child, userCmd, credCommands, refused>>
CommandEnds(p) == credLock' = NoLock /\ refresher' = [refresher EXCEPT ![p] = RefreshIdle]
SavesRefreshed(p) ==
    /\ refresher[p].at = "answered" /\ CommandEnds(p)
    /\ store' = refresher[p].cred
    /\ UNCHANGED <<setting, valid, spentWell, issued, needsReauth, child, userCmd, credCommands, refused>>
(* No token, a token the provider does not accept, or no answer from it; an *)
(* answer that is lost takes the rotated token with it.                     *)
ExchangeRefused(p) ==
    /\ refresher[p].at = "asking" /\ refresher[p].cred.token \notin valid /\ CommandEnds(p)
    /\ refused' = refused \cup Blamed(refresher[p].cred.token)
    /\ needsReauth' = (needsReauth \/ (p = "tick" /\ refresher[p].cred.token # 0))
    /\ UNCHANGED <<setting, store, valid, spentWell, issued, child, userCmd, credCommands>>
Swallowed(p) == IF refresher[p].at = "answered" THEN {refresher[p].cred.token, store.token} ELSE {}
ExchangeFails(p) ==
    /\ refresher[p].at \in {"asking", "answered"} /\ CommandEnds(p)
    /\ spentWell' = spentWell \cup Swallowed(p)
    /\ UNCHANGED <<setting, store, valid, issued, needsReauth, child, userCmd, credCommands, refused>>

(* The gateway dies with what runs in it; its lock file stays until it is   *)
(* old enough for a waiter to delete.                                       *)
GatewayDies ==
    /\ \E p \in InGateway : refresher[p].at \in {"asking", "answered"}
    /\ ~credLock.dead
    /\ spentWell' = spentWell \cup UNION {Swallowed(p) : p \in InGateway}
    /\ refresher' = [p \in RefreshPaths |-> IF p \in InGateway THEN RefreshIdle ELSE refresher[p]]
    /\ credLock' = IF credLock.by \in InGateway THEN [credLock EXCEPT !.dead = TRUE] ELSE credLock
    /\ needsReauth' = FALSE
    /\ child' = ChildOff
    /\ UNCHANGED <<setting, store, valid, issued, userCmd, credCommands, refused>>
StaleEarlyLock == credLock.by # Nobody
StaleLock == credLock.dead
LockGetsOld ==
    /\ StaleLock /\ ~credLock.old
    /\ credLock' = [credLock EXCEPT !.old = TRUE]
    /\ UNCHANGED <<setting, store, valid, spentWell, issued, refresher, needsReauth, child, userCmd, credCommands, refused>>

--------------------------------------------------------------------------------
(* The MCP child: the loader hands it the credential in its environment; it *)
(* refreshes its own copy and merges the answer into the file.              *)
ChildSpawns ==
    /\ ChildRuns /\ child.at = "off" /\ store # NoCred /\ store.left > 0
    /\ child' = [at |-> "up", cred |-> store]
    /\ UNCHANGED <<setting, store, valid, spentWell, issued, credLock, refresher, needsReauth, userCmd, credCommands, refused>>
ChildExchanges ==
    /\ child.at = "up" /\ child.cred.left = 0 /\ Spend(child.cred.token)
    /\ child' = [at |-> "answered", cred |-> Credential(Successor(child.cred.token), 2)]
    /\ UNCHANGED <<setting, store, spentWell, credLock, refresher, needsReauth, userCmd, credCommands, refused>>
ChildPersists ==
    /\ child.at = "answered"
    /\ child' = [child EXCEPT !.at = "up"]
    /\ store' = IF store = NoCred THEN store ELSE child.cred
    /\ UNCHANGED <<setting, valid, spentWell, issued, credLock, refresher, needsReauth, userCmd, credCommands, refused>>
ChildRefused ==
    /\ child.at = "up" /\ child.cred.left = 0 /\ child.cred.token \notin valid
    /\ child' = ChildOff
    /\ refused' = refused \cup Blamed(child.cred.token)
    /\ UNCHANGED <<setting, store, valid, spentWell, issued, credLock, refresher, needsReauth, userCmd, credCommands>>
ChildExits ==
    /\ child.at # "off"
    /\ spentWell' = IF child.at = "answered" THEN spentWell \cup {child.cred.token, store.token} ELSE spentWell
    /\ child' = ChildOff
    /\ UNCHANGED <<setting, store, valid, issued, credLock, refresher, needsReauth, userCmd, credCommands, refused>>

--------------------------------------------------------------------------------
(* flopsy auth <provider>: a listener waits for the browser's callback, the *)
(* code is exchanged, the credential is saved; no lock is taken.            *)
LoginBegins ==
    /\ userCmd.at = "idle" /\ credCommands < MaxLogins
    /\ userCmd' = [NoCredCommand EXCEPT !.at = "callback"] /\ credCommands' = credCommands + 1
    /\ UNCHANGED <<setting, store, valid, spentWell, issued, credLock, refresher, needsReauth, child, refused>>
(* An error, a missing code, another login's state, or 45 s without any.    *)
LoginFails ==
    /\ userCmd.at = "callback"
    /\ userCmd' = NoCredCommand
    /\ UNCHANGED <<setting, store, valid, spentWell, issued, credLock, refresher, needsReauth, child, credCommands, refused>>
LoginGranted(withRefresh) ==
    /\ userCmd.at = "callback" /\ (withRefresh => issued < MaxIssued)
    /\ issued' = IF withRefresh THEN issued + 1 ELSE issued
    /\ valid' = valid \cup IF withRefresh THEN {issued + 1} ELSE {}
    /\ userCmd' = [at |-> "granted", token |-> IF withRefresh THEN issued + 1 ELSE 0]
    /\ UNCHANGED <<setting, store, spentWell, credLock, refresher, needsReauth, child, credCommands, refused>>
LoginSaves ==
    /\ userCmd.at = "granted"
    /\ store' = Credential(userCmd.token, 2) /\ userCmd' = NoCredCommand
    /\ UNCHANGED <<setting, valid, spentWell, issued, credLock, refresher, needsReauth, child, credCommands, refused>>

(* flopsy auth revoke: the token that was loaded is revoked remotely, then  *)
(* the file is deleted, whatever it holds by then.                          *)
RevokeBegins ==
    /\ userCmd.at = "idle" /\ credCommands < MaxLogins /\ store # NoCred
    /\ userCmd' = [at |-> "revoking", token |-> store.token] /\ credCommands' = credCommands + 1
    /\ UNCHANGED <<setting, store, valid, spentWell, issued, credLock, refresher, needsReauth, child, refused>>
RevokeAnswered(ok) ==
    /\ userCmd.at = "revoking"
    /\ valid' = IF ok THEN valid \ {userCmd.token} ELSE valid
    /\ spentWell' = IF ok THEN spentWell \cup {userCmd.token} ELSE spentWell
    /\ userCmd' = [userCmd EXCEPT !.at = "deleting"]
    /\ UNCHANGED <<setting, store, issued, credLock, refresher, needsReauth, child, credCommands, refused>>
RevokeDeletes ==
    /\ userCmd.at = "deleting"
    /\ store' = NoCred /\ userCmd' = NoCredCommand
    /\ spentWell' = spentWell \cup 1..issued
    /\ UNCHANGED <<setting, valid, issued, credLock, refresher, needsReauth, child, credCommands, refused>>

CredNext ==
    \/ TimePasses \/ TickFindsNoToken \/ GatewayDies \/ LockGetsOld
    \/ \E p \in RefreshPaths : \/ CommandBegins(p) \/ Acquires(p) \/ BreaksStaleLock(p) \/ WaitTimesOut(p)
                               \/ Exchanges(p) \/ SavesRefreshed(p) \/ ExchangeRefused(p) \/ ExchangeFails(p)
    \/ ChildSpawns \/ ChildExchanges \/ ChildPersists \/ ChildRefused \/ ChildExits
    \/ LoginBegins \/ LoginFails \/ (\E r \in BOOLEAN : LoginGranted(r)) \/ LoginSaves
    \/ RevokeBegins \/ (\E ok \in BOOLEAN : RevokeAnswered(ok)) \/ RevokeDeletes

--------------------------------------------------------------------------------
(* refresh-lock.ts: the lock keeps the refreshers from clobbering each      *)
(* other's rotation: nobody spends a token that another refresh retired, so *)
(* the provider refuses a token only if it was revoked or its successor was *)
(* lost with an answer.                                                     *)
RotationSafe == refused = {}
================================================================================
