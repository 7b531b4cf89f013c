------------------------------ MODULE VaultServer ------------------------------
(***************************************************************************)
(* The vault's proxy daemon as the commands of vault-command.ts see it:    *)
(* a process that owns the ports, a pid file, a state file with the ports, *)
(* the root certificate in vault.db and its copy in vault-ca.pem.          *)
(*                                                                         *)
(* "server start" checks the pid file, forks a child that checks it again, *)
(* reads the password, loads or makes the root certificate, listens and    *)
(* then writes both files.  "server stop" and "server status" go by the    *)
(* pid file; "vault run" and "vault setup" go by the state file.           *)
(***************************************************************************)
EXTENDS Naturals

CONSTANTS
    Pids,          \* ids of the daemon processes that are ever forked
    MaxRuns,       \* bound: "vault run" commands
    MaxExports,    \* bound: certificate exports
    CertMadeAlone  \* TRUE: no two processes make the first root certificate at once

NoPid == 0

VARIABLES
    procs,      \* each daemon: "none", "checked", "making", "serving", "gone"
    servesCert, \* the root certificate a daemon signs with
    pidFile, stateFile, \* the pid each names, or NoPid
    dbCert,     \* the certificate in vault.db (0: none)
    caFile,     \* the certificate in vault-ca.pem (0: none)
    maker,      \* who has found no certificate and is generating one: pids, or 0 for an export
    certs,      \* certificates ever made
    exports,    \* exports left
    runs        \* each "vault run": its stage, and whether a daemon served when it looked
serverVars == <<procs, servesCert, pidFile, stateFile, dbCert, caFile, maker, certs, exports, runs>>
certVars == <<dbCert, caFile, maker, certs, exports>>

Serving == {p \in Pids : procs[p] = "serving"}
Breathing(p) == p \in Pids /\ procs[p] \in {"checked", "making", "serving"}

ServerInit ==
    /\ procs = [p \in Pids |-> "none"] /\ servesCert = [p \in Pids |-> 0]
    /\ pidFile = NoPid /\ stateFile = NoPid
    /\ dbCert = 0 /\ caFile = 0 /\ maker = {} /\ certs = 0 /\ exports = MaxExports
    /\ runs = [r \in 1..MaxRuns |-> [at |-> "idle", served |-> FALSE]]

(* The check of a start: a pid file whose process is alive refuses it, one *)
(* whose process is gone is removed.  Parent and child both make it.       *)
MayStart == ~Breathing(pidFile)
Forks(p) ==
    /\ procs[p] = "none" /\ \A q \in Pids : procs[q] = "none" => p <= q
    /\ procs' = [procs EXCEPT ![p] = "checked"]
ServerStart(p) ==
    /\ MayStart /\ Forks(p) /\ pidFile' = NoPid
    /\ UNCHANGED <<servesCert, stateFile, runs>> /\ UNCHANGED certVars

(* startVaultServer(): a wrong password ends the child; else the broker    *)
(* opens and loadOrCreateRootCA() reads the certificate, or makes one and  *)
(* only then writes it.                                                    *)
ChildFails(p) ==
    /\ procs[p] = "checked" /\ procs' = [procs EXCEPT ![p] = "gone"]
    /\ UNCHANGED <<servesCert, pidFile, stateFile, runs>> /\ UNCHANGED certVars
NeedsCertAlways == TRUE
NeedsCert == dbCert = 0
MayMake == maker = {} \/ ~CertMadeAlone
LoadsCert(p) ==
    /\ procs[p] = "checked" /\ procs' = [procs EXCEPT ![p] = "making"]
    /\ IF NeedsCert THEN MayMake /\ maker' = maker \cup {p} /\ UNCHANGED servesCert
       ELSE servesCert' = [servesCert EXCEPT ![p] = dbCert] /\ UNCHANGED maker
    /\ UNCHANGED <<pidFile, stateFile, dbCert, caFile, certs, exports, runs>>
MakesCert(p) ==
    /\ p \in maker /\ certs' = certs + 1 /\ dbCert' = certs + 1
    /\ servesCert' = [servesCert EXCEPT ![p] = certs + 1] /\ maker' = maker \ {p}
    /\ UNCHANGED <<procs, pidFile, stateFile, caFile, exports, runs>>

(* listen() fails while another process holds the port and ends the child; *)
(* the files are written once both servers listen.                         *)
PublishesEarly(p) == procs[p] = "making" /\ servesCert[p] # 0
Publishes(p) == procs[p] = "making" /\ servesCert[p] # 0 /\ Serving = {}
Listens(p) ==
    /\ Publishes(p) /\ pidFile' = p /\ stateFile' = p
    /\ procs' = [procs EXCEPT ![p] = IF Serving = {} THEN "serving" ELSE "gone"]
    /\ UNCHANGED <<servesCert, runs>> /\ UNCHANGED certVars
PortTaken(p) ==
    /\ procs[p] = "making" /\ servesCert[p] # 0 /\ Serving # {}
    /\ procs' = [procs EXCEPT ![p] = "gone"]
    /\ UNCHANGED <<servesCert, pidFile, stateFile, runs>> /\ UNCHANGED certVars

(* SIGTERM, SIGINT and an uncaught exception remove both files; a kill -9  *)
(* or a power loss removes nothing.                                        *)
Terminates(p) ==
    /\ procs' = [procs EXCEPT ![p] = "gone"] /\ pidFile' = NoPid /\ stateFile' = NoPid
    /\ UNCHANGED <<servesCert, runs>> /\ UNCHANGED certVars
ServerStop == pidFile \in Serving /\ Terminates(pidFile)
ServerCrash(p) ==
    /\ procs[p] \in {"making", "serving"} /\ p \notin maker /\ procs' = [procs EXCEPT ![p] = "gone"]
    /\ UNCHANGED <<servesCert, pidFile, stateFile, runs>> /\ UNCHANGED certVars
StopFindsNone ==
    /\ pidFile # NoPid /\ ~Breathing(pidFile) /\ pidFile' = NoPid /\ stateFile' = NoPid
    /\ UNCHANGED <<procs, servesCert, runs>> /\ UNCHANGED certVars
StatusRemovesAny == pidFile # NoPid
StatusRemoves == pidFile # NoPid /\ ~Breathing(pidFile)
ServerStatus ==
    /\ StatusRemoves /\ pidFile' = NoPid
    /\ UNCHANGED <<procs, servesCert, stateFile, runs>> /\ UNCHANGED certVars

(* vault ca export, and step 3 of setup: read the certificate, or make one.*)
ExportsCert ==
    /\ exports > 0 /\ exports' = exports - 1 /\ ~NeedsCert /\ caFile' = dbCert
    /\ UNCHANGED <<procs, servesCert, pidFile, stateFile, dbCert, maker, certs, runs>>
ExportStarts ==
    /\ exports > 0 /\ exports' = exports - 1 /\ NeedsCert /\ MayMake /\ 0 \notin maker /\ maker' = maker \cup {0}
    /\ UNCHANGED <<procs, servesCert, pidFile, stateFile, dbCert, caFile, certs, runs>>
ExportMakes ==
    /\ 0 \in maker /\ certs' = certs + 1 /\ dbCert' = certs + 1 /\ caFile' = certs + 1 /\ maker' = maker \ {0}
    /\ UNCHANGED <<procs, servesCert, pidFile, stateFile, exports, runs>>

(* vault run: a state file means a server; without one it forks a daemon   *)
(* and waits 6 seconds for the pid file.  It exports the certificate if    *)
(* vault-ca.pem is missing, then launches its program.                     *)
RunFinds(r) ==
    /\ runs[r].at = "idle" /\ stateFile # NoPid
    /\ runs' = [runs EXCEPT ![r] = [at |-> "export", served |-> Serving # {}]]
    /\ UNCHANGED <<procs, servesCert, pidFile, stateFile>> /\ UNCHANGED certVars
RunStarts(r, p) ==
    /\ runs[r].at = "idle" /\ stateFile = NoPid /\ MayStart /\ Forks(p) /\ pidFile' = NoPid
    /\ runs' = [runs EXCEPT ![r].at = "waiting"]
    /\ UNCHANGED <<servesCert, stateFile>> /\ UNCHANGED certVars
RunWaited(r) ==
    /\ runs[r].at = "waiting" /\ runs' = [runs EXCEPT ![r] = [at |-> IF pidFile # NoPid THEN "export" ELSE "failed", served |-> Serving # {}]]
    /\ UNCHANGED <<procs, servesCert, pidFile, stateFile>> /\ UNCHANGED certVars
RunLaunches(r) ==
    /\ runs[r].at = "export" /\ dbCert # 0 /\ caFile' = IF caFile = 0 THEN dbCert ELSE caFile
    /\ runs' = [runs EXCEPT ![r].at = "launched"]
    /\ UNCHANGED <<procs, servesCert, pidFile, stateFile, dbCert, maker, certs, exports>>

ServerNext ==
    \/ ServerStop \/ StopFindsNone \/ ServerStatus \/ ExportsCert \/ ExportStarts \/ ExportMakes
    \/ \E p \in Pids :
        \/ ServerStart(p) \/ ChildFails(p) \/ LoadsCert(p) \/ MakesCert(p) \/ Listens(p) \/ PortTaken(p)
        \/ ServerCrash(p) \/ \E r \in 1..MaxRuns : RunStarts(r, p)
    \/ \E r \in 1..MaxRuns : RunFinds(r) \/ RunWaited(r) \/ RunLaunches(r)
-----------------------------------------------------------------------------
(* A daemon that holds the ports can be stopped: the pid file names it,    *)
(* whatever starts raced with it, crashed around it or were refused        *)
(* ("stop it with `flopsy vault server stop`", vault-command.ts:1214).     *)
ServingIsTracked == \A p \in Serving : pidFile = p

(* Programs started by the vault trust the daemon: once vault-ca.pem and a *)
(* daemon exist, the file holds the certificate the daemon signs with      *)
(* (ca-store.ts 13-33, vault-command.ts 429-443, 1478-1494).               *)
CaTrusted == \A p \in Serving : caFile # 0 => caFile = servesCert[p]

(* "Do not auto-start the vault server if it is not running" is the option *)
(* that turns it off (vault-command.ts:1391): without it, a server that is *)
(* not running is started, so a run that goes on found one serving.          *)
RunFindsServer == \A r \in 1..MaxRuns : runs[r].at = "launched" => runs[r].served
=============================================================================
