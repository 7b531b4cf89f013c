------------------------------- MODULE MCAgents -------------------------------
(***************************************************************************)
(* What agents start and must see end, for TLC: delegated tasks, MCP       *)
(* servers, browser sessions, device logins and the vault's daemon.  The   *)
(* parts share no state, so a behaviour runs one of them, picked by        *)
(* `part`; the fairness of a part asks nothing of it while it is at rest.  *)
(***************************************************************************)
EXTENDS BackgroundTasks, Connectors, BrowserSessions, VaultServer

VARIABLE part

allVars == <<part, taskVars, mcpVars, browserVars, deviceVars, serverVars>>

AgentsInit ==
  /\ part \in {"tasks", "mcp", "browser", "device", "vault"}
  /\ TasksInit /\ McpInit /\ BrowserInit /\ DeviceInit /\ ServerInit
  /\ part # "mcp" => enabledCfg = {}

Rest ==
  /\ UNCHANGED part
  /\ part # "tasks" => UNCHANGED taskVars
  /\ part # "mcp" => UNCHANGED mcpVars
  /\ part # "browser" => UNCHANGED browserVars
  /\ part # "device" => UNCHANGED deviceVars
  /\ part # "vault" => UNCHANGED serverVars

StepTasks   == part = "tasks" /\ TasksNext /\ Rest
StepMcp     == part = "mcp" /\ McpNext /\ Rest
StepBrowser == part = "browser" /\ BrowserNext /\ Rest
StepDevice  == part = "device" /\ DeviceNext /\ Rest
StepVault   == part = "vault" /\ ServerNext /\ Rest

AgentsNext == StepTasks \/ StepMcp \/ StepBrowser \/ StepDevice \/ StepVault

AgentsSpec ==
  /\ AgentsInit /\ [][AgentsNext]_allVars
  /\ TasksFairness /\ McpFairness /\ BrowserFairness /\ DeviceFairness

McpOnly     == AgentsInit /\ part = "mcp" /\ [][AgentsNext]_allVars
BrowserOnly == AgentsInit /\ part = "browser" /\ [][AgentsNext]_allVars

-----------------------------------------------------------------------------
(* Delegation stays in bounds and its records are true: no chain loops or  *)
(* exceeds its depth, one outcome per task, its row settled before the     *)
(* agent is told, a stop reaches every task below, and the slots of coding *)
(* agents match those that run (delegation tools, task-registry.ts).       *)
TasksSound ==
  ChainSound /\ OneOutcomeEvent /\ RowSettledBeforeNews /\ StopReachesBelow /\ SlotsMatchAgents

(* The tables of servers, pages and daemons name what is there: a listed   *)
(* MCP client is up, an active page exists, a vault that serves is the one *)
(* its pid file names, with a certificate that is trusted                  *)
(* (client-manager.ts, browser.ts, vault-command.ts).                      *)
ToolsSound == ListedIsUp /\ ActiveExists /\ ServingIsTracked /\ CaTrusted

(* Whatever is waited for ends: a task in flight, the MCP connections a    *)
(* thread waits for, a marker on a closed page, a device poller            *)
(* (task-registry.ts, client-manager.ts, browser.ts, connect-service.ts).  *)
AgentsProgress == RunsEnd /\ ReadySettles /\ MarkersDrain /\ PollerEnds
=============================================================================
