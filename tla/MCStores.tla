------------------------------- MODULE MCStores -------------------------------
(***************************************************************************)
(* The safety of what the program keeps and lets in, for TLC: inbound      *)
(* webhooks, requests and messages; conversations and goals; skills,       *)
(* memory, hooks, the vault and credentials; what agents are built with;   *)
(* notes.  The parts share no state, so a behaviour runs one of them,      *)
(* picked by `part`.                                                       *)
(***************************************************************************)
EXTENDS WebhookIngress, RateLimiter, ChannelMessages, ChatScreen,
        TeamThreads, Goals, Skills, Memory, VaultStore, Credentials, AgentRun, NotesVault

VARIABLE part

MCAddressOf == [c \in {"c1", "c2"} |-> "a"]

\* Credentials: either the gateway's children refresh for themselves, or the CLI does.
NotBoth == {<<TRUE, FALSE>>, <<FALSE, TRUE>>}

Parts == {"webhooks", "limiter", "messages", "access", "screen", "threads",
          "goals", "skills", "memory", "hooks", "vault", "credentials", "members", "notes"}

allVars == <<part, vars, limiterVars, messageVars, inboundVars, screenVars, threadVars,
             goalVars, skillVars, memVars, hookVars, vaultVars, credVars, memberVars, noteVars>>

StoresInit ==
  /\ part \in Parts
  /\ Init /\ LimiterInit /\ MessagesInit /\ InboundInit /\ ScreenInit
  /\ ThreadsInit /\ GoalsInit /\ SkillsInit /\ MemInit /\ HooksInit /\ VaultInit /\ CredInit
  /\ MembersInit /\ NotesInit
  /\ part # "webhooks" => conf = [fresh |-> TRUE, target |-> TRUE, silent |-> FALSE]
  /\ part # "skills" => trees["active"] = {}
  /\ part # "credentials" => setting = CHOOSE s \in Settings : TRUE
  /\ part # "members" => promptPath = FALSE
  /\ part # "notes" => There = {}

Rest ==
  /\ UNCHANGED part
  /\ part # "webhooks" => UNCHANGED vars
  /\ part # "limiter" => UNCHANGED limiterVars
  /\ part # "messages" => UNCHANGED messageVars
  /\ part # "access" => UNCHANGED inboundVars
  /\ part # "screen" => UNCHANGED screenVars
  /\ part # "threads" => UNCHANGED threadVars
  /\ part # "goals" => UNCHANGED goalVars
  /\ part # "skills" => UNCHANGED skillVars
  /\ part # "memory" => UNCHANGED memVars
  /\ part # "hooks" => UNCHANGED hookVars
  /\ part # "vault" => UNCHANGED vaultVars
  /\ part # "credentials" => UNCHANGED credVars
  /\ part # "members" => UNCHANGED memberVars
  /\ part # "notes" => UNCHANGED noteVars

StepWebhooks    == part = "webhooks" /\ Next /\ Rest
StepLimiter     == part = "limiter" /\ LimiterNext /\ Rest
StepMessages    == part = "messages" /\ MessagesNext /\ Rest
StepAccess      == part = "access" /\ InboundNext /\ Rest
StepScreen      == part = "screen" /\ ScreenNext /\ Rest
StepThreads     == part = "threads" /\ ThreadsNext /\ Rest
StepGoals       == part = "goals" /\ GoalsNext /\ Rest
StepSkills      == part = "skills" /\ SkillsNext /\ Rest
StepMemory      == part = "memory" /\ MemNext /\ Rest
StepHooks       == part = "hooks" /\ HooksNext /\ Rest
StepVault       == part = "vault" /\ VaultNext /\ Rest
StepCredentials == part = "credentials" /\ CredNext /\ Rest
StepMembers     == part = "members" /\ MembersNext /\ Rest
StepNotes       == part = "notes" /\ NotesNext /\ Rest

StoresNext ==
  \/ StepWebhooks \/ StepLimiter \/ StepMessages \/ StepAccess \/ StepScreen
  \/ StepThreads \/ StepGoals \/ StepSkills \/ StepMemory \/ StepHooks \/ StepVault
  \/ StepCredentials \/ StepMembers \/ StepNotes

StoresSpec == StoresInit /\ [][StoresNext]_allVars

SkillsOnly == StoresInit /\ part = "skills" /\ [][StoresNext]_allVars
MemoryOnly == StoresInit /\ part = "memory" /\ [][StoresNext]_allVars

-----------------------------------------------------------------------------
(* What gets in is bounded: requests of a client within its window and     *)
(* none during a block (security.ts), pairing codes of strangers           *)
(* (pairing-store.ts), and polling an inbox steps over no message          *)
(* (imessage/channel.ts).                                                  *)
IngressSound == LimiterTypeOK /\ WindowBound /\ BlockHolds /\ PairingCap /\ PollSkipsNothing

(* A message means the same on both sides: typed text survives conversion  *)
(* and is sent once, a placeholder is marked as one, and the terminal      *)
(* shows a reply once and its spinner only while a turn runs (channels/*,  *)
(* chat-tui.ts).                                                           *)
MessagesSound ==
  /\ TypedTextArrives /\ SyntheticIsPlaceholder /\ TextSentOnce
  /\ ShownOnce /\ SpinnerHasTurn

(* The records of a conversation agree with its threads: the open session  *)
(* is the active one, the resume flag and the turn count are true, the     *)
(* pool keeps to its cap; a goal is done by its own verdict and within its *)
(* budget (session-resolver.ts, thread-pool.ts, handler.ts, goals/).       *)
ConversationSound ==
  /\ OpenIsActive /\ ResumeFlagTrue /\ PoolWithinCap /\ TurnsCounted
  /\ DoneByOwnVerdict /\ BudgetHolds

(* Nothing that was kept is silently dropped or replaced: a conversation's *)
(* history, a skill that exists or was just viewed, a rejected lesson, a   *)
(* pairing code that is still good, the text of a note (handler.ts         *)
(* compaction, skill-writer.ts, skill-curator.ts, pairing-store.ts,        *)
(* obsidian.ts).                                                           *)
NothingForgotten ==
  /\ HistoryKept /\ SkillKept /\ RejectedStaysOut /\ LiveCodeKept
  /\ []ArchivedUnread /\ []NoteTextKept

(* The run of an agent: its prompt is no older than its caches and speaks  *)
(* of the tools it has (factory.ts), its hooks bound a tool loop, and an   *)
(* evicted thread leaves no tracked run behind (harness/hooks/*,           *)
(* harness-interceptor.ts).                                                *)
AgentRunSound == PromptFresh /\ PromptMatchesTools /\ LoopBounded /\ EvictionLeavesNothing

(* Secrets stay readable through password changes and go only where their  *)
(* rules say (seal.ts, proxy.ts, broker.ts); a refresh token is never      *)
(* spent twice (refresh-lock.ts, google.ts, spotify-auth.ts).              *)
SecretsSound == SecretsReadable /\ ForwardedInScope /\ RotationSafe
=============================================================================
