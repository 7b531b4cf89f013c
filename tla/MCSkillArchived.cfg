SPECIFICATION SkillsOnly
CONSTANTS
  Deliveries = {"d1", "d2", "f1", "x1"}
  Filtered = {"f1"}
  Malformed = {"x1"}
  MAX_DEDUP_ENTRIES = 2
  MaxAttempts = 3
  Clients = {"c1", "c2"}
  Addresses = {"a"}
  AddressOf <- MCAddressOf
  windowMs = 2
  maxRequests = 2
  blockDurationMs = 3
  maxConnectionsPerIp = 1
  maxTrackedClients = 1
  MaxTime = 6
  MaxMedia = 2
  Senders = {"s1", "s2", "s3"}
  MaxCodes = 3
  CodeTTL = 1
  MaxPendingPairs = 2
  MaxEvents = 3
  MaxDates = 2
  MaxPieces = 4
  MaxTurns = 2
  SendMidTurn = FALSE
  Peers = {"p1", "p2"}
  Labels = {"b1"}
  MaxSession = 3
  MaxTurn = 2
  MaxThreads = 1
  ExtractEvery = 2
  MaxGoals = 2
  MaxGoalTurns = 3
  MaxJudges = 2
  TurnBudget = 2
  MaxParseFailures = 2
  MaxSubgoals = 1
  ResolverMayFail = TRUE
  Lessons = {}
  MaxWork = 1
  MaxLessonLines = 1
  StaleAfter = 1
  ArchiveAfter = 1
  ExtractorKnows = FALSE
  MemCalls = {"c1", "c2"}
  MemKeys = {"k"}
  MemVals = {1}
  MaxEntries = 1
  HooksSlow = FALSE
  IngestRuns = TRUE
  SmartWrites = TRUE
  MemCrash = TRUE
  HookRuns = {1, 2}
  HookTools = {"a", "b"}
  LoopThreshold = 2
  LoopWindow = 2
  ReflectAt = 2
  LearnAt = 1
  RunsOverlap = FALSE
  MaxHookCalls = 2
  SecretNames = {"K1", "K2"}
  Hosts = {"a"}
  Passwords = {"p", "q"}
  MaxDeks = 2
  MaxVals = 1
  MaxTokens = 1
  MaxTunnels = 1
  MaxCommands = 2
  Operators = {1}
  MaxRules = 1
  Settings <- NotBoth
  MaxIssued = 3
  MaxLogins = 1
  RosterNames = {"w1", "w2"}
  RoleTTL = 1
  OutputsTTL = 1
  OwnersTTL = 2
  ToolCap = 9
  MaxMemberTime = 2
  MaxFileEdits = 1
  NoteNames = {"n"}
  NoteCalls = {"c1", "c2"}
  NoteReadFails = FALSE
INVARIANT HandAuthoredStays
CHECK_DEADLOCK FALSE
