SPECIFICATION AgentsSpec
CONSTANTS
  Registries = {g1}
  TeamWorkers = {w1, w2}
  MaxTask = 2
  MaxJob = 1
  MaxDepth = 2
  MaxConcurrent = 1
  WorkersDelegate = TRUE
  NoTask = NoTask
  McpNames = {"a"}
  McpOps = {0, 1}
  MaxEdits = 1
  Sids = {"a"}
  ToolCalls = {1, 2}
  MaxBrowsers = 1
  MaxPageIds = 2
  MaxElements = 1
  MaxSessions = 1
  MaxPagesPerSession = 2
  MaxMarkers = 1
  ChatCalls = {"a", "b"}
  CliLogins = {"c"}
  Pids = {1, 2, 3}
  MaxRuns = 1
  MaxExports = 2
  CertMadeAlone = TRUE
INVARIANTS TasksSound ToolsSound
PROPERTY AgentsProgress
CHECK_DEADLOCK FALSE
