SPECIFICATION LiveSpec
CONSTANTS
  Messages = {"a1", "a2"}
  Tasks = {"t1"}
  Hooks = {"h1"}
  MAX_PENDING = 1
  MAX_QUEUED_MESSAGES = 1
  MAX_QUEUED_EVENTS = 4
  MaxProgress = 0
  SupportsReactions = FALSE
  SupportsTyping = TRUE
  HasDecisionModel = TRUE
  ForwardsTaskEvents = FALSE
  MaxChunks = 2
  MAX_FLOOD_STRIKES = 2
  StreamPreviews = TRUE
  EditErrors = {"notModified", "retrySoon", "retryLater", "other"}
  MaxThinking = 3
  Inbounds <- MCInbounds
  Synthetic <- MCSynthetic
  Keys = {"k1", "k2"}
  Channels = {"telegram", "discord"}
  KeyOf <- MCKeyOf
  ChannelOf <- MCChannelOf
  maxDeduplicationEntries = 1
  AckReactions = TRUE
  MaxDeliveries = 2
  MaxWorkers = 3
INVARIANTS TurnSound RoutingSound
PROPERTIES WorkerProgress StopEndsLoop TurnCompletes DaemonProgress
CHECK_DEADLOCK FALSE
