SPECIFICATION Spec
CONSTANTS
  Messages = {m1}
  Tasks = {}
  Hooks = {h1}
  MAX_PENDING = 1
  MAX_QUEUED_MESSAGES = 1
  MAX_QUEUED_EVENTS = 1
  MaxProgress = 0
  SupportsReactions = FALSE
  SupportsTyping = FALSE
  HasDecisionModel = TRUE
  ForwardsTaskEvents = FALSE
INVARIANT AcceptedNotLost
CHECK_DEADLOCK FALSE
