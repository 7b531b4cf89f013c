SPECIFICATION Spec
CONSTANTS
  Messages = {m1, m2, m3}
  Tasks = {t1}
  Hooks = {h1}
  MAX_PENDING = 1
  MAX_QUEUED_MESSAGES = 2
  MAX_QUEUED_EVENTS = 2
  MaxProgress = 1
  SupportsReactions = TRUE
  SupportsTyping = TRUE
  HasDecisionModel = TRUE
  ForwardsTaskEvents = TRUE
SYMMETRY Symmetry
INVARIANTS TypeOK NoLostWakeup DeliveredOnce OutsideTrue
PROPERTIES LossOnlyThroughOrphanedWaiter ImplementsInbox
CHECK_DEADLOCK FALSE
