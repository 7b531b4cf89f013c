SPECIFICATION StopSpec
CONSTANTS
  ch1 = ch1  ch2 = ch2  t1 = t1  t2 = t2
  LinkKinds = {"whatsapp", "signal"}
  MaxLinks = 3
  MaxLinkAttempts = 2
  RestartsPerHour = 2
  MaxBackoff = 2
  MaxOrders = 2
  TgSends = {"m1", "m2"}
  MaxSlots = 4
  TgAttempts = 2
  MaxTgDrops = 1
  Inters = {"i1", "i2"}
  InterTTL = 2
  MaxPendingInters = 1
  MaxRejoins = 2
  RpcSends = {"r1", "r2"}
  RpcClock = 2
  OneRpcPerMs = TRUE
  MaxSockets = 3
  MaxTyped = 2
  MaxPendingMessages = 2
  OneShots = TRUE
  EndsSeenInOrder = TRUE
  Chans = {ch1, ch2}
  Turns = {t1, t2}
  TurnOn <- MCTurnOn
  MaxSignals = 2
  MaxKeys = 5
  MaxBuf = 4
  MaxUndo = 1
INVARIANT DrainShipsReply
CHECK_DEADLOCK FALSE
