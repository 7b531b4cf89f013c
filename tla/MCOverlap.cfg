SPECIFICATION OverlapSpec
CONSTANTS
  r1 = r1  r2 = r2  r3 = r3  j1 = j1   c1 = c1
  ta = ta  tb = tb  None = None  NoSched = NoSched
  Runs = {r1, r2, r3}
  Jobs = {j1}
  JobMode <- Conditional
  Scripted = {}
  Contents = {c1}
  Unembedded = {}
  Targets = {ta, tb}
  Target = ta
  Fallbacks <- NoFallback
  Default = None
  MaxAttempts = 2
  MaxQueue = 2
  MaxCrashes = 0
  Schedules <- MCSchedules
  Kind <- MCKind
  MaxDone = 2
  MaxTimers = 2
  MaxOrphans = 1
  MaxSchedCrashes = 1
INVARIANT OneRunPerJob
CHECK_DEADLOCK FALSE
