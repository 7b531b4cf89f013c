SPECIFICATION ProactiveSpec
CONSTANTS
  r1 = r1  r2 = r2  r3 = r3  j1 = j1  j2 = j2  c1 = c1
  ta = ta  tb = tb  None = None
  Runs = {r1, r2, r3}
  Jobs = {j1, j2}
  JobMode <- Mixed
  Scripted = {j2}
  Contents = {c1}
  Unembedded = {}
  Targets = {ta, tb}
  Target = ta
  Fallbacks <- NoFallback
  Default = tb
  MaxAttempts = 2
  MaxQueue = 1
  MaxCrashes = 1
  Offers <- AskedFor
  System <- Builtin
  SkillNames = {"s"}
  Canonical = {"dreaming.md"}
  Seeded = {"dreaming.md"}
  FreshIds = TRUE
  BootEdits = {"create"}
  MaxStarts = 2
  Editors = {"e1", "e2"}
  CfgPaths = {"level", "channel", "port"}
  MaxReloads = 1
  MaxCfgEdits = 3
  FireJobs = {"h", "e", "a"}
  FireKind <- OneOfEach
  Period = 2
  Tolerance = 3
  AtTime = 3
  AtGrace = 1
  MaxPerRestart = 1
  MaxNow = 5
  MaxManual = 1
  FbJobs = {"c", "w", "d"}
  FbMode <- ModeOfEach
  FbMessages = {"m"}
  Cooldown = 2
  Lookback = 3
  RowDays = 1
  DedupDays = 0
  ReplyDays = 0
  KeptDays = 0
  OneAtATime = TRUE
  MaxFires = 3
  MaxDay = 2
SYMMETRY Perms
INVARIANTS FailureNotForgotten RunsSound LiveMatchesRows PromptKept   FeedbackSound
CHECK_DEADLOCK FALSE
