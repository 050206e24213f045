SPECIFICATION MCEngineSpec
CONSTANTS
  SignalDenied = TRUE
  ProbeDenied = FALSE
  Escapes = TRUE
  w1 = w1
  s1 = s1
  v1 = v1
  v2 = v2
  Wizard = {w1}
  Setter = {s1}
  Value <- MCValue
  Default = Default
  Absent = Absent
  Texts <- MCTexts
  Drafts <- MCDrafts
  Commands <- MCCommands
  MaxDeaths = 1
  h1 = h1
  h2 = h2
  c1 = c1
  u1 = u1
  Host = {h1, h2}
  Command = {c1}
  Updater = {u1}
  Release = {1, 2}
  Running <- MCRunning
  Fresh = 2
  Throttle = 3
  FailureBase = 1
  FailureMax = 2
  Retry = 1
  MaxTime = 4
  MaxReleases = 1
  MaxBack = 1
  a1 = a1
  a2 = a2
  Acquirer = {a1, a2}
  Own = a1
  MaxRuns = 1
  Grace = 1
  RunUnits = 2
  FetchUnits = 1
  QuotaUnits = 4
  MaxToday = 2
  MaxDead = 1
  Request <- MCRequest
  Path <- MCPath
  Below <- MCBelow
  SingleMax = 4
  ShardMax = 3
  MaxShards = 2
  TotalMax = 5
  StdinMax = 4
  Overhead = 1
  MaxChunks = 4
INVARIANTS EngineInv ResolvedMeansGone RejectionIsHonest CrushReportsInterruption SetupInv NoticesInv RunsInv ReviewInv
PROPERTIES ExitIsFinal EveryCallEnds EngineIsNotLeft
CHECK_DEADLOCK FALSE
