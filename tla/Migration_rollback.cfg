SPECIFICATION SetupSpec
CONSTANTS
  Cleaner = {c1, c2}
  Recoverer = {v}
  Publisher = {p}
  Absent = Absent
  Torn = Torn
  MaxStuck = 1
  r1 = r1
  q1 = q1
  q2 = q2
  QRun = {r1}
  QCall = {q1}
  QRunOf <- MCOneRun
  MaxConcurrent = 1
  UsableUnits = 1
  MaxRestarts = 1
  k1 = k1
  k2 = k2
  x = x
  y = y
  h1 = h1
  Host = {h1}
  Call = {k1, k2}
  Sandbox = {x, y}
  Ephemeral = {y}
  JournalCap = 1
  HostOf <- MCOneHost
  Concerns <- MCConcerns
  Run = {a, b}
  NoRun = NoRun
  Engine = {"opencode", "opencode2", "omp", "crush"}
  PairEngine = {"opencode", "omp"}
  MaxProxies = 2
  Speaker = {"opencode", "opencode2", "omp", "crush"}
  Printed <- MCPrinted
  Nobody = Nobody
  Thread = {t1, t2}
  MaxLines = 3
  MaxWarnings = 2
  t1 = t1
  t2 = t2
  m1 = m1
  m2 = m2
  envFile = envFile
  ruleFile = ruleFile
  recordFile = recordFile
  v1 = v1
  v2 = v2
  Migrator = {m1, m2}
  Targets <- MCTargets
  KindOf <- MCKindOf
  Value = {v1, v2}
  Unusable = v2
  Unset = Unset
  Gone = Gone
  Garbled = Garbled
  NoLock = NoLock
  MaxEdits = 1
  MaxDeaths = 1
INVARIANT SavesAreKept
CHECK_DEADLOCK FALSE
