SPECIFICATION ResultsSpec
CONSTANTS
  Cleaner = {}
  Recoverer = {}
  Publisher = {}
  Absent = Absent
  Torn = Torn
  MaxStuck = 0
  r1 = r1
  q1 = q1
  q2 = q2
  QRun = {r1}
  QCall = {q1}
  QRunOf <- MCOneRun
  MaxConcurrent = 1
  UsableUnits = 1
  MaxRestarts = 1
  k1 = k1
  k2 = k2
  x = x
  y = y
  h1 = h1
  Host = {h1}
  Call = {k1, k2}
  Sandbox = {x, y}
  Ephemeral = {}
  JournalCap = 1
  HostOf <- MCOneHost
  Concerns <- MCConcerns
INVARIANT RecoveredIsCleanable
CHECK_DEADLOCK FALSE
