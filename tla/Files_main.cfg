SPECIFICATION FilesSpec
CONSTANTS
  Writer = {w1}
  SnapshotAttempts = 2
  MaxBackups = 1
  Gone = Gone
  f1 = f1
  f2 = f2
  Destinations <- MCDestinations
  Missing = Missing
  MaxEdits = 3
  p = p
  q = q
  Locker = {p, q}
  Dead = Dead
  MaxInode = 5
  a = a
  b = b
  Updater = {a, b}
  MaxRelease = 2
  MaxCommits = 2
  MaxCrashes = 1
  MaxDamage = 1
  t1 = t1
  t2 = t2
  Registrar = {t1, t2}
  NoConfig = NoConfig
  Drafts <- MCDrafts
  Saves <- MCSaves
  MaxSaves = 1
  k1 = k1
  k2 = k2
  Caller = {k1, k2}
  Unknown = Unknown
  NoLog = NoLog
  Spending <- MCSpending
  Showings <- MCShowings
  MaxSteps = 2
  Cap = 2
  MaxRecords = 5
SYMMETRY SameUpdaters
INVARIANTS BackupInv MarkerInv UpdateLockInv StandaloneInv CodexInv UsageInv
PROPERTY CommitsWhatWasConfirmed
CHECK_DEADLOCK FALSE
