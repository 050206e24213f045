SPECIFICATION StandaloneSpec
CONSTANTS
  Updater = {a}
  MaxRelease = 2
  MaxCommits = 2
  MaxCrashes = 1
  MaxDamage = 0
INVARIANT InstallerRecovers
CHECK_DEADLOCK FALSE
