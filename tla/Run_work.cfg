SPECIFICATION RunSpec
CONSTANTS
  Run = {a}
  NoRun = NoRun
  Engine = {"opencode", "opencode2", "omp", "crush"}
  MaxProxies = 0
INVARIANT WorkSurvives
CHECK_DEADLOCK FALSE
