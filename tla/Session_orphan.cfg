CONSTANTS
  p = p
  q = q
  r1 = r1
  r2 = r2
  c1 = c1
  omp = omp
  crush = crush
  s1 = s1
  s2 = s2
  None = None
  Legacy = Legacy
  Process = {p, q}
  ProcessOf <- OwnerProcess
  Run = {r1}
  Clean = {c1}
  Unguarded = {}
  StoreEngine = {omp}
  OtherEngine = {}
  Slug = {s1}
  Requests <- OneAsk
  SlotCount = 1
  MaxRows = 1
  Retries = 1
SPECIFICATION Spec
INVARIANT OrphanCleanSparesRows
CHECK_DEADLOCK FALSE
