CONSTANTS
  p = p
  q = q
  r1 = r1
  r2 = r2
  c1 = c1
  omp = omp
  crush = crush
  s1 = s1
  s2 = s2
  None = None
  Legacy = Legacy
  Process = {p, q}
  ProcessOf <- OwnerProcess
  Run = {r1, r2}
  Clean = {c1}
  Unguarded = {omp}
  StoreEngine = {omp}
  OtherEngine = {crush}
  Slug = {s1, s2}
  Requests <- InTree
  SlotCount = 1
  MaxRows = 1
  Retries = 1
SPECIFICATION FairSpec
PROPERTY EveryJobEnds
CHECK_DEADLOCK FALSE
