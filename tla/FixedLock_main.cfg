CONSTANTS
  a = a
  b = b
  h1 = h1
  h2 = h2
  h3 = h3
  Process = {a, b}
  Handle = {h1, h2, h3}
  Owner <- Owner3
  Digits <- Digits2
  NoOne = NoOne
  MaxFaults = 1
SPECIFICATION FairSpec
INVARIANTS LockInv InProcessExclusion UndisturbedExclusion
PROPERTIES ReleaseEnds BlockedBySomebody
CHECK_DEADLOCK FALSE
