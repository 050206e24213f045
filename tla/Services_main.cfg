SPECIFICATION ServicesSpec
CONSTANTS
  w1 = w1
  w2 = w2
  w3 = w3
  s1 = s1
  s2 = s2
  None = None
  Writer = {w1, w2, w3}
  Slug = {s1, s2}
  Asks <- Anything
  Attempts = 2
  MaxCrashes = 1
  Request = {r1, r2}
  MaxRequests = 1
  MaxBody = 1
  MaxResponse = 1
  MaxRate = 2
  MaxRefusals = 1
INVARIANTS StoreInv ProxyInv
PROPERTIES EveryWriterEnds MappingSpec RevokeEnds
CHECK_DEADLOCK FALSE
