SPECIFICATION FairSpec
CONSTANTS
  Keys = {k1, k2}
  Clients = {c1, c2}
  NoClient = NoClient
  TTLs = {2}
  MaxTime = 3
  MaxSets = 2
INVARIANTS TypeOK HitHasRemainingTTL
PROPERTIES ClearRemovesExpired ExpiredIsCleared
