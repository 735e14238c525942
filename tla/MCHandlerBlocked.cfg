SPECIFICATION Spec
CONSTANTS
  k1 = k1
  k2 = k2
  Keys = {k1, k2}
  Goroutines = {g1, g2}
  NoChan = NoChan
  ClientKeys = {k1, k2}
  NSKeys = {k1, k2}
  NoKey = NoKey
  Cname <- CnameChain
  Blocked = {k2}
  Protos = {"udp"}
  RateLimit = FALSE
  TruncatedTCP = TRUE
  CnameDepth = 3
  MaxCalls = 0
SYMMETRY GoroutineSymmetry
CHECK_DEADLOCK FALSE
INVARIANT BlockedIsNullRouted
