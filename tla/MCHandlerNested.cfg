SPECIFICATION FairSpec
CONSTANTS
  k1 = k1
  k2 = k2
  Keys = {k1, k2}
  Goroutines = {g1, g2}
  NoChan = NoChan
  ClientKeys = {k1}
  NSKeys = {k2}
  NoKey = NoKey
  Cname <- NoCname
  Blocked = {}
  Protos = {"udp"}
  RateLimit = FALSE
  TruncatedTCP = FALSE
  CnameDepth = 1
  MaxCalls = 2
CHECK_DEADLOCK FALSE
PROPERTY EveryQueryAnswered
INVARIANTS NoLeakedLookup 
