SPECIFICATION FairSpec
CONSTANTS
  k1 = k1
  k2 = k2
  Keys = {k1}
  Goroutines = {g1, g2, g3}
  NoChan = NoChan
  ClientKeys = {k1}
  NSKeys = {k1}
  NoKey = NoKey
  Cname <- CnameSelf
  Blocked = {}
  Protos = {"udp"}
  RateLimit = FALSE
  TruncatedTCP = FALSE
  CnameDepth = 0
  MaxCalls = 0
CHECK_DEADLOCK FALSE
PROPERTY EveryQueryAnswered
INVARIANT WaiterAccounted
