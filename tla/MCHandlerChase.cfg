SPECIFICATION FairSpec
CONSTANTS
  k1 = k1
  k2 = k2
  Keys = {k1, k2}
  Goroutines = {g1, g2}
  NoChan = NoChan
  ClientKeys = {k1, k2}
  NSKeys = {k1, k2}
  NoKey = NoKey
  Cname <- CnameLoop
  Blocked = {k2}
  Protos = {"udp", "https"}
  RateLimit = TRUE
  TruncatedTCP = TRUE
  CnameDepth = 3
  MaxCalls = 0
CHECK_DEADLOCK FALSE
INVARIANTS TypeOK ClosedOnce NoSelfWait
PROPERTY EveryQueryAnswered
