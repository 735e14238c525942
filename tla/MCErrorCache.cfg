SPECIFICATION Spec
CONSTANTS
  Keys = {k1, k2, k3}
  Clients = {c1, c2}
  NoKey = NoKey
  size = 1
  TicksPerSecond = 2
  ttl = 2
  MaxTime = 5
SYMMETRY CacheSymmetry
CHECK_DEADLOCK FALSE
PROPERTIES LoneSetKeepsBound ImplementsExpiringMap
