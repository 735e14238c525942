SPECIFICATION Spec
CONSTANTS
  Keys = {k1}
  Clients = {c1, c2}
  TicksPerSecond = 2
  Messages <- SmallMessages
  Uint32 = 64
  MaxTime = 7
  MaxSets = 2
SYMMETRY ClientSymmetry
CHECK_DEADLOCK FALSE
INVARIANTS TypeOK HitHasRemainingTTL ExpiredStaysRemoved
PROPERTY ImplementsExpiringMap
