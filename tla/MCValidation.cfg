SPECIFICATION Spec
CONSTANTS
    Zones <- MCZones
    Names <- MCNames
    Questions <- MCQuestions
    Worlds <- MCWorlds
    NoZone = NoZone
    MaxDepth = 3
INVARIANTS TypeOK  DenialsStand   NoSelfNesting
PROPERTY Replied
CHECK_DEADLOCK FALSE
