SPECIFICATION Spec
CONSTANTS
    root = root
    com = com
    example = example
    h1 = h1
    h2 = h2
    g1 = g1
    g2 = g2
    Goroutines = {g1, g2}
    Zones = {root, com}
    Root = root
    Parent <- Chain
    Level <- Labels
    Hosts = {h1, h2}
    Local = {}
    RootHosts = {h1}
    NoEntry = NoEntry
    MaxDepth = 2
    Callers <- ClientOnly
SYMMETRY Symmetry
INVARIANT NeverPanics
CHECK_DEADLOCK FALSE
