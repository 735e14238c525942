SPECIFICATION FairSpec
CONSTANTS
    root = root
    com = com
    example = example
    h1 = h1
    h2 = h2
    g1 = g1
    g2 = g2
    Goroutines = {g1, g2}
    Zones = {root, com}
    Root = root
    Parent <- Chain
    Level <- Labels
    Hosts = {h1, h2}
    Local = {h2}
    RootHosts = {h1}
    NoEntry = NoEntry
    MaxDepth = 1
    Callers <- AllCallers
INVARIANTS LookupHasServers DepthBound
CHECK_DEADLOCK FALSE
 
