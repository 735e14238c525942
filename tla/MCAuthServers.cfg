SPECIFICATION FairSpec
CONSTANTS
    h1 = h1
    h2 = h2
    c1 = c1
    p = p
    NoOne = NoOne
    Clients = {c1}
    Primer = p
    Hosts = {h1, h2}
    Lists <- TwoLists
    Nets = {"tcp"}
    Rtts = {2}
    SortEvery = 2
    MaxLookups = 1
    Debuggers = {c1}
INVARIANTS NoServerSkipped  AverageInRange
CHECK_DEADLOCK FALSE
PROPERTY EveryLookupReturns
