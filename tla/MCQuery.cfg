CONSTANTS
    Spellings <- MCSpellings
    ToLower <- MCToLower
    Junk = "junk"
    Host <- MCHost
    Body <- MCBody
    Hosts <- MCHosts
    Directory <- MCDirectory
    Bad <- MCBad
    Blocklist <- MCBlocklist
    Whitelist = {"w", "v"}
    Managed = {"a", "w"}
    Budgets <- MCBudgets
    Clients = {1, 2}
    Requests <- MCRequests
    Signed = {"a"}
    Targets <- MCTargets
    TTL = 0
    Expire = 0
    RateLimit = TRUE
SPECIFICATION Spec
INVARIANTS TypeOK LoadedListComplete BlockedForAReason TemporaryFilesRemoved SignaturesOnRequest
PROPERTIES  LoadEnds
CHECK_DEADLOCK FALSE
