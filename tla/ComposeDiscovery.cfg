\* One host, two callers, two changes, and a clock that may be set.
CONSTANTS
    Hosts = {h1}
    Tasks = {t1, t2}
    NoHost = NoHost
    NoEntry = NoEntry
    TTL = 1
    MaxVersion = 2
    ClockJumps = TRUE
SPECIFICATION FairSpec
INVARIANTS
    QuietRefreshIsSeen
    CachedIsWhole
PROPERTY ListReturns
