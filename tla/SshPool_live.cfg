\* Liveness: no symmetry, two cells at a time, and with_permits(0).
CONSTANTS
    Keys = {h1}
    Tasks = {t1, t2}
    Cells = {c1, c2}
    NoKey = NoKey
    NoCell = NoCell
    ExecPermits = 0
    IdleTimeout = 1
    EvictionTask = TRUE
    Cancellation = TRUE
    Shutdown = FALSE
SPECIFICATION FairSpec
PROPERTIES
    ExecReturns
    DiscardedIsReleased
