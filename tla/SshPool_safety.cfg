\* One host, three callers, and everything that can happen to the pool.
CONSTANTS
    Keys = {h1}
    Tasks = {t1, t2, t3}
    Cells = {c1, c2, c3}
    NoKey = NoKey
    NoCell = NoCell
    ExecPermits = 1
    IdleTimeout = 1
    EvictionTask = TRUE
    Cancellation = TRUE
    Shutdown = TRUE
SPECIFICATION Spec
SYMMETRY SafetySymmetry
INVARIANTS
    TypeOK
    PermitsConserved
    ExclusiveConnect
    ClosedIsUnused
    WaitersAreServed
PROPERTIES
    SessionsAreShared
    FailureSparesSessions
    OnlyCancelLeavesGhosts
