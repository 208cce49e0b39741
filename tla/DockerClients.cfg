\* One host, two callers, and everything that can happen to the tunnels.
CONSTANTS
    Hosts = {h1}
    Tasks = {t1, t2}
    Cells = {c1, c2}
    Sessions = {s1, s2}
    NoHost = NoHost
    NoCell = NoCell
    NoSession = NoSession
    Stale = Stale
SPECIFICATION FairSpec
INVARIANT TypeOK
PROPERTIES
    ClientsAreShared
    DeadTunnelLeaves
    OnlyFailedBuildsLeak
    CallReturns
