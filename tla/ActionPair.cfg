CONSTANTS
    r1 = r1
    r2 = r2
    h1 = h1
    h2 = h2
    d1 = d1
    d2 = d2
    NoHost = NoHost
    UnknownHost = UnknownHost
    Requests = {r1, r2}
    Daemons = {d1}
    HostList <- OneHost
    DaemonMaps <- OnOneHost
    Worlds <- OneWorld
    Menu <- Disturbed
    Callers <- PairCallers
SPECIFICATION Spec
CHECK_DEADLOCK FALSE
INVARIANT GoneOnlyIfReported
