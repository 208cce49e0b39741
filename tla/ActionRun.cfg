CONSTANTS
    r1 = r1
    r2 = r2
    h1 = h1
    h2 = h2
    d1 = d1
    d2 = d2
    NoHost = NoHost
    UnknownHost = UnknownHost
    Requests = {r1}
    Daemons = {d1, d2}
    HostList <- MCHostList
    DaemonMaps <- MCDaemonMaps
    Worlds <- MCWorlds
    Menu <- AnyOperation
    Callers <- MCCallers
SPECIFICATION Spec
CHECK_DEADLOCK FALSE
INVARIANTS
    TypeOK
    ReadersChangeNothing
    DestructiveOnlyAffirmed
    OnlyNamedHosts
    RecreateFailsEarly
    EveryDaemonAsked
    OneHostUnlessBlurred
    DeadClientsEvicted
PROPERTY PromiseSpec
