CONSTANTS
    p1 = p1
    p2 = p2
    Procs = {p1, p2}
    Pids = {1, 2}
    web = web
    Parts <- MCParts
    HostNames <- MCHostNames
    Configs <- MCConfigs
SPECIFICATION Spec
SYMMETRY Symmetry
INVARIANTS
    LeftoversGo
    ExposedIsGuarded
PROPERTY SweepSparesElders
