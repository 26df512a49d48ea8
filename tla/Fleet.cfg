SPECIFICATION FairFleetSpec
CONSTANTS
    Nodes = {n1, n2}
    Node = n1
    Addrs = {a1, a2}
    None = None
    Capacity <- MCCapacity
    Home <- MCHome
    Running = {n1}
    MaxChurn = 3
    HealthChecker = TRUE
    MaxLoad = 2
    Flaky = FALSE
    Calls = {c1, c2}
    Permits = 1
INVARIANTS
    FleetTypeOK
    ActiveAccounting
    ExecutionAccounting
PROPERTIES
    LeaksShutNodeOut
    LoadConverges
    HealthConverges
