SPECIFICATION FairSpec
CONSTANTS
    Nodes = {n1, n2}
    Addrs = {a1, a2}
    None = None
    Capacity <- MCCapacity
    Home <- MCHome
    Running = {n1}
    MaxChurn = 2
    HealthChecker = TRUE
    MaxLoad = 1
    Flaky = TRUE
    FailureThreshold = 2
    Cooldown = 1
    Tasks = {t1}
    Batched = {}
    Strategy = "round_robin"
    MaxAttempts = 2
    MaxCapacityWaits = 1
    QueueRetries = 1
    BadAddrs = {a2}
PROPERTIES
    SettlesUnlessQueued
    WorkBounded
CHECK_DEADLOCK FALSE
