SPECIFICATION FairSpec
CONSTANTS
    Nodes = {n1}
    Addrs = {a1}
    None = None
    Capacity <- MCCapacity
    Home <- MCHome
    Running = {n1}
    MaxChurn = 1
    HealthChecker = TRUE
    MaxLoad = 1
    Flaky = FALSE
    FailureThreshold = 2
    Cooldown = 1
    Tasks = {t1}
    Batched = {t1}
    Strategy = "least_loaded"
    MaxAttempts = 2
    MaxCapacityWaits = 1
    QueueRetries = 3
    BadAddrs = {}
PROPERTY QueuedTaskSettles
CHECK_DEADLOCK FALSE
