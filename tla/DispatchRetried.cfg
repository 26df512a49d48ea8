SPECIFICATION Spec
CONSTANTS
    Nodes = {n1, n2, n3}
    Addrs = {a1, a2, a3}
    None = None
    Capacity <- MCCapacity
    Home <- MCHome
    Running = {n1, n2, n3}
    MaxChurn = 0
    HealthChecker = FALSE
    MaxLoad = 1
    Flaky = FALSE
    FailureThreshold = 3
    Cooldown = 1
    Tasks = {t1}
    Batched = {}
    Strategy = "round_robin"
    MaxAttempts = 3
    MaxCapacityWaits = 1
    QueueRetries = 3
    BadAddrs = {}
INVARIANT RetriedCountsTasks
CHECK_DEADLOCK FALSE
