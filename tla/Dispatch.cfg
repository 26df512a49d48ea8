SPECIFICATION Spec
CONSTANTS
    Nodes = {n1, n2, n3}
    Addrs = {a1, a2, a3}
    None = None
    Capacity <- MCCapacity
    Home <- MCHome
    Running = {n1, n2, n3}
    MaxChurn = 0
    HealthChecker = FALSE
    MaxLoad = 1
    Flaky = TRUE
    FailureThreshold = 1
    Cooldown = 1
    Tasks = {t1, t2}
    Batched = {t1}
    Strategy = "least_loaded"
    MaxAttempts = 3
    MaxCapacityWaits = 1
    QueueRetries = 1
    BadAddrs = {}
INVARIANTS
    TypeOK
    RetryDiscipline
    FailureJustified
    ResultWhenDone
    QueuedBounds
    CountersAgree
PROPERTIES
    WedgeIsPermanent
    ImplementsTaskService
    OpenNodeSpared
CHECK_DEADLOCK FALSE
