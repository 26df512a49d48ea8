SPECIFICATION ApiSpec
CONSTANTS
    t1 = t1  t2 = t2  t3 = t3  t4 = t4  t5 = t5  t6 = t6  t7 = t7  t8 = t8
    r1 = r1  r2 = r2  r3 = r3  r4 = r4
    Tasks <- MCTasks
    Requests = {r1, r2, r3, r4}
    Items <- MCItems
    Single = {r1}
    MaxBatch = 3
INVARIANTS
    ApiTypeOK
    EndedRequests
PROPERTY
    RequestsEnd
CHECK_DEADLOCK FALSE
