SPECIFICATION FairSpec
CONSTANTS
    Runs = {r1, r2}
    Loops = {r1}
INVARIANTS
    TypeOK
    TimeoutExplained
PROPERTY
    InTimeTimerEndsRun
CHECK_DEADLOCK FALSE
