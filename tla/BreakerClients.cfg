SPECIFICATION FairSpec
CONSTANTS
    FailureThreshold = 2
    Cooldown = 2
    Requests = {r1, r2, r3, r4}
INVARIANTS
    TypeOK
    BreakerConsistent
PROPERTIES
    CooldownHeld
    OpenIsLeft
