SPECIFICATION Spec
CONSTANTS
    Calls = {c1, c2, c3}
    Permits = 2
INVARIANT ActiveIsCurrent
CHECK_DEADLOCK FALSE
