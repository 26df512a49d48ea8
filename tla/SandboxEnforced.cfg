SPECIFICATION FairSpec
CONSTANTS
    Runs = {r1}
    Loops = {r1}
PROPERTY TimeoutEnforced
CHECK_DEADLOCK FALSE
