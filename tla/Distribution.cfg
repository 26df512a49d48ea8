SPECIFICATION FairSpec
CONSTANTS
    Blobs = {b1, b2}
    Nodes = {n1}
    Calls = {c1, c2}
    None = None
    Garbled = Garbled
    TTL = 2
    MaxRestarts = 1
INVARIANTS
    TypeOK
    HashHonoured
PROPERTY
    RegistryPrevails
