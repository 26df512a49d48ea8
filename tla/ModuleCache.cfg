SPECIFICATION Spec
CONSTANTS
    k1 = k1
    k2 = k2
    k3 = k3
    Keys = {k1, k2, k3}
    Callers = {c1, c2}
    Size <- MCSize
    Cap = 2
    TTL = 2
    Invalidated = {k1}
    MaxMisses = 6
INVARIANTS
    TypeOK
    BytesMatch
    EvictionsExact
