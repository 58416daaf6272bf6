SPECIFICATION Spec
CONSTANTS
    Caller = {c1, c2}
    Tenant = {t1}
    Client = {a, b}
    Burst <- MCBurst
    Window = 3
    Second = 2
    MaxSkew = 1
    MaxTime = 5
SYMMETRY Symmetry
INVARIANTS BurstBounded
PROPERTIES RetryKeepsPromise
