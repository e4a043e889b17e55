\* A burst of two and a half tokens; two clients.
SPECIFICATION LimiterSpec
CONSTANTS
    Keys = {k1, k2}
    Burst = 5
    Rate = 1
    Cost = 2
    GCInterval = 3
    MaxCredit = 6
    None = None
INVARIANTS
    WindowBound
PROPERTIES
    ImplementsTokenBucket
