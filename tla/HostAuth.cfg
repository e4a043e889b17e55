\* Two requests, two verifications at a time, at the edge of what the window absorbs.
SPECIFICATION Spec
CONSTANTS
    Nonces = {n1, n2}
    Threads = {t1, t2}
    Skew = 2
    MaxAhead = 1
    MaxStall = 1
    MaxClock = 8
    None = None
INVARIANTS
    AcceptedOnce
    RefusedOnlyIfUsed
