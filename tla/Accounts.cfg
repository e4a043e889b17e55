\* A fresh installation, or one in use with two administrators.
SPECIFICATION Spec
CONSTANTS
    Ids = {u1, u2}
    Names = {admin, bob}
    Passwords = {default, secret}
    DefaultName = admin
    DefaultPw = default
    Tokens = {k1, k2}
    Threads = {t1, t2}
    NoThread = NoThread
    Keep = Keep
    Updates <- SomeUpdates
    InitialTables <- FreshOrInUse
SYMMETRY Symmetry
INVARIANTS
    AdminRemains
    SessionsFollowPassword
PROPERTIES
    RefusedForever
