\* Two requests at a time, with shorter limits than those of constants.go.
SPECIFICATION FairSpec
CONSTANTS
    Threads = {t1, t2}
    Kinds = {"login", "reauth"}
    MaxFailed = 2
    LockoutBase = 1
    LockoutMax = 3
    Window = 2
    MaxLag = 1
    MaxCount = 5
INVARIANTS
    TypeOK
    OnlyWrongCounted
    LockoutMatches
PROPERTIES
    LockoutEnds
