\* Two processes of four builds; three databases.
SPECIFICATION FairSpec
CONSTANTS
    Procs = {p1, p2}
    Builds <- SomeBuilds
    Sums = {a, b}
    a = a
    b = b
    MaxVersion = 3
    InitialDatabases <- SomeDatabases
    None = None
    Nobody = Nobody
INVARIANTS
    ExecutedOnce
    HistoryTruthful
    ServesKnownSchema
    NeverConflicts
PROPERTIES
    StartsEnd
