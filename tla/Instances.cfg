\* Two writers and two proxied requests on two rows of one host.
CONSTANTS
    Writers = {w1, w2}
    Callers = {c1, c2}
    Ids = {1, 2}
    Names = {"gw", "GW", "edge"}
    Hosts = {h1}
    Versions = {"v1", "v2"}
    Images = {i1}
    AnyVersions = {"v1", "v2", ""}
    AnyImages = {i1}
    Fold <- Lower
    Found = {"gw"}
    Malformed = Malformed
    MaxWrites = 3
    MaxStarts = 2
    None = None
SYMMETRY Exchanged
SPECIFICATION Spec
INVARIANTS TypeOK NamesUnique PoolFresh
PROPERTY FirmwarePreserves
CHECK_DEADLOCK TRUE
