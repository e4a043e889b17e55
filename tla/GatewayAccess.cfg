\* One request at a time, in every spelling of a path the canonical form knows.
CONSTANTS
    DocumentFamilies = {"snapshot"}
    ConfigFamilies = {"loadbalancer"}
    OperationalFamilies = {"status"}
    Paths <- SomePaths
    Methods = {"GET", "POST", "TRACE"}
    Versions <- SomeVersions
    Unparsable = Unparsable
    Addresses = {"edge", "other"}
    Ports = {8443}
    ReservedLists <- SomeLists
    None = None
SPECIFICATION Spec
INVARIANTS RoutedAsAuthorized ReservedKept OriginTruthful
CHECK_DEADLOCK TRUE
