\* Two requests beside the scheduler; one of the two instances has a schedule.
SPECIFICATION Spec
CONSTANTS
    u1 = u1
    u2 = u2
    Users = {u1, u2}
    Asks <- MCAsks
    Scheduler = scheduler
    i1 = i1
    i2 = i2
    lb = lb
    fw = fw
    Instances = {i1, i2}
    Domains = {lb, fw}
    Vals = {0, 1}
    Keys = {k1}
    Uploads <- MCUploads
    Stored <- MCStored
    Selections <- MCSelections
    Targets <- MCTargets
    First <- MCFirst
    Scheduled = {i1}
    DefaultRetain = 2
    Retains = {0, 1}
    MaxIds = 4
    MaxEvents = 2
    Omitted = Omitted
    Damaged = Damaged
    None = None
INVARIANTS
    IntactOnly
    SafetyNet
    PinHonoured
PROPERTIES
    RetentionSpares
    SelectionKept
    FlagTruthful
