\* The reconciler and the host are fair; nobody else is.
SPECIFICATION FairSpec
CONSTANTS
    Ops = {o1}
    Destructive = {}
    Callers = {c1}
    Reconciler = rec
    Sessions = {s1}
    Challenges = {h1}
    Fallible = {c1}
    NoOp = NoOp
    NoSession = NoSession
    AuditFails = {}
    MaxLosses = 0
    LateKinds = {}
PROPERTIES
    SubmittedSettles
