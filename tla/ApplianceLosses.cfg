\* The journal may lose the job once, and the host may process a request
\* after OAM gave up on it.
SPECIFICATION Spec
CONSTANTS
    Ops = {o1}
    Destructive = {}
    Callers = {c1}
    Reconciler = rec
    Sessions = {s1}
    Challenges = {h1}
    Fallible = {c1}
    NoOp = NoOp
    NoSession = NoSession
    AuditFails = {}
    MaxLosses = 1
    LateKinds = {"submit", "cancel"}
SYMMETRY Symmetry
PROPERTIES
    ReportedNeverRestarted
