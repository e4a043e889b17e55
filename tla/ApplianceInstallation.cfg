\* Two destructive operations that compete for the installation, and two
\* challenges.
SPECIFICATION Spec
CONSTANTS
    Ops = {o1, o2}
    Destructive = {o1, o2}
    Callers = {c1}
    Reconciler = rec
    Sessions = {s1}
    Challenges = {h1, h2}
    Fallible = {c1, rec}
    NoOp = NoOp
    NoSession = NoSession
    AuditFails = {}
    MaxLosses = 0
    LateKinds = {}
SYMMETRY OpSymmetry
INVARIANTS
    HostExclusive
    ChallengeSpentOnExecution
PROPERTIES
    ImplementsSlot
