\* One backup, two request threads and the reconciler; replies, requests and
\* commits may be lost and a thread may stop anywhere.
SPECIFICATION Spec
CONSTANTS
    Ops = {o1}
    Destructive = {}
    Callers = {c1, c2}
    Reconciler = rec
    Sessions = {s1}
    Challenges = {h1}
    Fallible = {c1, c2, rec}
    NoOp = NoOp
    NoSession = NoSession
    AuditFails = {"CANCELLED", "SUCCEEDED"}
    MaxLosses = 0
    LateKinds = {}
SYMMETRY Symmetry
INVARIANTS
    ExecutedAtMostOnce
    EndedByOAMNeverRan
    RowFollowsJournal
    AuditTrailKept
PROPERTIES
    TerminalIsFinal
