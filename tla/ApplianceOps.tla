---------------------------- MODULE ApplianceOps ----------------------------
(***************************************************************************)
(* Whole-Appliance operations: the rows of appliance_operations and        *)
(* appliance_challenges that OAM keeps in PostgreSQL, the host adapter's   *)
(* journal, and the threads of OAM that move an operation from PLANNED to  *)
(* its end (internal/appliance/lifecycle.go).                              *)
(*                                                                         *)
(* Granularity.  A transaction that talks to the database only is one      *)
(* step: every statement of it re-checks its condition on a row it then    *)
(* keeps locked until commit, and what it read before is only used to      *)
(* refuse early.  A call to the host is a step of its own, between the     *)
(* statement that precedes it and the one that records its answer, so      *)
(* every other thread may run in between; "deliver" and                    *)
(* "cancelUndelivered" hold the operation's row meanwhile.                 *)
(*                                                                         *)
(* An operation is identified by its actor and idempotency key, which the  *)
(* table keeps unique, and there is one installation, as there is one host *)
(* adapter.  Timestamps, hashes and messages are left out: no decision     *)
(* below depends on them.                                                  *)
(***************************************************************************)
EXTENDS Naturals, Sequences, FiniteSets

CONSTANTS
    Ops,          \* operations, one per actor and idempotency key
    Destructive,  \* the operations that require reauthentication
    Callers,      \* request threads of the HTTP API
    Reconciler,   \* the goroutine of RunReconciler
    Sessions,     \* user sessions (the jti of a token)
    Challenges,   \* challenge values Authorize may draw
    NoOp,         \* "no operation"
    NoSession,    \* "no session"
    Fallible,     \* threads that may stop at any point of their work
    AuditFails,   \* the states whose audit record, outside a transaction, may be lost
    MaxLosses,    \* how often the journal may lose an operation's job
    LateKinds     \* requests the host may process after OAM gave up on them

ASSUME ConstantsAssumption ==
    /\ Destructive \subseteq Ops
    /\ Reconciler \notin Callers
    /\ Fallible \subseteq Callers \cup {Reconciler}
    /\ NoOp \notin Ops
    /\ NoSession \notin Sessions
    /\ MaxLosses \in Nat
    /\ LateKinds \subseteq {"submit", "cancel"}

Threads == Callers \cup {Reconciler}

VARIABLES
    row,         \* row[o]: the row of appliance_operations
    chal,        \* chal[c]: the row of appliance_challenges
    audit,       \* audit[o]: the new_state of each of its rows in appliance_audit
    journal,     \* journal[o]: the entries the host's job went through
    executions,  \* executions[o]: jobs the host actually started
    late,        \* requests OAM gave up on that the host may yet process
    pc,          \* pc[t]: where thread t is
    tgt,         \* tgt[t]: the operation it works on
    seen,        \* seen[t]: the copy of the row it read
    ans          \* ans[t]: the host's answer it has not recorded yet

dbVars     == <<row, chal, audit>>
hostVars   == <<journal, executions, late>>
threadVars == <<pc, tgt, seen, ans>>
vars       == <<row, chal, audit, journal, executions, late, pc, tgt, seen, ans>>

-----------------------------------------------------------------------------
(* Operation states                                                        *)

Terminal == {"SUCCEEDED", "FAILED", "ROLLED_BACK", "CANCELLED"}

\* The states the partial unique index counts as occupying the installation.
Active == {"AWAITING_AUTHORIZATION", "QUEUED", "RUNNING", "VERIFYING",
           "COMPENSATING", "RECOVERY_REQUIRED"}

Unsubmitted == {"PLANNED", "AWAITING_AUTHORIZATION"}

\* The states the host adapter may report (checkJob refuses any other).
HostOwned == {"QUEUED", "RUNNING", "VERIFYING", "SUCCEEDED", "FAILED",
              "COMPENSATING", "ROLLED_BACK", "RECOVERY_REQUIRED", "CANCELLED"}

States == {"PLANNED"} \cup Active \cup Terminal

Reconciliations == {"IN_SYNC", "HOST_UNREACHABLE", "HOST_UNKNOWN"}

\* error_code, with one value for every code the host may give.
Codes == {"", "PLAN_EXPIRED", "CANCELLED_BY_USER", "HOST_JOB_LOST", "HOST_CODE"}

\* "point" stands for the phase of the operation's own type: archive,
\* stop-services, switch-slot or wipe-state.
Phases == {"", "prepare", "point", "verify", "undo"}

\* A row; state "ABSENT" is a row not inserted yet.  "expired" says that
\* plan_expires_at has passed, "gen" is host_generation.
Row == [state : States \cup {"ABSENT"}, phase : Phases, expired : BOOLEAN, submitted : BOOLEAN,
        gen : Nat, rec : Reconciliations, code : Codes]

AbsentRow == [state |-> "ABSENT", phase |-> "", expired |-> FALSE, submitted |-> FALSE,
              gen |-> 0, rec |-> "IN_SYNC", code |-> ""]

Challenge == [op : Ops \cup {NoOp}, session : Sessions \cup {NoSession},
              status : {"unissued", "live", "expired", "consumed", "deleted"}]

Unissued == [op |-> NoOp, session |-> NoSession, status |-> "unissued"]

-----------------------------------------------------------------------------
(* The host adapter's journal                                              *)

Entry(s, ph) == [state |-> s, phase |-> ph]

Queued       == Entry("QUEUED", "")
Prepare      == Entry("RUNNING", "prepare")
Point        == Entry("RUNNING", "point")
Verify       == Entry("VERIFYING", "verify")
Undo         == Entry("COMPENSATING", "undo")
Succeeded    == Entry("SUCCEEDED", "")
Failed       == Entry("FAILED", "")
NeedsRepair  == Entry("RECOVERY_REQUIRED", "")
Stopped      == Entry("CANCELLED", "")

Entries == {Queued, Prepare, Point, Verify, Undo, Succeeded, Failed,
            NeedsRepair, Stopped}

\* Consecutive entries of the scripts a job may walk, whatever its outcome.
ScriptEdges ==
    {<<Queued, Prepare>>, <<Prepare, Failed>>, <<Prepare, Point>>,
     <<Point, Undo>>, <<Undo, NeedsRepair>>,
     <<Point, Verify>>, <<Verify, Succeeded>>}

Following(e) == {d \in Entries : <<e, d>> \in ScriptEdges}

Current(o) == journal[o][Len(journal[o])]

\* The host has a job for o that has not ended.
Live(o) == journal[o] # <<>> /\ Following(Current(o)) # {}

\* The first steps can be cancelled; a backup changes nothing, so it stays
\* cancellable until it verifies.
HostCancellable(o) ==
    \/ Current(o) \in {Queued, Prepare}
    \/ o \notin Destructive /\ Current(o) = Point

NoJob(kind) == [kind |-> kind, gen |-> 0, state |-> "", phase |-> ""]
NoAnswer    == NoJob("none")
Unreachable == NoJob("unreachable")
NotFound    == NoJob("notfound")
Rejected    == NoJob("rejected")

Answers == {NoAnswer, Unreachable, NotFound, Rejected}
               \cup [kind : {"job"}, gen : Nat \ {0}, state : HostOwned, phase : Phases]

\* What the journal says of a job that has reached the entries j.
JobAnswer(j) == [kind |-> "job", gen |-> Len(j),
                 state |-> j[Len(j)].state, phase |-> j[Len(j)].phase]

\* GET /v1/jobs/{id}.
getJob(o) == IF journal[o] = <<>> THEN NotFound ELSE JobAnswer(journal[o])

\* Every reply the host could give about o now.
Replies(o) == {getJob(o), Rejected, JobAnswer(<<Queued>>),
               JobAnswer(Append(journal[o], Stopped))}

\* Mutant: a repeated submission starts the job over.
BugSubmitJob(o, reply) ==
    /\ journal' = [journal EXCEPT ![o] = <<Queued>>]
    /\ executions' = [executions EXCEPT ![o] = @ + 1]
    /\ reply = JobAnswer(<<Queued>>)

\* POST /v1/jobs: idempotent on the operation; a job the host does not have
\* is started, or refused because the installation changed.
submitJob(o, reply) ==
    \/ /\ journal[o] # <<>>
       /\ reply = JobAnswer(journal[o])
       /\ UNCHANGED <<journal, executions>>
    \/ /\ journal[o] = <<>>
       /\ reply = Rejected
       /\ UNCHANGED <<journal, executions>>
    \/ /\ journal[o] = <<>>
       /\ journal' = [journal EXCEPT ![o] = <<Queued>>]
       /\ executions' = [executions EXCEPT ![o] = @ + 1]
       /\ reply = JobAnswer(<<Queued>>)

\* POST /v1/jobs/{id}/cancel: the host decides whether it can still stop.
cancelJob(o, reply) ==
    \/ /\ journal[o] = <<>>
       /\ reply = NotFound
       /\ UNCHANGED journal
    \/ /\ journal[o] # <<>>
       /\ Current(o) = Stopped
       /\ reply = JobAnswer(journal[o])
       /\ UNCHANGED journal
    \/ /\ journal[o] # <<>>
       /\ Current(o) # Stopped
       /\ ~HostCancellable(o)
       /\ reply = Rejected
       /\ UNCHANGED journal
    \/ /\ journal[o] # <<>>
       /\ HostCancellable(o)
       /\ journal' = [journal EXCEPT ![o] = Append(@, Stopped)]
       /\ reply = JobAnswer(Append(journal[o], Stopped))

-----------------------------------------------------------------------------
(* Row operations: what one SQL statement makes of a row                   *)

\* Mutant: cancelUndelivered reads the row without FOR UPDATE.
BugLocking == {"submitting", "submitted"}

\* The thread holds the row of its operation FOR UPDATE.
Locking == {"submitting", "submitted", "recancelling", "recancelled"}

Locked(o) == \E t \in Threads : tgt[t] = o /\ pc[t] \in Locking

\* Mutant: an index that forgets the QUEUED state.
BugIndexAllows(rs, o, s) ==
    s \in Active => \A q \in Ops \ {o} : rs[q].state \notin Active \ {"QUEUED"}

\* The one-active index accepts o in state s, the other rows being rs.
IndexAllows(rs, o, s) ==
    s \in Active => \A q \in Ops \ {o} : rs[q].state \notin Active

\* expirePlans on one row, and on the table.
Expire(r) ==
    IF r.state \in Unsubmitted /\ r.expired
    THEN [r EXCEPT !.state = "CANCELLED", !.code = "PLAN_EXPIRED"]
    ELSE r

expirePlans == [o \in Ops |-> Expire(row[o])]

\* Mutant: only the state is checked.
BugUndelivered(r) == r.state = "QUEUED"

\* The condition under which "undelivered" returns the row it locked.
Undelivered(r) == r.state = "QUEUED" /\ r.gen = 0

\* A row of appliance_audit.  Outside a transaction ("audit") the event has
\* happened already, and a failure to record it is only logged.
audited(o, st, inTx) ==
    \/ audit' = [audit EXCEPT ![o] = @ \cup {st}]
    \/ ~inTx /\ st \in AuditFails /\ UNCHANGED audit

\* Mutant: every answer is recorded, whatever its generation.
BugAppliedJob(o, s, a) ==
    [row[o] EXCEPT !.state = a.state, !.phase = a.phase, !.gen = a.gen,
                   !.rec = "IN_SYNC"]

\* Mutant: the generation never falls, but the state is always recorded.
BugAppliedState(o, s, a) ==
    [row[o] EXCEPT !.state = a.state, !.phase = a.phase, !.rec = "IN_SYNC",
                   !.gen = IF row[o].gen < a.gen THEN a.gen ELSE row[o].gen]

\* applyJob: the row follows a newer entry; otherwise an answer still clears
\* a stale marker, if the copy s of the row had one.  The unique index may
\* refuse the new state, which leaves the row as it is.
AppliedJob(o, s, a) ==
    LET r == row[o] IN
    IF r.gen < a.gen
    THEN IF IndexAllows(row, o, a.state)
         THEN [r EXCEPT !.state = a.state, !.phase = a.phase,
                        !.gen = a.gen, !.rec = "IN_SYNC",
                        !.code = IF a.state \in {"FAILED", "RECOVERY_REQUIRED"}
                                 THEN "HOST_CODE" ELSE ""]
         ELSE r
    ELSE IF s.rec = "HOST_UNREACHABLE" /\ r.rec = "HOST_UNREACHABLE"
         THEN [r EXCEPT !.rec = "IN_SYNC"]
         ELSE r

applyJob(o, s, a, inTx) ==
    /\ row' = [row EXCEPT ![o] = AppliedJob(o, s, a)]
    /\ IF /\ AppliedJob(o, s, a).gen # row[o].gen
          /\ a.state # s.state \/ a.phase # s.phase
       THEN audited(o, a.state, inTx)
       ELSE UNCHANGED audit

\* Mutant: what OAM decides on its own is not audited.
BugFinishWithoutHost(o, s, st, cd, inTx) ==
    /\ row' = [row EXCEPT ![o].state = st, ![o].code = cd, ![o].rec = "IN_SYNC"]
    /\ UNCHANGED audit

\* finishWithoutHost: only while the row is still in the state that was read.
finishWithoutHost(o, s, st, cd, inTx) ==
    IF row[o].state = s.state
    THEN /\ row' = [row EXCEPT ![o] =
                       [@ EXCEPT !.state = st, !.code = cd,
                                 !.rec = IF cd = "HOST_JOB_LOST"
                                         THEN "HOST_UNKNOWN" ELSE "IN_SYNC"]]
         /\ audited(o, st, inTx)
    ELSE UNCHANGED <<row, audit>>

markUnreachable(o, s) ==
    /\ row' = IF s.rec = "HOST_UNREACHABLE" THEN row
              ELSE [row EXCEPT ![o].rec = "HOST_UNREACHABLE"]
    /\ UNCHANGED audit

-----------------------------------------------------------------------------
(* Thread bookkeeping                                                      *)

Goto(t, where) ==
    pc' = [pc EXCEPT ![t] = where]

\* Thread t is done with its request: it forgets all it read.
Return(t) ==
    /\ pc'   = [pc   EXCEPT ![t] = "idle"]
    /\ tgt'  = [tgt  EXCEPT ![t] = NoOp]
    /\ seen' = [seen EXCEPT ![t] = AbsentRow]
    /\ ans'  = [ans  EXCEPT ![t] = NoAnswer]

\* Thread t starts working on o at "where", having read r.
Begin(t, o, where, r) ==
    /\ pc[t] = "idle"
    /\ pc'   = [pc   EXCEPT ![t] = where]
    /\ tgt'  = [tgt  EXCEPT ![t] = o]
    /\ seen' = [seen EXCEPT ![t] = r]
    /\ UNCHANGED ans

-----------------------------------------------------------------------------
(* Requests that only change the database                                  *)

\* PlanOperation: the unique idempotency key decides between two inserts.
PlanOperation(o) ==
    /\ row[o].state = "ABSENT"
    /\ row' = [expirePlans EXCEPT ![o] = [AbsentRow EXCEPT !.state = "PLANNED"]]
    /\ audited(o, "PLANNED", FALSE)
    /\ UNCHANGED <<chal, hostVars, threadVars>>

\* GetOperation and ListOperations: expire, then read.  Any other request
\* that is refused after its load comes to the same.
GetOperation ==
    /\ row' = expirePlans
    /\ UNCHANGED <<chal, audit, hostVars, threadVars>>

\* Authorize: claim the installation, replace the operation's challenge.
Authorize(o, s, c) ==
    /\ o \in Destructive
    /\ expirePlans[o].state \in Unsubmitted
    /\ IndexAllows(expirePlans, o, "AWAITING_AUTHORIZATION")
    /\ chal[c].status = "unissued"
    /\ row' = [expirePlans EXCEPT ![o].state = "AWAITING_AUTHORIZATION"]
    /\ chal' = [d \in Challenges |->
                  IF d = c THEN [op |-> o, session |-> s, status |-> "live"]
                  ELSE IF chal[d].op = o /\ chal[d].status \in {"live", "expired"}
                  THEN [chal[d] EXCEPT !.status = "deleted"]
                  ELSE chal[d]]
    /\ audited(o, "AWAITING_AUTHORIZATION", TRUE)
    /\ UNCHANGED <<hostVars, threadVars>>

\* Mutant: the challenge is not matched with the operation.
BugChallengeAccepted(o, s, c) ==
    chal[c].session = s /\ chal[c].status = "live"

\* consumeChallenge: the challenge authorizes exactly this request.
ChallengeAccepted(o, s, c) ==
    chal[c] = [op |-> o, session |-> s, status |-> "live"]

\* Submit, up to the commit; the thread then delivers.  A destructive
\* operation presents its challenge, a backup is submitted from PLANNED.
Submit(t, o, s, c) ==
    /\ t \in Callers
    /\ expirePlans[o].state =
          (IF o \in Destructive THEN "AWAITING_AUTHORIZATION" ELSE "PLANNED")
    /\ IndexAllows(expirePlans, o, "QUEUED")
    /\ IF o \in Destructive
       THEN /\ ChallengeAccepted(o, s, c)
            /\ chal' = [chal EXCEPT ![c].status = "consumed"]
       ELSE UNCHANGED chal
    /\ row' = [expirePlans EXCEPT ![o].state = "QUEUED", ![o].submitted = TRUE]
    /\ audited(o, "QUEUED", TRUE)
    /\ Begin(t, o, "deliver", AbsentRow)
    /\ UNCHANGED hostVars

\* Cancel of an operation that was not submitted.
CancelPlanned(o) ==
    /\ expirePlans[o].state \in Unsubmitted
    /\ row' = [expirePlans EXCEPT ![o].state = "CANCELLED",
                                  ![o].code = "CANCELLED_BY_USER"]
    /\ audited(o, "CANCELLED", FALSE)
    /\ UNCHANGED <<chal, hostVars, threadVars>>

\* The database clock passes plan_expires_at; no challenge outlives its plan.
PlanExpires(o) ==
    /\ row[o].state \in Unsubmitted
    /\ ~row[o].expired
    /\ row' = [row EXCEPT ![o].expired = TRUE]
    /\ chal' = [c \in Challenges |->
                  IF chal[c].op = o /\ chal[c].status = "live"
                  THEN [chal[c] EXCEPT !.status = "expired"] ELSE chal[c]]
    /\ UNCHANGED <<audit, hostVars, threadVars>>

ChallengeExpires(c) ==
    /\ chal[c].status = "live"
    /\ chal' = [chal EXCEPT ![c].status = "expired"]
    /\ UNCHANGED <<row, audit, hostVars, threadVars>>

-----------------------------------------------------------------------------
(* Delivery: deliver, undelivered, submitToHost                            *)

\* SELECT ... FOR UPDATE waits for the row; nothing to do unless undelivered.
LockForDelivery(t) ==
    /\ pc[t] = "deliver"
    /\ ~Locked(tgt[t])
    /\ IF Undelivered(row[tgt[t]])
       THEN /\ Goto(t, "submitting")
            /\ seen' = [seen EXCEPT ![t] = row[tgt[t]]]
            /\ UNCHANGED <<tgt, ans>>
       ELSE Return(t)
    /\ UNCHANGED <<dbVars, hostVars>>

\* The host processes the request, and OAM gets the reply or loses it; or it
\* never reaches the host; or the host processes it after OAM gave up.
CallSubmit(t) ==
    /\ pc[t] = "submitting"
    /\ Goto(t, "submitted")
    /\ \/ /\ \E reply \in Replies(tgt[t]) :
                /\ submitJob(tgt[t], reply)
                /\ \E heard \in {reply, Unreachable} : ans' = [ans EXCEPT ![t] = heard]
          /\ UNCHANGED late
       \/ /\ ans' = [ans EXCEPT ![t] = Unreachable]
          /\ UNCHANGED hostVars
       \/ /\ "submit" \in LateKinds
          /\ late' = late \cup {<<"submit", tgt[t]>>}
          /\ ans' = [ans EXCEPT ![t] = Unreachable]
          /\ UNCHANGED <<journal, executions>>
    /\ UNCHANGED <<dbVars, tgt, seen>>

\* submitToHost records the answer and deliver commits.
RecordSubmit(t) ==
    /\ pc[t] = "submitted"
    /\ \/ ans[t].kind = "job" /\ applyJob(tgt[t], seen[t], ans[t], TRUE)
       \/ /\ ans[t].kind = "rejected"
          /\ finishWithoutHost(tgt[t], seen[t], "FAILED", "HOST_CODE", TRUE)
       \/ ans[t].kind = "unreachable" /\ markUnreachable(tgt[t], seen[t])
    /\ Return(t)
    /\ UNCHANGED <<chal, hostVars>>

-----------------------------------------------------------------------------
(* Reconciliation                                                          *)

\* POST .../reconcile; reconcile returns at once unless submitted and open.
Reconcile(t, o) ==
    /\ t \in Callers
    /\ expirePlans[o].submitted
    /\ expirePlans[o].state \notin Terminal
    /\ row' = expirePlans
    /\ Begin(t, o, "reading", expirePlans[o])
    /\ UNCHANGED <<chal, audit, hostVars>>

\* One round of RunReconciler.  The one-active index leaves at most one row
\* for its query to return, so the batch is a single operation.
ReconcileActive(o) ==
    /\ row[o].submitted
    /\ row[o].state \in Active \ {"AWAITING_AUTHORIZATION"}
    /\ Begin(Reconciler, o, "reading", row[o])
    /\ UNCHANGED <<dbVars, hostVars>>

CallJob(t) ==
    /\ pc[t] = "reading"
    /\ Goto(t, "read")
    /\ \E heard \in {getJob(tgt[t]), Unreachable} : ans' = [ans EXCEPT ![t] = heard]
    /\ UNCHANGED <<dbVars, hostVars, tgt, seen>>

\* Mutant: the reconciler leaves an operation the host never saw to others.
BugRecordJob(t) ==
    /\ pc[t] = "read"
    /\ ~Locked(tgt[t])
    /\ \/ ans[t].kind = "job" /\ applyJob(tgt[t], seen[t], ans[t], FALSE)
       \/ ans[t].kind = "notfound" /\ UNCHANGED <<row, audit>>
       \/ ans[t].kind = "unreachable" /\ markUnreachable(tgt[t], seen[t])
    /\ Return(t)
    /\ UNCHANGED <<chal, hostVars>>

\* The answer to a read.  Every write waits for a thread that holds the row.
RecordJob(t) ==
    /\ pc[t] = "read"
    /\ \/ /\ ans[t].kind = "job"
          /\ ~Locked(tgt[t])
          /\ applyJob(tgt[t], seen[t], ans[t], FALSE)
          /\ Return(t)
       \/ /\ ans[t].kind = "notfound"
          /\ seen[t].gen = 0
          /\ Goto(t, "deliver")
          /\ seen' = [seen EXCEPT ![t] = AbsentRow]
          /\ ans' = [ans EXCEPT ![t] = NoAnswer]
          /\ UNCHANGED <<row, audit, tgt>>
       \/ /\ ans[t].kind = "notfound"
          /\ seen[t].gen > 0
          /\ IF seen[t].state = "RECOVERY_REQUIRED" /\ seen[t].code = "HOST_JOB_LOST"
             THEN UNCHANGED <<row, audit>>
             ELSE /\ ~Locked(tgt[t])
                  /\ finishWithoutHost(tgt[t], seen[t], "RECOVERY_REQUIRED", "HOST_JOB_LOST", FALSE)
          /\ Return(t)
       \/ /\ ans[t].kind = "unreachable"
          /\ ~Locked(tgt[t])
          /\ markUnreachable(tgt[t], seen[t])
          /\ Return(t)
    /\ UNCHANGED <<chal, hostVars>>

-----------------------------------------------------------------------------
(* Cancelling a submitted operation: Cancel, cancelUndelivered             *)

Cancel(t, o) ==
    /\ t \in Callers
    /\ expirePlans[o].submitted
    /\ expirePlans[o].state \notin Terminal
    /\ row' = expirePlans
    /\ Begin(t, o, "cancelling", expirePlans[o])
    /\ UNCHANGED <<chal, audit, hostVars>>

CallCancel(t) ==
    /\ \/ pc[t] = "cancelling"   /\ Goto(t, "cancelled")
       \/ pc[t] = "recancelling" /\ Goto(t, "recancelled")
    /\ \/ /\ \E reply \in Replies(tgt[t]) :
                /\ cancelJob(tgt[t], reply)
                /\ \E heard \in {reply, Unreachable} : ans' = [ans EXCEPT ![t] = heard]
          /\ UNCHANGED <<executions, late>>
       \/ /\ ans' = [ans EXCEPT ![t] = Unreachable]
          /\ UNCHANGED hostVars
       \/ /\ "cancel" \in LateKinds
          /\ late' = late \cup {<<"cancel", tgt[t]>>}
          /\ ans' = [ans EXCEPT ![t] = Unreachable]
          /\ UNCHANGED <<journal, executions>>
    /\ UNCHANGED <<dbVars, tgt, seen>>

RecordCancel(t) ==
    /\ pc[t] = "cancelled"
    /\ \/ /\ ans[t].kind = "job"
          /\ ~Locked(tgt[t])
          /\ applyJob(tgt[t], seen[t], ans[t], FALSE)
          /\ Return(t)
       \/ /\ ans[t].kind = "notfound"
          /\ seen[t].gen = 0
          /\ Goto(t, "recancel")
          /\ seen' = [seen EXCEPT ![t] = AbsentRow]
          /\ ans' = [ans EXCEPT ![t] = NoAnswer]
          /\ UNCHANGED <<row, audit, tgt>>
       \/ /\ \/ ans[t].kind \in {"rejected", "unreachable"}
             \/ ans[t].kind = "notfound" /\ seen[t].gen > 0
          /\ Return(t)
          /\ UNCHANGED <<row, audit>>
    /\ UNCHANGED <<chal, hostVars>>

LockForCancel(t) ==
    /\ pc[t] = "recancel"
    /\ ~Locked(tgt[t])
    /\ IF Undelivered(row[tgt[t]])
       THEN /\ Goto(t, "recancelling")
            /\ seen' = [seen EXCEPT ![t] = row[tgt[t]]]
            /\ UNCHANGED <<tgt, ans>>
       ELSE Return(t)
    /\ UNCHANGED <<dbVars, hostVars>>

RecordUndelivered(t) ==
    /\ pc[t] = "recancelled"
    /\ \/ ans[t].kind = "job" /\ applyJob(tgt[t], seen[t], ans[t], TRUE)
       \/ /\ ans[t].kind = "notfound"
          /\ finishWithoutHost(tgt[t], seen[t], "CANCELLED", "CANCELLED_BY_USER", TRUE)
       \/ /\ ans[t].kind \in {"rejected", "unreachable"}
          /\ UNCHANGED <<row, audit>>
    /\ Return(t)
    /\ UNCHANGED <<chal, hostVars>>

-----------------------------------------------------------------------------
(* Failures and the host's own steps                                       *)

\* The thread stops where it is: OAM crashes, the client goes away, the
\* database fails a statement or the commit.  Its transaction rolls back.
Abort(t) ==
    /\ t \in Fallible
    /\ pc[t] # "idle"
    /\ Return(t)
    /\ UNCHANGED <<dbVars, hostVars>>

\* The host processes a request OAM no longer waits for.
LateArrival(m) ==
    /\ m \in late
    /\ late' = late \ {m}
    /\ \/ m[1] = "submit" /\ \E reply \in Replies(m[2]) : submitJob(m[2], reply)
       \/ /\ m[1] = "cancel"
          /\ \E reply \in Replies(m[2]) : cancelJob(m[2], reply)
          /\ UNCHANGED executions
    /\ UNCHANGED <<dbVars, threadVars>>

Advance(o) ==
    /\ journal[o] # <<>>
    /\ \E e \in Following(Current(o)) :
          journal' = [journal EXCEPT ![o] = Append(@, e)]
    /\ UNCHANGED <<executions, late, dbVars, threadVars>>

\* The journal loses a job, at most MaxLosses times per operation.
Forget(o) ==
    /\ journal[o] # <<>>
    /\ executions[o] <= MaxLosses
    /\ journal' = [journal EXCEPT ![o] = <<>>]
    /\ UNCHANGED <<executions, late, dbVars, threadVars>>

-----------------------------------------------------------------------------

Init ==
    /\ row = [o \in Ops |-> AbsentRow]
    /\ chal = [c \in Challenges |-> Unissued]
    /\ audit = [o \in Ops |-> {}]
    /\ journal = [o \in Ops |-> <<>>]
    /\ executions = [o \in Ops |-> 0]
    /\ late = {}
    /\ pc = [t \in Threads |-> "idle"]
    /\ tgt = [t \in Threads |-> NoOp]
    /\ seen = [t \in Threads |-> AbsentRow]
    /\ ans = [t \in Threads |-> NoAnswer]

Next ==
    \/ GetOperation
    \/ \E o \in Ops :
          \/ PlanOperation(o) \/ CancelPlanned(o) \/ PlanExpires(o)
          \/ ReconcileActive(o) \/ Advance(o) \/ Forget(o)
          \/ \E s \in Sessions, c \in Challenges : Authorize(o, s, c)
          \/ \E t \in Callers, s \in Sessions, c \in Challenges : Submit(t, o, s, c)
          \/ \E t \in Callers : Reconcile(t, o) \/ Cancel(t, o)
    \/ \E c \in Challenges : ChallengeExpires(c)
    \/ \E m \in late : LateArrival(m)
    \/ \E t \in Threads :
          \/ LockForDelivery(t) \/ CallSubmit(t) \/ RecordSubmit(t)
          \/ CallJob(t) \/ RecordJob(t)
          \/ CallCancel(t) \/ RecordCancel(t)
          \/ LockForCancel(t) \/ RecordUndelivered(t)
          \/ Abort(t)

Spec == Init /\ [][Next]_vars

\* The reconciler makes a call the host answers, and records what it heard.
CallJobHeard      == CallJob(Reconciler) /\ ans'[Reconciler] # Unreachable
CallSubmitHeard   == CallSubmit(Reconciler) /\ ans'[Reconciler] # Unreachable
RecordJobHeard    == RecordJob(Reconciler) /\ ans[Reconciler] # Unreachable
RecordSubmitHeard == RecordSubmit(Reconciler) /\ ans[Reconciler] # Unreachable

\* The reconciler polls forever, every call ends within its time limit, and a
\* thread that waits for a row is served in its turn; a host that is down
\* now and then also answers now and then; a thread that holds a row lets go
\* of it; the host carries on with its jobs.  Nobody is obliged to make a
\* request.
Fairness ==
    /\ \A o \in Ops : SF_vars(ReconcileActive(o)) /\ WF_vars(Advance(o))
    /\ SF_vars(CallJobHeard) /\ SF_vars(RecordJobHeard)
    /\ SF_vars(LockForDelivery(Reconciler))
    /\ SF_vars(CallSubmitHeard) /\ SF_vars(RecordSubmitHeard)
    /\ WF_vars(CallJob(Reconciler)) /\ SF_vars(RecordJob(Reconciler))
    /\ \A t \in Threads :
          /\ WF_vars(CallSubmit(t)) /\ WF_vars(RecordSubmit(t))
          /\ WF_vars(CallCancel(t)) /\ WF_vars(RecordUndelivered(t))

FairSpec == Spec /\ Fairness

-----------------------------------------------------------------------------
(* Properties                                                              *)

PCs == {"idle", "deliver", "reading", "read", "cancelling", "cancelled",
        "recancel"} \cup Locking

\* Every variable stays within its domain, and a thread is idle exactly when
\* it has no operation.
TypeOK ==
    /\ row \in [Ops -> Row]
    /\ chal \in [Challenges -> Challenge]
    /\ audit \in [Ops -> SUBSET States]
    /\ journal \in [Ops -> Seq(Entries)]
    /\ executions \in [Ops -> Nat]
    /\ late \subseteq ({"submit", "cancel"} \X Ops)
    /\ pc \in [Threads -> PCs]
    /\ tgt \in [Threads -> Ops \cup {NoOp}]
    /\ seen \in [Threads -> Row]
    /\ ans \in [Threads -> Answers]
    /\ \A t \in Threads : pc[t] = "idle" <=> tgt[t] = NoOp

\* The host starts at most one job for an operation, however often it is
\* delivered, by whichever threads, and whatever replies and commits are lost.
ExecutedAtMostOnce == \A o \in Ops : executions[o] <= 1

\* At most one job is under way on the installation: the one-active index of
\* OAM's table excludes two executions on the host, although OAM learns of
\* the end of a job later than the host does and of its start later still.
HostExclusive ==
    \A o, q \in Ops : Live(o) /\ Live(q) => o = q

\* An operation OAM ended on its own word (cancelled, expired or refused,
\* with no generation from the host) was never started by the host.
EndedByOAMNeverRan ==
    \A o \in Ops :
        row[o].state \in Terminal /\ row[o].gen = 0 => executions[o] = 0

\* A row that reflects generation g shows the state the journal had at g,
\* whichever order the answers of several threads were recorded in.
RowFollowsJournal ==
    \A o \in Ops :
        row[o].gen > 0 => /\ row[o].gen <= Len(journal[o])
                          /\ row[o].state = journal[o][row[o].gen].state

\* The host never starts a destructive operation unless exactly one challenge
\* was consumed for it, and a consumed challenge always has a submitted
\* operation and its audit record to show for it.
ChallengeSpentOnExecution ==
    /\ \A o \in Destructive :
          executions[o] > 0 =>
              Cardinality({c \in Challenges :
                  chal[c].op = o /\ chal[c].status = "consumed"}) = 1
    /\ \A c \in Challenges :
          chal[c].status = "consumed" =>
              /\ row[chal[c].op].submitted
              /\ "QUEUED" \in audit[chal[c].op]

\* Nothing further happens to an operation in a terminal state: a late
\* answer, a stale copy or a second request never reopens it.
TerminalIsFinal ==
    [][\A o \in Ops :
          row[o].state \in Terminal => row'[o].state = row[o].state]_vars

\* Once the host has reported on an operation OAM never has it started again,
\* even if the journal loses the job: only a submission that OAM had given up
\* on, and that the host had yet to process, can do so.
ReportedNeverRestarted ==
    [][\A o \in Ops :
          row[o].gen > 0 =>
              executions'[o] = executions[o] \/ <<"submit", o>> \in late]_vars

\* The state of a submitted operation the host has not reported on is always
\* on record, whatever fails: OAM decided it inside a transaction.  So is any
\* other state, unless its record may be lost or a plan has expired, although
\* the copy an answer is compared with may be stale.
AuditTrailKept ==
    \A o \in Ops :
        /\ row[o].submitted /\ row[o].gen = 0 => {"QUEUED", row[o].state} \subseteq audit[o]
        /\ \/ row[o].state \in AuditFails
           \/ row[o].state \in audit[o] \cup {"ABSENT"}
           \/ row[o].code = "PLAN_EXPIRED"

\* A submitted operation ends, or is left to an operator: the reconciler
\* delivers what the submitting request could not and follows it to its end.
SubmittedSettles ==
    \A o \in Ops :
        row[o].submitted ~> row[o].state \in Terminal \cup {"RECOVERY_REQUIRED"}

\* The stage of an operation as InstallationSlot sees it: the host's side
\* says whether it was begun and ended, OAM's row who holds the installation.
StageOf(o) ==
    CASE row[o].state = "ABSENT"     -> "none"
      [] row[o].state = "PLANNED"    -> "planned"
      [] row[o].state \in Terminal   -> "closed"
      [] row[o].state \in Active     ->
            IF journal[o] = <<>> THEN "claimed"
            ELSE IF Live(o) THEN "executing" ELSE "executed"

Stage == [o \in Ops |-> StageOf(o)]

Slot == INSTANCE InstallationSlot WITH stage <- Stage

\* OAM and the host together keep the promise of InstallationSlot.
ImplementsSlot == Slot!Spec
=============================================================================
