------------------------- MODULE ApplianceOpsProofs -------------------------
(***************************************************************************)
(* Theorems about ApplianceOps, for every number of operations, threads,   *)
(* sessions and challenges.                                                *)
(*                                                                         *)
(* An action is looked at once, in three lemmas that say what a step makes *)
(* of the host's journal (HostStep), of a row with its audit trail         *)
(* (RowSteps) and of a thread (ThreadSteps).  The invariants are kept by   *)
(* whatever has one of these shapes:                                       *)
(*                                                                         *)
(*   whatever the journal loses   AuditTrail, ChallengeForExecution and    *)
(*   and however late             NeverRestarted, by SubmittedFirst,       *)
(*                                CopiesOld, CopiesOnRecord, SpentOnce and *)
(*                                LockHeld;                                *)
(*   MaxLosses = 0                ExecutedOnce and RowsFollowJournal, by   *)
(*                                KeptInv;                                 *)
(*   and no submission is         EndedNeverRan, TerminalStatesFinal,      *)
(*   processed late               HostExecutesAlone and                    *)
(*                                OperationsImplementSlot, by OwnInv.      *)
(***************************************************************************)
EXTENDS ApplianceOps, TLAPS, FiniteSetTheorems

-----------------------------------------------------------------------------
(* Facts about the operators of the model                                  *)

\* The journal's entries carry states the host may report.
LEMMA EntryType ==
    \A e \in Entries : e.state \in HostOwned /\ e.phase \in Phases
<1> DEFINE Typed(e) == e.state \in HostOwned /\ e.phase \in Phases
<1>1. Typed(Queued) /\ Typed(Prepare) /\ Typed(Point)
  BY DEF Queued, Prepare, Point, Entry, HostOwned, Phases
<1>2. Typed(Verify) /\ Typed(Undo) /\ Typed(Succeeded)
  BY DEF Verify, Undo, Succeeded, Entry, HostOwned, Phases
<1>3. Typed(Failed) /\ Typed(NeedsRepair) /\ Typed(Stopped)
  BY DEF Failed, NeedsRepair, Stopped, Entry, HostOwned, Phases
<1> HIDE DEF Typed
<1>4. \A e \in Entries : Typed(e)
  BY <1>1, <1>2, <1>3, Zenon DEF Entries
<1>5. QED
  BY <1>4 DEF Typed

\* What the host says of a job OAM can take for an answer.
LEMMA JobAnswerType ==
    ASSUME NEW j \in Seq(Entries), j # <<>>
    PROVE  /\ JobAnswer(j) \in Answers
           /\ JobAnswer(j).kind = "job"
<1>1. Len(j) \in Nat \ {0} /\ j[Len(j)] \in Entries
  OBVIOUS
<1>2. QED
  BY <1>1, EntryType DEF JobAnswer, Answers

\* An answer with a job has the generation, state and phase of an entry.
LEMMA AnswerFields ==
    \A a \in Answers :
        a.kind = "job" => /\ a.gen \in Nat \ {0}
                          /\ a.state \in HostOwned
                          /\ a.phase \in Phases
<1>1. \A k : NoJob(k).kind = k
  BY DEF NoJob
<1>2. /\ NoAnswer.kind # "job" /\ Unreachable.kind # "job"
      /\ NotFound.kind # "job" /\ Rejected.kind # "job"
  BY <1>1 DEF NoAnswer, Unreachable, NotFound, Rejected
<1>3. QED
  BY <1>2 DEF Answers

\* The answers without a job are answers.
LEMMA FewAnswers ==
    /\ NoAnswer \in Answers /\ Unreachable \in Answers
    /\ NotFound \in Answers /\ Rejected \in Answers
BY DEF Answers

\* The row that is not there is of the type of rows.
LEMMA AbsentRowType == AbsentRow \in Row
BY DEF AbsentRow, Row, Phases, Reconciliations, Codes

\* Expiring plans leaves rows rows, and changes nothing but unsubmitted plans.
LEMMA ExpireType ==
    ASSUME NEW r \in Row
    PROVE  /\ Expire(r) \in Row
           /\ Expire(r).gen = r.gen
           /\ Expire(r).submitted = r.submitted
           /\ \/ Expire(r) = r
              \/ r.state \in Unsubmitted /\ Expire(r).state = "CANCELLED"
BY DEF Expire, Row, Unsubmitted, States, Terminal, Codes

\* The host's states and those of a plan are states of an operation.
LEMMA StatesHold ==
    HostOwned \subseteq States /\ Unsubmitted \subseteq States
BY DEF HostOwned, States, Active, Terminal, Unsubmitted

\* Applying an answer to a row gives a row.
LEMMA AppliedType ==
    ASSUME row \in [Ops -> Row], NEW o \in Ops, NEW s \in Row,
           NEW a \in Answers, a.kind = "job"
    PROVE  AppliedJob(o, s, a) \in Row
BY AnswerFields, StatesHold DEF AppliedJob, Row, Reconciliations, Codes

\* Expiring the plans in the table leaves it a table of rows.
LEMMA ExpirePlansType ==
    ASSUME row \in [Ops -> Row]
    PROVE  /\ expirePlans \in [Ops -> Row]
           /\ \A o \in Ops : expirePlans[o] = Expire(row[o])
BY ExpireType DEF expirePlans

-----------------------------------------------------------------------------
(* Type correctness, variable by variable                                  *)

\* The domains of OAM's tables ...
DbOK ==
    /\ row \in [Ops -> Row]
    /\ chal \in [Challenges -> Challenge]
    /\ audit \in [Ops -> SUBSET States]

\* ... of what the host keeps, with the requests still on their way ...
HostOK ==
    /\ journal \in [Ops -> Seq(Entries)]
    /\ executions \in [Ops -> Nat]
    /\ late \subseteq ({"submit", "cancel"} \X Ops)

\* ... and of the threads.
ThreadsOK ==
    /\ pc \in [Threads -> PCs]
    /\ tgt \in [Threads -> Ops \cup {NoOp}]
    /\ seen \in [Threads -> Row]
    /\ ans \in [Threads -> Answers]
    /\ \A t \in Threads : pc[t] = "idle" <=> tgt[t] = NoOp

\* The type invariant is the conjunction of the three.
LEMMA TypeParts == TypeOK <=> DbOK /\ HostOK /\ ThreadsOK
BY DEF TypeOK, DbOK, HostOK, ThreadsOK

\* A thread that returns leaves the threads well-typed.
LEMMA ReturnType ==
    ASSUME ThreadsOK, NEW t \in Threads, Return(t)
    PROVE  ThreadsOK'
BY AbsentRowType, FewAnswers DEF ThreadsOK, Return, PCs

\* So does one that begins to work on an operation.
LEMMA BeginType ==
    ASSUME ThreadsOK, NEW t \in Threads, NEW o \in Ops,
           NEW where \in PCs \ {"idle"}, NEW r \in Row, Begin(t, o, where, r)
    PROVE  ThreadsOK'
BY ConstantsAssumption DEF ThreadsOK, Begin

\* A working thread goes on to another place.
LEMMA GotoType ==
    ASSUME ThreadsOK, NEW t \in Threads, pc[t] # "idle",
           NEW where \in PCs \ {"idle"}, Goto(t, where), UNCHANGED tgt,
           seen' \in [Threads -> Row], ans' \in [Threads -> Answers]
    PROVE  ThreadsOK'
BY DEF ThreadsOK, Goto

\* A thread at work is at work on an operation.
LEMMA WorkingTarget ==
    ASSUME ThreadsOK, NEW t \in Threads, pc[t] # "idle"
    PROVE  tgt[t] \in Ops
BY DEF ThreadsOK

\* An audit record is of a state an operation can be in.
LEMMA AuditedType ==
    ASSUME audit \in [Ops -> SUBSET States], NEW o \in Ops,
           NEW st \in States, NEW inTx \in BOOLEAN, audited(o, st, inTx)
    PROVE  audit' \in [Ops -> SUBSET States]
BY DEF audited

\* applyJob keeps the tables well-typed ...
LEMMA ApplyType ==
    ASSUME DbOK, NEW o \in Ops, NEW s \in Row, NEW a \in Answers,
           a.kind = "job", NEW inTx \in BOOLEAN, applyJob(o, s, a, inTx)
    PROVE  row' \in [Ops -> Row] /\ audit' \in [Ops -> SUBSET States]
<1>1. row' \in [Ops -> Row]
  BY AppliedType DEF applyJob, DbOK
<1>2. audit' \in [Ops -> SUBSET States]
  BY AuditedType, AnswerFields, StatesHold DEF applyJob, DbOK
<1>3. QED
  BY <1>1, <1>2

\* ... finishWithoutHost too ...
LEMMA FinishType ==
    ASSUME DbOK, NEW o \in Ops, NEW s \in Row, NEW st \in States,
           NEW cd \in Codes, NEW inTx \in BOOLEAN,
           finishWithoutHost(o, s, st, cd, inTx)
    PROVE  row' \in [Ops -> Row] /\ audit' \in [Ops -> SUBSET States]
<1>1. row' \in [Ops -> Row]
  <2> DEFINE rec == IF cd = "HOST_JOB_LOST" THEN "HOST_UNKNOWN" ELSE "IN_SYNC"
             new == [row[o] EXCEPT !.state = st, !.code = cd, !.rec = rec]
  <2>1. row[o] \in Row /\ rec \in Reconciliations
    BY DEF DbOK, Reconciliations
  <2>2. new \in Row
    <3> HIDE DEF rec
    <3> QED BY <2>1 DEF Row
  <2>3. row' = row \/ row' = [row EXCEPT ![o] = new]
    BY DEF finishWithoutHost
  <2>4. QED
    <3> HIDE DEF new
    <3> QED BY <2>2, <2>3 DEF DbOK
<1>2. audit' \in [Ops -> SUBSET States]
  BY AuditedType DEF finishWithoutHost, DbOK
<1>3. QED
  BY <1>1, <1>2

\* ... and so does the marker of an unreachable host.
LEMMA MarkType ==
    ASSUME DbOK, NEW o \in Ops, NEW s \in Row, markUnreachable(o, s)
    PROVE  row' \in [Ops -> Row] /\ audit' \in [Ops -> SUBSET States]
BY DEF markUnreachable, DbOK, Row, Reconciliations

\* A job that moves on has one entry more, and the earlier ones stay.
LEMMA JournalGrows ==
    ASSUME HostOK, NEW o \in Ops, NEW e \in Entries
    PROVE  /\ Append(journal[o], e) \in Seq(Entries)
           /\ Append(journal[o], e) # <<>>
           /\ Len(Append(journal[o], e)) = Len(journal[o]) + 1
           /\ Append(journal[o], e)[Len(journal[o]) + 1] = e
           /\ \A i \in 1 .. Len(journal[o]) : Append(journal[o], e)[i] = journal[o][i]
<1>1. journal[o] \in Seq(Entries)
  BY DEF HostOK
<1>2. QED
  BY <1>1

\* The journal of a job that was just started has one entry.
LEMMA OneEntry ==
    /\ Queued \in Entries /\ Stopped \in Entries
    /\ <<Queued>> \in Seq(Entries) /\ <<Queued>> # <<>>
    /\ Len(<<Queued>>) = 1 /\ <<Queued>>[1] = Queued
BY DEF Entries

\* What the host does on a request, and its answer, are well-typed.
LEMMA SubmitJobType ==
    ASSUME HostOK, NEW o \in Ops, NEW reply, submitJob(o, reply)
    PROVE  /\ journal' \in [Ops -> Seq(Entries)]
           /\ executions' \in [Ops -> Nat]
           /\ reply \in Answers
<1> DEFINE one == <<Queued>>
<1>0. one \in Seq(Entries)
  BY OneEntry
<1>1. journal' \in [Ops -> Seq(Entries)] /\ executions' \in [Ops -> Nat]
  <2>1. \/ UNCHANGED <<journal, executions>>
        \/ /\ journal' = [journal EXCEPT ![o] = one]
           /\ executions' = [executions EXCEPT ![o] = @ + 1]
    BY DEF submitJob
  <2> HIDE DEF one
  <2>2. journal' \in [Ops -> Seq(Entries)]
    BY <1>0, <2>1 DEF HostOK
  <2>3. executions' \in [Ops -> Nat]
    <3>1. executions \in [Ops -> Nat]
      BY DEF HostOK
    <3>2. executions' = executions \/ executions' = [executions EXCEPT ![o] = @ + 1]
      BY <2>1
    <3>3. QED
      BY <3>1, <3>2
  <2>4. QED
    BY <2>2, <2>3
<1>2. journal[o] \in Seq(Entries)
  BY DEF HostOK
<1>3. JobAnswer(<<Queued>>) \in Answers
  BY OneEntry, JobAnswerType
<1>4. journal[o] # <<>> => JobAnswer(journal[o]) \in Answers
  BY <1>2, JobAnswerType
<1>5. reply \in Answers
  BY <1>3, <1>4, FewAnswers, Zenon DEF submitJob
<1>6. QED
  BY <1>1, <1>5

\* A cancellation and its answer.
LEMMA CancelJobType ==
    ASSUME HostOK, NEW o \in Ops, NEW reply, cancelJob(o, reply)
    PROVE  /\ journal' \in [Ops -> Seq(Entries)]
           /\ reply \in Answers
<1> DEFINE stopped == Append(journal[o], Stopped)
<1>1. stopped \in Seq(Entries) /\ stopped # <<>>
  BY OneEntry, JournalGrows
<1>2. journal[o] \in Seq(Entries)
  BY DEF HostOK
<1>3. JobAnswer(stopped) \in Answers
  BY <1>1, JobAnswerType
<1>4. journal[o] # <<>> => JobAnswer(journal[o]) \in Answers
  BY <1>2, JobAnswerType
<1>5. reply \in Answers
  BY <1>3, <1>4, FewAnswers, Zenon DEF cancelJob
<1>6. UNCHANGED journal \/ journal' = [journal EXCEPT ![o] = stopped]
  BY DEF cancelJob
<1>7. journal' \in [Ops -> Seq(Entries)]
  <2> HIDE DEF stopped
  <2> QED BY <1>1, <1>6 DEF HostOK
<1>8. QED
  BY <1>5, <1>7

\* A query and its answer.
LEMMA GetJobType ==
    ASSUME HostOK, NEW o \in Ops
    PROVE  getJob(o) \in Answers
BY JobAnswerType, FewAnswers DEF getJob, HostOK

\* Init and every step keep each variable within its domain.
LEMMA TypeInit == Init => TypeOK
BY AbsentRowType, FewAnswers
   DEF Init, TypeOK, PCs, Unissued, Challenge

\* Every step keeps the types: one case per action.
LEMMA TypeNext ==
    ASSUME TypeOK, [Next]_vars
    PROVE  TypeOK'
<1>0. DbOK /\ HostOK /\ ThreadsOK
  BY TypeParts
<1> DEFINE Kept == DbOK' /\ HostOK' /\ ThreadsOK'
<1>e. expirePlans \in [Ops -> Row]
  BY <1>0, ExpirePlansType DEF DbOK
<1>s. {"PLANNED", "AWAITING_AUTHORIZATION", "QUEUED", "CANCELLED", "FAILED",
       "RECOVERY_REQUIRED"} \subseteq States
  BY DEF States, Active, Terminal
<1>p. {"submitting", "submitted", "recancelling", "recancelled", "deliver",
       "reading", "read", "cancelling", "cancelled", "recancel"}
          \subseteq PCs \ {"idle"}
  BY DEF PCs, Locking
<1>t. Callers \subseteq Threads /\ Reconciler \in Threads
  BY DEF Threads
<1>1. ASSUME GetOperation PROVE Kept
  BY <1>0, <1>e, <1>1 DEF GetOperation, DbOK, HostOK, ThreadsOK, hostVars, threadVars
<1>2. ASSUME NEW o \in Ops, PlanOperation(o) PROVE Kept
  <2>1. row' \in [Ops -> Row]
    BY <1>e, <1>s, <1>2, AbsentRowType DEF PlanOperation, Row
  <2>2. audit' \in [Ops -> SUBSET States]
    BY <1>0, <1>s, <1>2, AuditedType DEF PlanOperation, DbOK
  <2>3. QED
    BY <1>0, <1>2, <2>1, <2>2
       DEF PlanOperation, DbOK, HostOK, ThreadsOK, hostVars, threadVars
<1>3. ASSUME NEW o \in Ops, CancelPlanned(o) PROVE Kept
  <2>1. row' \in [Ops -> Row]
    <3>1. PICK plans \in [Ops -> Row] : plans = expirePlans
      BY <1>e
    <3> DEFINE ended == [plans[o] EXCEPT !.state = "CANCELLED", !.code = "CANCELLED_BY_USER"]
    <3>2. ended \in Row
      BY <1>s, <3>1 DEF Row, Codes
    <3>3. row' = [plans EXCEPT ![o] = ended]
      BY <1>3, <3>1 DEF CancelPlanned
    <3> HIDE DEF ended
    <3>4. QED
      BY <3>1, <3>2, <3>3
  <2>2. audit' \in [Ops -> SUBSET States]
    BY <1>0, <1>s, <1>3, AuditedType DEF CancelPlanned, DbOK
  <2>3. QED
    BY <1>0, <1>3, <2>1, <2>2
       DEF CancelPlanned, DbOK, HostOK, ThreadsOK, hostVars, threadVars
<1>4. ASSUME NEW o \in Ops, PlanExpires(o) PROVE Kept
  <2>1. row' \in [Ops -> Row]
    BY <1>0, <1>4 DEF PlanExpires, DbOK, Row
  <2>2. chal' \in [Challenges -> Challenge]
    BY <1>0, <1>4 DEF PlanExpires, DbOK, Challenge
  <2>3. QED
    BY <1>0, <1>4, <2>1, <2>2
       DEF PlanExpires, DbOK, HostOK, ThreadsOK, hostVars, threadVars
<1>5. ASSUME NEW o \in Ops, ReconcileActive(o) PROVE Kept
  <2>1. ThreadsOK'
    BY <1>0, <1>p, <1>t, <1>5, BeginType DEF ReconcileActive, DbOK
  <2>2. QED
    BY <1>0, <1>5, <2>1 DEF ReconcileActive, DbOK, HostOK, dbVars, hostVars
<1>6. ASSUME NEW o \in Ops, Advance(o) PROVE Kept
  <2>1. PICK e \in Entries : journal' = [journal EXCEPT ![o] = Append(@, e)]
    BY <1>6 DEF Advance, Following
  <2>2. journal' \in [Ops -> Seq(Entries)]
    BY <1>0, <2>1, JournalGrows DEF HostOK
  <2>3. QED
    BY <1>0, <1>6, <2>2 DEF Advance, DbOK, HostOK, ThreadsOK, dbVars, threadVars
<1>7. ASSUME NEW o \in Ops, Forget(o) PROVE Kept
  BY <1>0, <1>7 DEF Forget, DbOK, HostOK, ThreadsOK, dbVars, threadVars
<1>8. ASSUME NEW o \in Ops, NEW s \in Sessions, NEW c \in Challenges,
             Authorize(o, s, c)
      PROVE  Kept
  <2>1. row' \in [Ops -> Row]
    BY <1>e, <1>s, <1>8 DEF Authorize, Row
  <2>2. chal' \in [Challenges -> Challenge]
    BY <1>0, <1>8 DEF Authorize, DbOK, Challenge
  <2>3. audit' \in [Ops -> SUBSET States]
    BY <1>0, <1>s, <1>8, AuditedType DEF Authorize, DbOK
  <2>4. QED
    BY <1>0, <1>8, <2>1, <2>2, <2>3
       DEF Authorize, DbOK, HostOK, ThreadsOK, hostVars, threadVars
<1>9. ASSUME NEW o \in Ops, NEW t \in Callers, NEW s \in Sessions,
             NEW c \in Challenges, Submit(t, o, s, c)
      PROVE  Kept
  <2>1. row' \in [Ops -> Row]
    BY <1>e, <1>s, <1>9 DEF Submit, Row
  <2>2. chal' \in [Challenges -> Challenge]
    BY <1>0, <1>9 DEF Submit, DbOK, Challenge
  <2>3. audit' \in [Ops -> SUBSET States]
    BY <1>0, <1>s, <1>9, AuditedType DEF Submit, DbOK
  <2>4. ThreadsOK'
    BY <1>0, <1>p, <1>t, <1>9, BeginType, AbsentRowType DEF Submit
  <2>5. QED
    BY <1>0, <1>9, <2>1, <2>2, <2>3, <2>4 DEF Submit, DbOK, HostOK, hostVars
<1>10. ASSUME NEW o \in Ops, NEW t \in Callers, Reconcile(t, o) \/ Cancel(t, o)
       PROVE  Kept
  <2>1. ThreadsOK'
    BY <1>0, <1>e, <1>p, <1>t, <1>10, BeginType DEF Reconcile, Cancel
  <2>2. QED
    BY <1>0, <1>e, <1>10, <2>1 DEF Reconcile, Cancel, DbOK, HostOK, hostVars
<1>11. ASSUME NEW c \in Challenges, ChallengeExpires(c) PROVE Kept
  <2>1. chal' \in [Challenges -> Challenge]
    BY <1>0, <1>11 DEF ChallengeExpires, DbOK, Challenge
  <2>2. QED
    BY <1>0, <1>11, <2>1
       DEF ChallengeExpires, DbOK, HostOK, ThreadsOK, hostVars, threadVars
<1>12. ASSUME NEW m \in late, LateArrival(m) PROVE Kept
  <2>1. m[2] \in Ops
    BY <1>0 DEF HostOK
  <2>2. /\ journal' \in [Ops -> Seq(Entries)]
        /\ executions' \in [Ops -> Nat]
    BY <1>0, <1>12, <2>1, SubmitJobType, CancelJobType DEF LateArrival, HostOK
  <2>3. QED
    BY <1>0, <1>12, <2>2
       DEF LateArrival, DbOK, HostOK, ThreadsOK, dbVars, threadVars
<1>13. ASSUME NEW t \in Threads, LockForDelivery(t) \/ LockForCancel(t) PROVE Kept
  <2>1. tgt[t] \in Ops
    BY <1>0, <1>13, WorkingTarget DEF LockForDelivery, LockForCancel
  <2>2. CASE Return(t)
    BY <1>0, <1>13, <2>2, ReturnType
       DEF LockForDelivery, LockForCancel, DbOK, HostOK, dbVars, hostVars
  <2>3. CASE /\ Goto(t, "submitting") \/ Goto(t, "recancelling")
             /\ seen' = [seen EXCEPT ![t] = row[tgt[t]]]
             /\ UNCHANGED <<tgt, ans>>
    <3>1. seen' \in [Threads -> Row]
      BY <1>0, <2>1, <2>3 DEF DbOK, ThreadsOK
    <3>2. ThreadsOK'
      BY <1>0, <1>p, <1>13, <2>3, <3>1, GotoType
         DEF LockForDelivery, LockForCancel, ThreadsOK
    <3>3. QED
      BY <1>0, <1>13, <3>2
         DEF LockForDelivery, LockForCancel, DbOK, HostOK, dbVars, hostVars
  <2>4. QED
    BY <1>13, <2>2, <2>3 DEF LockForDelivery, LockForCancel
<1>14. ASSUME NEW t \in Threads, CallSubmit(t) PROVE Kept
  <2>1. tgt[t] \in Ops
    BY <1>0, <1>14, WorkingTarget DEF CallSubmit
  <2>2. /\ journal' \in [Ops -> Seq(Entries)]
        /\ executions' \in [Ops -> Nat]
        /\ late' \subseteq ({"submit", "cancel"} \X Ops)
    BY <1>0, <1>14, <2>1, SubmitJobType DEF CallSubmit, HostOK, hostVars
  <2>3. \E heard \in Answers : ans' = [ans EXCEPT ![t] = heard]
    BY <1>0, <1>14, <2>1, SubmitJobType, FewAnswers DEF CallSubmit
  <2>4. ThreadsOK'
    BY <1>0, <1>p, <1>14, <2>3, GotoType DEF CallSubmit, ThreadsOK
  <2>5. QED
    BY <1>0, <1>14, <2>2, <2>4 DEF CallSubmit, DbOK, HostOK, dbVars
<1>15. ASSUME NEW t \in Threads, RecordSubmit(t) PROVE Kept
  <2>1. tgt[t] \in Ops /\ seen[t] \in Row /\ ans[t] \in Answers
    BY <1>0, <1>15, WorkingTarget DEF RecordSubmit, ThreadsOK
  <2>2. row' \in [Ops -> Row] /\ audit' \in [Ops -> SUBSET States]
    BY <1>0, <1>s, <1>15, <2>1, ApplyType, FinishType, MarkType
       DEF RecordSubmit, Codes
  <2>3. ThreadsOK'
    BY <1>0, <1>15, ReturnType DEF RecordSubmit
  <2>4. QED
    BY <1>0, <1>15, <2>2, <2>3 DEF RecordSubmit, DbOK, HostOK, hostVars
<1>16. ASSUME NEW t \in Threads, CallJob(t) PROVE Kept
  <2>1. tgt[t] \in Ops
    BY <1>0, <1>16, WorkingTarget DEF CallJob
  <2>2. \E heard \in Answers : ans' = [ans EXCEPT ![t] = heard]
    BY <1>0, <1>16, <2>1, GetJobType, FewAnswers DEF CallJob
  <2>3. ThreadsOK'
    BY <1>0, <1>p, <1>16, <2>2, GotoType DEF CallJob, ThreadsOK
  <2>4. QED
    BY <1>0, <1>16, <2>3 DEF CallJob, DbOK, HostOK, dbVars, hostVars
<1>17. ASSUME NEW t \in Threads, RecordJob(t) PROVE Kept
  <2>1. tgt[t] \in Ops /\ seen[t] \in Row /\ ans[t] \in Answers
    BY <1>0, <1>17, WorkingTarget DEF RecordJob, ThreadsOK
  <2>2. row' \in [Ops -> Row] /\ audit' \in [Ops -> SUBSET States]
    BY <1>0, <1>s, <1>17, <2>1, ApplyType, FinishType, MarkType
       DEF RecordJob, Codes, DbOK
  <2>3. CASE Return(t)
    BY <1>0, <1>17, <2>2, <2>3, ReturnType DEF RecordJob, DbOK, HostOK, hostVars
  <2>4. CASE /\ Goto(t, "deliver")
             /\ seen' = [seen EXCEPT ![t] = AbsentRow]
             /\ ans' = [ans EXCEPT ![t] = NoAnswer]
             /\ UNCHANGED tgt
    <3>1. seen' \in [Threads -> Row] /\ ans' \in [Threads -> Answers]
      BY <1>0, <2>4, AbsentRowType, FewAnswers DEF ThreadsOK
    <3>2. ThreadsOK'
      BY <1>0, <1>p, <1>17, <2>4, <3>1, GotoType DEF RecordJob
    <3>3. QED
      BY <1>0, <1>17, <2>2, <3>2 DEF RecordJob, DbOK, HostOK, hostVars
  <2>5. QED
    BY <1>17, <2>3, <2>4 DEF RecordJob
<1>18. ASSUME NEW t \in Threads, CallCancel(t) PROVE Kept
  <2>1. tgt[t] \in Ops
    BY <1>0, <1>18, WorkingTarget DEF CallCancel
  <2>2. /\ journal' \in [Ops -> Seq(Entries)]
        /\ executions' \in [Ops -> Nat]
        /\ late' \subseteq ({"submit", "cancel"} \X Ops)
    BY <1>0, <1>18, <2>1, CancelJobType DEF CallCancel, HostOK, hostVars
  <2>3. \E heard \in Answers : ans' = [ans EXCEPT ![t] = heard]
    BY <1>0, <1>18, <2>1, CancelJobType, FewAnswers DEF CallCancel
  <2>4. ThreadsOK'
    BY <1>0, <1>p, <1>18, <2>3, GotoType DEF CallCancel, ThreadsOK
  <2>5. QED
    BY <1>0, <1>18, <2>2, <2>4 DEF CallCancel, DbOK, HostOK, dbVars
<1>19. ASSUME NEW t \in Threads, RecordCancel(t) PROVE Kept
  <2>1. tgt[t] \in Ops /\ seen[t] \in Row /\ ans[t] \in Answers
    BY <1>0, <1>19, WorkingTarget DEF RecordCancel, ThreadsOK
  <2>2. row' \in [Ops -> Row] /\ audit' \in [Ops -> SUBSET States]
    BY <1>0, <1>19, <2>1, ApplyType DEF RecordCancel, DbOK
  <2>3. CASE Return(t)
    BY <1>0, <1>19, <2>2, <2>3, ReturnType DEF RecordCancel, DbOK, HostOK, hostVars
  <2>4. CASE /\ Goto(t, "recancel")
             /\ seen' = [seen EXCEPT ![t] = AbsentRow]
             /\ ans' = [ans EXCEPT ![t] = NoAnswer]
             /\ UNCHANGED tgt
    <3>1. seen' \in [Threads -> Row] /\ ans' \in [Threads -> Answers]
      BY <1>0, <2>4, AbsentRowType, FewAnswers DEF ThreadsOK
    <3>2. ThreadsOK'
      BY <1>0, <1>p, <1>19, <2>4, <3>1, GotoType DEF RecordCancel
    <3>3. QED
      BY <1>0, <1>19, <2>2, <3>2 DEF RecordCancel, DbOK, HostOK, hostVars
  <2>5. QED
    BY <1>19, <2>3, <2>4 DEF RecordCancel
<1>20. ASSUME NEW t \in Threads, RecordUndelivered(t) PROVE Kept
  <2>1. tgt[t] \in Ops /\ seen[t] \in Row /\ ans[t] \in Answers
    BY <1>0, <1>20, WorkingTarget DEF RecordUndelivered, ThreadsOK
  <2>2. row' \in [Ops -> Row] /\ audit' \in [Ops -> SUBSET States]
    BY <1>0, <1>s, <1>20, <2>1, ApplyType, FinishType
       DEF RecordUndelivered, Codes, DbOK
  <2>3. ThreadsOK'
    BY <1>0, <1>20, ReturnType DEF RecordUndelivered
  <2>4. QED
    BY <1>0, <1>20, <2>2, <2>3 DEF RecordUndelivered, DbOK, HostOK, hostVars
<1>21. ASSUME NEW t \in Threads, Abort(t) PROVE Kept
  BY <1>0, <1>21, ReturnType DEF Abort, DbOK, HostOK, dbVars, hostVars
<1>22. ASSUME UNCHANGED vars PROVE Kept
  BY <1>0, <1>22 DEF vars, DbOK, HostOK, ThreadsOK
<1>23. Kept
  BY <1>1, <1>2, <1>3, <1>4, <1>5, <1>6, <1>7, <1>8, <1>9, <1>10, <1>11, <1>12,
     <1>13, <1>14, <1>15, <1>16, <1>17, <1>18, <1>19, <1>20, <1>21, <1>22
     DEF Next
<1>24. QED
  BY <1>23 DEF TypeOK, DbOK, HostOK, ThreadsOK

\* The type invariant of the module holds in every reachable state, whatever
\* the numbers of operations and threads and whatever faults are allowed.
THEOREM TypeCorrect == Spec => []TypeOK
<1>1. QED
  BY TypeInit, TypeNext, PTL DEF Spec

-----------------------------------------------------------------------------
(* What one step makes of the host's journal                               *)

\* A job is started, for a thread that holds the row or for a request that
\* comes late; a job moves on or is stopped; or its record is lost.
Started(o) ==
    /\ journal[o] = <<>>
    /\ journal'[o] = <<Queued>>
    /\ executions'[o] = executions[o] + 1
    /\ \/ \E t \in Threads : pc[t] = "submitting" /\ tgt[t] = o
       \/ <<"submit", o>> \in late

\* The job's script goes on, or a cancellation stops it.
Moved(o) ==
    /\ journal[o] # <<>>
    /\ \E e \in Entries :
          /\ e \in Following(Current(o)) \/ (e = Stopped /\ HostCancellable(o))
          /\ journal'[o] = Append(journal[o], e)
    /\ executions'[o] = executions[o]

\* The record of the job is lost, as often as the bound allows.
Lost(o) ==
    /\ executions[o] <= MaxLosses
    /\ journal[o] # <<>>
    /\ journal'[o] = <<>>
    /\ executions'[o] = executions[o]

\* The host does nothing about the operation.
HostUnchanged(o) ==
    /\ journal'[o] = journal[o]
    /\ executions'[o] = executions[o]

\* What a step makes of the job of one operation is one of these four.
LEMMA HostStep ==
    ASSUME TypeOK, [Next]_vars, NEW o \in Ops
    PROVE  HostUnchanged(o) \/ Started(o) \/ Moved(o) \/ Lost(o)
<1>0. HostOK /\ ThreadsOK
  BY TypeParts
<1> DEFINE Goal == HostUnchanged(o) \/ Started(o) \/ Moved(o) \/ Lost(o)
<1>1. CASE UNCHANGED <<journal, executions>>
  BY <1>1 DEF HostUnchanged
<1>2. ASSUME NEW q \in Ops, NEW reply, submitJob(q, reply),
             \/ \E t \in Threads : pc[t] = "submitting" /\ tgt[t] = q
             \/ <<"submit", q>> \in late
      PROVE  Goal
  <2>1. CASE UNCHANGED <<journal, executions>>
    BY <1>1, <2>1
  <2>2. CASE /\ journal[q] = <<>>
             /\ journal' = [journal EXCEPT ![q] = <<Queued>>]
             /\ executions' = [executions EXCEPT ![q] = @ + 1]
    <3>1. CASE q = o
      BY <1>0, <1>2, <2>2, <3>1 DEF HostOK, Started
    <3>2. CASE q # o
      BY <1>0, <2>2, <3>2 DEF HostOK, HostUnchanged
    <3>3. QED
      BY <3>1, <3>2
  <2>3. QED
    BY <1>2, <2>1, <2>2 DEF submitJob
<1>3. ASSUME NEW q \in Ops, NEW reply, cancelJob(q, reply), UNCHANGED executions
      PROVE  Goal
  <2>1. CASE UNCHANGED journal
    BY <1>1, <1>3, <2>1
  <2>2. CASE /\ journal[q] # <<>>
             /\ HostCancellable(q)
             /\ journal' = [journal EXCEPT ![q] = Append(@, Stopped)]
    BY <1>0, <1>3, <2>2, OneEntry DEF HostOK, Moved, HostUnchanged
  <2>3. QED
    BY <1>3, <2>1, <2>2 DEF cancelJob
<1>4. ASSUME NEW q \in Ops, Advance(q) PROVE Goal
  <2>1. PICK e \in Entries : /\ e \in Following(Current(q))
                             /\ journal' = [journal EXCEPT ![q] = Append(@, e)]
    BY <1>4 DEF Advance, Following
  <2>2. QED
    BY <1>0, <1>4, <2>1 DEF Advance, HostOK, Moved, HostUnchanged
<1>5. ASSUME NEW q \in Ops, Forget(q) PROVE Goal
  BY <1>0, <1>5 DEF Forget, HostOK, Lost, HostUnchanged
<1>6. ASSUME NEW m \in late, LateArrival(m) PROVE Goal
  <2>1. m[2] \in Ops /\ m = <<m[1], m[2]>>
    BY <1>0 DEF HostOK
  <2>2. QED
    BY <1>2, <1>3, <1>6, <2>1 DEF LateArrival
<1>7. ASSUME NEW t \in Threads, CallSubmit(t) PROVE Goal
  <2>1. tgt[t] \in Ops
    BY <1>0, <1>7, WorkingTarget DEF CallSubmit
  <2>2. QED
    BY <1>1, <1>2, <1>7, <2>1 DEF CallSubmit, hostVars
<1>8. ASSUME NEW t \in Threads, CallCancel(t) PROVE Goal
  <2>1. tgt[t] \in Ops
    BY <1>0, <1>8, WorkingTarget DEF CallCancel
  <2>2. QED
    BY <1>1, <1>3, <1>8, <2>1 DEF CallCancel, hostVars
<1>9. QED
  BY <1>1, <1>4, <1>5, <1>6, <1>7, <1>8
     DEF Next, vars, hostVars, GetOperation, PlanOperation, CancelPlanned,
         PlanExpires, ReconcileActive, Authorize, Submit, Reconcile, Cancel,
         ChallengeExpires, LockForDelivery, RecordSubmit, CallJob, RecordJob,
         RecordCancel, LockForCancel, RecordUndelivered, Abort

-----------------------------------------------------------------------------
(* No operation is executed twice, as long as the journal keeps its jobs   *)

\* The journal has a job exactly for the operations that were started, once.
JournalCounts ==
    \A o \in Ops : executions[o] = IF journal[o] = <<>> THEN 0 ELSE 1

\* Every step keeps JournalCounts while the journal loses nothing.
LEMMA JournalCountsNext ==
    ASSUME MaxLosses = 0, TypeOK, JournalCounts, [Next]_vars
    PROVE  JournalCounts'
<1> SUFFICES ASSUME NEW o \in Ops
             PROVE  executions'[o] = IF journal'[o] = <<>> THEN 0 ELSE 1
  BY DEF JournalCounts
<1>0. HostOK
  BY TypeParts
<1>1. executions[o] = IF journal[o] = <<>> THEN 0 ELSE 1
  BY DEF JournalCounts
<1>2. CASE HostUnchanged(o)
  BY <1>1, <1>2 DEF HostUnchanged
<1>3. CASE Started(o)
  BY <1>1, <1>3, OneEntry DEF Started
<1>4. CASE Moved(o)
  BY <1>0, <1>1, <1>4, JournalGrows DEF Moved
<1>5. ~Lost(o)
  BY <1>1 DEF Lost
<1>6. QED
  BY <1>2, <1>3, <1>4, <1>5, HostStep

\* Provided the journal loses no job, the host starts at most one job for an
\* operation: whatever the number of threads that deliver it, whichever
\* replies are lost, and even if requests arrive after OAM gave up on them.
THEOREM ExecutedOnce ==
    ASSUME MaxLosses = 0
    PROVE  Spec => []ExecutedAtMostOnce
<1>1. Init => JournalCounts
  BY DEF Init, JournalCounts
<1>2. TypeOK /\ JournalCounts /\ [Next]_vars => JournalCounts'
  BY JournalCountsNext
<1>3. JournalCounts => ExecutedAtMostOnce
  BY DEF JournalCounts, ExecutedAtMostOnce
<1>4. QED
  BY <1>1, <1>2, <1>3, TypeCorrect, PTL DEF Spec

-----------------------------------------------------------------------------
(* The row lock, and why a reported operation is never delivered again     *)

\* Whoever holds the row of an operation holds it alone, and the operation
\* stays undelivered meanwhile.
LockHeld ==
    /\ \A t \in Threads : pc[t] \in Locking => Undelivered(row[tgt[t]])
    /\ \A t, u \in Threads :
          pc[t] \in Locking /\ pc[u] \in Locking /\ tgt[t] = tgt[u] => t = u

\* Rows in state QUEUED stay as they are.
QueuedKept == \A q \in Ops : row[q].state = "QUEUED" => row'[q] = row[q]

\* Expiry leaves queued rows alone.
LEMMA ExpireKeepsQueued ==
    ASSUME TypeOK
    PROVE  /\ \A q \in Ops : row[q].state = "QUEUED" => expirePlans[q] = row[q]
           /\ \A q \in Ops : expirePlans[q].state \in Unsubmitted => expirePlans[q] = row[q]
<1>1. row \in [Ops -> Row] /\ \A q \in Ops : expirePlans[q] = Expire(row[q])
  BY TypeParts, ExpirePlansType DEF DbOK
<1>2. "QUEUED" \notin Unsubmitted /\ "CANCELLED" \notin Unsubmitted
  BY DEF Unsubmitted
<1>3. QED
  BY <1>1, <1>2, ExpireType

\* So does every request that calls nobody.
LEMMA RequestsKeepQueued ==
    ASSUME TypeOK,
           \/ GetOperation
           \/ \E o \in Ops : \/ PlanOperation(o) \/ CancelPlanned(o) \/ PlanExpires(o)
                             \/ \E s \in Sessions, c \in Challenges : Authorize(o, s, c)
                             \/ \E t \in Callers, s \in Sessions, c \in Challenges :
                                    Submit(t, o, s, c)
                             \/ \E t \in Callers : Reconcile(t, o) \/ Cancel(t, o)
    PROVE  QueuedKept
<1>0. row \in [Ops -> Row] /\ expirePlans \in [Ops -> Row]
  BY TypeParts, ExpirePlansType DEF DbOK
<1>1. row' = expirePlans => QueuedKept
  BY ExpireKeepsQueued DEF QueuedKept
<1>2. ASSUME NEW o \in Ops, row[o].state # "QUEUED",
             \A q \in Ops \ {o} : row'[q] = expirePlans[q]
      PROVE  QueuedKept
  BY <1>2, ExpireKeepsQueued DEF QueuedKept
<1>3. "QUEUED" \notin Unsubmitted
  BY DEF Unsubmitted
<1>4. ASSUME NEW o \in Ops, expirePlans[o].state \in Unsubmitted
      PROVE  row[o].state # "QUEUED"
  BY <1>3, <1>4, ExpireKeepsQueued
<1>5. ASSUME NEW o \in Ops, PlanOperation(o) PROVE QueuedKept
  BY <1>0, <1>2, <1>5 DEF PlanOperation
<1>6. ASSUME NEW o \in Ops, CancelPlanned(o) PROVE QueuedKept
  BY <1>0, <1>2, <1>4, <1>6 DEF CancelPlanned
<1>7. ASSUME NEW o \in Ops, PlanExpires(o) PROVE QueuedKept
  BY <1>0, <1>3, <1>7 DEF PlanExpires, QueuedKept
<1>8. ASSUME NEW o \in Ops, NEW s \in Sessions, NEW c \in Challenges, Authorize(o, s, c)
      PROVE  QueuedKept
  BY <1>0, <1>2, <1>4, <1>8 DEF Authorize
<1>9. ASSUME NEW o \in Ops, NEW t \in Callers, NEW s \in Sessions,
             NEW c \in Challenges, Submit(t, o, s, c)
      PROVE  QueuedKept
  <2>1. expirePlans[o].state \in Unsubmitted
    BY <1>9 DEF Submit, Unsubmitted
  <2>2. QED
    BY <1>0, <1>2, <1>4, <1>9, <2>1 DEF Submit
<1>10. QED
  BY <1>1, <1>5, <1>6, <1>7, <1>8, <1>9 DEF GetOperation, Reconcile, Cancel

\* The lock survives a step that takes no row and changes no queued row.
LEMMA LockHeldKept ==
    ASSUME TypeOK, LockHeld, QueuedKept,
           \A t \in Threads : \/ pc'[t] \notin Locking
                              \/ /\ pc[t] \in Locking /\ pc'[t] \in Locking
                                 /\ tgt'[t] = tgt[t]
    PROVE  LockHeld'
<1>1. \A t \in Threads : pc[t] \in Locking => tgt[t] \in Ops
  BY TypeParts, WorkingTarget DEF Locking
<1>2. ASSUME NEW t \in Threads, pc'[t] \in Locking
      PROVE  Undelivered(row'[tgt'[t]])
  <2>1. pc[t] \in Locking /\ tgt'[t] = tgt[t] /\ tgt[t] \in Ops
    BY <1>1, <1>2
  <2>2. row'[tgt[t]] = row[tgt[t]]
    BY <2>1 DEF LockHeld, QueuedKept, Undelivered
  <2>3. QED
    BY <2>1, <2>2 DEF LockHeld
<1>3. ASSUME NEW t \in Threads, NEW u \in Threads,
             pc'[t] \in Locking, pc'[u] \in Locking, tgt'[t] = tgt'[u]
      PROVE  t = u
  BY <1>3 DEF LockHeld
<1>4. QED
  BY <1>2, <1>3 DEF LockHeld

\* The lock survives a thread that writes the row of its operation, if it
\* holds the row itself or nobody does, and then lets go of it.
LEMMA LockHeldWrite ==
    ASSUME TypeOK, LockHeld, NEW t \in Threads, tgt[t] \in Ops, Return(t),
           pc[t] \in Locking \/ ~Locked(tgt[t]),
           \A q \in Ops \ {tgt[t]} : row'[q] = row[q]
    PROVE  LockHeld'
<1>0. ThreadsOK
  BY TypeParts
<1>1. /\ pc'[t] \notin Locking
      /\ \A u \in Threads \ {t} : pc'[u] = pc[u] /\ tgt'[u] = tgt[u]
  BY <1>0 DEF Return, ThreadsOK, Locking
<1>2. ASSUME NEW u \in Threads, pc'[u] \in Locking
      PROVE  /\ pc[u] \in Locking /\ tgt'[u] = tgt[u]
             /\ row'[tgt[u]] = row[tgt[u]]
  <2>1. u # t /\ pc[u] \in Locking /\ tgt'[u] = tgt[u]
    BY <1>1, <1>2
  <2>2. tgt[u] # tgt[t]
    BY <2>1 DEF LockHeld, Locked
  <2>3. tgt[u] \in Ops
    BY <1>0, <2>1, WorkingTarget DEF Locking
  <2>4. QED
    BY <2>1, <2>2, <2>3
<1>3. QED
  BY <1>2 DEF LockHeld, Undelivered

\* A thread takes a row nobody holds.
LEMMA LockHeldTake ==
    ASSUME TypeOK, LockHeld, NEW t \in Threads, UNCHANGED <<row, tgt>>,
           \A u \in Threads \ {t} : pc'[u] = pc[u],
           ~Locked(tgt[t]), Undelivered(row[tgt[t]])
    PROVE  LockHeld'
BY DEF LockHeld, Locked

\* What a thread records of an operation touches no other row.
LEMMA WritesOneRow ==
    ASSUME TypeOK, NEW o \in Ops
    PROVE  /\ \A s, a, b : applyJob(o, s, a, b) => \A q \in Ops \ {o} : row'[q] = row[q]
           /\ \A s, st, cd, b : finishWithoutHost(o, s, st, cd, b) =>
                                    \A q \in Ops \ {o} : row'[q] = row[q]
           /\ \A s : markUnreachable(o, s) => \A q \in Ops \ {o} : row'[q] = row[q]
<1>1. row \in [Ops -> Row]
  BY TypeParts DEF DbOK
<1>2. QED
  BY <1>1 DEF applyJob, finishWithoutHost, markUnreachable

\* Every step keeps LockHeld.
LEMMA LockHeldNext ==
    ASSUME TypeOK, LockHeld, [Next]_vars
    PROVE  LockHeld'
<1>0. ThreadsOK
  BY TypeParts
<1>t. Callers \subseteq Threads /\ Reconciler \in Threads
  BY DEF Threads
<1>l. /\ "idle" \notin Locking /\ "deliver" \notin Locking /\ "reading" \notin Locking
      /\ "read" \notin Locking /\ "cancelling" \notin Locking
      /\ "cancelled" \notin Locking /\ "recancel" \notin Locking
  BY DEF Locking
<1>u. row' = row => QueuedKept
  BY DEF QueuedKept
<1>b. ASSUME NEW t \in Threads, NEW o, NEW where, NEW r, where \notin Locking,
             Begin(t, o, where, r)
      PROVE  \A u \in Threads : \/ pc'[u] \notin Locking
                                \/ /\ pc[u] \in Locking /\ pc'[u] \in Locking
                                   /\ tgt'[u] = tgt[u]
  BY <1>0, <1>b DEF Begin, ThreadsOK
<1>g. ASSUME NEW t \in Threads, NEW where, where \notin Locking,
             Goto(t, where), UNCHANGED tgt
      PROVE  \A u \in Threads : \/ pc'[u] \notin Locking
                                \/ /\ pc[u] \in Locking /\ pc'[u] \in Locking
                                   /\ tgt'[u] = tgt[u]
  BY <1>0, <1>g DEF Goto, ThreadsOK
<1>r. ASSUME NEW t \in Threads, Return(t)
      PROVE  \A u \in Threads : \/ pc'[u] \notin Locking
                                \/ /\ pc[u] \in Locking /\ pc'[u] \in Locking
                                   /\ tgt'[u] = tgt[u]
  BY <1>0, <1>l, <1>r DEF Return, ThreadsOK
<1>1. CASE \/ GetOperation
           \/ \E o \in Ops : \/ PlanOperation(o) \/ CancelPlanned(o) \/ PlanExpires(o)
                             \/ \E s \in Sessions, c \in Challenges : Authorize(o, s, c)
  <2>1. UNCHANGED <<pc, tgt>>
    BY <1>1 DEF GetOperation, PlanOperation, CancelPlanned, PlanExpires,
                Authorize, threadVars
  <2>2. QED
    BY <1>1, <2>1, RequestsKeepQueued, LockHeldKept
<1>2. ASSUME NEW o \in Ops, NEW t \in Callers, NEW s \in Sessions,
             NEW c \in Challenges, Submit(t, o, s, c)
      PROVE  LockHeld'
  <2>1. Begin(t, o, "deliver", AbsentRow)
    BY <1>2 DEF Submit
  <2>2. QED
    BY <1>b, <1>l, <1>t, <1>2, <2>1, RequestsKeepQueued, LockHeldKept
<1>3. ASSUME NEW o \in Ops, NEW t \in Callers, Reconcile(t, o) \/ Cancel(t, o)
      PROVE  LockHeld'
  <2>1. Begin(t, o, "reading", expirePlans[o]) \/ Begin(t, o, "cancelling", expirePlans[o])
    BY <1>3 DEF Reconcile, Cancel
  <2>2. QED
    BY <1>b, <1>l, <1>t, <1>3, <2>1, RequestsKeepQueued, LockHeldKept
<1>4. ASSUME NEW o \in Ops, ReconcileActive(o) PROVE LockHeld'
  <2>1. Begin(Reconciler, o, "reading", row[o]) /\ row' = row
    BY <1>4 DEF ReconcileActive, dbVars
  <2>2. QED
    BY <1>b, <1>l, <1>t, <1>u, <2>1, LockHeldKept
<1>5. CASE \/ \E o \in Ops : Advance(o) \/ Forget(o)
           \/ \E c \in Challenges : ChallengeExpires(c)
           \/ \E m \in late : LateArrival(m)
           \/ UNCHANGED vars
  <2>1. UNCHANGED <<row, pc, tgt>>
    BY <1>5 DEF Advance, Forget, ChallengeExpires, LateArrival, vars, dbVars, threadVars
  <2>2. QED
    BY <2>1, <1>u, LockHeldKept
<1>6. ASSUME NEW t \in Threads, LockForDelivery(t) \/ LockForCancel(t) PROVE LockHeld'
  <2>1. CASE Return(t)
    BY <1>6, <1>r, <1>u, <2>1, LockHeldKept DEF LockForDelivery, LockForCancel, dbVars
  <2>2. CASE /\ Goto(t, "submitting") \/ Goto(t, "recancelling")
             /\ UNCHANGED tgt
             /\ Undelivered(row[tgt[t]])
    <3>1. \A u \in Threads \ {t} : pc'[u] = pc[u]
      BY <1>0, <2>2 DEF Goto, ThreadsOK
    <3>2. QED
      BY <1>6, <2>2, <3>1, LockHeldTake DEF LockForDelivery, LockForCancel, dbVars
  <2>3. QED
    BY <1>6, <2>1, <2>2 DEF LockForDelivery, LockForCancel
<1>7. ASSUME NEW t \in Threads, CallSubmit(t) \/ CallCancel(t) PROVE LockHeld'
  <2>1. UNCHANGED <<row, tgt>>
    BY <1>7 DEF CallSubmit, CallCancel, dbVars
  <2>2. \A u \in Threads : \/ pc'[u] \notin Locking
                           \/ /\ pc[u] \in Locking /\ pc'[u] \in Locking
                              /\ tgt'[u] = tgt[u]
    <3>1. \/ pc[t] = "submitting" /\ Goto(t, "submitted")
          \/ pc[t] = "cancelling" /\ Goto(t, "cancelled")
          \/ pc[t] = "recancelling" /\ Goto(t, "recancelled")
      BY <1>7 DEF CallSubmit, CallCancel
    <3>2. QED
      BY <1>0, <2>1, <3>1 DEF Goto, Locking, ThreadsOK
  <2>3. QED
    BY <1>u, <2>1, <2>2, LockHeldKept
<1>8. ASSUME NEW t \in Threads, CallJob(t) PROVE LockHeld'
  BY <1>8, <1>g, <1>l, <1>u, LockHeldKept DEF CallJob, dbVars
<1>9. ASSUME NEW t \in Threads, RecordSubmit(t) \/ RecordUndelivered(t) PROVE LockHeld'
  <2>1. tgt[t] \in Ops /\ pc[t] \in Locking
    BY <1>0, <1>9, WorkingTarget DEF RecordSubmit, RecordUndelivered, Locking
  <2>2. \A q \in Ops \ {tgt[t]} : row'[q] = row[q]
    BY <1>9, <2>1, WritesOneRow DEF RecordSubmit, RecordUndelivered
  <2>3. QED
    BY <1>9, <2>1, <2>2, LockHeldWrite DEF RecordSubmit, RecordUndelivered
<1>10. ASSUME NEW t \in Threads, RecordJob(t) \/ RecordCancel(t) PROVE LockHeld'
  <2>1. tgt[t] \in Ops
    BY <1>0, <1>10, WorkingTarget DEF RecordJob, RecordCancel
  <2>2. CASE row' = row /\ Return(t)
    BY <1>r, <1>u, <2>2, LockHeldKept
  <2>3. CASE row' = row /\ UNCHANGED tgt /\ (Goto(t, "deliver") \/ Goto(t, "recancel"))
    BY <1>g, <1>l, <1>u, <2>3, LockHeldKept
  <2>4. CASE ~Locked(tgt[t]) /\ Return(t) /\ \A q \in Ops \ {tgt[t]} : row'[q] = row[q]
    BY <2>1, <2>4, LockHeldWrite
  <2>5. QED
    BY <1>10, <2>1, <2>2, <2>3, <2>4, WritesOneRow DEF RecordJob, RecordCancel
<1>11. ASSUME NEW t \in Threads, Abort(t) PROVE LockHeld'
  BY <1>11, <1>r, <1>u, LockHeldKept DEF Abort, dbVars
<1>12. QED
  BY <1>1, <1>2, <1>3, <1>4, <1>5, <1>6, <1>7, <1>8, <1>9, <1>10, <1>11 DEF Next

\* However often the journal loses a job, OAM never has one started again
\* once the host has reported on the operation: a delivery holds the row, and
\* the row it holds has no generation.
THEOREM NeverRestarted == Spec => ReportedNeverRestarted
<1> DEFINE Step == \A o \in Ops :
                      row[o].gen > 0 =>
                          executions'[o] = executions[o] \/ <<"submit", o>> \in late
<1>1. Init => LockHeld
  BY DEF Init, LockHeld, Locking
<1>2. TypeOK /\ LockHeld /\ [Next]_vars => LockHeld'
  BY LockHeldNext
<1>3. TypeOK /\ LockHeld /\ [Next]_vars => [Step]_vars
  <2> SUFFICES ASSUME TypeOK, LockHeld, [Next]_vars,
                      NEW o \in Ops, row[o].gen > 0, <<"submit", o>> \notin late
               PROVE  executions'[o] = executions[o]
    OBVIOUS
  <2>1. ~Started(o)
    BY DEF Started, LockHeld, Undelivered, Locking
  <2>2. QED
    BY <2>1, HostStep DEF HostUnchanged, Moved, Lost
<1>4. QED
  BY <1>1, <1>2, <1>3, TypeCorrect, PTL DEF Spec, ReportedNeverRestarted

-----------------------------------------------------------------------------
(* What one step makes of a row and of its audit trail                     *)

\* The places where a thread has an answer to record.
Answering == {"submitted", "read", "cancelled", "recancelled"}

\* What the properties look at stays as it is; the marker of an unreachable
\* host, and the time of a plan, may change.
Aside(o) ==
    /\ row'[o].state = row[o].state
    /\ row'[o].gen = row[o].gen
    /\ row'[o].submitted = row[o].submitted
    /\ row'[o].code = row[o].code

\* A state that is on record, or whose record may be lost.
OnRecord(trail, st) == st \in trail \cup AuditFails

\* A plan is inserted ...
Inserted(o) ==
    /\ row[o].state = "ABSENT"
    /\ row'[o].state = "PLANNED"
    /\ row'[o].gen = 0
    /\ ~row'[o].submitted
    /\ row'[o].code = ""
    /\ OnRecord(audit'[o], "PLANNED")

\* ... given up, because it expired or a user said so ...
Dropped(o) ==
    /\ row[o].state \in Unsubmitted
    /\ row'[o].state = "CANCELLED"
    /\ row'[o].gen = row[o].gen
    /\ row'[o].submitted = row[o].submitted
    /\ row'[o].code = "PLAN_EXPIRED" \/ OnRecord(audit'[o], "CANCELLED")

\* ... or claims the installation, to be authorized or at once to be queued.
Claimed(o, st) ==
    /\ row[o].state \in Unsubmitted
    /\ row'[o].state = st
    /\ row'[o].gen = row[o].gen
    /\ row'[o].code = row[o].code
    /\ st \in audit'[o]
    /\ \A q \in Ops \ {o} : row'[q].state \notin Active

\* A challenge is issued.
Authorized(o) ==
    /\ Claimed(o, "AWAITING_AUTHORIZATION")
    /\ row'[o].submitted = row[o].submitted

\* The submission, with the challenge it needs, is accepted.
Enqueued(o) ==
    /\ Claimed(o, "QUEUED")
    /\ row'[o].submitted
    /\ \E t \in Callers, s \in Sessions, c \in Challenges : Submit(t, o, s, c)

\* The row follows an answer of the host that thread t has heard.
Followed(o, t) ==
    /\ tgt[t] = o
    /\ pc[t] \in Answering
    /\ ans[t].kind = "job"
    /\ row[o].gen < ans[t].gen
    /\ row'[o].state = ans[t].state
    /\ row'[o].gen = ans[t].gen
    /\ row'[o].submitted = row[o].submitted
    /\ row'[o].code \in {"", "HOST_CODE"}
    /\ ans[t].state = seen[t].state \/ OnRecord(audit'[o], ans[t].state)
    /\ ans[t].state \in Active => \A q \in Ops \ {o} : row[q].state \notin Active

\* OAM decides, from what thread t has heard, that there is no job.
Decided(o, t) ==
    /\ tgt[t] = o
    /\ row'[o].gen = row[o].gen
    /\ row'[o].submitted = row[o].submitted
    /\ row'[o].code \in {"HOST_CODE", "CANCELLED_BY_USER", "HOST_JOB_LOST"}
    /\ \/ /\ pc[t] = "submitted" /\ ans[t].kind = "rejected"
          /\ row'[o].state = "FAILED" /\ "FAILED" \in audit'[o]
       \/ /\ pc[t] = "recancelled" /\ ans[t].kind = "notfound"
          /\ row'[o].state = "CANCELLED" /\ "CANCELLED" \in audit'[o]
       \/ /\ pc[t] = "read" /\ ans[t].kind = "notfound" /\ seen[t].gen > 0
          /\ row'[o].state = "RECOVERY_REQUIRED" /\ OnRecord(audit'[o], "RECOVERY_REQUIRED")

\* All that can happen to a row but being dropped.
Rewritten(o) ==
    \/ Inserted(o) \/ Authorized(o) \/ Enqueued(o)
    \/ \E t \in Threads : Followed(o, t) \/ Decided(o, t)

\* All that can happen to a row while a step rewrites another.
Spared(o) == Aside(o) \/ Dropped(o)

\* A step rewrites one row at most, may drop other plans that have expired,
\* and leaves the host alone if it does either; no audit record is removed.
RowStep ==
    /\ \A o \in Ops : audit[o] \subseteq audit'[o]
    /\ \/ \A o \in Ops : Aside(o)
       \/ /\ UNCHANGED <<journal, executions>>
          /\ \/ \A o \in Ops : Spared(o)
             \/ \E o \in Ops : Rewritten(o) /\ \A q \in Ops \ {o} : Spared(q)

\* Expiry leaves a row alone or cancels a plan nobody submitted.
LEMMA ExpireFields ==
    ASSUME TypeOK, NEW o \in Ops
    PROVE  /\ expirePlans[o] \in Row
           /\ expirePlans[o].gen = row[o].gen
           /\ expirePlans[o].submitted = row[o].submitted
           /\ \/ expirePlans[o] = row[o]
              \/ /\ row[o].state \in Unsubmitted
                 /\ expirePlans[o].state = "CANCELLED"
                 /\ expirePlans[o].code = "PLAN_EXPIRED"
<1>1. row[o] \in Row /\ expirePlans[o] = Expire(row[o])
  BY TypeParts, ExpirePlansType DEF DbOK
<1>2. \A r \in Row : Expire(r) # r => Expire(r).code = "PLAN_EXPIRED"
  BY DEF Expire, Row
<1>3. QED
  BY <1>1, <1>2, ExpireType

\* A table whose plans are expired spares every row.
LEMMA ExpireSpares ==
    ASSUME TypeOK, NEW o \in Ops, row'[o] = expirePlans[o]
    PROVE  Spared(o)
BY ExpireFields DEF Spared, Aside, Dropped

\* An audit record removes none; it may be lost only outside a transaction.
LEMMA Records ==
    ASSUME TypeOK, NEW o \in Ops, NEW st, NEW inTx, audited(o, st, inTx)
    PROVE  /\ \A q \in Ops : audit[q] \subseteq audit'[q]
           /\ OnRecord(audit'[o], st)
           /\ inTx => st \in audit'[o]
<1>1. audit \in [Ops -> SUBSET States]
  BY TypeParts DEF DbOK
<1>2. QED
  BY <1>1 DEF audited, OnRecord

\* applyJob follows the answer or leaves the row as it is.
LEMMA ApplyRow ==
    ASSUME TypeOK, NEW t \in Threads, tgt[t] \in Ops, pc[t] \in Answering,
           ans[t].kind = "job", NEW inTx, applyJob(tgt[t], seen[t], ans[t], inTx)
    PROVE  /\ Aside(tgt[t]) \/ Followed(tgt[t], t)
           /\ \A q \in Ops \ {tgt[t]} : row'[q] = row[q]
           /\ \A q \in Ops : audit[q] \subseteq audit'[q]
<1> DEFINE o == tgt[t]
<1>0. PICK new : new = AppliedJob(o, seen[t], ans[t])
  OBVIOUS
<1>1. row \in [Ops -> Row] /\ ans[t] \in Answers
  BY TypeParts DEF DbOK, ThreadsOK
<1>2. ans[t].gen \in Nat /\ row[o] \in Row /\ row[o].gen \in Nat
  BY <1>1, AnswerFields DEF Row
<1>3. row'[o] = new /\ \A q \in Ops \ {o} : row'[q] = row[q]
  BY <1>0, <1>1 DEF applyJob
<1>4. \A q \in Ops : audit[q] \subseteq audit'[q]
  BY Records DEF applyJob
<1>5. \/ /\ row[o].gen < ans[t].gen
         /\ IndexAllows(row, o, ans[t].state)
         /\ new.state = ans[t].state /\ new.gen = ans[t].gen
         /\ new.submitted = row[o].submitted /\ new.code \in {"", "HOST_CODE"}
      \/ /\ new.state = row[o].state /\ new.gen = row[o].gen
         /\ new.submitted = row[o].submitted /\ new.code = row[o].code
  BY <1>0, <1>2 DEF AppliedJob, Row
<1>6. CASE /\ new.state = row[o].state /\ new.gen = row[o].gen
           /\ new.submitted = row[o].submitted /\ new.code = row[o].code
  BY <1>3, <1>4, <1>6 DEF Aside
<1>7. CASE /\ row[o].gen < ans[t].gen
           /\ IndexAllows(row, o, ans[t].state)
           /\ new.state = ans[t].state /\ new.gen = ans[t].gen
           /\ new.submitted = row[o].submitted /\ new.code \in {"", "HOST_CODE"}
  <2>1. ans[t].state = seen[t].state \/ OnRecord(audit'[o], ans[t].state)
    <3>1. CASE ans[t].state = seen[t].state
      BY <3>1
    <3>2. CASE ans[t].state # seen[t].state
      <4>1. \A g, h \in Nat : g < h => g # h
        OBVIOUS
      <4>2. new.gen # row[o].gen
        BY <1>2, <1>7, <4>1, Zenon
      <4>3. audited(o, ans[t].state, inTx)
        BY <1>0, <3>2, <4>2 DEF applyJob
      <4>4. QED
        BY <4>3, Records
    <3>3. QED
      BY <3>1, <3>2
  <2>2. Followed(o, t)
    BY <1>3, <1>7, <2>1 DEF Followed, IndexAllows
  <2>3. QED
    BY <1>3, <1>4, <2>2
<1>8. QED
  BY <1>5, <1>6, <1>7

\* finishWithoutHost changes the state and its code, and says so.
LEMMA FinishRow ==
    ASSUME TypeOK, NEW o \in Ops, NEW s, NEW st, NEW cd, NEW inTx,
           finishWithoutHost(o, s, st, cd, inTx)
    PROVE  /\ \A q \in Ops \ {o} : row'[q] = row[q]
           /\ \A q \in Ops : audit[q] \subseteq audit'[q]
           /\ \/ row'[o] = row[o]
              \/ /\ row'[o].state = st /\ row'[o].code = cd
                 /\ row'[o].gen = row[o].gen /\ row'[o].submitted = row[o].submitted
                 /\ OnRecord(audit'[o], st)
                 /\ inTx => st \in audit'[o]
<1>1. row \in [Ops -> Row]
  BY TypeParts DEF DbOK
<1>2. CASE UNCHANGED <<row, audit>>
  BY <1>2
<1>3. CASE /\ row' = [row EXCEPT ![o] =
                       [@ EXCEPT !.state = st, !.code = cd,
                                 !.rec = IF cd = "HOST_JOB_LOST"
                                         THEN "HOST_UNKNOWN" ELSE "IN_SYNC"]]
           /\ audited(o, st, inTx)
  <2>1. /\ row'[o].state = st /\ row'[o].code = cd
        /\ row'[o].gen = row[o].gen /\ row'[o].submitted = row[o].submitted
        /\ \A q \in Ops \ {o} : row'[q] = row[q]
    BY <1>1, <1>3 DEF Row
  <2>2. QED
    BY <1>3, <2>1, Records
<1>4. QED
  BY <1>2, <1>3 DEF finishWithoutHost

\* Marking a host unreachable touches nothing else of the row.
LEMMA MarkRow ==
    ASSUME TypeOK, NEW o \in Ops, NEW s, markUnreachable(o, s)
    PROVE  (\A q \in Ops : Aside(q)) /\ UNCHANGED audit
<1>1. row \in [Ops -> Row]
  BY TypeParts DEF DbOK
<1>2. QED
  BY <1>1 DEF markUnreachable, Aside, Row

\* Every step is a RowStep: one case per action.
LEMMA RowSteps ==
    ASSUME TypeOK, [Next]_vars
    PROVE  RowStep
<1>0. /\ row \in [Ops -> Row] /\ expirePlans \in [Ops -> Row]
      /\ audit \in [Ops -> SUBSET States]
      /\ ThreadsOK
  BY TypeParts, ExpirePlansType DEF DbOK
<1>a. row' = row => \A o \in Ops : Aside(o)
  BY DEF Aside
<1>s. \A o \in Ops : row'[o] = expirePlans[o] => Spared(o)
  BY ExpireSpares
<1>r. \A o \in Ops : row'[o] = row[o] => Spared(o)
  BY DEF Spared, Aside
<1>u. "CANCELLED" \notin Unsubmitted
  BY DEF Unsubmitted
<1>1. CASE \/ UNCHANGED vars
           \/ \E o \in Ops : ReconcileActive(o) \/ Advance(o) \/ Forget(o)
           \/ \E c \in Challenges : ChallengeExpires(c)
           \/ \E m \in late : LateArrival(m)
           \/ \E t \in Threads : \/ LockForDelivery(t) \/ CallSubmit(t) \/ CallJob(t)
                                 \/ CallCancel(t) \/ LockForCancel(t) \/ Abort(t)
  <2>1. UNCHANGED <<row, audit>>
    BY <1>1 DEF vars, dbVars, ReconcileActive, Advance, Forget, ChallengeExpires,
                LateArrival, LockForDelivery, CallSubmit, CallJob, CallCancel,
                LockForCancel, Abort
  <2>2. QED
    BY <1>a, <2>1 DEF RowStep
<1>2. CASE \/ GetOperation
           \/ \E o \in Ops, t \in Callers : Reconcile(t, o) \/ Cancel(t, o)
  <2>1. row' = expirePlans /\ UNCHANGED <<audit, journal, executions>>
    BY <1>2 DEF GetOperation, Reconcile, Cancel, hostVars
  <2>2. QED
    BY <1>s, <2>1 DEF RowStep
<1>3. ASSUME NEW o \in Ops, PlanOperation(o) PROVE RowStep
  <2>1. \A q \in Ops \ {o} : row'[q] = expirePlans[q]
    BY <1>0, <1>3 DEF PlanOperation
  <2>2. row'[o] = [AbsentRow EXCEPT !.state = "PLANNED"]
    BY <1>0, <1>3 DEF PlanOperation
  <2>3. OnRecord(audit'[o], "PLANNED") /\ \A q \in Ops : audit[q] \subseteq audit'[q]
    BY <1>3, Records DEF PlanOperation
  <2>4. Inserted(o)
    BY <1>3, <2>2, <2>3 DEF PlanOperation, Inserted, AbsentRow
  <2>5. UNCHANGED <<journal, executions>>
    BY <1>3 DEF PlanOperation, hostVars
  <2>6. QED
    BY <1>s, <2>1, <2>3, <2>4, <2>5 DEF RowStep, Rewritten
<1>4. ASSUME NEW o \in Ops, CancelPlanned(o) PROVE RowStep
  <2>1. \A q \in Ops \ {o} : row'[q] = expirePlans[q]
    BY <1>0, <1>4 DEF CancelPlanned
  <2>2. expirePlans[o] = row[o] /\ row[o].state \in Unsubmitted
    BY <1>4, <1>u, ExpireFields DEF CancelPlanned
  <2>3. row'[o] = [row[o] EXCEPT !.state = "CANCELLED", !.code = "CANCELLED_BY_USER"]
    BY <1>0, <1>4, <2>2 DEF CancelPlanned
  <2>4. OnRecord(audit'[o], "CANCELLED") /\ \A q \in Ops : audit[q] \subseteq audit'[q]
    BY <1>4, Records DEF CancelPlanned
  <2>5. Dropped(o)
    BY <1>0, <2>2, <2>3, <2>4 DEF Dropped, Row
  <2>6. UNCHANGED <<journal, executions>>
    BY <1>4 DEF CancelPlanned, hostVars
  <2>7. QED
    BY <1>s, <2>1, <2>4, <2>5, <2>6 DEF RowStep, Spared
<1>5. ASSUME NEW o \in Ops, PlanExpires(o) PROVE RowStep
  <2>1. \A q \in Ops : Aside(q)
    BY <1>0, <1>5 DEF PlanExpires, Aside, Row
  <2>2. QED
    BY <1>5, <2>1 DEF PlanExpires, RowStep
<1>6. ASSUME NEW o \in Ops, NEW s \in Sessions, NEW c \in Challenges, Authorize(o, s, c)
      PROVE  RowStep
  <2>1. \A q \in Ops \ {o} : row'[q] = expirePlans[q]
    BY <1>0, <1>6 DEF Authorize
  <2>2. expirePlans[o] = row[o] /\ row[o].state \in Unsubmitted
    BY <1>6, <1>u, ExpireFields DEF Authorize
  <2>3. row'[o] = [row[o] EXCEPT !.state = "AWAITING_AUTHORIZATION"]
    BY <1>0, <1>6, <2>2 DEF Authorize
  <2>4. /\ "AWAITING_AUTHORIZATION" \in audit'[o]
        /\ \A q \in Ops : audit[q] \subseteq audit'[q]
    BY <1>6, Records DEF Authorize
  <2>5. \A q \in Ops \ {o} : row'[q].state \notin Active
    BY <1>6, <2>1 DEF Authorize, IndexAllows, Active
  <2>6. Authorized(o)
    BY <1>0, <2>2, <2>3, <2>4, <2>5 DEF Authorized, Claimed, Row
  <2>7. UNCHANGED <<journal, executions>>
    BY <1>6 DEF Authorize, hostVars
  <2>8. QED
    BY <1>s, <2>1, <2>4, <2>6, <2>7 DEF RowStep, Rewritten
<1>7. ASSUME NEW o \in Ops, NEW t \in Callers, NEW s \in Sessions,
             NEW c \in Challenges, Submit(t, o, s, c)
      PROVE  RowStep
  <2>1. \A q \in Ops \ {o} : row'[q] = expirePlans[q]
    BY <1>0, <1>7 DEF Submit
  <2>2. expirePlans[o] = row[o] /\ row[o].state \in Unsubmitted
    BY <1>7, ExpireFields DEF Submit, Unsubmitted
  <2>3. row'[o] = [row[o] EXCEPT !.state = "QUEUED", !.submitted = TRUE]
    BY <1>0, <1>7, <2>2 DEF Submit
  <2>4. "QUEUED" \in audit'[o] /\ \A q \in Ops : audit[q] \subseteq audit'[q]
    BY <1>7, Records DEF Submit
  <2>5. \A q \in Ops \ {o} : row'[q].state \notin Active
    BY <1>7, <2>1 DEF Submit, IndexAllows, Active
  <2>6. Enqueued(o)
    <3>1. row'[o].submitted /\ Claimed(o, "QUEUED")
      BY <1>0, <2>2, <2>3, <2>4, <2>5 DEF Claimed, Row
    <3>2. QED
      BY <1>7, <3>1 DEF Enqueued
  <2>7. UNCHANGED <<journal, executions>>
    BY <1>7 DEF Submit, hostVars
  <2>8. QED
    BY <1>s, <2>1, <2>4, <2>6, <2>7 DEF RowStep, Rewritten
<1>8. ASSUME NEW t \in Threads,
             RecordSubmit(t) \/ RecordJob(t) \/ RecordCancel(t) \/ RecordUndelivered(t)
      PROVE  RowStep
  <2> DEFINE o == tgt[t]
  <2>1. /\ tgt[t] \in Ops /\ pc[t] \in Answering
        /\ UNCHANGED <<journal, executions>>
    BY <1>0, <1>8, WorkingTarget
       DEF RecordSubmit, RecordJob, RecordCancel, RecordUndelivered, Answering, hostVars
  <2>2. ASSUME NEW inTx, ans[t].kind = "job", applyJob(tgt[t], seen[t], ans[t], inTx)
        PROVE  RowStep
    <3>1. /\ Aside(o) \/ Followed(o, t)
          /\ \A q \in Ops \ {o} : row'[q] = row[q]
          /\ \A q \in Ops : audit[q] \subseteq audit'[q]
      BY <2>1, <2>2, ApplyRow
    <3>2. QED
      BY <1>r, <2>1, <3>1 DEF RowStep, Rewritten, Spared
  <2>3. ASSUME NEW st, NEW cd, NEW inTx, finishWithoutHost(o, seen[t], st, cd, inTx),
               cd \in {"HOST_CODE", "CANCELLED_BY_USER", "HOST_JOB_LOST"},
               \/ pc[t] = "submitted" /\ ans[t].kind = "rejected" /\ st = "FAILED" /\ inTx
               \/ pc[t] = "recancelled" /\ ans[t].kind = "notfound" /\ st = "CANCELLED" /\ inTx
               \/ /\ pc[t] = "read" /\ ans[t].kind = "notfound" /\ seen[t].gen > 0
                  /\ st = "RECOVERY_REQUIRED"
        PROVE  RowStep
    <3>1. /\ \A q \in Ops \ {o} : row'[q] = row[q]
          /\ \A q \in Ops : audit[q] \subseteq audit'[q]
          /\ \/ row'[o] = row[o]
             \/ /\ row'[o].state = st /\ row'[o].code = cd
                /\ row'[o].gen = row[o].gen /\ row'[o].submitted = row[o].submitted
                /\ OnRecord(audit'[o], st)
                /\ inTx => st \in audit'[o]
      BY <2>1, <2>3, FinishRow
    <3>2. row'[o] = row[o] \/ Decided(o, t)
      BY <2>3, <3>1 DEF Decided
    <3>3. QED
      BY <1>r, <2>1, <3>1, <3>2 DEF RowStep, Rewritten
  <2>4. ASSUME markUnreachable(tgt[t], seen[t]) PROVE RowStep
    BY <2>1, <2>4, MarkRow DEF RowStep
  <2>5. ASSUME UNCHANGED <<row, audit>> PROVE RowStep
    BY <1>a, <2>5 DEF RowStep
  <2>6. CASE RecordSubmit(t)
    BY <2>2, <2>3, <2>4, <2>6 DEF RecordSubmit
  <2>7. CASE RecordJob(t)
    BY <2>2, <2>3, <2>4, <2>5, <2>7 DEF RecordJob
  <2>8. CASE RecordCancel(t)
    BY <2>2, <2>5, <2>8 DEF RecordCancel
  <2>9. CASE RecordUndelivered(t)
    BY <2>2, <2>3, <2>5, <2>9 DEF RecordUndelivered
  <2>10. QED
    BY <1>8, <2>6, <2>7, <2>8, <2>9
<1>9. QED
  BY <1>1, <1>2, <1>3, <1>4, <1>5, <1>6, <1>7, <1>8 DEF Next

-----------------------------------------------------------------------------
(* What one step makes of a thread                                         *)

\* A thread stays where it is ...
Resting(t) ==
    /\ pc'[t] = pc[t] /\ tgt'[t] = tgt[t]
    /\ seen'[t] = seen[t] /\ ans'[t] = ans[t]

\* ... returns ...
Finished(t) ==
    /\ pc'[t] = "idle" /\ tgt'[t] = NoOp
    /\ seen'[t] = AbsentRow /\ ans'[t] = NoAnswer

\* ... begins to work on an operation that was submitted ...
Began(t) ==
    /\ pc[t] = "idle"
    /\ ans'[t] = ans[t]
    /\ tgt'[t] \in Ops
    /\ row'[tgt'[t]].submitted
    /\ \/ pc'[t] = "deliver" /\ seen'[t] = AbsentRow
       \/ pc'[t] \in {"reading", "cancelling"} /\ seen'[t] = row'[tgt'[t]]

\* ... takes the row of an undelivered operation ...
TookRow(t) ==
    /\ pc[t] \in {"deliver", "recancel"}
    /\ Undelivered(row[tgt[t]])
    /\ pc'[t] \in {"submitting", "recancelling"}
    /\ tgt'[t] = tgt[t]
    /\ seen'[t] = row'[tgt[t]]
    /\ ans'[t] = ans[t]

\* ... calls the host ...
Calls(from, to) ==
    \/ from = "submitting" /\ to = "submitted"
    \/ from = "reading" /\ to = "read"
    \/ from = "cancelling" /\ to = "cancelled"
    \/ from = "recancelling" /\ to = "recancelled"

\* A job the host answers with is the job as it is now.
Called(t) ==
    /\ Calls(pc[t], pc'[t])
    /\ tgt'[t] = tgt[t]
    /\ seen'[t] = seen[t]
    /\ \/ ans'[t] = Unreachable
       \/ journal'[tgt[t]] # <<>> /\ ans'[t] = JobAnswer(journal'[tgt[t]])
       \/ pc[t] # "submitting" /\ journal'[tgt[t]] = <<>> /\ ans'[t] = NotFound
       \/ pc[t] = "submitting" /\ journal'[tgt[t]] = <<>> /\ ans'[t] = Rejected
       \/ pc[t] \in {"cancelling", "recancelling"} /\ ans'[t] = Rejected

\* ... or goes on from a missing job to deliver it or to end it.
TurnedTo(t) ==
    /\ pc[t] \in {"read", "cancelled"}
    /\ pc'[t] \in {"deliver", "recancel"}
    /\ tgt'[t] = tgt[t]
    /\ seen'[t] = AbsentRow
    /\ ans'[t] = NoAnswer

\* All that a step can make of a thread.
ThreadStep(t) ==
    Resting(t) \/ Finished(t) \/ Began(t) \/ TookRow(t) \/ Called(t) \/ TurnedTo(t)

\* The job the host answers a submission or a cancellation with is the job as
\* it then is; without a job to answer with, it has none.
LEMMA HostReplies ==
    ASSUME TypeOK, NEW o \in Ops, NEW reply
    PROVE  /\ submitJob(o, reply) =>
                \/ journal'[o] # <<>> /\ reply = JobAnswer(journal'[o])
                \/ journal'[o] = <<>> /\ reply = Rejected
           /\ cancelJob(o, reply) =>
                \/ journal'[o] # <<>> /\ reply = JobAnswer(journal'[o])
                \/ journal'[o] = <<>> /\ reply = NotFound
                \/ reply = Rejected
<1>0. HostOK
  BY TypeParts
<1>1. ASSUME submitJob(o, reply)
      PROVE  \/ journal'[o] # <<>> /\ reply = JobAnswer(journal'[o])
             \/ journal'[o] = <<>> /\ reply = Rejected
  <2>1. CASE /\ UNCHANGED journal
             /\ \/ journal[o] = <<>> /\ reply = Rejected
                \/ journal[o] # <<>> /\ reply = JobAnswer(journal[o])
    BY <2>1
  <2>2. CASE journal' = [journal EXCEPT ![o] = <<Queued>>] /\ reply = JobAnswer(<<Queued>>)
    <3>1. journal'[o] = <<Queued>>
      BY <1>0, <2>2 DEF HostOK
    <3>2. QED
      BY <2>2, <3>1, OneEntry
  <2>3. QED
    BY <1>1, <2>1, <2>2 DEF submitJob
<1>2. ASSUME cancelJob(o, reply)
      PROVE  \/ journal'[o] # <<>> /\ reply = JobAnswer(journal'[o])
             \/ journal'[o] = <<>> /\ reply = NotFound
             \/ reply = Rejected
  <2>1. CASE /\ UNCHANGED journal
             /\ \/ journal[o] = <<>> /\ reply = NotFound
                \/ journal[o] # <<>> /\ reply = JobAnswer(journal[o])
                \/ reply = Rejected
    BY <2>1
  <2>2. CASE /\ journal' = [journal EXCEPT ![o] = Append(@, Stopped)]
             /\ reply = JobAnswer(Append(journal[o], Stopped))
    <3>1. journal'[o] = Append(journal[o], Stopped) /\ journal'[o] # <<>>
      BY <1>0, <2>2, OneEntry, JournalGrows DEF HostOK
    <3>2. QED
      BY <2>2, <3>1
  <2>3. QED
    BY <1>2, <2>1, <2>2 DEF cancelJob
<1>3. QED
  BY <1>1, <1>2

\* Every step is a ThreadStep of every thread: one case per action.
LEMMA ThreadSteps ==
    ASSUME TypeOK, [Next]_vars, NEW u \in Threads
    PROVE  ThreadStep(u)
<1>0. ThreadsOK /\ HostOK /\ row \in [Ops -> Row] /\ expirePlans \in [Ops -> Row]
  BY TypeParts, ExpirePlansType DEF DbOK
<1>t. Callers \subseteq Threads /\ Reconciler \in Threads
  BY DEF Threads
<1>1. CASE UNCHANGED threadVars
  BY <1>1 DEF threadVars, ThreadStep, Resting
<1>2. ASSUME NEW t \in Threads, Return(t) PROVE ThreadStep(u)
  BY <1>0, <1>2 DEF Return, ThreadsOK, ThreadStep, Resting, Finished
<1>3. ASSUME NEW t \in Threads, NEW o \in Ops, NEW where, NEW r, Begin(t, o, where, r),
             row'[o].submitted,
             \/ where = "deliver" /\ r = AbsentRow
             \/ where \in {"reading", "cancelling"} /\ r = row'[o]
      PROVE  ThreadStep(u)
  <2>1. CASE u # t
    BY <1>0, <1>3, <2>1 DEF Begin, ThreadsOK, ThreadStep, Resting
  <2>2. CASE u = t
    <3>1. /\ pc[t] = "idle" /\ pc'[t] = where /\ tgt'[t] = o
          /\ seen'[t] = r /\ ans'[t] = ans[t]
      BY <1>0, <1>3 DEF Begin, ThreadsOK
    <3>2. Began(t)
      BY <1>3, <3>1 DEF Began
    <3>3. QED
      BY <2>2, <3>2 DEF ThreadStep
  <2>3. QED
    BY <2>1, <2>2
<1>4. ASSUME NEW o \in Ops, NEW t \in Callers, NEW s \in Sessions,
             NEW c \in Challenges, Submit(t, o, s, c)
      PROVE  ThreadStep(u)
  <2>1. row'[o].submitted
    BY <1>0, <1>4 DEF Submit, Row
  <2>2. QED
    BY <1>t, <1>3, <1>4, <2>1 DEF Submit
<1>5. ASSUME NEW o \in Ops, NEW t \in Callers, Reconcile(t, o) \/ Cancel(t, o)
      PROVE  ThreadStep(u)
  BY <1>t, <1>3, <1>5 DEF Reconcile, Cancel
<1>6. ASSUME NEW o \in Ops, ReconcileActive(o) PROVE ThreadStep(u)
  BY <1>t, <1>3, <1>6 DEF ReconcileActive, dbVars
<1>7. ASSUME NEW t \in Threads, LockForDelivery(t) \/ LockForCancel(t) PROVE ThreadStep(u)
  <2>1. CASE Return(t)
    BY <1>2, <2>1
  <2>2. CASE /\ Goto(t, "submitting") \/ Goto(t, "recancelling")
             /\ Undelivered(row[tgt[t]])
             /\ seen' = [seen EXCEPT ![t] = row[tgt[t]]]
             /\ UNCHANGED <<tgt, ans>>
    <3>1. row' = row /\ pc[t] \in {"deliver", "recancel"}
      BY <1>7 DEF LockForDelivery, LockForCancel, dbVars
    <3>2. CASE u # t
      BY <1>0, <2>2, <3>2 DEF Goto, ThreadsOK, ThreadStep, Resting
    <3>3. CASE u = t
      BY <1>0, <2>2, <3>1, <3>3 DEF Goto, ThreadsOK, ThreadStep, TookRow
    <3>4. QED
      BY <3>2, <3>3
  <2>3. QED
    BY <1>7, <2>1, <2>2 DEF LockForDelivery, LockForCancel
<1>8. ASSUME NEW t \in Threads, NEW where, NEW a,
             Calls(pc[t], where), Goto(t, where), UNCHANGED <<tgt, seen>>, ans' = [ans EXCEPT ![t] = a],
             \/ a = Unreachable
             \/ journal'[tgt[t]] # <<>> /\ a = JobAnswer(journal'[tgt[t]])
             \/ pc[t] # "submitting" /\ journal'[tgt[t]] = <<>> /\ a = NotFound
             \/ pc[t] = "submitting" /\ journal'[tgt[t]] = <<>> /\ a = Rejected
             \/ pc[t] \in {"cancelling", "recancelling"} /\ a = Rejected
      PROVE  ThreadStep(u)
  <2>1. CASE u # t
    BY <1>0, <1>8, <2>1 DEF Goto, ThreadsOK, ThreadStep, Resting
  <2>2. CASE u = t
    <3>1. pc'[t] = where /\ ans'[t] = a /\ tgt'[t] = tgt[t] /\ seen'[t] = seen[t]
      BY <1>0, <1>8 DEF Goto, ThreadsOK
    <3>2. Called(t)
      BY <1>8, <3>1, Zenon DEF Called
    <3>3. QED
      BY <2>2, <3>2 DEF ThreadStep
  <2>3. QED
    BY <2>1, <2>2
<1>9. ASSUME NEW t \in Threads, CallSubmit(t) PROVE ThreadStep(u)
  <2>1. tgt[t] \in Ops
    BY <1>0, <1>9, WorkingTarget DEF CallSubmit
  <2>2. /\ pc[t] = "submitting" /\ Goto(t, "submitted") /\ UNCHANGED <<tgt, seen>>
    BY <1>9 DEF CallSubmit
  <2>3. CASE ans' = [ans EXCEPT ![t] = Unreachable]
    BY <1>8, <2>2, <2>3 DEF Calls
  <2>4. CASE \E reply : submitJob(tgt[t], reply) /\ ans' = [ans EXCEPT ![t] = reply]
    BY <1>8, <2>1, <2>2, <2>4, HostReplies DEF Calls
  <2>5. QED
    BY <1>9, <2>3, <2>4 DEF CallSubmit
<1>10. ASSUME NEW t \in Threads, CallJob(t) PROVE ThreadStep(u)
  <2>1. journal' = journal
    BY <1>10 DEF CallJob, hostVars
  <2>2. CASE ans' = [ans EXCEPT ![t] = Unreachable]
    BY <1>8, <1>10, <2>2 DEF CallJob, Calls
  <2>3. CASE ans' = [ans EXCEPT ![t] = getJob(tgt[t])]
    <3>1. CASE journal[tgt[t]] = <<>>
      BY <1>8, <1>10, <2>1, <2>3, <3>1 DEF CallJob, getJob, Calls
    <3>2. CASE journal[tgt[t]] # <<>>
      BY <1>8, <1>10, <2>1, <2>3, <3>2 DEF CallJob, getJob, Calls
    <3>3. QED
      BY <3>1, <3>2
  <2>4. QED
    BY <1>10, <2>2, <2>3 DEF CallJob
<1>11. ASSUME NEW t \in Threads, CallCancel(t) PROVE ThreadStep(u)
  <2>1. tgt[t] \in Ops
    BY <1>0, <1>11, WorkingTarget DEF CallCancel
  <2>2. /\ \/ pc[t] = "cancelling" /\ Goto(t, "cancelled")
           \/ pc[t] = "recancelling" /\ Goto(t, "recancelled")
        /\ UNCHANGED <<tgt, seen>>
    BY <1>11 DEF CallCancel
  <2>3. CASE ans' = [ans EXCEPT ![t] = Unreachable]
    BY <1>8, <2>2, <2>3 DEF Calls
  <2>4. CASE \E reply : cancelJob(tgt[t], reply) /\ ans' = [ans EXCEPT ![t] = reply]
    <3>1. PICK reply : cancelJob(tgt[t], reply) /\ ans' = [ans EXCEPT ![t] = reply]
      BY <2>4
    <3>2. \/ journal'[tgt[t]] # <<>> /\ reply = JobAnswer(journal'[tgt[t]])
          \/ journal'[tgt[t]] = <<>> /\ reply = NotFound
          \/ reply = Rejected
      BY <2>1, <3>1, HostReplies
    <3>3. QED
      BY <1>8, <2>2, <3>1, <3>2 DEF Calls
  <2>5. QED
    BY <1>11, <2>3, <2>4 DEF CallCancel
<1>12. ASSUME NEW t \in Threads, RecordJob(t) \/ RecordCancel(t) PROVE ThreadStep(u)
  <2>1. CASE Return(t)
    BY <1>2, <2>1
  <2>2. CASE /\ Goto(t, "deliver") \/ Goto(t, "recancel")
             /\ seen' = [seen EXCEPT ![t] = AbsentRow]
             /\ ans' = [ans EXCEPT ![t] = NoAnswer]
             /\ UNCHANGED tgt
    <3>1. pc[t] \in {"read", "cancelled"}
      BY <1>12 DEF RecordJob, RecordCancel
    <3>2. CASE u # t
      BY <1>0, <2>2, <3>2 DEF Goto, ThreadsOK, ThreadStep, Resting
    <3>3. CASE u = t
      BY <1>0, <2>2, <3>1, <3>3 DEF Goto, ThreadsOK, ThreadStep, TurnedTo
    <3>4. QED
      BY <3>2, <3>3
  <2>3. QED
    BY <1>12, <2>1, <2>2 DEF RecordJob, RecordCancel
<1>13. ASSUME NEW t \in Threads, RecordSubmit(t) \/ RecordUndelivered(t) \/ Abort(t)
       PROVE  ThreadStep(u)
  BY <1>2, <1>13 DEF RecordSubmit, RecordUndelivered, Abort
<1>14. QED
  BY <1>1, <1>4, <1>5, <1>6, <1>7, <1>9, <1>10, <1>11, <1>12, <1>13
     DEF Next, vars, threadVars, GetOperation, PlanOperation, CancelPlanned,
         PlanExpires, Authorize, Advance, Forget, ChallengeExpires, LateArrival

-----------------------------------------------------------------------------
(* Invariants that hold whatever the journal loses and however late         *)

\* A row that was submitted is in a state of the host's, and one that was not
\* has never been with the host; threads and late requests are about
\* operations that were submitted.
SubmittedFirst ==
    /\ \A o \in Ops :
          IF row[o].submitted THEN row[o].state \in HostOwned
          ELSE /\ row[o].state \in Unsubmitted \cup {"ABSENT", "CANCELLED"}
               /\ row[o].gen = 0
               /\ executions[o] = 0
               /\ journal[o] = <<>>
    /\ \A t \in Threads : pc[t] # "idle" => row[tgt[t]].submitted
    /\ \A m \in late : row[m[2]].submitted

\* A copy of a row is no newer than the row, and only a thread that waits to
\* record it holds an answer.
CopiesOld ==
    \A t \in Threads :
        /\ pc[t] # "idle" => seen[t].gen <= row[tgt[t]].gen
        /\ pc[t] \notin Answering => ans[t].kind = "none"

\* Only a plan that was never submitted expires.
PlansExpire ==
    \A o \in Ops : row[o].code = "PLAN_EXPIRED" =>
                       row[o].state = "CANCELLED" /\ ~row[o].submitted

\* The state a thread compares an answer with is on record already.
CopiesOnRecord ==
    \A t \in Threads :
        pc[t] \notin {"idle", "deliver", "recancel"} => OnRecord(audit[tgt[t]], seen[t].state)

\* At first there is no operation and the host has no job.
LEMMA InitRows ==
    ASSUME Init
    PROVE  \A o \in Ops : /\ row[o].state = "ABSENT" /\ ~row[o].submitted /\ row[o].gen = 0
                          /\ row[o].code = "" /\ journal[o] = <<>> /\ executions[o] = 0
BY DEF Init, AbsentRow

\* These invariants, and the audit trail, hold at first.
LEMMA InvInit ==
    Init => SubmittedFirst /\ CopiesOld /\ PlansExpire /\ CopiesOnRecord /\ AuditTrailKept
<1> SUFFICES ASSUME Init
             PROVE  SubmittedFirst /\ CopiesOld /\ PlansExpire /\ CopiesOnRecord /\ AuditTrailKept
  OBVIOUS
<1>1. \A o \in Ops : /\ row[o].state = "ABSENT" /\ ~row[o].submitted /\ row[o].gen = 0
                     /\ row[o].code = "" /\ journal[o] = <<>> /\ executions[o] = 0
  BY InitRows
<1>2. late = {} /\ \A t \in Threads : pc[t] = "idle" /\ ans[t].kind = "none"
  BY DEF Init, NoAnswer, NoJob
<1>3. QED
  BY <1>1, <1>2
     DEF SubmittedFirst, CopiesOld, PlansExpire, CopiesOnRecord, AuditTrailKept

\* A request that may come late was sent by a thread, of a kind that may.
LEMMA LateSteps ==
    ASSUME TypeOK, [Next]_vars, NEW m \in late'
    PROVE  \/ m \in late
           \/ /\ m[1] \in LateKinds
              /\ \E t \in Threads : pc[t] # "idle" /\ m[2] = tgt[t]
<1>1. CASE late' \subseteq late
  BY <1>1
<1>2. ASSUME NEW t \in Threads, CallSubmit(t) \/ CallCancel(t), m \notin late
      PROVE  m[1] \in LateKinds /\ pc[t] # "idle" /\ m[2] = tgt[t]
  BY <1>2 DEF CallSubmit, CallCancel, hostVars
<1>3. QED
  BY <1>1, <1>2
     DEF Next, vars, hostVars, GetOperation, PlanOperation, CancelPlanned,
         PlanExpires, ReconcileActive, Authorize, Submit, Reconcile, Cancel,
         ChallengeExpires, LockForDelivery, RecordSubmit, CallJob, RecordJob,
         RecordCancel, LockForCancel, RecordUndelivered, Abort, Advance, Forget,
         LateArrival

\* What a step makes of one row; the host has no part in what rewrites it.
LEMMA RowCases ==
    ASSUME RowStep, NEW o \in Ops
    PROVE  \/ Aside(o)
           \/ UNCHANGED <<journal, executions>> /\ (Dropped(o) \/ Rewritten(o))
BY DEF RowStep, Spared

\* A state of OAM's own is none of the host's.
LEMMA UnsubmittedStates ==
    /\ Unsubmitted \cap HostOwned = {}
    /\ "ABSENT" \notin HostOwned /\ "ABSENT" \notin Unsubmitted
    /\ "CANCELLED" \notin Unsubmitted
BY DEF Unsubmitted, HostOwned

\* A row stays submitted, and its generation never falls.
LEMMA RowGrows ==
    ASSUME TypeOK, SubmittedFirst, RowStep, NEW o \in Ops
    PROVE  /\ row[o].submitted => row'[o].submitted
           /\ row[o].gen <= row'[o].gen
<1>1. row[o].gen \in Nat
  BY TypeParts DEF DbOK, Row
<1>2. CASE Aside(o) \/ Dropped(o) \/ Authorized(o) \/ Enqueued(o)
  BY <1>1, <1>2 DEF Aside, Dropped, Authorized, Enqueued, Claimed
<1>3. CASE Inserted(o)
  <2>1. ~row[o].submitted
    BY <1>3, UnsubmittedStates DEF Inserted, SubmittedFirst
  <2>2. row[o].gen = 0 /\ row'[o].gen = 0
    BY <1>3, <2>1 DEF Inserted, SubmittedFirst
  <2>3. QED
    BY <2>1, <2>2
<1>4. ASSUME NEW t \in Threads, Followed(o, t)
      PROVE  row'[o].submitted = row[o].submitted /\ row[o].gen <= row'[o].gen
  <2>1. ans[t].gen \in Nat
    BY <1>4, TypeParts, AnswerFields DEF Followed, ThreadsOK
  <2>2. \A g, h \in Nat : g < h => g <= h
    OBVIOUS
  <2>3. QED
    BY <1>1, <1>4, <2>1, <2>2, Zenon DEF Followed
<1>5. ASSUME NEW t \in Threads, Decided(o, t)
      PROVE  row'[o].submitted = row[o].submitted /\ row[o].gen <= row'[o].gen
  BY <1>1, <1>5 DEF Decided
<1>6. QED
  BY <1>2, <1>3, <1>4, <1>5, RowCases DEF Rewritten

\* Every step keeps SubmittedFirst.
LEMMA SubmittedFirstNext ==
    ASSUME TypeOK, SubmittedFirst, [Next]_vars
    PROVE  SubmittedFirst'
<1>0. ThreadsOK /\ RowStep /\ TypeOK'
  BY TypeParts, RowSteps, TypeNext
<1>1. \A t \in Threads : pc[t] # "idle" => tgt[t] \in Ops /\ row[tgt[t]].submitted
  BY <1>0, WorkingTarget DEF SubmittedFirst
<1>2. ASSUME NEW o \in Ops
      PROVE  IF row'[o].submitted THEN row'[o].state \in HostOwned
             ELSE /\ row'[o].state \in Unsubmitted \cup {"ABSENT", "CANCELLED"}
                  /\ row'[o].gen = 0
  <2>1. IF row[o].submitted THEN row[o].state \in HostOwned
        ELSE /\ row[o].state \in Unsubmitted \cup {"ABSENT", "CANCELLED"}
             /\ row[o].gen = 0
    BY DEF SubmittedFirst
  <2>2. CASE Aside(o)
    BY <2>1, <2>2 DEF Aside
  <2>3. CASE Dropped(o)
    BY <2>1, <2>3, UnsubmittedStates DEF Dropped
  <2>4. CASE Inserted(o)
    BY <2>4 DEF Inserted, Unsubmitted
  <2>5. CASE Authorized(o)
    BY <2>1, <2>5, UnsubmittedStates DEF Authorized, Claimed, Unsubmitted
  <2>6. CASE Enqueued(o)
    BY <2>6 DEF Enqueued, Claimed, HostOwned
  <2>7. ASSUME NEW t \in Threads, Followed(o, t)
        PROVE  row'[o].submitted /\ row'[o].state \in HostOwned
    <3>1. row[o].submitted
      BY <1>1, <2>7 DEF Followed, Answering
    <3>2. ans[t].state \in HostOwned
      BY <1>0, <2>7, AnswerFields DEF Followed, ThreadsOK
    <3>3. QED
      BY <2>7, <3>1, <3>2 DEF Followed
  <2>8. ASSUME NEW t \in Threads, Decided(o, t)
        PROVE  row'[o].submitted /\ row'[o].state \in HostOwned
    BY <1>1, <2>8 DEF Decided, HostOwned
  <2>9. QED
    BY <1>0, <2>2, <2>3, <2>4, <2>5, <2>6, <2>7, <2>8, RowCases DEF Rewritten
<1>3. ASSUME NEW o \in Ops, ~row'[o].submitted
      PROVE  executions'[o] = 0 /\ journal'[o] = <<>>
  <2>1. ~row[o].submitted
    BY <1>0, <1>3, RowGrows
  <2>2. executions[o] = 0 /\ journal[o] = <<>>
    BY <2>1 DEF SubmittedFirst
  <2>3. ~Started(o)
    BY <2>1 DEF Started, SubmittedFirst
  <2>4. QED
    BY <2>2, <2>3, HostStep DEF HostUnchanged, Moved, Lost
<1>4. ASSUME NEW t \in Threads, pc'[t] # "idle" PROVE row'[tgt'[t]].submitted
  <2>1. CASE Began(t)
    BY <2>1 DEF Began
  <2>2. CASE pc[t] # "idle" /\ tgt'[t] = tgt[t]
    BY <1>0, <1>1, <2>2, RowGrows
  <2>3. QED
    BY <1>4, <2>1, <2>2, ThreadSteps
       DEF ThreadStep, Resting, Finished, TookRow, Called, Calls, TurnedTo
<1>5. ASSUME NEW m \in late' PROVE row'[m[2]].submitted
  <2>1. m[2] \in Ops
    BY <1>0, TypeParts DEF TypeOK
  <2>2. row[m[2]].submitted
    BY <1>1, LateSteps DEF SubmittedFirst
  <2>3. QED
    BY <1>0, <2>1, <2>2, RowGrows
<1>6. QED
  BY <1>2, <1>3, <1>4, <1>5 DEF SubmittedFirst

\* Every step keeps CopiesOld.
LEMMA CopiesOldNext ==
    ASSUME TypeOK, SubmittedFirst, CopiesOld, [Next]_vars
    PROVE  CopiesOld'
<1> SUFFICES ASSUME NEW t \in Threads
             PROVE  /\ pc'[t] # "idle" => seen'[t].gen <= row'[tgt'[t]].gen
                    /\ pc'[t] \notin Answering => ans'[t].kind = "none"
  BY DEF CopiesOld
<1>0. ThreadsOK /\ RowStep /\ ThreadStep(t) /\ TypeOK'
  BY TypeParts, RowSteps, ThreadSteps, TypeNext
<1>1. /\ pc[t] # "idle" => tgt[t] \in Ops /\ seen[t].gen <= row[tgt[t]].gen
      /\ pc[t] \notin Answering => ans[t].kind = "none"
  BY <1>0, WorkingTarget DEF CopiesOld
<1>2. \A o \in Ops : row[o].gen \in Nat /\ row'[o].gen \in Nat /\ row[o].gen <= row'[o].gen
  BY <1>0, RowGrows DEF TypeOK, Row
<1>3. seen[t].gen \in Nat /\ AbsentRow.gen = 0 /\ NoAnswer.kind = "none"
  BY <1>0 DEF ThreadsOK, Row, AbsentRow, NoAnswer, NoJob
<1>4. CASE Resting(t)
  BY <1>1, <1>2, <1>3, <1>4 DEF Resting
<1>5. CASE Finished(t) \/ TurnedTo(t)
  BY <1>1, <1>2, <1>3, <1>5 DEF Finished, TurnedTo
<1>6. CASE Began(t)
  BY <1>1, <1>2, <1>3, <1>6 DEF Began, Answering
<1>7. CASE TookRow(t)
  BY <1>1, <1>2, <1>7 DEF TookRow, Answering
<1>8. CASE Called(t)
  BY <1>1, <1>2, <1>3, <1>8 DEF Called, Calls, Answering
<1>9. QED
  BY <1>0, <1>4, <1>5, <1>6, <1>7, <1>8 DEF ThreadStep

\* Every step keeps PlansExpire.
LEMMA PlansExpireNext ==
    ASSUME TypeOK, SubmittedFirst, PlansExpire, [Next]_vars
    PROVE  PlansExpire'
<1> SUFFICES ASSUME NEW o \in Ops, row'[o].code = "PLAN_EXPIRED"
             PROVE  row'[o].state = "CANCELLED" /\ ~row'[o].submitted
  BY DEF PlansExpire
<1>0. RowStep
  BY RowSteps
<1>1. CASE Aside(o)
  BY <1>1 DEF Aside, PlansExpire
<1>2. CASE Dropped(o)
  BY <1>2, UnsubmittedStates DEF Dropped, SubmittedFirst
<1>3. ~Inserted(o)
  BY DEF Inserted
<1>4. ~Authorized(o) /\ ~Enqueued(o)
  BY UnsubmittedStates DEF Authorized, Enqueued, Claimed, PlansExpire
<1>5. \A t \in Threads : ~Followed(o, t) /\ ~Decided(o, t)
  BY DEF Followed, Decided
<1>6. QED
  BY <1>0, <1>1, <1>2, <1>3, <1>4, <1>5, RowCases DEF Rewritten

\* Every step keeps AuditTrailKept: who changes a state records it, and who
\* does not, because the answer is no news, has it on record.
LEMMA AuditTrailNext ==
    ASSUME TypeOK, SubmittedFirst, CopiesOld, PlansExpire, CopiesOnRecord,
           AuditTrailKept, [Next]_vars
    PROVE  AuditTrailKept'
<1> SUFFICES ASSUME NEW o \in Ops
             PROVE  /\ row'[o].submitted /\ row'[o].gen = 0 =>
                          {"QUEUED", row'[o].state} \subseteq audit'[o]
                    /\ \/ row'[o].state \in AuditFails
                       \/ row'[o].state \in audit'[o] \cup {"ABSENT"}
                       \/ row'[o].code = "PLAN_EXPIRED"
  BY DEF AuditTrailKept
<1>0. RowStep /\ ThreadsOK /\ audit[o] \subseteq audit'[o] /\ row[o].gen \in Nat
  BY RowSteps, TypeParts DEF RowStep, DbOK, Row
<1>1. /\ row[o].submitted /\ row[o].gen = 0 => {"QUEUED", row[o].state} \subseteq audit[o]
      /\ \/ row[o].state \in AuditFails
         \/ row[o].state \in audit[o] \cup {"ABSENT"}
         \/ row[o].code = "PLAN_EXPIRED"
  BY DEF AuditTrailKept
<1>2. CASE Aside(o)
  BY <1>0, <1>1, <1>2 DEF Aside
<1>3. CASE Dropped(o)
  BY <1>3, UnsubmittedStates DEF Dropped, SubmittedFirst, OnRecord
<1>4. CASE Inserted(o)
  BY <1>4 DEF Inserted, OnRecord
<1>5. CASE Authorized(o)
  BY <1>5, UnsubmittedStates DEF Authorized, Claimed, SubmittedFirst
<1>6. CASE Enqueued(o)
  BY <1>6 DEF Enqueued, Claimed
<1>7. ASSUME NEW t \in Threads, Followed(o, t)
      PROVE  row'[o].gen # 0 /\ row'[o].state \in audit'[o] \cup AuditFails
  <2>1. ans[t].gen \in Nat \ {0}
    BY <1>0, <1>7, AnswerFields DEF Followed, ThreadsOK
  <2>2. OnRecord(audit[o], seen[t].state)
    BY <1>7 DEF Followed, Answering, CopiesOnRecord
  <2>3. QED
    BY <1>0, <1>7, <2>1, <2>2 DEF Followed, OnRecord
<1>8. ASSUME NEW t \in Threads, Decided(o, t)
      PROVE  /\ row'[o].gen = 0 => {"QUEUED", row'[o].state} \subseteq audit'[o]
             /\ row'[o].state \in audit'[o] \cup AuditFails
  <2>1. row[o].submitted /\ seen[t].gen <= row[o].gen /\ seen[t].gen \in Nat
    BY <1>0, <1>8 DEF Decided, SubmittedFirst, CopiesOld, ThreadsOK, Row
  <2>2. CASE row'[o].state \in audit'[o]
    BY <1>0, <1>1, <1>8, <2>1, <2>2 DEF Decided
  <2>3. CASE seen[t].gen > 0 /\ OnRecord(audit'[o], row'[o].state)
    BY <1>0, <1>8, <2>1, <2>3 DEF Decided, OnRecord
  <2>4. QED
    BY <1>8, <2>2, <2>3 DEF Decided
<1>9. QED
  BY <1>0, <1>2, <1>3, <1>4, <1>5, <1>6, <1>7, <1>8, RowCases DEF Rewritten

\* Every step keeps CopiesOnRecord.
LEMMA CopiesOnRecordNext ==
    ASSUME TypeOK, SubmittedFirst, PlansExpire, CopiesOnRecord,
           AuditTrailKept, SubmittedFirst', PlansExpire', AuditTrailKept', [Next]_vars
    PROVE  CopiesOnRecord'
<1> SUFFICES ASSUME NEW t \in Threads, pc'[t] \notin {"idle", "deliver", "recancel"}
             PROVE  OnRecord(audit'[tgt'[t]], seen'[t].state)
  BY DEF CopiesOnRecord, OnRecord
<1>0. ThreadsOK /\ RowStep /\ ThreadStep(t) /\ TypeOK'
  BY TypeParts, RowSteps, ThreadSteps, TypeNext
<1>1. ASSUME NEW o \in Ops, row'[o].submitted PROVE OnRecord(audit'[o], row'[o].state)
  BY <1>1, UnsubmittedStates DEF SubmittedFirst, PlansExpire, AuditTrailKept, OnRecord
<1>2. pc[t] # "idle" => tgt[t] \in Ops /\ row[tgt[t]].submitted
  BY <1>0, WorkingTarget DEF SubmittedFirst
<1>3. CASE \/ Resting(t)
           \/ Called(t)
  <2>1. tgt'[t] = tgt[t] /\ seen'[t] = seen[t] /\ tgt[t] \in Ops
        /\ pc[t] \notin {"idle", "deliver", "recancel"}
    BY <1>2, <1>3 DEF Resting, Called, Calls
  <2>2. OnRecord(audit[tgt[t]], seen[t].state)
    BY <2>1 DEF CopiesOnRecord
  <2>3. audit[tgt[t]] \subseteq audit'[tgt[t]]
    BY <1>0, <2>1 DEF RowStep
  <2>4. QED
    BY <2>1, <2>2, <2>3 DEF OnRecord
<1>4. CASE Began(t)
  BY <1>1, <1>4 DEF Began
<1>5. CASE TookRow(t)
  <2>1. row'[tgt[t]].submitted
    BY <1>0, <1>2, <1>5, RowGrows DEF TookRow
  <2>2. QED
    BY <1>1, <1>2, <1>5, <2>1 DEF TookRow
<1>6. QED
  BY <1>0, <1>3, <1>4, <1>5 DEF ThreadStep, Finished, TurnedTo

\* The trail of every operation is complete, up to the records that may be
\* lost, whatever the journal loses, however late a request is processed and
\* however stale the copy is with which a thread decides what is news.
THEOREM AuditTrail == Spec => []AuditTrailKept
<1> DEFINE Inv == /\ SubmittedFirst /\ CopiesOld /\ PlansExpire
                  /\ CopiesOnRecord /\ AuditTrailKept
<1>1. Init => Inv
  BY InvInit
<1>2. TypeOK /\ Inv /\ [Next]_vars => Inv'
  BY SubmittedFirstNext, CopiesOldNext, PlansExpireNext, AuditTrailNext, CopiesOnRecordNext
<1>3. QED
  BY <1>1, <1>2, TypeCorrect, PTL DEF Spec

-----------------------------------------------------------------------------
(* Every execution of a destructive operation has its challenge            *)

\* Challenge c was used for a submission.
Spent(c) == chal[c].status = "consumed"

\* A challenge was consumed for a submitted operation, whose audit trail says
\* so; a destructive operation that was submitted has one, and no other.
SpentOnce ==
    /\ \A c \in Challenges :
          Spent(c) => /\ chal[c].op \in Ops
                      /\ row[chal[c].op].submitted
                      /\ "QUEUED" \in audit[chal[c].op]
    /\ \A o \in Destructive :
          row[o].submitted => \E c \in Challenges : Spent(c) /\ chal[c].op = o
    /\ \A c, d \in Challenges : Spent(c) /\ Spent(d) /\ chal[c].op = chal[d].op => c = d

\* Only a submission consumes a challenge, and none comes back.
SpentSame ==
    \A c \in Challenges : /\ Spent(c)' <=> Spent(c)
                          /\ Spent(c) => chal'[c].op = chal[c].op

\* A step that changes what is spent is a submission, spending one challenge.
LEMMA ChallengeSteps ==
    ASSUME TypeOK, [Next]_vars
    PROVE  \/ SpentSame
           \/ \E o \in Destructive, t \in Callers, s \in Sessions, c \in Challenges :
                  Submit(t, o, s, c)
<1>0. chal \in [Challenges -> Challenge]
  BY TypeParts DEF DbOK
<1>1. ASSUME UNCHANGED chal PROVE SpentSame
  BY <1>1 DEF SpentSame, Spent
<1>2. ASSUME NEW o \in Ops, NEW s \in Sessions, NEW c \in Challenges, Authorize(o, s, c)
      PROVE  SpentSame
  <2> SUFFICES ASSUME NEW d \in Challenges
               PROVE  /\ chal'[d].status = "consumed" <=> chal[d].status = "consumed"
                      /\ chal[d].status = "consumed" => chal'[d].op = chal[d].op
    BY DEF SpentSame, Spent
  <2>1. CASE d = c
    BY <1>0, <1>2, <2>1 DEF Authorize
  <2>2. CASE d # c
    BY <1>0, <1>2, <2>2 DEF Authorize, Challenge
  <2>3. QED
    BY <2>1, <2>2
<1>3. ASSUME NEW o \in Ops, PlanExpires(o) PROVE SpentSame
  BY <1>0, <1>3 DEF PlanExpires, SpentSame, Spent, Challenge
<1>4. ASSUME NEW c \in Challenges, ChallengeExpires(c) PROVE SpentSame
  BY <1>0, <1>4 DEF ChallengeExpires, SpentSame, Spent, Challenge
<1>5. ASSUME NEW o \in Ops, NEW t \in Callers, NEW s \in Sessions,
             NEW c \in Challenges, Submit(t, o, s, c), o \notin Destructive
      PROVE  SpentSame
  <2>1. UNCHANGED chal
    BY <1>5, Zenon DEF Submit
  <2>2. QED
    BY <1>1, <2>1
<1>6. QED
  BY <1>1, <1>2, <1>3, <1>4, <1>5
     DEF Next, vars, dbVars, GetOperation, PlanOperation, CancelPlanned,
         ReconcileActive, Reconcile, Cancel, LockForDelivery, CallSubmit,
         RecordSubmit, CallJob, RecordJob, CallCancel, RecordCancel, LockForCancel,
         RecordUndelivered, Abort, Advance, Forget, LateArrival

\* Every step keeps SpentOnce.
LEMMA SpentOnceNext ==
    ASSUME TypeOK, SubmittedFirst, SpentOnce, [Next]_vars
    PROVE  SpentOnce'
<1>0. /\ RowStep /\ Destructive \subseteq Ops
      /\ chal \in [Challenges -> Challenge]
      /\ \A o \in Ops : audit[o] \subseteq audit'[o]
      /\ \A o \in Ops : row[o].submitted => row'[o].submitted
  BY RowSteps, RowGrows, TypeParts, ConstantsAssumption DEF RowStep, DbOK
<1>1. ASSUME SpentSame, \A o \in Destructive : row'[o].submitted => row[o].submitted
      PROVE  SpentOnce'
  BY <1>0, <1>1 DEF SpentOnce, SpentSame, Spent
<1>2. ASSUME NEW o \in Destructive, NEW t \in Callers, NEW s \in Sessions,
             NEW c \in Challenges, Submit(t, o, s, c)
      PROVE  SpentOnce'
  <2>1. /\ chal[c].op = o /\ chal[c].status = "live"
        /\ chal' = [chal EXCEPT ![c].status = "consumed"]
    BY <1>2 DEF Submit, ChallengeAccepted
  <2>2. /\ Spent(c)' /\ chal'[c].op = o /\ ~Spent(c)
        /\ \A d \in Challenges \ {c} : chal'[d] = chal[d]
    BY <1>0, <2>1 DEF Spent, Challenge
  <2>3. ~row[o].submitted
    <3>1. expirePlans[o].state \in Unsubmitted
      BY <1>2 DEF Submit, Unsubmitted
    <3>2. row[o].state \in Unsubmitted
      BY <1>0, <3>1, ExpireFields, UnsubmittedStates
    <3>3. QED
      BY <1>0, <3>2, UnsubmittedStates DEF SubmittedFirst
  <2>4. row'[o].submitted /\ "QUEUED" \in audit'[o]
    <3>1. row'[o].submitted
      BY <1>0, <1>2, TypeParts, ExpirePlansType DEF Submit, DbOK, Row
    <3>2. "QUEUED" \in audit'[o]
      BY <1>0, <1>2, Records DEF Submit
    <3>3. QED
      BY <3>1, <3>2
  <2>5. \A q \in Ops \ {o} : row'[q].submitted => row[q].submitted
    <3>1. \A q \in Ops \ {o} : row'[q] = expirePlans[q]
      BY <1>0, <1>2, TypeParts, ExpirePlansType DEF Submit, DbOK
    <3>2. QED
      BY <3>1, ExpireFields
  <2>6. \A d \in Challenges : Spent(d)' <=> d = c \/ Spent(d)
    BY <2>2 DEF Spent
  <2>7. \A d \in Challenges : Spent(d) => d # c /\ chal'[d].op = chal[d].op /\ chal[d].op # o
    BY <2>2, <2>3 DEF SpentOnce
  <2>8. \A d \in Challenges :
          Spent(d)' => /\ chal'[d].op \in Ops
                       /\ row'[chal'[d].op].submitted
                       /\ "QUEUED" \in audit'[chal'[d].op]
    BY <1>0, <2>2, <2>4, <2>6, <2>7 DEF SpentOnce
  <2>9. \A q \in Destructive :
          row'[q].submitted => \E d \in Challenges : Spent(d)' /\ chal'[d].op = q
    BY <1>0, <2>2, <2>5, <2>6, <2>7 DEF SpentOnce
  <2>10. \A d, e \in Challenges :
           Spent(d)' /\ Spent(e)' /\ chal'[d].op = chal'[e].op => d = e
    BY <2>2, <2>6, <2>7 DEF SpentOnce
  <2>11. QED
    BY <2>8, <2>9, <2>10 DEF SpentOnce
<1>3. ASSUME \A o \in Destructive, t \in Callers, s \in Sessions, c \in Challenges :
                ~Submit(t, o, s, c)
      PROVE  \A o \in Destructive : row'[o].submitted => row[o].submitted
  <2> SUFFICES ASSUME NEW o \in Destructive, row'[o].submitted PROVE row[o].submitted
    OBVIOUS
  <2>1. ~Enqueued(o)
    BY <1>3 DEF Enqueued
  <2>2. QED
    BY <1>0, <2>1, RowCases
       DEF Rewritten, Aside, Dropped, Inserted, Authorized, Followed, Decided
<1>4. QED
  BY <1>1, <1>2, <1>3, ChallengeSteps

\* A destructive operation is started only with exactly one challenge consumed
\* for it, and no challenge is consumed without a submission on record to show
\* for it: whatever requests, threads and losses come in between.
THEOREM ChallengeForExecution == Spec => []ChallengeSpentOnExecution
<1> DEFINE Inv == SubmittedFirst /\ SpentOnce
<1>1. Init => Inv
  <2>1. Init => SpentOnce
    <3>1. Init => \A c \in Challenges : chal[c].status = "unissued"
      BY DEF Init, Unissued
    <3>2. Init => \A c \in Challenges : ~Spent(c)
      BY <3>1 DEF Spent
    <3>3. Init => \A o \in Destructive : ~row[o].submitted
      BY InitRows, ConstantsAssumption
    <3>4. QED
      BY <3>2, <3>3 DEF SpentOnce
  <2>2. QED
    BY <2>1, InvInit
<1>2. TypeOK /\ Inv /\ [Next]_vars => Inv'
  BY SubmittedFirstNext, SpentOnceNext
<1>3. TypeOK /\ Inv => ChallengeSpentOnExecution
  <2> SUFFICES ASSUME TypeOK, SubmittedFirst, SpentOnce PROVE ChallengeSpentOnExecution
    OBVIOUS
  <2>1. ASSUME NEW o \in Destructive, executions[o] > 0
        PROVE  Cardinality({c \in Challenges : chal[c].op = o /\ chal[c].status = "consumed"}) = 1
    <3>1. o \in Ops /\ executions[o] \in Nat
      BY ConstantsAssumption DEF TypeOK
    <3>2. row[o].submitted
      BY <2>1, <3>1 DEF SubmittedFirst
    <3>3. PICK c \in Challenges : Spent(c) /\ chal[c].op = o
      BY <3>2 DEF SpentOnce
    <3>4. {d \in Challenges : chal[d].op = o /\ chal[d].status = "consumed"} = {c}
      BY <3>3 DEF SpentOnce, Spent
    <3>5. QED
      BY <3>4, FS_Singleton
  <2>2. QED
    BY <2>1 DEF ChallengeSpentOnExecution, SpentOnce, Spent
<1>4. QED
  BY <1>1, <1>2, <1>3, TypeCorrect, PTL DEF Spec

-----------------------------------------------------------------------------
(* Invariants for a journal that loses nothing                             *)

\* A job that has ended has no further entries.
EndsOnce ==
    \A o \in Ops : \A i \in 1 .. Len(journal[o]) - 1 : journal[o][i].state \notin Terminal

\* An answer is an entry of the journal, though maybe not the last any more.
AnswersTrue ==
    \A t \in Threads : ans[t].kind = "job" =>
        /\ ans[t].gen <= Len(journal[tgt[t]])
        /\ ans[t].state = journal[tgt[t]][ans[t].gen].state

\* The host has the job of every operation it has reported on.
UnknownUnreported ==
    \A t \in Threads :
        pc[t] \in {"read", "cancelled"} /\ ans[t].kind = "notfound" => seen[t].gen = 0

\* One operation at most holds the installation in OAM's table.
OneActive ==
    \A o, q \in Ops : row[o].state \in Active /\ row[q].state \in Active => o = q

\* No submission is on its way that OAM gave up on.
NoneLate == \A o \in Ops : <<"submit", o>> \notin late

\* A thread about to end an operation for want of a job is right about it:
\* it holds the row, so that nobody can have delivered it since.
DecidedRight ==
    \A t \in Threads :
        \/ pc[t] = "submitted" /\ ans[t].kind = "rejected"
        \/ pc[t] = "recancelled" /\ ans[t].kind = "notfound"
        => journal[tgt[t]] = <<>>

\* A script goes on only from a state that holds the installation, and only
\* there can a job be cancelled.
LEMMA ScriptStates ==
    /\ \A e \in Entries : Following(e) # {} => e.state \in Active
    /\ \A o \in Ops : HostCancellable(o) => Current(o).state \in Active
<1>1. /\ Queued.state \in Active /\ Prepare.state \in Active /\ Point.state \in Active
      /\ Undo.state \in Active /\ Verify.state \in Active
  BY DEF Queued, Prepare, Point, Undo, Verify, Entry, Active
<1>2. \A e, d : <<e, d>> \in ScriptEdges => e \in {Queued, Prepare, Point, Undo, Verify}
  BY DEF ScriptEdges
<1>3. QED
  BY <1>1, <1>2 DEF Following, HostCancellable

\* The host's states are active or terminal, never both.
LEMMA ActiveTerminal ==
    /\ Active \cap Terminal = {}
    /\ Unsubmitted \cap Terminal = {}
    /\ HostOwned \subseteq Active \cup Terminal
BY DEF Active, Terminal, Unsubmitted, HostOwned

\* What the journal says at a position it has reached does not change.
LEMMA JournalKept ==
    ASSUME MaxLosses = 0, TypeOK, JournalCounts, [Next]_vars, NEW o \in Ops
    PROVE  /\ Len(journal[o]) \in Nat /\ Len(journal'[o]) \in Nat
           /\ Len(journal[o]) <= Len(journal'[o])
           /\ \A i \in 1 .. Len(journal[o]) : journal'[o][i] = journal[o][i]
<1>0. HostOK /\ journal[o] \in Seq(Entries)
  BY TypeParts DEF HostOK
<1>1. CASE HostUnchanged(o)
  BY <1>0, <1>1 DEF HostUnchanged
<1>2. CASE Started(o)
  BY <1>0, <1>2, OneEntry DEF Started
<1>3. CASE Moved(o)
  BY <1>0, <1>3, JournalGrows DEF Moved
<1>4. ~Lost(o)
  BY DEF Lost, JournalCounts
<1>5. QED
  BY <1>1, <1>2, <1>3, <1>4, HostStep

\* Every step keeps EndsOnce.
LEMMA EndsOnceNext ==
    ASSUME MaxLosses = 0, TypeOK, JournalCounts, EndsOnce, [Next]_vars
    PROVE  EndsOnce'
<1> SUFFICES ASSUME NEW o \in Ops, NEW i \in 1 .. Len(journal'[o]) - 1
             PROVE  journal'[o][i].state \notin Terminal
  BY DEF EndsOnce
<1>0. HostOK /\ journal[o] \in Seq(Entries)
  BY TypeParts DEF HostOK
<1>1. \A k \in 1 .. Len(journal[o]) - 1 : journal[o][k].state \notin Terminal
  BY DEF EndsOnce
<1>2. CASE HostUnchanged(o)
  BY <1>1, <1>2 DEF HostUnchanged
<1>3. CASE Started(o)
  BY <1>3, OneEntry DEF Started
<1>4. CASE Moved(o)
  <2>1. PICK e \in Entries : /\ e \in Following(Current(o)) \/ (e = Stopped /\ HostCancellable(o))
                             /\ journal'[o] = Append(journal[o], e)
    BY <1>4 DEF Moved
  <2>2. journal[o] # <<>> /\ Current(o) \in Entries
    BY <1>0, <1>4 DEF Moved, Current
  <2>3. Current(o).state \notin Terminal
    BY <2>1, <2>2, ScriptStates, ActiveTerminal
  <2>4. /\ Len(journal'[o]) = Len(journal[o]) + 1
        /\ \A k \in 1 .. Len(journal[o]) : journal'[o][k] = journal[o][k]
    BY <1>0, <2>1, JournalGrows
  <2>5. CASE i = Len(journal[o])
    BY <1>0, <2>2, <2>3, <2>4, <2>5 DEF Current
  <2>6. CASE i # Len(journal[o])
    BY <1>0, <1>1, <2>4, <2>6
  <2>7. QED
    BY <2>5, <2>6
<1>5. ~Lost(o)
  BY DEF Lost, JournalCounts
<1>6. QED
  BY <1>2, <1>3, <1>4, <1>5, HostStep

\* What each answer of the host says.
LEMMA AnswerKinds ==
    /\ NoAnswer.kind = "none" /\ Unreachable.kind = "unreachable"
    /\ NotFound.kind = "notfound" /\ Rejected.kind = "rejected"
    /\ \A j : /\ JobAnswer(j).kind = "job" /\ JobAnswer(j).gen = Len(j)
              /\ JobAnswer(j).state = j[Len(j)].state
BY DEF NoAnswer, Unreachable, NotFound, Rejected, NoJob, JobAnswer

\* Every step keeps AnswersTrue: an answer is of the journal as it was when
\* the host gave it, and the journal only grows.
LEMMA AnswersTrueNext ==
    ASSUME MaxLosses = 0, TypeOK, JournalCounts, CopiesOld, AnswersTrue, [Next]_vars
    PROVE  AnswersTrue'
<1> SUFFICES ASSUME NEW t \in Threads, ans'[t].kind = "job"
             PROVE  /\ ans'[t].gen <= Len(journal'[tgt'[t]])
                    /\ ans'[t].state = journal'[tgt'[t]][ans'[t].gen].state
  BY DEF AnswersTrue
<1>0. ThreadsOK /\ HostOK /\ ThreadStep(t) /\ TypeOK'
  BY TypeParts, ThreadSteps, TypeNext
<1>1. CASE Resting(t)
  <2>1. /\ ans[t].kind = "job" /\ pc[t] \in Answering
        /\ ans'[t] = ans[t] /\ tgt'[t] = tgt[t]
    BY <1>1 DEF Resting, CopiesOld
  <2>2. tgt[t] \in Ops /\ ans[t].gen \in Nat \ {0}
    BY <1>0, <2>1, WorkingTarget, AnswerFields DEF Answering, ThreadsOK
  <2>3. /\ ans[t].gen <= Len(journal[tgt[t]])
        /\ ans[t].state = journal[tgt[t]][ans[t].gen].state
    BY <2>1 DEF AnswersTrue
  <2>4. /\ Len(journal[tgt[t]]) \in Nat /\ Len(journal'[tgt[t]]) \in Nat
        /\ Len(journal[tgt[t]]) <= Len(journal'[tgt[t]])
        /\ \A i \in 1 .. Len(journal[tgt[t]]) : journal'[tgt[t]][i] = journal[tgt[t]][i]
    BY <2>2, JournalKept
  <2>5. QED
    BY <2>1, <2>2, <2>3, <2>4
<1>2. CASE Called(t)
  <2>1. tgt[t] \in Ops /\ tgt'[t] = tgt[t]
    BY <1>0, <1>2, WorkingTarget DEF Called, Calls
  <2>2. ans'[t] = JobAnswer(journal'[tgt[t]])
    BY <1>2, AnswerKinds DEF Called
  <2>3. Len(journal'[tgt[t]]) \in Nat
    BY <2>1, JournalKept
  <2>4. /\ ans'[t].gen = Len(journal'[tgt[t]])
        /\ ans'[t].state = journal'[tgt[t]][Len(journal'[tgt[t]])].state
    BY <2>2, AnswerKinds, Zenon
  <2>5. QED
    BY <2>1, <2>3, <2>4
<1>3. ~Began(t) /\ ~TookRow(t)
  BY DEF Began, TookRow, CopiesOld, Answering
<1>4. ~Finished(t) /\ ~TurnedTo(t)
  BY AnswerKinds DEF Finished, TurnedTo
<1>5. QED
  BY <1>0, <1>1, <1>2, <1>3, <1>4 DEF ThreadStep

\* Every step keeps UnknownUnreported.
LEMMA UnknownUnreportedNext ==
    ASSUME MaxLosses = 0, TypeOK, JournalCounts, CopiesOld, RowFollowsJournal,
           UnknownUnreported, [Next]_vars
    PROVE  UnknownUnreported'
<1> SUFFICES ASSUME NEW t \in Threads, pc'[t] \in {"read", "cancelled"},
                    ans'[t].kind = "notfound"
             PROVE  seen'[t].gen = 0
  BY DEF UnknownUnreported
<1>0. ThreadsOK /\ HostOK /\ DbOK /\ ThreadStep(t)
  BY TypeParts, ThreadSteps
<1>1. CASE Resting(t)
  BY <1>1 DEF Resting, UnknownUnreported
<1>2. CASE Called(t)
  <2>1. /\ tgt[t] \in Ops /\ seen'[t] = seen[t] /\ journal'[tgt[t]] = <<>>
        /\ seen[t].gen <= row[tgt[t]].gen
    BY <1>0, <1>2, WorkingTarget, AnswerKinds DEF Called, Calls, CopiesOld
  <2>2. /\ Len(journal[tgt[t]]) \in Nat
        /\ Len(journal[tgt[t]]) <= Len(journal'[tgt[t]])
    BY <2>1, JournalKept
  <2>3. Len(journal[tgt[t]]) = 0
    BY <2>1, <2>2
  <2>4. row[tgt[t]].gen \in Nat /\ seen[t].gen \in Nat
    BY <1>0, <2>1 DEF DbOK, ThreadsOK, Row
  <2>5. row[tgt[t]].gen = 0
    BY <2>1, <2>3, <2>4 DEF RowFollowsJournal
  <2>6. QED
    BY <2>1, <2>4, <2>5
<1>3. ~Finished(t) /\ ~TurnedTo(t) /\ ~Began(t) /\ ~TookRow(t)
  BY DEF Finished, TurnedTo, Began, TookRow
<1>4. QED
  BY <1>0, <1>1, <1>2, <1>3 DEF ThreadStep

\* Every step keeps RowFollowsJournal.
LEMMA RowFollowsNext ==
    ASSUME MaxLosses = 0, TypeOK, JournalCounts, SubmittedFirst, CopiesOld, LockHeld,
           AnswersTrue, UnknownUnreported, RowFollowsJournal, [Next]_vars
    PROVE  RowFollowsJournal'
<1> SUFFICES ASSUME NEW o \in Ops, row'[o].gen > 0
             PROVE  /\ row'[o].gen <= Len(journal'[o])
                    /\ row'[o].state = journal'[o][row'[o].gen].state
  BY DEF RowFollowsJournal
<1>0. ThreadsOK /\ RowStep /\ row[o].gen \in Nat
  BY TypeParts, RowSteps DEF DbOK, Row
<1>j. /\ Len(journal[o]) \in Nat /\ Len(journal'[o]) \in Nat
      /\ Len(journal[o]) <= Len(journal'[o])
      /\ \A i \in 1 .. Len(journal[o]) : journal'[o][i] = journal[o][i]
  BY JournalKept
<1>1. CASE Aside(o)
  <2>1. row[o].gen > 0 /\ row'[o].gen = row[o].gen /\ row'[o].state = row[o].state
    BY <1>1 DEF Aside
  <2>2. row[o].gen <= Len(journal[o]) /\ row[o].state = journal[o][row[o].gen].state
    BY <2>1 DEF RowFollowsJournal
  <2>3. QED
    BY <1>0, <1>j, <2>1, <2>2
<1>2. row[o].state \in Unsubmitted => row[o].gen = 0
  BY UnsubmittedStates DEF SubmittedFirst
<1>3. ~Dropped(o) /\ ~Inserted(o) /\ ~Authorized(o) /\ ~Enqueued(o)
  <2>1. row'[o].gen # 0
    OBVIOUS
  <2>2. QED
    BY <1>2, <2>1, Zenon DEF Dropped, Inserted, Authorized, Enqueued, Claimed
<1>4. ASSUME NEW t \in Threads, Followed(o, t)
      PROVE  /\ row'[o].gen <= Len(journal'[o])
             /\ row'[o].state = journal'[o][row'[o].gen].state
  <2>1. ans[t].gen \in Nat \ {0}
    BY <1>0, <1>4, AnswerFields DEF Followed, ThreadsOK
  <2>2. ans[t].gen <= Len(journal[o]) /\ ans[t].state = journal[o][ans[t].gen].state
    BY <1>4 DEF Followed, AnswersTrue
  <2>3. row'[o].gen = ans[t].gen /\ row'[o].state = ans[t].state
    BY <1>4 DEF Followed
  <2>4. QED
    BY <1>j, <2>1, <2>2, <2>3
<1>5. ASSUME NEW t \in Threads, Decided(o, t) PROVE FALSE
  <2>1. pc[t] \in Locking => row[o].gen = 0
    BY <1>5 DEF Decided, LockHeld, Undelivered
  <2>2. row[o].gen > 0
    BY <1>5 DEF Decided
  <2>3. pc[t] = "read" /\ ans[t].kind = "notfound" /\ seen[t].gen > 0
    BY <1>5, <2>1, <2>2 DEF Decided, Locking
  <2>4. QED
    BY <2>3 DEF UnknownUnreported
<1>6. QED
  BY <1>0, <1>1, <1>3, <1>4, <1>5, RowCases DEF Rewritten

\* The invariant behind the theorems about a journal that keeps its jobs.
KeptInv ==
    /\ SubmittedFirst /\ CopiesOld /\ LockHeld /\ JournalCounts /\ EndsOnce
    /\ AnswersTrue /\ UnknownUnreported /\ RowFollowsJournal

\* KeptInv holds at first.
LEMMA KeptInit == Init => KeptInv
<1> SUFFICES ASSUME Init PROVE KeptInv
  OBVIOUS
<1>1. \A o \in Ops : row[o].gen = 0 /\ journal[o] = <<>> /\ executions[o] = 0
  BY InitRows
<1>2. \A t \in Threads : pc[t] = "idle" /\ ans[t].kind = "none"
  BY DEF Init, NoAnswer, NoJob
<1>3. LockHeld /\ AnswersTrue /\ UnknownUnreported
  BY <1>2 DEF LockHeld, AnswersTrue, UnknownUnreported, Locking
<1>4. JournalCounts /\ EndsOnce /\ RowFollowsJournal
  BY <1>1 DEF JournalCounts, EndsOnce, RowFollowsJournal
<1>5. QED
  BY <1>3, <1>4, InvInit DEF KeptInv

\* Every step keeps KeptInv while the journal loses nothing.
LEMMA KeptNext ==
    ASSUME MaxLosses = 0, TypeOK, KeptInv, [Next]_vars
    PROVE  KeptInv'
<1>1. SubmittedFirst' /\ CopiesOld' /\ LockHeld' /\ JournalCounts'
  BY SubmittedFirstNext, CopiesOldNext, LockHeldNext, JournalCountsNext DEF KeptInv
<1>2. EndsOnce' /\ AnswersTrue' /\ UnknownUnreported' /\ RowFollowsJournal'
  BY EndsOnceNext, AnswersTrueNext, UnknownUnreportedNext, RowFollowsNext DEF KeptInv
<1>3. QED
  BY <1>1, <1>2 DEF KeptInv

\* The row of an operation shows what the journal said at the generation it
\* reflects, in whichever order the threads record the answers they heard,
\* even if the host processes requests after OAM gave up on them.
THEOREM RowsFollowJournal ==
    ASSUME MaxLosses = 0
    PROVE  Spec => []RowFollowsJournal
<1>1. TypeOK /\ KeptInv /\ [Next]_vars => KeptInv'
  BY KeptNext
<1>2. KeptInv => RowFollowsJournal
  BY DEF KeptInv
<1>3. QED
  BY <1>1, <1>2, KeptInit, TypeCorrect, PTL DEF Spec

\* A row that becomes active finds no other active.
LEMMA OneActiveNext ==
    ASSUME TypeOK, KeptInv, OneActive, [Next]_vars
    PROVE  OneActive'
<1>0. RowStep /\ ThreadsOK
  BY RowSteps, TypeParts
<1>a. \A o \in Ops : Aside(o) => (row'[o].state \in Active <=> row[o].state \in Active)
  BY DEF Aside
<1>s. \A o \in Ops : Spared(o) /\ row'[o].state \in Active => row[o].state \in Active
  BY <1>a, ActiveTerminal DEF Spared, Dropped, Active
<1>1. CASE \A o \in Ops : Spared(o)
  BY <1>s, <1>1 DEF OneActive
<1>2. ASSUME NEW o \in Ops, Rewritten(o), \A q \in Ops \ {o} : Spared(q)
      PROVE  OneActive'
  <2>1. ASSUME row'[o].state \in Active => row[o].state \in Active
        PROVE  OneActive'
    BY <1>s, <1>2, <2>1 DEF OneActive
  <2>2. ASSUME \A q \in Ops \ {o} : row'[q].state \notin Active PROVE OneActive'
    BY <2>2 DEF OneActive
  <2>3. CASE Inserted(o)
    BY <2>1, <2>3 DEF Inserted, Active
  <2>4. CASE Authorized(o) \/ Enqueued(o)
    BY <2>2, <2>4 DEF Authorized, Enqueued, Claimed
  <2>5. ASSUME NEW t \in Threads, Followed(o, t) PROVE OneActive'
    BY <1>s, <1>2, <2>1, <2>2, <2>5 DEF Followed
  <2>6. ASSUME NEW t \in Threads, Decided(o, t) PROVE OneActive'
    BY <2>1, <2>6 DEF Decided, Active, KeptInv, UnknownUnreported
  <2>7. QED
    BY <1>2, <2>3, <2>4, <2>5, <2>6 DEF Rewritten
<1>3. QED
  BY <1>0, <1>1, <1>2 DEF RowStep, Spared

\* Whoever starts a job holds the row of its operation, which is undelivered.
LEMMA StartedHeld ==
    ASSUME LockHeld, NoneLate, NEW o \in Ops, Started(o)
    PROVE  /\ row[o].state = "QUEUED" /\ row[o].gen = 0
           /\ \A t \in Threads : pc[t] \in Locking /\ tgt[t] = o => pc[t] = "submitting"
BY DEF Started, LockHeld, NoneLate, Undelivered, Locking

\* Every step keeps NoneLate when submissions do not come late.
LEMMA NoneLateNext ==
    ASSUME "submit" \notin LateKinds, TypeOK, NoneLate, [Next]_vars
    PROVE  NoneLate'
BY LateSteps DEF NoneLate

\* Every step keeps DecidedRight.
LEMMA DecidedRightNext ==
    ASSUME TypeOK, LockHeld, NoneLate, DecidedRight, [Next]_vars
    PROVE  DecidedRight'
<1> SUFFICES ASSUME NEW t \in Threads,
                    \/ pc'[t] = "submitted" /\ ans'[t].kind = "rejected"
                    \/ pc'[t] = "recancelled" /\ ans'[t].kind = "notfound"
             PROVE  journal'[tgt'[t]] = <<>>
  BY DEF DecidedRight
<1>0. ThreadsOK /\ ThreadStep(t)
  BY TypeParts, ThreadSteps
<1>1. CASE Resting(t)
  <2>1. /\ pc[t] \in Locking /\ pc[t] # "submitting" /\ tgt[t] \in Ops /\ tgt'[t] = tgt[t]
        /\ journal[tgt[t]] = <<>>
    BY <1>0, <1>1, WorkingTarget DEF Resting, Locking, DecidedRight
  <2>2. ~Started(tgt[t])
    BY <2>1, StartedHeld
  <2>3. QED
    BY <2>1, <2>2, HostStep DEF HostUnchanged, Moved, Lost
<1>2. CASE Called(t)
  BY <1>2, AnswerKinds DEF Called, Calls
<1>3. ~Finished(t) /\ ~TurnedTo(t) /\ ~Began(t) /\ ~TookRow(t)
  BY DEF Finished, TurnedTo, Began, TookRow
<1>4. QED
  BY <1>0, <1>1, <1>2, <1>3 DEF ThreadStep

\* Every step keeps EndedByOAMNeverRan.
LEMMA EndedNext ==
    ASSUME MaxLosses = 0, TypeOK, KeptInv, NoneLate, DecidedRight, EndedByOAMNeverRan, [Next]_vars
    PROVE  EndedByOAMNeverRan'
<1> SUFFICES ASSUME NEW o \in Ops, row'[o].state \in Terminal, row'[o].gen = 0
             PROVE  executions'[o] = 0
  BY DEF EndedByOAMNeverRan
<1>0. RowStep /\ ThreadsOK /\ LockHeld /\ SubmittedFirst /\ JournalCounts
  BY RowSteps, TypeParts DEF KeptInv
<1>1. CASE Aside(o)
  <2>1. row[o].state \in Terminal /\ executions[o] = 0
    BY <1>1 DEF Aside, EndedByOAMNeverRan
  <2>2. ~Started(o)
    BY <1>0, <2>1, StartedHeld DEF Terminal
  <2>3. QED
    BY <2>1, <2>2, HostStep DEF HostUnchanged, Moved, Lost
<1>2. CASE UNCHANGED <<journal, executions>> /\ Dropped(o)
  BY <1>0, <1>2, UnsubmittedStates DEF Dropped, SubmittedFirst
<1>3. CASE UNCHANGED <<journal, executions>> /\ Rewritten(o)
  <2>1. ~Inserted(o) /\ ~Authorized(o) /\ ~Enqueued(o)
    BY DEF Inserted, Authorized, Enqueued, Claimed, Terminal
  <2>2. ASSUME NEW t \in Threads, Followed(o, t) PROVE FALSE
    BY <1>0, <2>2, AnswerFields DEF Followed, ThreadsOK
  <2>3. ASSUME NEW t \in Threads, Decided(o, t) PROVE executions[o] = 0
    <3>1. journal[o] = <<>>
      BY <2>3 DEF Decided, DecidedRight, Terminal
    <3>2. QED
      BY <1>0, <3>1 DEF JournalCounts
  <2>4. QED
    BY <1>3, <2>1, <2>2, <2>3 DEF Rewritten
<1>4. QED
  BY <1>0, <1>1, <1>2, <1>3, RowCases

\* What holds besides when no submission is processed after OAM gave up on it.
OwnInv ==
    KeptInv /\ OneActive /\ NoneLate /\ DecidedRight /\ EndedByOAMNeverRan

\* OwnInv holds at first.
LEMMA OwnInit == Init => OwnInv
<1> SUFFICES ASSUME Init PROVE OwnInv
  OBVIOUS
<1>1. KeptInv /\ late = {} /\ \A t \in Threads : pc[t] = "idle"
  BY KeptInit DEF Init
<1>2. \A o \in Ops : row[o].state = "ABSENT"
  BY InitRows
<1>3. OneActive /\ EndedByOAMNeverRan
  BY <1>2 DEF OneActive, EndedByOAMNeverRan, Active, Terminal
<1>4. QED
  BY <1>1, <1>3 DEF OwnInv, NoneLate, DecidedRight

\* Every step keeps OwnInv.
LEMMA OwnNext ==
    ASSUME MaxLosses = 0, "submit" \notin LateKinds, TypeOK, OwnInv, [Next]_vars
    PROVE  OwnInv'
<1>1. KeptInv' /\ OneActive'
  BY KeptNext, OneActiveNext DEF OwnInv
<1>2. NoneLate' /\ DecidedRight' /\ EndedByOAMNeverRan'
  BY NoneLateNext, DecidedRightNext, EndedNext DEF OwnInv, KeptInv
<1>3. QED
  BY <1>1, <1>2 DEF OwnInv

\* OwnInv is an invariant.
LEMMA OwnInvariant ==
    ASSUME MaxLosses = 0, "submit" \notin LateKinds
    PROVE  Spec => []OwnInv
<1>1. TypeOK /\ OwnInv /\ [Next]_vars => OwnInv'
  BY OwnNext
<1>2. QED
  BY <1>1, OwnInit, TypeCorrect, PTL DEF Spec

\* An operation that OAM ended on its own word was never started by the host:
\* while OAM decides, nobody else can deliver it.
THEOREM EndedNeverRan ==
    ASSUME MaxLosses = 0, "submit" \notin LateKinds
    PROVE  Spec => []EndedByOAMNeverRan
<1>1. OwnInv => EndedByOAMNeverRan
  BY DEF OwnInv
<1>2. QED
  BY <1>1, OwnInvariant, PTL

\* Nothing that happens to a row in a terminal state changes the state.
LEMMA TerminalKept ==
    ASSUME MaxLosses = 0, TypeOK, OwnInv, [Next]_vars, NEW o \in Ops, row[o].state \in Terminal
    PROVE  Aside(o)
<1>0. /\ RowStep /\ ThreadsOK /\ KeptInv
      /\ row[o].gen \in Nat
      /\ journal[o] \in Seq(Entries)
  BY RowSteps, TypeParts DEF OwnInv, DbOK, HostOK, Row
<1>1. ~Dropped(o) /\ ~Inserted(o) /\ ~Authorized(o) /\ ~Enqueued(o)
  BY ActiveTerminal DEF Dropped, Inserted, Authorized, Enqueued, Claimed, Terminal
<1>2. ASSUME NEW t \in Threads, Followed(o, t) PROVE FALSE
  <2>1. ans[t].gen \in Nat \ {0}
    BY <1>0, <1>2, AnswerFields DEF Followed, ThreadsOK
  <2>2. row[o].gen < ans[t].gen /\ ans[t].gen <= Len(journal[o])
    BY <1>0, <1>2 DEF Followed, KeptInv, AnswersTrue
  <2>3. CASE row[o].gen = 0
    <3>1. executions[o] = 0
      BY <2>3 DEF OwnInv, EndedByOAMNeverRan
    <3>2. journal[o] = <<>>
      BY <1>0, <3>1 DEF KeptInv, JournalCounts
    <3>3. QED
      BY <2>1, <2>2, <3>2
  <2>4. CASE row[o].gen > 0
    <3>1. row[o].state = journal[o][row[o].gen].state
      BY <1>0, <2>4 DEF KeptInv, RowFollowsJournal
    <3>2. row[o].gen \in 1 .. Len(journal[o]) - 1
      BY <1>0, <2>1, <2>2, <2>4
    <3>3. QED
      BY <1>0, <3>1, <3>2 DEF KeptInv, EndsOnce
  <2>5. QED
    BY <1>0, <2>3, <2>4
<1>3. ASSUME NEW t \in Threads, Decided(o, t) PROVE FALSE
  <2>1. pc[t] \notin Locking
    BY <1>0, <1>3 DEF Decided, KeptInv, LockHeld, Undelivered, Terminal
  <2>2. pc[t] = "read" /\ ans[t].kind = "notfound" /\ seen[t].gen > 0
    BY <1>3, <2>1 DEF Decided, Locking
  <2>3. QED
    BY <1>0, <2>2 DEF KeptInv, UnknownUnreported
<1>4. QED
  BY <1>0, <1>1, <1>2, <1>3, RowCases DEF Rewritten

\* A terminal state is final: no answer that comes late, no stale copy and no
\* further request reopens an operation.
THEOREM TerminalStatesFinal ==
    ASSUME MaxLosses = 0, "submit" \notin LateKinds
    PROVE  Spec => TerminalIsFinal
<1> DEFINE Final == \A o \in Ops :
                       row[o].state \in Terminal => row'[o].state = row[o].state
<1>1. TypeOK /\ OwnInv /\ [Next]_vars => [Final]_vars
  BY TerminalKept DEF Aside
<1>2. QED
  BY <1>1, OwnInvariant, TypeCorrect, PTL DEF Spec, TerminalIsFinal

\* The row of an operation with a job under way holds the installation.
LEMMA LiveActive ==
    ASSUME TypeOK, OwnInv, NEW o \in Ops, Live(o)
    PROVE  row[o].state \in Active
<1>0. /\ KeptInv /\ journal[o] \in Seq(Entries) /\ journal[o] # <<>>
      /\ row[o].gen \in Nat
  BY TypeParts DEF OwnInv, HostOK, DbOK, Row, Live
<1>1. row[o].submitted /\ row[o].state \in HostOwned
  BY <1>0 DEF KeptInv, SubmittedFirst
<1>2. row[o].state \notin Terminal
  <2>1. CASE row[o].gen = 0
    BY <1>0, <2>1 DEF OwnInv, EndedByOAMNeverRan, KeptInv, JournalCounts
  <2>2. CASE row[o].gen > 0
    <3>1. row[o].gen <= Len(journal[o]) /\ row[o].state = journal[o][row[o].gen].state
      BY <1>0, <2>2 DEF KeptInv, RowFollowsJournal
    <3>2. CASE row[o].gen = Len(journal[o])
      <4>1. Current(o) \in Entries
        BY <1>0 DEF Current
      <4>2. row[o].state = Current(o).state
        BY <3>1, <3>2 DEF Current
      <4>3. QED
        BY <4>1, <4>2, ScriptStates, ActiveTerminal DEF Live
    <3>3. CASE row[o].gen < Len(journal[o])
      <4>1. row[o].gen \in 1 .. Len(journal[o]) - 1
        BY <1>0, <2>2, <3>3
      <4>2. QED
        BY <1>0, <3>1, <4>1 DEF KeptInv, EndsOnce
    <3>4. QED
      BY <1>0, <3>1, <3>2, <3>3
  <2>3. QED
    BY <1>0, <2>1, <2>2
<1>3. QED
  BY <1>1, <1>2, ActiveTerminal

\* At most one job is under way on the installation, although OAM's table,
\* whose index is to see to it, always lags behind the host.
THEOREM HostExecutesAlone ==
    ASSUME MaxLosses = 0, "submit" \notin LateKinds
    PROVE  Spec => []HostExclusive
<1>1. TypeOK /\ OwnInv => HostExclusive
  BY LiveActive DEF HostExclusive, OwnInv, OneActive
<1>2. QED
  BY <1>1, OwnInvariant, TypeCorrect, PTL

-----------------------------------------------------------------------------
(* Refinement of InstallationSlot                                          *)

\* An operation with a job under way holds the installation.
LiveHolds == \A o \in Ops : Live(o) => row[o].state \in Active

\* The stage of an operation, state by state, before and after a step.
LEMMA StageValues ==
    ASSUME TypeOK, TypeOK', NEW o \in Ops
    PROVE  /\ Stage \in [Ops -> Slot!Stages] /\ Stage' \in [Ops -> Slot!Stages]
           /\ row[o].state = "ABSENT" => Stage[o] = "none"
           /\ row[o].state = "PLANNED" => Stage[o] = "planned"
           /\ row[o].state \in Terminal => Stage[o] = "closed"
           /\ row[o].state \in Active =>
                 Stage[o] = IF journal[o] = <<>> THEN "claimed"
                            ELSE IF Live(o) THEN "executing" ELSE "executed"
           /\ row'[o].state = "ABSENT" => Stage'[o] = "none"
           /\ row'[o].state = "PLANNED" => Stage'[o] = "planned"
           /\ row'[o].state \in Terminal => Stage'[o] = "closed"
           /\ row'[o].state \in Active =>
                 Stage'[o] = IF journal'[o] = <<>> THEN "claimed"
                             ELSE IF Live(o)' THEN "executing" ELSE "executed"
<1>1. \A q \in Ops : row[q].state \in States \cup {"ABSENT"} /\ row'[q].state \in States \cup {"ABSENT"}
  BY DEF TypeOK, Row
<1>2. /\ "ABSENT" \notin Terminal \cup Active /\ "PLANNED" \notin Terminal \cup Active
      /\ Terminal \cap Active = {}
  BY DEF Terminal, Active
<1>3. \A q \in Ops :
        /\ row[q].state = "ABSENT" => StageOf(q) = "none"
        /\ row[q].state = "PLANNED" => StageOf(q) = "planned"
        /\ row[q].state \in Terminal => StageOf(q) = "closed"
        /\ row[q].state \in Active =>
              StageOf(q) = IF journal[q] = <<>> THEN "claimed"
                           ELSE IF Live(q) THEN "executing" ELSE "executed"
  BY <1>2 DEF StageOf
<1>4. \A q \in Ops :
        /\ row'[q].state = "ABSENT" => StageOf(q)' = "none"
        /\ row'[q].state = "PLANNED" => StageOf(q)' = "planned"
        /\ row'[q].state \in Terminal => StageOf(q)' = "closed"
        /\ row'[q].state \in Active =>
              StageOf(q)' = IF journal'[q] = <<>> THEN "claimed"
                            ELSE IF Live(q)' THEN "executing" ELSE "executed"
  BY <1>2 DEF StageOf
<1>5. \A q \in Ops : StageOf(q) \in Slot!Stages /\ StageOf(q)' \in Slot!Stages
  <2> SUFFICES ASSUME NEW q \in Ops
               PROVE  StageOf(q) \in Slot!Stages /\ StageOf(q)' \in Slot!Stages
    OBVIOUS
  <2>1. StageOf(q) \in Slot!Stages
    BY <1>1, <1>3 DEF States, Slot!Stages
  <2>2. StageOf(q)' \in Slot!Stages
    BY <1>1, <1>4 DEF States, Slot!Stages
  <2>3. QED
    BY <2>1, <2>2
<1>6. QED
  BY <1>3, <1>4, <1>5 DEF Stage

\* A row and a job that stay as they are leave the stage as it is.
LEMMA StageKept ==
    ASSUME TypeOK, TypeOK', NEW o \in Ops, row'[o].state = row[o].state,
           journal'[o] = journal[o]
    PROVE  Stage'[o] = Stage[o]
<1>1. Live(o)' <=> Live(o)
  BY DEF Live, Current
<1>2. row[o].state \in {"ABSENT", "PLANNED"} \cup Active \cup Terminal
  BY DEF TypeOK, Row, States
<1>3. QED
  BY <1>1, <1>2, StageValues

\* A plan that is dropped was not begun.
LEMMA StageSpared ==
    ASSUME TypeOK, TypeOK', SubmittedFirst, NEW o \in Ops, Spared(o), journal'[o] = journal[o]
    PROVE  Slot!KeptOrDropped(o)
<1>1. CASE Aside(o)
  BY <1>1, StageKept DEF Aside, Slot!KeptOrDropped
<1>2. CASE Dropped(o)
  <2>1. journal[o] = <<>> /\ row[o].state \in {"PLANNED", "AWAITING_AUTHORIZATION"}
    BY <1>2, UnsubmittedStates DEF Dropped, SubmittedFirst, Unsubmitted
  <2>2. Stage[o] \in {"planned", "claimed"}
    BY <2>1, StageValues DEF Active
  <2>3. Stage'[o] = "closed"
    BY <1>2, StageValues DEF Dropped, Terminal
  <2>4. QED
    BY <2>2, <2>3 DEF Slot!KeptOrDropped
<1>3. QED
  BY <1>1, <1>2 DEF Spared

\* The job of o is started or goes on: nothing else happens meanwhile.
LEMMA SlotHostStep ==
    ASSUME MaxLosses = 0, TypeOK, TypeOK', OwnInv, LiveHolds, [Next]_vars,
           \A q \in Ops : Aside(q), NEW o \in Ops, Started(o) \/ Moved(o)
    PROVE  Slot!Next
<1>0. /\ KeptInv /\ LockHeld /\ NoneLate /\ JournalCounts /\ OneActive /\ SubmittedFirst
      /\ \A q \in Ops : journal[q] \in Seq(Entries)
  BY TypeParts DEF OwnInv, KeptInv, HostOK
<1>1. ASSUME NEW q \in Ops, Moved(q) PROVE Live(q)
  <2>1. \A e \in {Queued, Prepare, Point} : Following(e) # {}
    <3>1. Prepare \in Following(Queued) /\ Point \in Following(Prepare) /\ Undo \in Following(Point)
      BY DEF Following, ScriptEdges, Entries
    <3>2. QED
      BY <3>1
  <2>2. QED
    BY <1>1, <2>1 DEF Moved, Live, HostCancellable
<1>2. \A q \in Ops : Started(q) \/ Moved(q) => row[q].state \in Active
  BY <1>0, <1>1, StartedHeld DEF LiveHolds, Active
<1>3. \A q \in Ops \ {o} : Slot!KeptOrDropped(q)
  <2> SUFFICES ASSUME NEW q \in Ops \ {o} PROVE Slot!KeptOrDropped(q)
    OBVIOUS
  <2>1. ~Started(q) /\ ~Moved(q)
    BY <1>0, <1>2 DEF OneActive
  <2>2. ~Lost(q)
    BY <1>0 DEF Lost, JournalCounts
  <2>3. journal'[q] = journal[q]
    BY <2>1, <2>2, HostStep DEF HostUnchanged
  <2>4. QED
    BY <1>0, <2>3, StageSpared DEF Spared
<1>4. row[o].state \in Active /\ row'[o].state \in Active
  BY <1>2 DEF Aside
<1>5. CASE Started(o)
  <2>1. Stage[o] = "claimed"
    BY <1>4, <1>5, StageValues DEF Started
  <2>2. Live(o)'
    <3>1. journal'[o] # <<>> /\ Current(o)' = Queued
      BY <1>5, OneEntry DEF Started, Current
    <3>2. Prepare \in Following(Queued)
      BY DEF Following, ScriptEdges, Entries
    <3>3. QED
      BY <3>1, <3>2 DEF Live
  <2>3. Stage'[o] = "executing"
    BY <1>4, <2>2, StageValues DEF Live
  <2>4. Slot!Execute(o)
    BY <1>3, <2>1, <2>3 DEF Slot!Execute, Slot!Move
  <2>5. QED
    BY <2>4, StageValues DEF Slot!Next
<1>6. CASE Moved(o)
  <2>1. Stage[o] = "executing"
    BY <1>1, <1>4, <1>6, StageValues DEF Moved
  <2>2. journal'[o] # <<>>
    BY <1>0, <1>6, JournalGrows, TypeParts DEF Moved
  <2>3. CASE Live(o)'
    <3>1. Stage'[o] = "executing"
      BY <1>4, <2>2, <2>3, StageValues
    <3>2. Slot!Drop
      BY <1>3, <2>1, <3>1 DEF Slot!Drop, Slot!KeptOrDropped
    <3>3. QED
      BY <3>2, StageValues DEF Slot!Next
  <2>4. CASE ~Live(o)'
    <3>1. Stage'[o] = "executed"
      BY <1>4, <2>2, <2>4, StageValues
    <3>2. Slot!End(o)
      BY <1>3, <2>1, <3>1 DEF Slot!End, Slot!Move
    <3>3. QED
      BY <3>2, StageValues DEF Slot!Next
  <2>5. QED
    BY <2>3, <2>4
<1>7. QED
  BY <1>5, <1>6

\* A row is rewritten, while the host does nothing.
LEMMA SlotRowStep ==
    ASSUME MaxLosses = 0, TypeOK, TypeOK', OwnInv, LiveHolds', [Next]_vars,
           UNCHANGED <<journal, executions>>, NEW o \in Ops, Rewritten(o),
           \A q \in Ops \ {o} : Spared(q)
    PROVE  Slot!Next
<1>0. KeptInv /\ LockHeld /\ SubmittedFirst /\ DecidedRight /\ ThreadsOK
  BY TypeParts DEF OwnInv, KeptInv
<1>1. \A q \in Ops \ {o} : Slot!KeptOrDropped(q)
  BY <1>0, StageSpared
<1>2. ASSUME Slot!KeptOrDropped(o) PROVE Slot!Next
  BY <1>1, <1>2, StageValues DEF Slot!Next, Slot!Drop
<1>3. CASE Inserted(o)
  <2>1. Slot!Plan(o)
    BY <1>1, <1>3, StageValues DEF Inserted, Slot!Plan, Slot!Move
  <2>2. QED
    BY <2>1, StageValues DEF Slot!Next
<1>4. CASE Authorized(o) \/ Enqueued(o)
  <2>1. /\ row[o].state \in {"PLANNED", "AWAITING_AUTHORIZATION"} /\ row'[o].state \in Active
        /\ \A q \in Ops \ {o} : row'[q].state \notin Active
    BY <1>4 DEF Authorized, Enqueued, Claimed, Unsubmitted, Active
  <2>2. journal[o] = <<>> /\ journal'[o] = <<>>
    BY <1>0, <2>1, UnsubmittedStates DEF SubmittedFirst, Unsubmitted
  <2>3. Stage'[o] = "claimed"
    BY <2>1, <2>2, StageValues
  <2>4. CASE row[o].state = "AWAITING_AUTHORIZATION"
    <3>1. Stage[o] = "claimed"
      BY <2>2, <2>4, StageValues DEF Active
    <3>2. QED
      BY <1>2, <2>3, <3>1 DEF Slot!KeptOrDropped
  <2>5. CASE row[o].state = "PLANNED"
    <3>1. Stage[o] = "planned"
      BY <2>5, StageValues
    <3>2. ASSUME NEW q \in Ops \ {o} PROVE Stage'[q] \notin Slot!Holding
      <4>1. row'[q].state \in {"ABSENT", "PLANNED"} \cup Terminal
        BY <2>1 DEF TypeOK, Row, States
      <4>2. Stage'[q] \in {"none", "planned", "closed"}
        BY <4>1, StageValues
      <4>3. QED
        BY <4>2 DEF Slot!Holding
    <3>3. Slot!Claim(o)
      BY <1>1, <2>3, <3>1, <3>2 DEF Slot!Claim, Slot!Move
    <3>4. QED
      BY <3>3, StageValues DEF Slot!Next
  <2>6. QED
    BY <2>1, <2>4, <2>5
<1>5. ASSUME NEW t \in Threads, Followed(o, t) PROVE Slot!Next
  <2>1. /\ ans[t].gen \in Nat \ {0} /\ ans[t].state \in HostOwned
        /\ tgt[t] = o /\ pc[t] # "idle" /\ row[o].gen \in Nat
        /\ row[o].gen < ans[t].gen /\ row'[o].gen = ans[t].gen
        /\ row'[o].state = ans[t].state /\ ans[t].gen <= Len(journal[o])
    BY <1>0, <1>5, AnswerFields
       DEF Followed, ThreadsOK, Answering, KeptInv, AnswersTrue, TypeOK, Row
  <2>2. journal[o] # <<>>
    BY <2>1
  <2>3. row[o].state \in Active
    <3>1. row[o].state \in HostOwned
      BY <1>0, <2>1 DEF SubmittedFirst
    <3>2. row'[o].gen # row[o].gen
      BY <2>1
    <3>3. row[o].state \notin Terminal
      BY <3>2, TerminalKept DEF Aside
    <3>4. QED
      BY <3>1, <3>3, ActiveTerminal
  <2>4. Live(o)' <=> Live(o)
    BY DEF Live, Current
  <2>5. CASE row'[o].state \in Active
    <3>1. Stage'[o] = Stage[o]
      BY <2>3, <2>4, <2>5, StageValues
    <3>2. QED
      BY <1>2, <3>1 DEF Slot!KeptOrDropped
  <2>6. CASE row'[o].state \in Terminal
    <3>1. ~Live(o)
      BY <2>4, <2>6, ActiveTerminal DEF LiveHolds
    <3>2. Stage[o] = "executed" /\ Stage'[o] = "closed"
      BY <2>2, <2>3, <2>6, <3>1, StageValues
    <3>3. Slot!Close(o)
      BY <1>1, <3>2 DEF Slot!Close, Slot!Move
    <3>4. QED
      BY <3>3, StageValues DEF Slot!Next
  <2>7. QED
    BY <2>1, <2>5, <2>6, ActiveTerminal
<1>6. ASSUME NEW t \in Threads, Decided(o, t) PROVE Slot!Next
  <2>1. /\ pc[t] \in Locking /\ tgt[t] = o /\ row'[o].state \in Terminal
        /\ journal[o] = <<>>
    BY <1>0, <1>6 DEF Decided, Locking, Terminal, KeptInv, UnknownUnreported, DecidedRight
  <2>2. row[o].state \in Active
    BY <1>0, <2>1 DEF LockHeld, Undelivered, Active
  <2>3. Stage[o] = "claimed" /\ Stage'[o] = "closed"
    BY <2>1, <2>2, StageValues
  <2>4. QED
    BY <1>2, <2>3 DEF Slot!KeptOrDropped
<1>7. QED
  BY <1>3, <1>4, <1>5, <1>6 DEF Rewritten

\* The stages are stages of the slot, also when there are no operations.
LEMMA StageTyped ==
    ASSUME TypeOK, TypeOK'
    PROVE  Stage' \in [Ops -> Slot!Stages]
<1>1. \A q \in Ops : Stage'[q] \in Slot!Stages
  BY StageValues
<1>2. Stage' = [q \in Ops |-> Stage'[q]]
  BY DEF Stage
<1>3. QED
  BY <1>1, <1>2

\* Every step of the operations is a step of the slot.
LEMMA SlotStep ==
    ASSUME MaxLosses = 0, TypeOK, TypeOK', OwnInv, LiveHolds, LiveHolds', [Next]_vars
    PROVE  Slot!Next
<1>0. RowStep /\ SubmittedFirst /\ JournalCounts
  BY RowSteps DEF OwnInv, KeptInv
<1>1. ASSUME \A q \in Ops : Spared(q) /\ journal'[q] = journal[q] PROVE Slot!Next
  <2>1. \A q \in Ops : Slot!KeptOrDropped(q)
    BY <1>0, <1>1, StageSpared
  <2>2. QED
    BY <2>1, StageTyped DEF Slot!Next, Slot!Drop
<1>2. CASE \A q \in Ops : Aside(q)
  <2>1. CASE \E o \in Ops : Started(o) \/ Moved(o)
    BY <1>2, <2>1, SlotHostStep
  <2>2. CASE ~ \E o \in Ops : Started(o) \/ Moved(o)
    <3>1. \A q \in Ops : ~Lost(q)
      BY <1>0 DEF Lost, JournalCounts
    <3>2. \A q \in Ops : journal'[q] = journal[q]
      BY <2>2, <3>1, HostStep DEF HostUnchanged
    <3>3. QED
      BY <1>1, <1>2, <3>2 DEF Spared
  <2>3. QED
    BY <2>1, <2>2
<1>3. CASE UNCHANGED <<journal, executions>> /\ \A q \in Ops : Spared(q)
  BY <1>1, <1>3
<1>4. CASE /\ UNCHANGED <<journal, executions>>
           /\ \E o \in Ops : Rewritten(o) /\ \A q \in Ops \ {o} : Spared(q)
  BY <1>4, SlotRowStep
<1>5. QED
  BY <1>0, <1>2, <1>3, <1>4 DEF RowStep

\* OAM's table, its threads and the host together implement InstallationSlot:
\* every step of theirs is a step of the slot or leaves it alone.
THEOREM OperationsImplementSlot ==
    ASSUME MaxLosses = 0, "submit" \notin LateKinds
    PROVE  Spec => ImplementsSlot
<1>1. Init => Slot!Init
  <2> SUFFICES ASSUME Init PROVE Slot!Init
    OBVIOUS
  <2>1. \A o \in Ops : row[o].state = "ABSENT"
    BY InitRows
  <2>2. "ABSENT" \notin Terminal \cup Active
    BY DEF Terminal, Active
  <2>3. \A o \in Ops : StageOf(o) = "none"
    BY <2>1, <2>2 DEF StageOf
  <2>4. QED
    BY <2>3 DEF Slot!Init, Stage
<1>2. TypeOK /\ OwnInv => LiveHolds
  BY LiveActive DEF LiveHolds
<1>3. /\ TypeOK /\ OwnInv /\ LiveHolds /\ [Next]_vars /\ TypeOK' /\ LiveHolds'
      => [Slot!Next]_Stage
  BY SlotStep
<1>4. QED
  BY <1>1, <1>2, <1>3, OwnInvariant, TypeCorrect, PTL
     DEF Spec, ImplementsSlot, Slot!Spec

=============================================================================
