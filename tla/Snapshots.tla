------------------------------ MODULE Snapshots ------------------------------
(***************************************************************************)
(* Snapshots of the instances' configurations                              *)
(* (services/snapshot_service.go, services/snapshot_scheduler.go and       *)
(* handlers/snapshot_handler.go): taking, uploading, restoring, patching   *)
(* and deleting them, and the scheduler's pass over them, which takes the  *)
(* ones that are due, prunes the old ones and verifies what is stored.     *)
(*                                                                         *)
(* Every statement and every call to a gateway is a step; requests, the    *)
(* scheduler, the gateways' own administrators and whoever damages the     *)
(* database interleave freely.  A document is the configuration it         *)
(* describes and the domains its envelope lists; its checksum stands for   *)
(* itself, as no two documents share one.                                  *)
(***************************************************************************)
EXTENDS Naturals, FiniteSets

CONSTANTS Users,          \* requests to OAM
          Asks,           \* what each of them may ask for
          Scheduler,      \* the goroutine of SnapshotScheduler.Start
          Instances, Domains, Vals,
          Keys,           \* values of SNAPSHOT_ENC_KEY; None: it is not set
          Uploads,        \* the documents that are uploaded
          Selections,     \* the components a restore asks for; Omitted: none are named
          Targets,        \* the instances it asks for; None: the snapshot's own
          Stored,         \* the snapshots stored at first, by id
          First,          \* the configuration every gateway starts with
          Scheduled,      \* the instances with a schedule at first
          DefaultRetain,  \* 10 in the code
          Retains,        \* retain counts a schedule may ask for
          MaxIds,         \* bound: how many snapshots are ever stored
          MaxEvents,      \* bound: how many requests there are, and how often something
                          \* fails or changes around OAM
          Omitted,
          Damaged,        \* bytes that are no document
          None

Threads == Users \cup {Scheduler}
Ids == 1..MaxIds
Configs == [Domains -> Vals]
\* A document leaves out the domains it does not cover; "included" is empty
\* in one whose envelope declares nothing.
Docs == [cfg : [Domains -> Vals \cup {None}], included : SUBSET Domains]
Triggers == {"manual", "scheduled", "pre_restore", "pre_upgrade"}

ASSUME BoundAssumption == MaxIds \in Nat
ASSUME ThreadsAssumption == Scheduler \notin Users
ASSUME FirstAssumption == First \in Configs
ASSUME UploadsAssumption == Uploads \subseteq Docs /\ \E d, e \in Uploads : d # e
ASSUME SelectionsAssumption == Selections \subseteq (SUBSET Domains) \cup {Omitted}
ASSUME TargetsAssumption == Targets \subseteq Instances \cup {None}
ASSUME RetainAssumption == DefaultRetain \in Nat \ {0} /\ Retains \subseteq Nat
ASSUME StoredAssumption ==
    \E n \in 0..MaxIds :
        Stored \in [1..n -> [inst : Instances, doc : Docs, trigger : Triggers,
                             pinned : BOOLEAN, ok : BOOLEAN]]

VARIABLES registered, \* the instances of loxilb_instances
          config,     \* what each gateway runs
          snaps,      \* instance_snapshots
          taken,      \* how many rows were ever stored
          schedules,  \* instance_snapshot_schedules
          key,        \* the key this process runs with
          pc, job,    \* where each thread is, and what it works on
          events,     \* how many there have been
          origin,     \* for the properties: instance and document of every row ever stored
          quiet,      \* for the properties: nobody interfered with this retention pass
          safe        \* for the properties: ids that were pinned undisturbed

vars == <<registered, config, snaps, taken, schedules, key, pc, job, events, origin, quiet, safe>>
ghosts == <<origin, quiet, safe>>

Rows == [inst : Instances, blob : [key : Keys \cup {None}, doc : Docs \cup {Damaged}],
         sum : Docs, trigger : Triggers, pinned : BOOLEAN, ok : BOOLEAN]
Schedules == [enabled : BOOLEAN, retain : Nat, ran : BOOLEAN]

ASSUME NoneAssumption ==
    /\ None \notin Keys \cup Vals \cup Docs \cup Instances \cup BOOLEAN
    /\ None \notin Rows /\ None \notin Schedules /\ Damaged \notin Docs

NoJob == [op |-> "none", id |-> 0, inst |-> None, mode |-> "dry-run", comps |-> Omitted,
          raw |-> None, fetched |-> None, pre |-> 0, trigger |-> "manual", pinned |-> FALSE, asked |-> None,
          flag |-> FALSE, retain |-> 0, calm |-> FALSE,
          todo |-> {}, ids |-> {}, retains |-> None]
PCs == {"idle", "instance", "read", "store", "readBack", "open", "mark", "target", "send",
        "update", "delete", "putSchedule", "due", "recordRun", "retains",
        "listInstances", "candidates", "prune", "sweep", "verify"}

TypeOK ==
    /\ registered \subseteq Instances
    /\ config \in [Instances -> Configs]
    /\ snaps \in [Ids -> Rows \cup {None}]
    /\ taken \in 0..MaxIds
    /\ schedules \in [Instances -> Schedules \cup {None}]
    /\ key \in Keys \cup {None}
    /\ pc \in [Threads -> PCs]
    /\ \A i \in Ids : (i > taken) => (snaps[i] = None /\ origin[i] = None)
    /\ safe \subseteq {i \in Ids : i <= taken}
    /\ quiet \in BOOLEAN

\* storeSnapshot's row: the document is sealed, its checksum kept beside it.
Row(inst, doc, trigger) ==
    [inst |-> inst, blob |-> [key |-> key, doc |-> doc], sum |-> doc, trigger |-> trigger,
     pinned |-> FALSE, ok |-> TRUE]

\* Some snapshots have been stored before, with a key, and some schedules put
\* in place.
Init ==
    /\ registered = Instances
    /\ config = [i \in Instances |-> First]
    /\ key \in Keys
    /\ taken = Cardinality(DOMAIN Stored)
    /\ snaps = [i \in Ids |-> IF i \in DOMAIN Stored
                              THEN [Row(Stored[i].inst, Stored[i].doc, Stored[i].trigger)
                                    EXCEPT !.ok = Stored[i].ok, !.pinned = Stored[i].pinned]
                              ELSE None]
    /\ schedules = [i \in Instances |-> IF i \in Scheduled
                       THEN [enabled |-> TRUE, retain |-> 1, ran |-> FALSE] ELSE None]
    /\ pc = [t \in Threads |-> "idle"]
    /\ job = [t \in Threads |-> NoJob]
    /\ events = 0
    /\ origin = [i \in Ids |-> IF i \in DOMAIN Stored
                               THEN [inst |-> Stored[i].inst, doc |-> Stored[i].doc] ELSE None]
    /\ quiet = FALSE /\ safe = {i \in DOMAIN Stored : Stored[i].pinned}

-----------------------------------------------------------------------------
(* Blobs and documents *)

\* Mutant: the checksum is not compared.
BugVerdict(row) ==
    IF row.blob.key # None /\ key = None THEN "nokey"
    ELSE IF row.blob.doc = Damaged \/ row.blob.key \notin {None, key} THEN "corrupted"
    ELSE "ok"

\* OpenBlob, and the comparison of the checksum that follows it: a blob that
\* is encrypted needs the key it was sealed with.
Verdict(row) ==
    IF row.blob.key # None /\ key = None THEN "nokey"
    ELSE IF row.blob.key \notin {None, key} \/ row.blob.doc # row.sum THEN "corrupted"
    ELSE "ok"

\* parseSnapshotEnvelope and the size limit
Parses(doc) == doc # Damaged

\* Mutant: an empty selection is taken for none.
BugValidComponents(comps) == comps \in (SUBSET Domains) \cup {Omitted}

\* validateRestoreComponents, and decodeRestoreRequest, which refuses null.
ValidComponents(comps) == comps \in ((SUBSET Domains) \ {{}}) \cup {Omitted}

\* checkComponentsCovered: a document that declares nothing is not refused.
Covered(doc, comps) ==
    comps \in {Omitted, {}} \/ doc.included = {} \/ comps \subseteq doc.included

\* restoreQuery and the gateway: no components in the query means all of them.
Selected(doc, comps) ==
    {d \in (IF comps \in {Omitted, {}} THEN Domains ELSE comps) : doc.cfg[d] # None}

\* The gateway's document for its configuration.
Export(i) == [cfg |-> config[i], included |-> Domains]

-----------------------------------------------------------------------------
(* Requests *)

At(t, where) == pc[t] = where
Go(t, where) == pc' = [pc EXCEPT ![t] = where]
Event == events < MaxEvents /\ events' = events + 1

\* The operation returns: a request has been answered; the scheduler goes on
\* with what called it.
Finish(t) ==
    /\ Go(t, CASE job[t].op = "scheduled" -> "recordRun"
               [] job[t].op = "sweep" -> "verify"
               [] OTHER -> "idle")
    /\ job' = [job EXCEPT ![t] = IF t \in Users THEN NoJob
                  ELSE [NoJob EXCEPT !.op = job[t].op, !.inst = job[t].inst,
                                     !.todo = job[t].todo, !.ids = job[t].ids]]

Request(u, j, where) ==
    /\ At(u, "idle")
    /\ j.op \in Asks[u]
    /\ Event
    /\ job' = [job EXCEPT ![u] = j]
    /\ Go(u, where)
    /\ UNCHANGED <<registered, config, snaps, taken, schedules, key, ghosts>>

\* The TakeSnapshot handler; the request names one of the known triggers.
BeginTake(u) == \E i \in Instances, trigger \in {"manual", "pre_upgrade"} :
    /\ taken < MaxIds
    /\ Request(u, [NoJob EXCEPT !.op = "take", !.inst = i, !.trigger = trigger], "instance")

\* The UploadSnapshot handler and ImportSnapshot up to its first statement.
BeginUpload(u) == \E i \in Instances, doc \in Uploads \cup {Damaged} :
    /\ Parses(doc)
    /\ taken < MaxIds
    /\ Request(u, [NoJob EXCEPT !.op = "upload", !.inst = i, !.fetched = doc], "instance")

\* The RestoreSnapshot handler and RestoreSnapshot up to its first statement.
BeginRestore(u) ==
    \E id \in Ids, mode \in {"dry-run", "commit"}, comps \in Selections, target \in Targets :
        /\ id <= taken
        /\ ValidComponents(comps)
        /\ Request(u, [NoJob EXCEPT !.op = "restore", !.id = id, !.mode = mode,
                                    !.comps = comps, !.inst = target], "open")

\* The DownloadSnapshot handler.
BeginDownload(u) == \E id \in Ids :
    /\ id <= taken
    /\ Request(u, [NoJob EXCEPT !.op = "download", !.id = id], "open")

\* Mutant: a patch without "pinned" clears it.
BugPatched(pinned, asked) == asked = TRUE

\* The patch of UpdateSnapshot; None leaves the pin as it is.
Patched(pinned, asked) == IF asked = None THEN pinned ELSE asked

\* UpdateSnapshot reads the row and changes its copy.
BeginUpdate(u) == \E id \in Ids, asked \in {TRUE, FALSE, None} :
    /\ snaps[id] # None
    /\ Request(u, [NoJob EXCEPT !.op = "update", !.id = id, !.asked = asked,
                                !.pinned = Patched(snaps[id].pinned, asked)], "update")

\* DeleteSnapshot reads the row; a pinned one is only deleted by force.
BeginDelete(u) == \E id \in Ids, force \in BOOLEAN :
    /\ snaps[id] # None
    /\ snaps[id].pinned => force
    /\ Request(u, [NoJob EXCEPT !.op = "delete", !.id = id, !.flag = force], "delete")

\* PutSchedule reads the instance.
BeginPutSchedule(u) == \E i \in registered, enabled \in BOOLEAN, retain \in Retains :
    Request(u, [NoJob EXCEPT !.op = "putSchedule", !.inst = i, !.flag = enabled,
                             !.retain = retain], "putSchedule")

-----------------------------------------------------------------------------
(* TakeSnapshot and ImportSnapshot: of a request, of a restore, of the scheduler *)

\* FetchLoxiLBInstanceByID
FetchInstance(t) ==
    /\ At(t, "instance")
    /\ IF job[t].inst \in registered
       THEN Go(t, IF job[t].op = "upload" THEN "store" ELSE "read") /\ UNCHANGED job
       ELSE Finish(t)
    /\ UNCHANGED <<registered, config, snaps, taken, schedules, key, events, ghosts>>

\* FetchSnapshot and the checks of the answer: the gateway sends its
\* configuration, whether or not OAM still has the instance registered.
Read(t) ==
    /\ At(t, "read")
    /\ job' = [job EXCEPT ![t].fetched = Export(job[t].inst), ![t].calm = TRUE]
    /\ Go(t, "store")
    /\ UNCHANGED <<registered, config, snaps, taken, schedules, key, events, ghosts>>

\* storeSnapshot's insert; the row refers to an instance.
Store(t) ==
    /\ At(t, "store")
    /\ IF job[t].inst \in registered /\ taken < MaxIds
       THEN LET id == taken + 1 IN
            /\ taken' = id
            /\ snaps' = [snaps EXCEPT ![id] = Row(job[t].inst, job[t].fetched,
                                                  job[t].trigger)]
            /\ origin' = [origin EXCEPT ![id] = [inst |-> job[t].inst, doc |-> job[t].fetched]]
            /\ job' = [job EXCEPT ![t].pre = id, ![t].fetched = None]
            /\ Go(t, "readBack")
       ELSE Finish(t) /\ UNCHANGED <<taken, snaps, origin>>
    /\ UNCHANGED <<registered, config, schedules, key, events, quiet, safe>>

\* storeSnapshot returns the row it reads back; a restore goes on only then.
ReadBack(t) ==
    /\ At(t, "readBack")
    /\ IF job[t].op = "restore" /\ snaps[job[t].pre] # None
       THEN Go(t, "send") /\ UNCHANGED job
       ELSE Finish(t)
    /\ UNCHANGED <<registered, config, snaps, taken, schedules, key, events, ghosts>>

-----------------------------------------------------------------------------
(* GetSnapshotDocument: of a download, of a restore, of the sweep *)

\* The document has been read, and its flag is as it should be.
Opened(t, j) ==
    IF j.op = "restore" /\ j.flag
    THEN job' = [job EXCEPT ![t] = j] /\ Go(t, "target")
    ELSE Finish(t)

\* The read of GetSnapshotDocument, and what it concludes.
Open(t) ==
    /\ At(t, "open")
    /\ LET row == snaps[job[t].id] IN
       IF (IF row = None THEN TRUE ELSE Verdict(row) = "nokey") THEN Finish(t)
       ELSE LET ok == Verdict(row) = "ok"
                j == [job[t] EXCEPT !.flag = ok, !.calm = TRUE, !.inst = IF @ = None THEN row.inst ELSE @,
                                    !.raw = IF ok THEN row.blob.doc ELSE None]
            IN IF ok /\ row.ok THEN Opened(t, j)
               ELSE job' = [job EXCEPT ![t] = j] /\ Go(t, "mark")
    /\ UNCHANGED <<registered, config, snaps, taken, schedules, key, events, ghosts>>

\* A row changes: what others have concluded from it is old.
Overtake(jobs, id) == [u \in Threads |-> IF At(u, "mark") /\ jobs[u].id = id
                                          THEN [jobs[u] EXCEPT !.calm = FALSE] ELSE jobs[u]]

\* Mutant: only corruption is marked.
BugMark(t) ==
    /\ At(t, "mark")
    /\ snaps' = [snaps EXCEPT ![job[t].id] =
                    IF @ = None THEN None ELSE [@ EXCEPT !.ok = FALSE]]
    /\ Opened(t, job[t])
    /\ UNCHANGED <<registered, config, taken, schedules, key, events, ghosts>>

\* markChecksum, which flags a corrupted row and heals one that verifies again.
Mark(t) ==
    /\ At(t, "mark")
    /\ snaps' = [snaps EXCEPT ![job[t].id] =
                    IF @ = None THEN None ELSE [@ EXCEPT !.ok = job[t].flag]]
    /\ Opened(t, job[t])
    /\ UNCHANGED <<registered, config, taken, schedules, key, events, ghosts>>

-----------------------------------------------------------------------------
(* RestoreSnapshot, after the document has been opened *)

\* The selection must be covered and the target registered; a commit first
\* takes a snapshot of the target.
Target(t) ==
    /\ At(t, "target")
    /\ IF Covered(job[t].raw, job[t].comps) /\ job[t].inst \in registered
       THEN IF job[t].mode = "commit"
            THEN /\ Go(t, "instance")
                 /\ job' = [job EXCEPT ![t].trigger = "pre_restore"]
            ELSE Go(t, "send") /\ UNCHANGED job
       ELSE Finish(t)
    /\ UNCHANGED <<registered, config, snaps, taken, schedules, key, events, ghosts>>

\* The configuration of an instance changes: what others read of it is old.
Disturb(jobs, i) == [u \in Threads |-> IF jobs[u].inst = i THEN [jobs[u] EXCEPT !.calm = FALSE]
                                       ELSE jobs[u]]

\* Restore, and the gateway at work: it applies what is selected, rolls it
\* back, refuses, or stops half-way when the roll-back fails too; whether or
\* not its answer arrives.  What recordRestore then keeps of the answer is
\* read by nobody.
Send(t) ==
    /\ At(t, "send")
    /\ LET i == job[t].inst IN
       \E S \in SUBSET (IF job[t].mode = "commit" THEN Selected(job[t].raw, job[t].comps)
                        ELSE {}) :
           /\ config' = [config EXCEPT ![i] =
                            [d \in Domains |-> IF d \in S THEN job[t].raw.cfg[d] ELSE @[d]]]
           /\ job' = [(IF S = {} THEN job ELSE Disturb(job, i)) EXCEPT ![t] = NoJob]
    /\ Go(t, "idle")
    /\ UNCHANGED <<registered, snaps, taken, schedules, key, events, ghosts>>

-----------------------------------------------------------------------------
(* UpdateSnapshot, DeleteSnapshot and PutSchedule: their writes *)

\* Another thread has decided something from an earlier state of the row.
InFlight(t, id) == \E u \in Threads \ {t} :
    \/ pc[u] \in {"update", "delete"} /\ job[u].id = id
    \/ pc[u] = "prune" /\ id \in job[u].ids

\* UpdateSnapshotMetaQuery writes every field of the copy.
Update(t) ==
    /\ At(t, "update")
    /\ LET id == job[t].id IN
       /\ snaps' = [snaps EXCEPT ![id] =
                       IF @ = None THEN None ELSE [@ EXCEPT !.pinned = job[t].pinned]]
       /\ safe' = IF job[t].asked = FALSE THEN safe \ {id}
                  ELSE IF job[t].asked = TRUE /\ snaps[id] # None /\ ~InFlight(t, id)
                  THEN safe \cup {id} ELSE safe
    /\ quiet' = FALSE
    /\ Finish(t)
    /\ UNCHANGED <<registered, config, taken, schedules, key, events, origin>>

\* DeleteSnapshotQuery
Delete(t) ==
    /\ At(t, "delete")
    /\ snaps' = [snaps EXCEPT ![job[t].id] = None]
    /\ safe' = IF job[t].flag THEN safe \ {job[t].id} ELSE safe
    /\ quiet' = FALSE
    /\ Finish(t)
    /\ UNCHANGED <<registered, config, taken, schedules, key, events, origin>>

\* UpsertSnapshotScheduleQuery; the row refers to an instance, and a retain
\* count below one becomes the default.  The last run is kept.
PutSchedule(t) ==
    /\ At(t, "putSchedule")
    /\ LET i == job[t].inst IN
       schedules' =
           IF i \notin registered THEN schedules
           ELSE [schedules EXCEPT ![i] =
                    [enabled |-> job[t].flag,
                     retain |-> IF job[t].retain < 1 THEN DefaultRetain ELSE job[t].retain,
                     ran |-> IF @ = None THEN FALSE ELSE @.ran]]
    /\ quiet' = FALSE
    /\ Finish(t)
    /\ UNCHANGED <<registered, config, snaps, taken, key, events, origin, safe>>

-----------------------------------------------------------------------------
(* SnapshotScheduler.RunOnce *)

Enabled == {i \in Instances : IF schedules[i] = None THEN FALSE ELSE schedules[i].enabled}

\* ScheduleDue: a schedule that has never run is due, any other one when its
\* interval has passed.
ScheduleDue(i, passed) == ~schedules[i].ran \/ i \in passed

\* A tick, with the schedules found to be due
Tick(due) ==
    /\ At(Scheduler, "idle")
    /\ job' = [job EXCEPT ![Scheduler] = [NoJob EXCEPT !.op = "scheduled", !.todo = due]]
    /\ Go(Scheduler, "due")
    /\ UNCHANGED <<registered, config, snaps, taken, schedules, key, ghosts>>

\* The enabled schedules are listed.
TickListed ==
    /\ \E passed \in SUBSET Enabled : Tick({i \in Enabled : ScheduleDue(i, passed)})
    /\ UNCHANGED events

\* runDueSchedules: the next one that is due, or none is left.
RunDue ==
    /\ At(Scheduler, "due")
    /\ IF job[Scheduler].todo = {} THEN Go(Scheduler, "retains") /\ UNCHANGED job
       ELSE \E i \in job[Scheduler].todo :
            /\ job' = [job EXCEPT ![Scheduler].todo = @ \ {i}, ![Scheduler].inst = i,
                                  ![Scheduler].trigger = "scheduled"]
            /\ Go(Scheduler, "instance")
    /\ UNCHANGED <<registered, config, snaps, taken, schedules, key, events, ghosts>>

\* RecordSnapshotScheduleRunQuery, whether or not there is a snapshot.
RecordRun ==
    /\ At(Scheduler, "recordRun")
    /\ schedules' = [schedules EXCEPT ![job[Scheduler].inst] =
                        IF @ = None THEN None ELSE [@ EXCEPT !.ran = TRUE]]
    /\ job' = [job EXCEPT ![Scheduler].inst = None]
    /\ Go(Scheduler, "due")
    /\ UNCHANGED <<registered, config, snaps, taken, key, events, ghosts>>

\* The retain counts of the enabled schedules
EnabledRetains == [i \in Instances |->
    IF schedules[i] = None THEN DefaultRetain
    ELSE IF schedules[i].enabled THEN schedules[i].retain ELSE DefaultRetain]

\* runRetention starts from the retain counts it has found.
Retain(retains, found) ==
    /\ At(Scheduler, "retains")
    /\ job' = [job EXCEPT ![Scheduler].op = "retention", ![Scheduler].retains = retains]
    /\ quiet' = found
    /\ Go(Scheduler, "listInstances")
    /\ UNCHANGED <<registered, config, snaps, taken, schedules, key, origin, safe>>

\* The enabled schedules are listed.
ListRetains == Retain(EnabledRetains, TRUE) /\ UNCHANGED events

\* The snapshots of an instance
Of(i) == {id \in Ids : IF snaps[id] = None THEN FALSE ELSE snaps[id].inst = i}

\* SelectSnapshotInstanceIDsQuery
ListInstances ==
    /\ At(Scheduler, "listInstances")
    /\ job' = [job EXCEPT ![Scheduler].todo = {i \in Instances : Of(i) # {}}]
    /\ Go(Scheduler, "candidates")
    /\ UNCHANGED <<registered, config, snaps, taken, schedules, key, events, ghosts>>

\* SelectSnapshotRetentionCandidatesQuery
Candidates(i) == {id \in Of(i) : ~snaps[id].pinned /\ snaps[id].trigger # "pre_upgrade"}

\* Mutant: one too few is kept.
BugRetentionVictims(ids, retain) ==
    {id \in ids : Cardinality({o \in ids : o > id}) + 1 >= retain}

\* RetentionVictims: those that have as many newer ones as are retained.
RetentionVictims(ids, retain) ==
    LET n == IF retain < 1 THEN 1 ELSE retain
    IN {id \in ids : Cardinality({o \in ids : o > id}) >= n}

\* The next instance, and what is to be deleted of it
ListCandidates ==
    /\ At(Scheduler, "candidates")
    /\ \E i \in job[Scheduler].todo :
           job' = [job EXCEPT ![Scheduler].todo = @ \ {i},
                      ![Scheduler].ids = RetentionVictims(Candidates(i), job[Scheduler].retains[i])]
    /\ Go(Scheduler, "prune")
    /\ UNCHANGED <<registered, config, snaps, taken, schedules, key, events, ghosts>>

\* No instance is left.  The pass is over, or the time has come for a sweep.
Retained(sweep) ==
    /\ At(Scheduler, "candidates")
    /\ job[Scheduler].todo = {}
    /\ Go(Scheduler, IF sweep THEN "sweep" ELSE "idle")
    /\ job' = [job EXCEPT ![Scheduler] = IF sweep THEN [NoJob EXCEPT !.op = "sweep"] ELSE NoJob]
    /\ quiet' = FALSE
    /\ UNCHANGED <<registered, config, snaps, taken, schedules, key, events, origin, safe>>

Newest(ids) == CHOOSE m \in ids : \A o \in ids : o <= m

\* The next victim, newest first, is deleted.
Prune ==
    /\ At(Scheduler, "prune")
    /\ IF job[Scheduler].ids = {}
       THEN Go(Scheduler, "candidates") /\ UNCHANGED <<job, snaps>>
       ELSE LET id == Newest(job[Scheduler].ids) IN
            /\ snaps' = [snaps EXCEPT ![id] = None]
            /\ job' = [job EXCEPT ![Scheduler].ids = @ \ {id}]
            /\ UNCHANGED pc
    /\ UNCHANGED <<registered, config, taken, schedules, key, events, ghosts>>

\* runIntegritySweep lists the ids
Sweep ==
    /\ At(Scheduler, "sweep")
    /\ job' = [job EXCEPT ![Scheduler].ids = {id \in Ids : snaps[id] # None}]
    /\ Go(Scheduler, "verify")
    /\ UNCHANGED <<registered, config, snaps, taken, schedules, key, events, ghosts>>

\* and opens one after the other.
Verify ==
    /\ At(Scheduler, "verify")
    /\ IF job[Scheduler].ids = {}
       THEN Go(Scheduler, "idle") /\ job' = [job EXCEPT ![Scheduler] = NoJob]
       ELSE LET id == Newest(job[Scheduler].ids) IN
            /\ job' = [job EXCEPT ![Scheduler].ids = @ \ {id}, ![Scheduler].id = id]
            /\ Go(Scheduler, "open")
    /\ UNCHANGED <<registered, config, snaps, taken, schedules, key, events, ghosts>>

-----------------------------------------------------------------------------
(* What fails *)

\* Mutant: a restore goes on without its safety snapshot.
BugFail(t) ==
    /\ pc[t] \in {"instance", "read", "store", "readBack", "open", "target", "update", "delete",
                  "putSchedule"}
    /\ Event
    /\ IF job[t].op = "restore" /\ job[t].trigger = "pre_restore"
       THEN Go(t, "send") /\ UNCHANGED job
       ELSE Finish(t)
    /\ UNCHANGED <<registered, config, snaps, taken, schedules, key, ghosts>>

\* A statement or a call to a gateway fails, or its answer is refused, and
\* the operation returns the error.
Fail(t) ==
    /\ pc[t] \in {"instance", "read", "store", "readBack", "open", "target", "update", "delete",
                  "putSchedule"}
    /\ Event
    /\ Finish(t)
    /\ UNCHANGED <<registered, config, snaps, taken, schedules, key, ghosts>>

\* A statement whose failure is only logged
Logged(t) ==
    /\ Event
    /\ \/ At(t, "mark") /\ Opened(t, job[t])
       \/ At(t, "recordRun") /\ Go(t, "due") /\ job' = [job EXCEPT ![t].inst = None]
       \/ At(t, "listInstances") /\ Go(t, "candidates") /\ UNCHANGED job
       \/ At(t, "candidates") /\ UNCHANGED pc
          /\ \E i \in job[t].todo : job' = [job EXCEPT ![t].todo = @ \ {i}]
       \/ At(t, "prune") /\ job[t].ids # {} /\ UNCHANGED pc
          /\ job' = [job EXCEPT ![t].ids = @ \ {Newest(@)}]
       \/ At(t, "sweep") /\ Go(t, "idle") /\ job' = [job EXCEPT ![t] = NoJob]
    /\ UNCHANGED <<registered, config, snaps, taken, schedules, key, ghosts>>

\* The schedules cannot be listed: nothing is due, and every instance has
\* the default retain count.
Unlisted ==
    /\ Event
    /\ \/ Tick({})
       \/ Retain([i \in Instances |-> DefaultRetain], FALSE)

-----------------------------------------------------------------------------
(* The world around OAM *)

\* The stored bytes change: whoever writes them has no key, and may also put
\* back what was there.  It makes no difference before they are read again.
Tamper(id) ==
    /\ Event
    /\ \E t \in Threads : At(t, "open") /\ job[t].id = id
    /\ snaps[id] # None
    /\ LET row == snaps[id] IN
       \E k \in {None, row.blob.key},
          doc \in {Damaged, row.sum, CHOOSE d \in Uploads : d # row.sum} :
           /\ k # None => doc \in {Damaged, row.sum}
           /\ [key |-> k, doc |-> doc] # row.blob
           /\ snaps' = [snaps EXCEPT ![id].blob = [key |-> k, doc |-> doc]]
    /\ job' = Overtake(job, id)
    /\ UNCHANGED <<registered, config, taken, schedules, key, pc, ghosts>>

\* A gateway is configured by others.  It makes no difference before the
\* configuration is next read, or a restore decides from what it has read.
ChangeConfig(i) == \E d \in Domains, v \in Vals :
    /\ Event
    /\ v # config[i][d]
    /\ \E t \in Threads : job[t].inst = i /\ pc[t] \in {"read", "store", "readBack", "send"}
    /\ config' = [config EXCEPT ![i][d] = v]
    /\ job' = Disturb(job, i)
    /\ UNCHANGED <<registered, snaps, taken, schedules, key, pc, ghosts>>

\* An instance is deleted, and with it the rows that refer to it.
DeleteInstance(i) ==
    /\ Event
    /\ registered' = registered \ {i}
    /\ snaps' = [id \in Ids |-> IF id \in Of(i) THEN None ELSE snaps[id]]
    /\ safe' = safe \ Of(i)
    /\ schedules' = [schedules EXCEPT ![i] = None]
    /\ quiet' = FALSE
    /\ UNCHANGED <<config, taken, key, pc, job, origin>>

\* OAM stops and starts again, with this or with another key.
Restart ==
    /\ Event
    /\ key' \in Keys \cup {None}
    /\ pc' = [t \in Threads |-> "idle"]
    /\ job' = [t \in Threads |-> NoJob]
    /\ UNCHANGED <<registered, config, snaps, taken, schedules, ghosts>>

-----------------------------------------------------------------------------

Begin(u) ==
    \/ BeginTake(u) \/ BeginUpload(u) \/ BeginRestore(u) \/ BeginDownload(u)
    \/ BeginUpdate(u) \/ BeginDelete(u) \/ BeginPutSchedule(u)

Step(t) ==
    \/ FetchInstance(t) \/ Read(t) \/ Store(t) \/ ReadBack(t) \/ Open(t) \/ Mark(t)
    \/ Target(t) \/ Send(t) \/ Update(t) \/ Delete(t) \/ PutSchedule(t)

Pass ==
    \/ TickListed \/ RunDue \/ RecordRun \/ ListRetains \/ ListInstances \/ ListCandidates
    \/ (\E sweep \in BOOLEAN : Retained(sweep)) \/ Prune \/ Sweep \/ Verify

Environment ==
    \/ \E id \in Ids : Tamper(id)
    \/ \E i \in Instances : ChangeConfig(i) \/ DeleteInstance(i)
    \/ Restart

Next ==
    \/ \E u \in Users : Begin(u)
    \/ \E t \in Threads : Step(t) \/ Fail(t) \/ Logged(t)
    \/ Pass \/ Unlisted
    \/ Environment

Spec == Init /\ [][Next]_vars

-----------------------------------------------------------------------------
(* Properties *)

\* What RestoreSnapshot sends to a gateway is the document that was stored:
\* nothing that happens to the stored bytes between the insert and the restore,
\* nor to the key, gets another document past GetSnapshotDocument.  (Who can
\* rewrite the checksum beside them is outside the model.)
IntactOnly == \A u \in Users :
    At(u, "send") => job[u].raw = origin[job[u].id].doc

\* A commit restore is only sent once the target's configuration has been
\* stored: that very configuration, unless somebody else changes it between
\* the pre_restore snapshot and the restore.
SafetyNet == \A u \in Users :
    (At(u, "send") /\ job[u].mode = "commit") =>
        /\ job[u].pre # 0
        /\ origin[job[u].pre].inst = job[u].inst
        /\ job[u].calm => origin[job[u].pre].doc.cfg = config[job[u].inst]

\* A snapshot that was pinned, while nobody was about to act on what the row
\* said before, stays and stays pinned: until it is unpinned, deleted by force
\* or gone with its instance.  No patch of its other fields, no deletion and no
\* retention pass takes it.
PinHonoured == \A id \in safe :
    IF snaps[id] = None THEN FALSE ELSE snaps[id].pinned

\* A retention pass nobody interferes with leaves every instance it takes a
\* snapshot from with as many others as its schedule retains, the pinned and
\* the pre_upgrade ones not counted.
RetentionSpares ==
    [][(At(Scheduler, "prune") /\ quiet /\ job'[Scheduler].ids # job[Scheduler].ids) =>
          \A i \in Instances : Candidates(i)' # Candidates(i) =>
              Cardinality(Candidates(i)') >= EnabledRetains[i]]_vars

\* A restore touches the instance it is for and none of the domains left out of
\* its selection; a dry run touches nothing.
SelectionKept ==
    [][\A u \in Users : (At(u, "send") /\ pc'[u] # "send" /\ config' # config) =>
          /\ job[u].mode = "commit"
          /\ \A i \in Instances, d \in Domains : config'[i][d] # config[i][d] =>
                /\ i = job[u].inst
                /\ job[u].comps # Omitted => d \in job[u].comps]_vars

\* When a document has been looked at, by the sweep, a download or a restore,
\* its row is flagged as corrupted if it is and not flagged if it verifies,
\* unless the row was changed under the reader's hands.
FlagTruthful ==
    [][\A t \in Threads :
          LET row == snaps'[job[t].id] IN
          (/\ pc[t] \in {"open", "mark"} /\ pc'[t] \notin {"open", "mark"}
           /\ events' = events
           /\ (pc[t] = "mark" => job[t].calm)
           /\ row # None) =>
              (Verdict(row) # "nokey" => (row.ok <=> Verdict(row) = "ok"))]_vars

=============================================================================
